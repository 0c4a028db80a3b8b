------------------------- MODULE ChatQueue_proofs -------------------------
(***************************************************************************)
(* What LAWS/CHAT.md's queue guarantees for every set of texts, every      *)
(* number of messages and every order of edits, removals and dispatches.   *)
(* TypeOK, InOrder and NothingLost are inductive together with the fact    *)
(* that no message has a number beyond the accepted ones.                  *)
(***************************************************************************)
EXTENDS ChatQueue, SequenceTheorems, TLAPS

\* Ids in use are at most accepted.
Numbered ==
  /\ \A i \in DOMAIN queue : queue[i].id <= accepted
  /\ \A i \in DOMAIN turns : turns[i].id <= accepted

\* The part of the state that the laws order; NothingLost is proved from it.
Laws == TypeOK /\ InOrder /\ Numbered /\ NothingLost
-----------------------------------------------------------------------------
(* Queues *)

\* A sequence that something joins at the end, or whose first element leaves.
LEMMA AppendFacts ==
  ASSUME NEW S, NEW s \in Seq(S), NEW e \in S
  PROVE  /\ Append(s, e) \in Seq(S)
         /\ Len(Append(s, e)) = Len(s) + 1
         /\ DOMAIN Append(s, e) = 1 .. Len(s) + 1
         /\ \A i \in 1 .. Len(s) : Append(s, e)[i] = s[i]
         /\ Append(s, e)[Len(s) + 1] = e
  OBVIOUS

LEMMA TailFacts ==
  ASSUME NEW S, NEW s \in Seq(S), s # <<>>
  PROVE  /\ Tail(s) \in Seq(S)
         /\ Head(s) = s[1] /\ 1 \in DOMAIN s /\ s[1] \in S
         /\ DOMAIN Tail(s) = 1 .. Len(s) - 1
         /\ \A i \in 1 .. Len(s) - 1 : Tail(s)[i] = s[i + 1]
  OBVIOUS

\* One in the middle is removed.
LEMMA RemoveAtFacts ==
  ASSUME NEW S, NEW s \in Seq(S), NEW i \in DOMAIN s
  PROVE  /\ RemoveAt(s, i) \in Seq(S)
         /\ Len(RemoveAt(s, i)) = Len(s) - 1
         /\ DOMAIN RemoveAt(s, i) = 1 .. Len(s) - 1
         /\ \A j \in 1 .. Len(s) - 1 : RemoveAt(s, i)[j] = IF j < i THEN s[j] ELSE s[j + 1]
<1> DEFINE front == SubSeq(s, 1, i - 1)
           back == SubSeq(s, i + 1, Len(s))
<1>1. RemoveAt(s, i) = front \o back
  BY DEF RemoveAt
<1>2. /\ front \in Seq(S) /\ Len(front) = i - 1
      /\ \A j \in 1 .. i - 1 : front[j] = s[j]
   OBVIOUS
<1>3. /\ back \in Seq(S) /\ Len(back) = Len(s) - i
      /\ \A j \in 1 .. Len(s) - i : back[j] = s[j + i]
   OBVIOUS
<1>4. Len(s) \in Nat /\ i \in 1 .. Len(s)
  OBVIOUS
<1> HIDE DEF front, back
<1>5. front \o back \in Seq(S) /\ Len(front \o back) = Len(s) - 1
  BY <1>2, <1>3, <1>4
<1>6. \A j \in 1 .. Len(s) - 1 : (front \o back)[j] = IF j < i THEN s[j] ELSE s[j + 1]
  BY <1>2, <1>3, <1>4
<1> QED
  BY <1>1, <1>4, <1>5, <1>6

-----------------------------------------------------------------------------
(* The laws are inductive *)

LEMMA InitLaws == Init => Laws
<1> SUFFICES ASSUME Init PROVE Laws
  OBVIOUS
<1>1. /\ accepted \in Nat /\ DOMAIN queue = 1 .. accepted
      /\ queue \in Seq(Entry) /\ \A i \in 1 .. accepted : queue[i].id = i
  BY IsASeq DEF Init
<1>2. turns = <<>> /\ DOMAIN turns = {} /\ turns \in Seq(Turn)
  BY DEF Init
<1>3. TypeOK
  BY <1>1, <1>2 DEF Init, TypeOK
<1>4. InOrder
  BY <1>1, <1>2 DEF InOrder
<1>5. Numbered
  BY <1>1, <1>2 DEF Numbered
<1>6. NothingLost
  BY <1>1, <1>2 DEF Init, NothingLost, Ids
<1> QED
  BY <1>3, <1>4, <1>5, <1>6 DEF Laws

LEMMA AcceptLaws ==
  ASSUME Laws, NEW text \in Texts, NEW held \in BOOLEAN, Accept(text, held)
  PROVE  Laws'
<1> DEFINE e == [id |-> accepted + 1, text |-> text, held |-> held]
<1> USE DEF Laws
<1>1. accepted \in Nat /\ queue \in Seq(Entry) /\ turns \in Seq(Turn)
  BY DEF TypeOK
<1>2. e \in Entry /\ e.id = accepted + 1
  BY <1>1 DEF Entry, Messages
<1>3. /\ queue' = Append(queue, e) /\ accepted' = accepted + 1
      /\ turns' = turns /\ removed' = removed /\ ready' = ready
  BY DEF Accept
<1>4. DOMAIN queue = 1 .. Len(queue) /\ Len(queue) \in Nat
  BY <1>1, LenProperties
<1> HIDE DEF e
<1>5. /\ queue' \in Seq(Entry) /\ DOMAIN queue' = 1 .. Len(queue) + 1
      /\ \A i \in DOMAIN queue : queue'[i] = queue[i]
      /\ queue'[Len(queue) + 1] = e
  BY <1>1, <1>2, <1>3, <1>4, AppendFacts
<1>6. \A i \in DOMAIN queue' : i \in DOMAIN queue \/ i = Len(queue) + 1
  BY <1>4, <1>5
<1>7. /\ \A i \in DOMAIN queue : queue[i].id \in Nat
      /\ \A i \in DOMAIN turns : turns[i].id \in Nat
  <2>1. /\ \A i \in DOMAIN queue : queue[i] \in Entry
        /\ \A i \in DOMAIN turns : turns[i] \in Turn
    BY <1>1, ElementOfSeq, LenProperties
  <2> QED
    BY <2>1 DEF Entry, Turn, Messages
<1>8. TypeOK'
  BY <1>1, <1>3, <1>5 DEF TypeOK
<1>9. InOrder'
  <2>1. ASSUME NEW i \in DOMAIN queue', NEW j \in DOMAIN queue', i < j
        PROVE  queue'[i].id < queue'[j].id
    BY <1>1, <1>2, <1>4, <1>5, <1>6, <1>7, <2>1 DEF InOrder, Numbered
  <2>2. ASSUME NEW i \in DOMAIN turns, NEW j \in DOMAIN queue'
        PROVE  turns[i].id < queue'[j].id
    BY <1>1, <1>2, <1>4, <1>5, <1>6, <1>7 DEF InOrder, Numbered
  <2> QED
    BY <1>3, <2>1, <2>2 DEF InOrder
<1>10. Numbered'
  BY <1>1, <1>2, <1>3, <1>4, <1>5, <1>6, <1>7 DEF Numbered
<1>11. Ids(queue)' = Ids(queue) \cup {accepted + 1}
  <2>1. Len(queue) + 1 \in DOMAIN queue' /\ \A i \in DOMAIN queue : i \in DOMAIN queue'
    BY <1>4, <1>5
  <2> QED
    BY <1>2, <1>5, <1>6, <2>1 DEF Ids
<1>12. NothingLost'
  <2>1. accepted + 1 \notin 1 .. accepted /\ 1 .. accepted' = (1 .. accepted) \cup {accepted + 1}
    BY <1>1, <1>3
  <2> QED
    BY <1>3, <1>11, <2>1 DEF NothingLost
<1> QED
  BY <1>8, <1>9, <1>10, <1>12

LEMMA ReviseLaws ==
  ASSUME Laws, NEW i \in DOMAIN queue, NEW text \in Texts, NEW held \in BOOLEAN,
         Revise(i, text, held)
  PROVE  Laws'
<1> USE DEF Laws
<1>1. accepted \in Nat /\ queue \in Seq(Entry) /\ turns \in Seq(Turn)
  BY DEF TypeOK
<1>2. /\ queue' = [queue EXCEPT ![i] = [id |-> queue[i].id, text |-> text, held |-> held]]
      /\ accepted' = accepted /\ turns' = turns /\ removed' = removed /\ ready' = ready
  BY DEF Revise
<1>3. /\ DOMAIN queue = 1 .. Len(queue) /\ Len(queue) \in Nat
      /\ \A j \in DOMAIN queue : queue[j] \in Entry
  BY <1>1, LenProperties, ElementOfSeq
<1>4. DOMAIN queue' = DOMAIN queue
  BY <1>2
<1>5. \A j \in DOMAIN queue : queue'[j] \in Entry /\ queue'[j].id = queue[j].id
  BY <1>2, <1>3 DEF Entry
<1>6. queue' \in Seq(Entry)
  <2>1. queue' = [j \in 1 .. Len(queue) |-> queue'[j]]
    BY <1>2, <1>3
  <2> QED
    BY <1>3, <1>5, <2>1, IsASeq
<1>7. Ids(queue)' = Ids(queue) /\ Ids(turns)' = Ids(turns)
  BY <1>2, <1>4, <1>5 DEF Ids
<1>8. TypeOK'
  BY <1>2, <1>6 DEF TypeOK
<1>9. InOrder'
  BY <1>2, <1>4, <1>5 DEF InOrder
<1>10. Numbered'
  BY <1>2, <1>4, <1>5 DEF Numbered
<1>11. NothingLost'
  BY <1>2, <1>7 DEF NothingLost
<1> QED
  BY <1>8, <1>9, <1>10, <1>11

LEMMA WithdrawLaws ==
  ASSUME Laws, NEW i \in DOMAIN queue, Withdraw(i)
  PROVE  Laws'
<1> USE DEF Laws
<1>1. accepted \in Nat /\ queue \in Seq(Entry) /\ turns \in Seq(Turn)
  BY DEF TypeOK
<1>2. /\ queue' = RemoveAt(queue, i) /\ removed' = removed \cup {queue[i].id}
      /\ accepted' = accepted /\ turns' = turns /\ ready' = ready
  BY DEF Withdraw
<1>3. /\ DOMAIN queue = 1 .. Len(queue) /\ Len(queue) \in Nat
      /\ \A j \in DOMAIN queue : queue[j] \in Entry
  BY <1>1, LenProperties, ElementOfSeq
<1>4. /\ queue' \in Seq(Entry) /\ DOMAIN queue' = 1 .. Len(queue) - 1
      /\ \A j \in 1 .. Len(queue) - 1 :
           queue'[j] = IF j < i THEN queue[j] ELSE queue[j + 1]
  BY <1>1, <1>2, RemoveAtFacts
\* What is left came, in order, from another place than i.
<1> DEFINE from(j) == IF j < i THEN j ELSE j + 1
<1>5. \A j \in DOMAIN queue' :
        from(j) \in DOMAIN queue /\ from(j) # i /\ queue'[j] = queue[from(j)]
  BY <1>3, <1>4
<1>6. \A j, k \in DOMAIN queue' : j < k => from(j) < from(k)
  BY <1>3, <1>4
<1>7. \A k \in DOMAIN queue : k # i => \E j \in DOMAIN queue' : from(j) = k
  <2> SUFFICES ASSUME NEW k \in DOMAIN queue, k # i
               PROVE  \E j \in DOMAIN queue' : from(j) = k
    OBVIOUS
  <2> DEFINE j == IF k < i THEN k ELSE k - 1
  <2>1. j \in DOMAIN queue' /\ from(j) = k
    BY <1>3, <1>4
  <2> QED
    BY <2>1
<1> HIDE DEF from
<1>8. /\ queue[i].id \in Messages
      /\ \A k \in DOMAIN queue : queue[k].id \in Nat /\ (queue[k].id = queue[i].id => k = i)
  <2>1. \A k \in DOMAIN queue : queue[k].id \in Messages
    BY <1>3 DEF Entry
  <2> QED
    BY <1>3, <2>1 DEF InOrder, Messages
<1>9. TypeOK'
  BY <1>2, <1>4, <1>8 DEF TypeOK
<1>10. InOrder'
  BY <1>2, <1>5, <1>6 DEF InOrder
<1>11. Numbered'
  BY <1>2, <1>5 DEF Numbered
<1>12. Ids(queue)' = Ids(queue) \ {queue[i].id}
  <2>1. ASSUME NEW k \in DOMAIN queue, queue[k].id # queue[i].id
        PROVE  queue[k].id \in Ids(queue)'
    BY <1>5, <1>7, <2>1 DEF Ids
  <2>2. ASSUME NEW j \in DOMAIN queue'
        PROVE  queue'[j].id \in Ids(queue) \ {queue[i].id}
    BY <1>5, <1>8, <2>2 DEF Ids
  <2> QED
    BY <2>1, <2>2 DEF Ids
<1>13. NothingLost'
  <2>1. queue[i].id \in Ids(queue) /\ queue[i].id \notin Ids(turns) /\ Ids(turns)' = Ids(turns)
    <3>1. \A k \in DOMAIN turns : turns[k].id # queue[i].id
      <4>1. \A k \in DOMAIN turns : turns[k].id \in Nat /\ turns[k].id < queue[i].id
        <5>1. \A k \in DOMAIN turns : turns[k] \in Turn
          BY <1>1, ElementOfSeq, LenProperties
        <5>2. \A k \in DOMAIN turns : turns[k].id < queue[i].id
          BY DEF InOrder
        <5> QED
          BY <5>1, <5>2 DEF Turn, Messages
      <4> QED
        BY <1>8, <4>1 DEF Messages
    <3> QED
      BY <1>2, <3>1 DEF Ids
  <2> QED
    BY <1>2, <1>12, <2>1 DEF NothingLost
<1> QED
  BY <1>9, <1>10, <1>11, <1>13

LEMMA DeliverLaws ==
  ASSUME Laws, Deliver, ready' \in BOOLEAN
  PROVE  Laws'
<1> DEFINE t == [id |-> Head(queue).id, text |-> Head(queue).text]
<1> USE DEF Laws
<1>1. accepted \in Nat /\ queue \in Seq(Entry) /\ turns \in Seq(Turn) /\ queue # <<>>
  BY DEF TypeOK, Deliver
<1>2. /\ queue' = Tail(queue) /\ turns' = Append(turns, t)
      /\ accepted' = accepted /\ removed' = removed
  BY DEF Deliver
<1>3. /\ DOMAIN queue = 1 .. Len(queue) /\ Len(queue) \in Nat
      /\ DOMAIN turns = 1 .. Len(turns) /\ Len(turns) \in Nat
      /\ \A j \in DOMAIN queue : queue[j] \in Entry
      /\ \A j \in DOMAIN turns : turns[j] \in Turn
  BY <1>1, LenProperties, ElementOfSeq
<1>4. /\ queue' \in Seq(Entry) /\ 1 \in DOMAIN queue /\ Head(queue) = queue[1]
      /\ DOMAIN queue' = 1 .. Len(queue) - 1
      /\ \A j \in DOMAIN queue' : queue'[j] = queue[j + 1] /\ j + 1 \in DOMAIN queue
  BY <1>1, <1>2, <1>3, TailFacts
<1>5. t \in Turn /\ t.id = queue[1].id
  BY <1>3, <1>4 DEF Entry, Turn
<1> HIDE DEF t
<1>6. /\ turns' \in Seq(Turn) /\ DOMAIN turns' = 1 .. Len(turns) + 1
      /\ \A j \in DOMAIN turns : turns'[j] = turns[j]
      /\ turns'[Len(turns) + 1] = t
  BY <1>1, <1>2, <1>3, <1>5, AppendFacts
<1>7. /\ \A j \in DOMAIN queue : queue[j].id \in Nat
      /\ \A j \in DOMAIN turns : turns[j].id \in Nat
  BY <1>3 DEF Entry, Turn, Messages
<1>8. /\ \A j \in DOMAIN turns' : j \in DOMAIN turns \/ j = Len(turns) + 1
      /\ \A j \in DOMAIN turns : j \in DOMAIN turns' /\ j < Len(turns) + 1
      /\ Len(turns) + 1 \in DOMAIN turns'
  BY <1>3, <1>6
<1>9. TypeOK'
  BY <1>2, <1>4, <1>6 DEF TypeOK
<1>10. InOrder'
  <2>1. ASSUME NEW j \in DOMAIN turns', NEW k \in DOMAIN turns', j < k
        PROVE  turns'[j].id < turns'[k].id
    BY <1>3, <1>4, <1>5, <1>6, <1>7, <1>8, <2>1 DEF InOrder
  <2>2. ASSUME NEW j \in DOMAIN queue', NEW k \in DOMAIN queue', j < k
        PROVE  queue'[j].id < queue'[k].id
    BY <1>3, <1>4, <2>2 DEF InOrder
  <2>3. ASSUME NEW j \in DOMAIN turns', NEW k \in DOMAIN queue'
        PROVE  turns'[j].id < queue'[k].id
    <3>1. k + 1 \in DOMAIN queue /\ queue'[k] = queue[k + 1] /\ 1 < k + 1
      BY <1>3, <1>4
    <3> QED
      BY <1>4, <1>5, <1>6, <1>8, <3>1 DEF InOrder
  <2> QED
    BY <2>1, <2>2, <2>3 DEF InOrder
<1>11. Numbered'
  BY <1>1, <1>2, <1>4, <1>5, <1>6, <1>8 DEF Numbered
<1>12. Ids(turns)' = Ids(turns) \cup {queue[1].id}
  BY <1>5, <1>6, <1>8 DEF Ids
<1>13. Ids(queue)' \cup {queue[1].id} = Ids(queue)
  <2>1. ASSUME NEW k \in DOMAIN queue, k # 1
        PROVE  k - 1 \in DOMAIN queue' /\ queue'[k - 1] = queue[k]
    <3>1. k - 1 \in DOMAIN queue' /\ (k - 1) + 1 = k
      BY <1>3, <1>4, <2>1
    <3> QED
      BY <1>4, <3>1
  <2> QED
    BY <1>4, <2>1 DEF Ids
<1>14. NothingLost'
  BY <1>2, <1>12, <1>13 DEF NothingLost
<1> QED
  BY <1>9, <1>10, <1>11, <1>14
-----------------------------------------------------------------------------
LEMMA StepLaws == Laws /\ [Next]_vars => Laws'
<1> SUFFICES ASSUME Laws, [Next]_vars PROVE Laws'
  OBVIOUS
<1>1. ASSUME NEW text \in Texts, NEW held \in BOOLEAN, Accept(text, held)
      PROVE  Laws'
  BY <1>1, AcceptLaws
<1>2. ASSUME NEW i \in DOMAIN queue, NEW text \in Texts, NEW held \in BOOLEAN,
             Revise(i, text, held)
      PROVE  Laws'
  BY <1>2, ReviseLaws
<1>3. ASSUME NEW i \in DOMAIN queue, Withdraw(i)
      PROVE  Laws'
  BY <1>3, WithdrawLaws
<1>4. CASE Dispatch
  BY <1>4, DeliverLaws DEF Dispatch
<1>5. CASE Steer
  <2>1. ready \in BOOLEAN
    BY DEF Laws, TypeOK
  <2> QED
    BY <1>5, <2>1, DeliverLaws DEF Steer
<1>6. CASE SetReady
  BY <1>6 DEF SetReady, Laws, TypeOK, InOrder, Numbered, NothingLost, Ids
<1>7. CASE UNCHANGED vars
  BY <1>7 DEF vars, Laws, TypeOK, InOrder, Numbered, NothingLost, Ids
<1> QED
  BY <1>1, <1>2, <1>3, <1>4, <1>5, <1>6, <1>7 DEF Next

\* Every state of the abstract queue is well typed, its turns and its queue,
\* read one after the other, are in the order of acceptance without repetition,
\* and an accepted message is queued, a turn, or removed by the user.
THEOREM QueueLaws == Spec => [](TypeOK /\ InOrder /\ NothingLost)
<1>1. Laws => TypeOK /\ InOrder /\ NothingLost
  BY DEF Laws
<1> QED
  BY InitLaws, StepLaws, <1>1, PTL DEF Spec
=============================================================================

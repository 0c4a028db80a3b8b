----------------------- MODULE ComposerQueue_proofs -----------------------
(***************************************************************************)
(* What holds of the queue of one chat and of its two drains, for any      *)
(* number of messages, edits, mounts and rejections.                       *)
(*                                                                         *)
(* First part: ComposerQueue implements ChatQueue, unless the user steers  *)
(* queued messages: every step of the drains is a step of the laws' queue  *)
(* or none that it sees.                                                   *)
(*                                                                         *)
(* Second part: the types (TypeInv), and what a write of the store, a      *)
(* drain and a task do to the hooks, the attempts and the lease; and a     *)
(* chat that nobody has opened sends nothing (UnopenedInv).                *)
(*                                                                         *)
(* Third part: somebody will look at the head again (Watching), as long as *)
(* nobody cancels an edit.  A write of the store (WriteWatches), a drain   *)
(* outside one (TryHooks, BackgroundLeaves) and a change of the lease keep *)
(* it, and each action is one of these.                                    *)
(***************************************************************************)
EXTENDS ComposerQueue, SequenceTheorems, FiniteSetTheorems, TLAPS

\* The part of the state that the laws' queue is made of is well typed, and
\* nothing steers.
Seen ==
  /\ queue \in Seq(Record)
  /\ turns \in Seq(Payload)
  /\ accepted \in 0..MaxMessages
  /\ chat \in {"idle", "busy"}
  /\ stopping \in BOOLEAN
  /\ steers = <<>>
-----------------------------------------------------------------------------
(* Queues *)

\* A sequence that something joins at the end, or whose first element leaves.
LEMMA AppendFacts ==
  ASSUME NEW S, NEW s \in Seq(S), NEW e \in S
  PROVE  /\ Append(s, e) \in Seq(S)
         /\ Len(Append(s, e)) = Len(s) + 1
         /\ DOMAIN Append(s, e) = 1 .. Len(s) + 1
         /\ \A i \in 1 .. Len(s) : Append(s, e)[i] = s[i]
         /\ Append(s, e)[Len(s) + 1] = e
  OBVIOUS

LEMMA TailFacts ==
  ASSUME NEW S, NEW s \in Seq(S), s # <<>>
  PROVE  /\ Tail(s) \in Seq(S)
         /\ Head(s) = s[1] /\ 1 \in DOMAIN s /\ s[1] \in S
         /\ DOMAIN Tail(s) = 1 .. Len(s) - 1
         /\ \A i \in 1 .. Len(s) - 1 : Tail(s)[i] = s[i + 1]
  OBVIOUS

\* One in the middle is removed.
LEMMA RemoveAtFacts ==
  ASSUME NEW S, NEW s \in Seq(S), NEW i \in DOMAIN s
  PROVE  /\ RemoveAt(s, i) \in Seq(S)
         /\ Len(RemoveAt(s, i)) = Len(s) - 1
         /\ DOMAIN RemoveAt(s, i) = 1 .. Len(s) - 1
         /\ \A j \in 1 .. Len(s) - 1 : RemoveAt(s, i)[j] = IF j < i THEN s[j] ELSE s[j + 1]
<1> DEFINE front == SubSeq(s, 1, i - 1)
           back == SubSeq(s, i + 1, Len(s))
<1>1. RemoveAt(s, i) = front \o back
  BY DEF RemoveAt
<1>2. /\ front \in Seq(S) /\ Len(front) = i - 1
      /\ \A j \in 1 .. i - 1 : front[j] = s[j]
   OBVIOUS
<1>3. /\ back \in Seq(S) /\ Len(back) = Len(s) - i
      /\ \A j \in 1 .. Len(s) - i : back[j] = s[j + i]
   OBVIOUS
<1>4. Len(s) \in Nat /\ i \in 1 .. Len(s)
  OBVIOUS
<1> HIDE DEF front, back
<1>5. front \o back \in Seq(S) /\ Len(front \o back) = Len(s) - 1
  BY <1>2, <1>3, <1>4
<1>6. \A j \in 1 .. Len(s) - 1 : (front \o back)[j] = IF j < i THEN s[j] ELSE s[j + 1]
  BY <1>2, <1>3, <1>4
<1> QED
  BY <1>1, <1>4, <1>5, <1>6

-----------------------------------------------------------------------------
(* What the mapping does to sequences *)

LEMMA EntriesFacts ==
  ASSUME NEW q \in Seq(Record)
  PROVE  /\ Entries(q) \in Seq(Promise!Entry)
         /\ Len(Entries(q)) = Len(q) /\ Len(q) \in Nat
         /\ DOMAIN Entries(q) = 1 .. Len(q) /\ DOMAIN q = 1 .. Len(q)
         /\ \A i \in 1 .. Len(q) :
              /\ q[i] \in Record
              /\ Entries(q)[i] = [id |-> q[i].id, text |-> q[i].rev, held |-> ~Attemptable(q[i])]
              /\ Entries(q)[i] \in Promise!Entry
<1>1. /\ Len(q) \in Nat /\ DOMAIN q = 1 .. Len(q)
      /\ \A i \in 1 .. Len(q) : q[i] \in Record
  BY LenProperties, ElementOfSeq
<1>2. \A i \in 1 .. Len(q) :
        [id |-> q[i].id, text |-> q[i].rev, held |-> ~Attemptable(q[i])] \in Promise!Entry
  <2> SUFFICES ASSUME NEW i \in 1 .. Len(q)
               PROVE  [id |-> q[i].id, text |-> q[i].rev, held |-> ~Attemptable(q[i])]
                        \in Promise!Entry
    OBVIOUS
  <2>1. q[i].id \in Nat \ {0} /\ q[i].rev \in 0..MaxEdits
    BY <1>1, ComposerAssumption DEF Record, Messages
  <2>2. (~Attemptable(q[i])) \in BOOLEAN
    BY DEF Attemptable
  <2> QED
    BY <2>1, <2>2 DEF Promise!Entry, Promise!Messages
<1>3. Entries(q) = [i \in 1 .. Len(q) |->
                      [id |-> q[i].id, text |-> q[i].rev, held |-> ~Attemptable(q[i])]]
  BY <1>1 DEF Entries
<1>4. Entries(q) \in Seq(Promise!Entry)
  BY <1>1, <1>2, <1>3, SeqDef
<1> QED
  BY <1>1, <1>2, <1>3, <1>4, LenProperties

\* Two queues that agree element by element are seen as one.
LEMMA SameEntries ==
  ASSUME NEW q \in Seq(Record), NEW e \in Seq(Promise!Entry), Len(e) = Len(q),
         \A i \in 1 .. Len(q) : Entries(q)[i] = e[i]
  PROVE  Entries(q) = e
  BY EntriesFacts, SeqEqual

LEMMA EntriesAppend ==
  ASSUME NEW q \in Seq(Record), NEW r \in Record
  PROVE  Entries(Append(q, r)) =
           Append(Entries(q), [id |-> r.id, text |-> r.rev, held |-> ~Attemptable(r)])
<1> DEFINE e == [id |-> r.id, text |-> r.rev, held |-> ~Attemptable(r)]
           old == Entries(q)
           new == Append(q, r)
<1>1. new \in Seq(Record) /\ Len(new) = Len(q) + 1 /\ Len(q) \in Nat
      /\ new[Len(q) + 1] = r /\ \A i \in 1 .. Len(q) : new[i] = q[i]
  BY AppendProperties, LenProperties
<1>2. /\ old \in Seq(Promise!Entry) /\ Len(old) = Len(q)
      /\ \A i \in 1 .. Len(q) : old[i] =
           [id |-> q[i].id, text |-> q[i].rev, held |-> ~Attemptable(q[i])]
  BY EntriesFacts
<1>3. /\ \A i \in 1 .. Len(q) + 1 : Entries(new)[i] =
           [id |-> new[i].id, text |-> new[i].rev, held |-> ~Attemptable(new[i])]
      /\ \A i \in 1 .. Len(q) + 1 : Entries(new)[i] \in Promise!Entry
  BY <1>1, EntriesFacts
<1>4. e \in Promise!Entry
  <2>1. Len(q) + 1 \in 1 .. Len(q) + 1
    BY <1>1
  <2> QED
    BY <1>1, <1>3, <2>1
<1> HIDE DEF e, old, new
<1>5. /\ Append(old, e) \in Seq(Promise!Entry) /\ Len(Append(old, e)) = Len(q) + 1
      /\ Append(old, e)[Len(q) + 1] = e
      /\ \A i \in 1 .. Len(q) : Append(old, e)[i] = old[i]
  BY <1>2, <1>4, AppendProperties
<1>6. ASSUME NEW i \in 1 .. Len(q) + 1
      PROVE  Entries(new)[i] = Append(old, e)[i]
  <2>1. CASE i \in 1 .. Len(q)
    BY <1>1, <1>2, <1>3, <1>5, <2>1
  <2>2. CASE i = Len(q) + 1
    BY <1>1, <1>3, <1>5, <2>2 DEF e
  <2>3. i \in 1 .. Len(q) \/ i = Len(q) + 1
    <3>1. Len(q) \in Nat
      BY <1>1
    <3> QED
      BY <3>1
  <2> QED
    BY <2>1, <2>2, <2>3
<1>7. Entries(new) = Append(old, e)
  BY <1>1, <1>5, <1>6, SameEntries
<1> QED
  BY <1>7 DEF e, old, new

LEMMA EntriesTail ==
  ASSUME NEW q \in Seq(Record), q # <<>>
  PROVE  /\ Tail(q) \in Seq(Record) /\ Head(q) \in Record /\ Head(q) = q[1]
         /\ Entries(q) # <<>>
         /\ Head(Entries(q)) =
              [id |-> Head(q).id, text |-> Head(q).rev, held |-> ~Attemptable(Head(q))]
         /\ Entries(Tail(q)) = Tail(Entries(q))
<1> DEFINE old == Entries(q)
           new == Tail(q)
<1>1. /\ new \in Seq(Record) /\ Len(new) = Len(q) - 1 /\ Len(q) \in Nat /\ Len(q) # 0
      /\ \A i \in 1 .. Len(new) : new[i] = q[i + 1]
  BY HeadTailProperties, LenProperties, EmptySeq
<1>2. /\ old \in Seq(Promise!Entry) /\ Len(old) = Len(q)
      /\ \A i \in 1 .. Len(q) : q[i] \in Record /\ old[i] =
           [id |-> q[i].id, text |-> q[i].rev, held |-> ~Attemptable(q[i])]
  BY EntriesFacts
<1>3. \A i \in 1 .. Len(new) : Entries(new)[i] =
           [id |-> new[i].id, text |-> new[i].rev, held |-> ~Attemptable(new[i])]
  BY <1>1, EntriesFacts
<1> HIDE DEF old, new
<1>4. old # <<>>
  BY <1>1, <1>2, EmptySeq
<1>5. /\ Tail(old) \in Seq(Promise!Entry) /\ Len(Tail(old)) = Len(q) - 1
      /\ \A i \in 1 .. Len(q) - 1 : Tail(old)[i] = old[i + 1]
  BY <1>2, <1>4, HeadTailProperties
<1>6. ASSUME NEW i \in 1 .. Len(new)
      PROVE  Entries(new)[i] = Tail(old)[i]
  <2>1. i \in 1 .. Len(q) - 1 /\ i + 1 \in 1 .. Len(q)
    BY <1>1
  <2> QED
    BY <1>1, <1>2, <1>3, <1>5, <2>1
<1>7. Entries(new) = Tail(old)
  BY <1>1, <1>5, <1>6, SameEntries
<1>8. 1 \in 1 .. Len(q) /\ Head(q) = q[1] /\ Head(old) = old[1]
  BY <1>1
<1> QED
  BY <1>1, <1>2, <1>4, <1>7, <1>8 DEF old, new

LEMMA EntriesRemoveAt ==
  ASSUME NEW q \in Seq(Record), NEW i \in DOMAIN q
  PROVE  /\ RemoveAt(q, i) \in Seq(Record)
         /\ Entries(RemoveAt(q, i)) = RemoveAt(Entries(q), i)
<1> DEFINE old == Entries(q)
           new == RemoveAt(q, i)
<1>1. /\ old \in Seq(Promise!Entry) /\ Len(old) = Len(q) /\ Len(q) \in Nat
      /\ DOMAIN q = 1 .. Len(q) /\ DOMAIN old = 1 .. Len(q)
      /\ \A j \in 1 .. Len(q) : old[j] =
           [id |-> q[j].id, text |-> q[j].rev, held |-> ~Attemptable(q[j])]
  BY EntriesFacts
<1>2. /\ new \in Seq(Record) /\ Len(new) = Len(q) - 1
      /\ \A j \in 1 .. Len(q) - 1 : new[j] = IF j < i THEN q[j] ELSE q[j + 1]
  BY RemoveAtFacts
<1>3. \A j \in 1 .. Len(new) : Entries(new)[j] =
           [id |-> new[j].id, text |-> new[j].rev, held |-> ~Attemptable(new[j])]
  BY <1>2, EntriesFacts
<1> HIDE DEF old, new
<1>4. /\ RemoveAt(old, i) \in Seq(Promise!Entry) /\ Len(RemoveAt(old, i)) = Len(q) - 1
      /\ \A j \in 1 .. Len(q) - 1 :
           RemoveAt(old, i)[j] = IF j < i THEN old[j] ELSE old[j + 1]
  BY <1>1, RemoveAtFacts
<1>5. ASSUME NEW j \in 1 .. Len(new)
      PROVE  Entries(new)[j] = RemoveAt(old, i)[j]
  <2>1. j \in 1 .. Len(q) - 1 /\ j \in 1 .. Len(q) /\ j + 1 \in 1 .. Len(q)
    BY <1>1, <1>2
  <2>2. CASE j < i
    BY <1>1, <1>2, <1>3, <1>4, <2>1, <2>2
  <2>3. CASE ~(j < i)
    BY <1>1, <1>2, <1>3, <1>4, <2>1, <2>3
  <2> QED
    BY <2>2, <2>3
<1>6. Entries(new) = RemoveAt(old, i)
  BY <1>2, <1>4, <1>5, SameEntries
<1> QED
  BY <1>2, <1>6 DEF old, new

\* A record replaced by one of the same message.
LEMMA EntriesExcept ==
  ASSUME NEW q \in Seq(Record), NEW i \in DOMAIN q, NEW r \in Record, r.id = q[i].id
  PROVE  /\ [q EXCEPT ![i] = r] \in Seq(Record)
         /\ Entries([q EXCEPT ![i] = r]) =
              [Entries(q) EXCEPT ![i] = [id |-> r.id, text |-> r.rev, held |-> ~Attemptable(r)]]
<1> DEFINE old == Entries(q)
           new == [q EXCEPT ![i] = r]
           e == [id |-> r.id, text |-> r.rev, held |-> ~Attemptable(r)]
           seen == [old EXCEPT ![i] = e]
<1>1. /\ old \in Seq(Promise!Entry) /\ Len(old) = Len(q) /\ Len(q) \in Nat
      /\ DOMAIN q = 1 .. Len(q) /\ DOMAIN old = 1 .. Len(q)
      /\ \A j \in 1 .. Len(q) : q[j] \in Record /\ old[j] =
           [id |-> q[j].id, text |-> q[j].rev, held |-> ~Attemptable(q[j])]
  BY EntriesFacts
<1>2. /\ new \in Seq(Record) /\ Len(new) = Len(q) /\ DOMAIN new = 1 .. Len(q)
      /\ \A j \in 1 .. Len(q) : new[j] = IF j = i THEN r ELSE q[j]
  BY <1>1, ExceptSeq
<1>3. /\ DOMAIN Entries(new) = 1 .. Len(q)
      /\ \A j \in 1 .. Len(q) : Entries(new)[j] =
           [id |-> new[j].id, text |-> new[j].rev, held |-> ~Attemptable(new[j])]
  BY <1>2, EntriesFacts
<1>4. DOMAIN seen = 1 .. Len(q)
  BY <1>1
<1>5. ASSUME NEW j \in 1 .. Len(q)
      PROVE  Entries(new)[j] = seen[j]
  <2>1. CASE j = i
    BY <1>1, <1>2, <1>3, <2>1
  <2>2. CASE j # i
    BY <1>1, <1>2, <1>3, <2>2
  <2> QED
    BY <2>1, <2>2
<1>6. Entries(new) = [j \in 1 .. Len(q) |-> Entries(new)[j]] /\ seen = [j \in 1 .. Len(q) |-> seen[j]]
  <2>1. Entries(new) = [j \in DOMAIN Entries(new) |-> Entries(new)[j]]
    BY DEF Entries
  <2> QED
    BY <1>1, <1>3, <1>4, <2>1
<1>7. Entries(new) = seen
  BY <1>5, <1>6
<1> QED
  BY <1>2, <1>7

\* Nothing is seen of a record's other fields.
LEMMA EntriesSame ==
  ASSUME NEW q \in Seq(Record), NEW p \in Seq(Record), Len(p) = Len(q),
         \A i \in 1 .. Len(q) : /\ p[i].id = q[i].id /\ p[i].rev = q[i].rev
                               /\ Attemptable(p[i]) = Attemptable(q[i])
  PROVE  Entries(p) = Entries(q)
<1>1. /\ Entries(q) \in Seq(Promise!Entry) /\ Len(Entries(q)) = Len(q)
      /\ \A i \in 1 .. Len(q) : Entries(q)[i] =
           [id |-> q[i].id, text |-> q[i].rev, held |-> ~Attemptable(q[i])]
  BY EntriesFacts
<1>2. \A i \in 1 .. Len(p) : Entries(p)[i] =
           [id |-> p[i].id, text |-> p[i].rev, held |-> ~Attemptable(p[i])]
  BY EntriesFacts
<1>3. \A i \in 1 .. Len(p) : Entries(p)[i] = Entries(q)[i]
  BY <1>1, <1>2
<1> QED
  BY <1>1, <1>3, SameEntries

LEMMA DispatchedAppend ==
  ASSUME NEW s \in Seq(Payload), NEW p \in Payload
  PROVE  Dispatched(Append(s, p)) = Append(Dispatched(s), [id |-> p.id, text |-> p.rev])
<1> DEFINE t == [id |-> p.id, text |-> p.rev]
           old == Dispatched(s)
           new == Dispatched(Append(s, p))
<1>1. /\ Len(s) \in Nat /\ DOMAIN s = 1 .. Len(s)
      /\ DOMAIN Append(s, p) = 1 .. Len(s) + 1
      /\ Append(s, p)[Len(s) + 1] = p /\ \A i \in 1 .. Len(s) : Append(s, p)[i] = s[i]
  BY AppendFacts, LenProperties
<1>2. \A i \in 1 .. Len(s) : [id |-> s[i].id, text |-> s[i].rev] \in Promise!Turn
  <2>1. \A i \in 1 .. Len(s) : s[i].id \in Nat \ {0} /\ s[i].rev \in 0..MaxEdits
    <3>1. \A i \in 1 .. Len(s) : s[i] \in Payload
      BY ElementOfSeq
    <3> QED
      BY <3>1, ComposerAssumption DEF Payload, Messages
  <2> QED
    BY <2>1 DEF Promise!Turn, Promise!Messages
<1>3. t \in Promise!Turn
  BY ComposerAssumption DEF Payload, Messages, Promise!Turn, Promise!Messages
<1>4. old = [i \in 1 .. Len(s) |-> [id |-> s[i].id, text |-> s[i].rev]]
  BY <1>1 DEF Dispatched
<1>5. old \in Seq(Promise!Turn) /\ Len(old) = Len(s)
  BY <1>1, <1>2, <1>4, SeqDef
<1>6. /\ DOMAIN new = 1 .. Len(s) + 1
      /\ \A i \in 1 .. Len(s) + 1 :
           new[i] = [id |-> Append(s, p)[i].id, text |-> Append(s, p)[i].rev]
  BY <1>1 DEF Dispatched
<1>7. new = [i \in 1 .. Len(s) + 1 |-> new[i]]
  BY <1>1 DEF Dispatched
<1> HIDE DEF t, new
<1>8. /\ Append(old, t) \in Seq(Promise!Turn) /\ DOMAIN Append(old, t) = 1 .. Len(s) + 1
      /\ Append(old, t)[Len(s) + 1] = t
      /\ \A i \in 1 .. Len(s) : Append(old, t)[i] = old[i]
  <2> HIDE DEF old
  <2> QED
    BY <1>3, <1>5, AppendFacts
<1>9. ASSUME NEW i \in 1 .. Len(s) + 1
      PROVE  new[i] = Append(old, t)[i]
  <2>1. CASE i \in 1 .. Len(s)
    <3>1. new[i] = [id |-> s[i].id, text |-> s[i].rev]
      BY <1>1, <1>6, <2>1
    <3>2. old[i] = [id |-> s[i].id, text |-> s[i].rev]
      BY <1>4, <2>1
    <3> HIDE DEF old
    <3> QED
      BY <1>8, <2>1, <3>1, <3>2
  <2>2. CASE i = Len(s) + 1
    <3> HIDE DEF old
    <3> QED
      BY <1>1, <1>6, <1>8, <2>2 DEF t
  <2>3. i \in 1 .. Len(s) \/ i = Len(s) + 1
    BY <1>1
  <2> QED
    BY <2>1, <2>2, <2>3
<1>10. Append(old, t) = [i \in 1 .. Len(s) + 1 |-> Append(old, t)[i]]
  <2> HIDE DEF old
  <2> QED
    BY <1>5, <1>8, LenProperties
<1>11. new = Append(old, t)
  <2> HIDE DEF old
  <2> QED
    BY <1>7, <1>9, <1>10
<1> QED
  BY <1>11 DEF t, new, old
-----------------------------------------------------------------------------
(* Steps that are seen alike *)

PromiseStep == [Promise!Next]_(Promise!vars)

LEMMA WriteSets ==
  ASSUME NEW q, NEW c, NEW s, NEW table, NEW a, NEW b, NEW d, Write(q, c, s, table, a, b, d)
  PROVE  queue' = q /\ chat' = c /\ stopping' = s
  BY DEF Write

LEMMA Unseen ==
  ASSUME Seen, UNCHANGED <<store, history, steers>>
  PROVE  Seen' /\ PromiseStep
<1>1. /\ queue' = queue /\ turns' = turns /\ accepted' = accepted /\ removed' = removed
      /\ chat' = chat /\ stopping' = stopping /\ steers' = steers
  BY DEF store, history
<1>2. Seen'
  BY <1>1 DEF Seen
<1>3. UNCHANGED Promise!vars
  BY <1>1 DEF Promise!vars
<1> QED
  BY <1>2, <1>3 DEF PromiseStep

LEMMA OnlyReadiness ==
  ASSUME Seen, Entries(queue') = Entries(queue), queue' \in Seq(Record),
         chat' \in {"idle", "busy"}, stopping' \in BOOLEAN,
         UNCHANGED <<history, steers>>
  PROVE  Seen' /\ PromiseStep
<1>1. turns' = turns /\ accepted' = accepted /\ removed' = removed /\ steers' = steers
  BY DEF history
<1>2. Seen'
  BY <1>1 DEF Seen
<1>3. Dispatched(turns') = Dispatched(turns)
  BY <1>1
<1>4. CASE Ready(chat', stopping') = Ready(chat, stopping)
  BY <1>1, <1>2, <1>3, <1>4 DEF Promise!vars, PromiseStep
<1>5. CASE Ready(chat', stopping') = ~Ready(chat, stopping)
  BY <1>1, <1>2, <1>3, <1>5 DEF Promise!SetReady, Promise!Next, PromiseStep
<1>6. Ready(chat', stopping') \in BOOLEAN /\ Ready(chat, stopping) \in BOOLEAN
  BY DEF Ready
<1> QED
  BY <1>2, <1>4, <1>5, <1>6

\* A record replaced by one of the same message is a revision.
LEMMA Replaced ==
  ASSUME Seen, NEW i \in DOMAIN queue, NEW r \in Record, r.id = queue[i].id,
         queue' = [queue EXCEPT ![i] = r], chat' = chat, stopping' = stopping,
         UNCHANGED <<history, steers>>
  PROVE  Seen' /\ PromiseStep
<1>1. turns' = turns /\ accepted' = accepted /\ removed' = removed /\ steers' = steers
  BY DEF history
<1>2. /\ queue' \in Seq(Record)
      /\ Entries(queue') =
           [Entries(queue) EXCEPT ![i] = [id |-> r.id, text |-> r.rev, held |-> ~Attemptable(r)]]
  BY EntriesExcept DEF Seen
<1>3. Seen'
  BY <1>1, <1>2 DEF Seen
<1>4. i \in DOMAIN Entries(queue) /\ Entries(queue)[i].id = r.id
  <2>1. queue \in Seq(Record)
    BY DEF Seen
  <2>2. /\ DOMAIN Entries(queue) = DOMAIN queue
        /\ Entries(queue)[i] =
             [id |-> queue[i].id, text |-> queue[i].rev, held |-> ~Attemptable(queue[i])]
    BY <2>1, EntriesFacts
  <2> QED
    BY <2>2
<1>5. r.rev \in 0..MaxEdits /\ (~Attemptable(r)) \in BOOLEAN
  BY DEF Record, Attemptable
<1>6. Promise!Revise(i, r.rev, ~Attemptable(r))
  BY <1>1, <1>2, <1>4 DEF Promise!Revise
<1>7. Promise!Next
  BY <1>4, <1>5, <1>6 DEF Promise!Next
<1> QED
  BY <1>3, <1>7 DEF PromiseStep

LEMMA Accepted ==
  ASSUME Seen, NEW kind \in {"ready", "preparing"}, accepted < MaxMessages,
         accepted' = accepted + 1,
         queue' = Append(queue, NewRecord(accepted + 1, kind, FALSE)),
         UNCHANGED <<chat, stopping, removed, turns, steers>>
  PROVE  Seen' /\ PromiseStep
<1> DEFINE r == NewRecord(accepted + 1, kind, FALSE)
<1>1. accepted \in Nat /\ accepted + 1 \in 1..MaxMessages /\ 0 \in 0..MaxEdits
  BY ComposerAssumption DEF Seen
<1>2. r \in Record /\ r.id = accepted + 1 /\ r.rev = 0
  BY <1>1 DEF NewRecord, Record, Messages
<1> HIDE DEF r
<1>3. queue \in Seq(Record) /\ queue' = Append(queue, r)
  BY DEF Seen, r
<1>4. queue' \in Seq(Record)
  <2>1. \A q \in Seq(Record), e \in Record : Append(q, e) \in Seq(Record)
    BY AppendFacts
  <2> QED
    BY <1>2, <1>3, <2>1
<1>5. Seen'
  <2>1. accepted' \in 0..MaxMessages
    BY <1>1
  <2> QED
    BY <1>4, <2>1 DEF Seen
<1>6. Entries(queue') =
        Append(Entries(queue), [id |-> r.id, text |-> r.rev, held |-> ~Attemptable(r)])
  BY <1>2, <1>3, EntriesAppend
<1>7. Ready(chat, stopping)' = Ready(chat, stopping) /\ Dispatched(turns)' = Dispatched(turns)
  OBVIOUS
<1>8. Promise!Accept(0, ~Attemptable(r))
  BY <1>2, <1>6, <1>7 DEF Promise!Accept
<1>9. (~Attemptable(r)) \in BOOLEAN
  BY DEF Attemptable
<1>10. Promise!Next
  BY <1>1, <1>8, <1>9 DEF Promise!Next
<1> QED
  BY <1>5, <1>10 DEF PromiseStep

LEMMA Withdrawn ==
  ASSUME Seen, NEW i \in DOMAIN queue, queue' = RemoveAt(queue, i),
         removed' = removed \cup {queue[i].id},
         UNCHANGED <<chat, stopping, accepted, turns, steers>>
  PROVE  Seen' /\ PromiseStep
<1>1. queue \in Seq(Record)
  BY DEF Seen
<1>2. queue' \in Seq(Record) /\ Entries(queue') = RemoveAt(Entries(queue), i)
  BY <1>1, EntriesRemoveAt
<1>3. Seen'
  BY <1>2 DEF Seen
<1>4. /\ DOMAIN Entries(queue) = DOMAIN queue
      /\ Entries(queue)[i] =
           [id |-> queue[i].id, text |-> queue[i].rev, held |-> ~Attemptable(queue[i])]
  BY <1>1, EntriesFacts
<1>5. Ready(chat, stopping)' = Ready(chat, stopping) /\ Dispatched(turns)' = Dispatched(turns)
  OBVIOUS
<1>6. Promise!Withdraw(i)
  BY <1>2, <1>4, <1>5 DEF Promise!Withdraw, Promise!RemoveAt, RemoveAt
<1>7. Promise!Next
  BY <1>4, <1>6 DEF Promise!Next
<1> QED
  BY <1>3, <1>7 DEF PromiseStep

\* The head is committed, whichever drain had it.
LEMMA Committed ==
  ASSUME Seen, NEW p, MayCommit(p), turns' = Append(turns, p), queue' = Tail(queue),
         chat' = "busy", stopping' = stopping, UNCHANGED <<accepted, removed, steers>>
  PROVE  Seen' /\ PromiseStep
<1>1. queue # <<>> /\ Attemptable(Head(queue)) /\ PayloadOf(Head(queue)) = p /\ Ready(chat, stopping)
  BY DEF MayCommit, Owned, First, Attemptable
<1>2. queue \in Seq(Record) /\ turns \in Seq(Payload)
  BY DEF Seen
<1>3. /\ queue' \in Seq(Record) /\ Head(queue) \in Record /\ Entries(queue) # <<>>
      /\ Head(Entries(queue)) = [id |-> Head(queue).id, text |-> Head(queue).rev,
                                 held |-> ~Attemptable(Head(queue))]
      /\ Entries(queue') = Tail(Entries(queue))
  BY <1>1, <1>2, EntriesTail
<1>4. p \in Payload /\ p.id = Head(queue).id /\ p.rev = Head(queue).rev
  BY <1>1, <1>3 DEF PayloadOf, Record, Payload
<1>5. turns' \in Seq(Payload)
  BY <1>2, <1>4, AppendFacts
<1>6. Dispatched(turns') = Append(Dispatched(turns), [id |-> p.id, text |-> p.rev])
  BY <1>2, <1>4, DispatchedAppend
<1>7. Seen'
  BY <1>3, <1>5 DEF Seen
<1>8. Ready(chat, stopping)' = FALSE
  BY DEF Ready
<1>9. Head(Entries(queue)).held = FALSE
  <2>1. (~Attemptable(Head(queue))) = FALSE
    BY <1>1
  <2>2. Head(Entries(queue)).held = (~Attemptable(Head(queue)))
    BY <1>3
  <2> QED
    BY <2>1, <2>2
<1>10. Promise!Deliver
  BY <1>3, <1>4, <1>6 DEF Promise!Deliver
<1>11. Promise!Dispatch
  BY <1>1, <1>3, <1>8, <1>9, <1>10 DEF Promise!Dispatch
<1> QED
  BY <1>7, <1>11 DEF Promise!Next, PromiseStep
-----------------------------------------------------------------------------
(* The actions *)

LEMMA InitSeen == Init => Seen /\ Promise!Init
<1> SUFFICES ASSUME Init PROVE Seen /\ Promise!Init
  OBVIOUS
<1>1. /\ accepted = Restored /\ Restored \in 0..MaxMessages /\ Restored \in Nat
      /\ 0 \in 0..MaxEdits
      /\ turns = <<>> /\ removed = {} /\ chat = "idle" /\ stopping = FALSE /\ steers = <<>>
      /\ queue = [i \in 1..Restored |-> NewRecord(i, "ready", TRUE)]
  BY ComposerAssumption DEF Init
<1>2. \A i \in 1..Restored : NewRecord(i, "ready", TRUE) \in Record
  BY <1>1, ComposerAssumption DEF NewRecord, Record, Messages
<1>3. queue \in Seq(Record) /\ Len(queue) = Restored
  <2> DEFINE first == [i \in 1..Restored |-> NewRecord(i, "ready", TRUE)]
  <2>1. first \in Seq(Record) /\ DOMAIN first = 1..Restored
    <3>1. first \in [1..Restored -> Record]
      BY <1>2
    <3> HIDE DEF first
    <3> QED
      BY <1>1, <3>1, SeqDef
  <2>2. Len(first) = Restored
    <3> HIDE DEF first
    <3> QED
      BY <1>1, <2>1, LenProperties
  <2> QED
    BY <1>1, <2>1, <2>2
<1>4. Seen
  <2>1. turns \in Seq(Payload)
    BY <1>1
  <2> QED
    BY <1>1, <1>3, <2>1 DEF Seen
<1>5. /\ Entries(queue) \in Seq(Promise!Entry) /\ Len(Entries(queue)) = accepted
      /\ \A i \in 1..accepted : Entries(queue)[i].id = queue[i].id
  <2>1. /\ Entries(queue) \in Seq(Promise!Entry) /\ Len(Entries(queue)) = Len(queue)
        /\ \A i \in 1 .. Len(queue) : Entries(queue)[i] =
             [id |-> queue[i].id, text |-> queue[i].rev, held |-> ~Attemptable(queue[i])]
    BY <1>3, EntriesFacts
  <2>2. Len(queue) = accepted
    BY <1>1, <1>3
  <2> QED
    BY <2>1, <2>2
<1>6. Entries(queue) \in [1..accepted -> Promise!Entry]
  BY <1>1, <1>5, LenProperties
<1>7. \A i \in 1..accepted : queue[i].id = i
  BY <1>1 DEF NewRecord
<1>8. Dispatched(turns) = <<>>
  BY <1>1 DEF Dispatched
<1>9. Ready(chat, stopping) \in BOOLEAN
  BY DEF Ready
<1> QED
  BY <1>1, <1>4, <1>5, <1>6, <1>7, <1>8, <1>9 DEF Promise!Init

LEMMA EditSeen ==
  ASSUME Seen, NEW i \in DOMAIN queue, Edit(i)
  PROVE  Seen' /\ PromiseStep
<1>1. queue[i] \in Record
  BY EntriesFacts DEF Seen
<1>2. ASSUME NEW r \in Record, r.id = queue[i].id, ReplaceRecord(i, r)
      PROVE  Seen' /\ PromiseStep
  <2>1. /\ queue' = [queue EXCEPT ![i] = r] /\ chat' = chat /\ stopping' = stopping
        /\ UNCHANGED <<history, steers>>
    BY <1>2, WriteSets DEF ReplaceRecord, WriteQueue
  <2> QED
    BY <1>2, <2>1, Replaced
<1>3. \A r \in Record : Released(r) \in Record /\ Released(r).id = r.id
  BY DEF Released, Record
<1>4. CASE Release(i)
  BY <1>1, <1>2, <1>3, <1>4 DEF Release
<1>5. CASE FailDeferred(i)
  <2>1. /\ [queue[i] EXCEPT !.kind = "failed"] \in Record
        /\ [queue[i] EXCEPT !.kind = "failed"].id = queue[i].id
    BY <1>1 DEF Record
  <2> QED
    BY <1>2, <1>5, <2>1 DEF FailDeferred
<1>6. CASE BeginEditing(i)
  <2>1. /\ [queue[i] EXCEPT !.editing = TRUE] \in Record
        /\ [queue[i] EXCEPT !.editing = TRUE].id = queue[i].id
    BY <1>1 DEF Record
  <2> QED
    BY <1>2, <1>6, <2>1 DEF BeginEditing
<1>7. CASE CancelEditing(i)
  <2>1. /\ [queue[i] EXCEPT !.editing = FALSE] \in Record
        /\ [queue[i] EXCEPT !.editing = FALSE].id = queue[i].id
    BY <1>1 DEF Record
  <2> QED
    BY <1>2, <1>7, <2>1 DEF CancelEditing
<1>8. CASE Save(i)
  <2> DEFINE edited == [queue[i] EXCEPT !.rev = @ + 1, !.editing = FALSE]
  <2>1. queue[i].rev \in 0..MaxEdits /\ queue[i].rev < MaxEdits
    BY <1>1, <1>8 DEF Record, Save
  <2>2. queue[i].rev + 1 \in 0..MaxEdits
    BY <2>1, ComposerAssumption
  <2>3. edited \in Record /\ edited.id = queue[i].id
    BY <1>1, <2>2 DEF Record
  <2> HIDE DEF edited
  <2>4. /\ Released(edited) \in Record /\ Released(edited).id = queue[i].id
    BY <1>3, <2>3
  <2>5. ReplaceRecord(i, IF edited.kind = "failed" THEN Released(edited) ELSE edited)
    BY <1>8 DEF Save, edited
  <2> QED
    BY <1>2, <2>3, <2>4, <2>5
<1>9. CASE Dismiss(i)
  <2>1. /\ queue' = RemoveAt(queue, i) /\ chat' = chat /\ stopping' = stopping
        /\ removed' = removed \cup {queue[i].id}
        /\ UNCHANGED <<accepted, turns, steers>>
    BY <1>9, WriteSets DEF Dismiss
  <2> QED
    BY <2>1, Withdrawn
<1> QED
  BY <1>4, <1>5, <1>6, <1>7, <1>8, <1>9 DEF Edit

LEMMA ViewSeen ==
  ASSUME Seen, "steer" \notin Environment, NEW h \in Hooks, View(h)
  PROVE  Seen' /\ PromiseStep
<1>1. UNCHANGED <<store, history, steers>>
  BY DEF View, Mount, Unmount, Render, Retry, StartSteer
<1> QED
  BY <1>1, Unseen

\* Records a load marks as ready are seen as they were.
LEMMA LoadSeen == ASSUME Seen, Load PROVE Seen' /\ PromiseStep
<1> DEFINE q == [i \in DOMAIN queue |-> [queue[i] EXCEPT !.restored = FALSE]]
<1>1. queue' = q /\ chat' = chat /\ stopping' = stopping /\ UNCHANGED <<history, steers>>
  BY WriteSets DEF Load, WriteQueue
<1>2. /\ queue \in Seq(Record) /\ Len(queue) \in Nat /\ DOMAIN queue = 1 .. Len(queue)
      /\ \A i \in 1 .. Len(queue) : queue[i] \in Record
  BY EntriesFacts DEF Seen
<1>3. \A r \in Record : /\ [r EXCEPT !.restored = FALSE] \in Record
                         /\ [r EXCEPT !.restored = FALSE].id = r.id
                         /\ [r EXCEPT !.restored = FALSE].rev = r.rev
                         /\ [r EXCEPT !.restored = FALSE].kind = r.kind
                         /\ [r EXCEPT !.restored = FALSE].editing = r.editing
  BY DEF Record
<1>4. q \in Seq(Record) /\ Len(q) = Len(queue)
  BY <1>2, <1>3, SeqDef
<1>5. ASSUME NEW i \in 1 .. Len(queue)
      PROVE  /\ q[i].id = queue[i].id /\ q[i].rev = queue[i].rev
             /\ Attemptable(q[i]) = Attemptable(queue[i])
  <2>1. q[i] = [queue[i] EXCEPT !.restored = FALSE] /\ queue[i] \in Record /\ q[i] \in Record
    BY <1>2, <1>3
  <2>2. q[i].kind = queue[i].kind /\ q[i].editing = queue[i].editing
    BY <1>3, <2>1
  <2>3. q[i] # None /\ queue[i] # None
    BY <2>1, ComposerAssumption
  <2> QED
    BY <1>3, <2>1, <2>2, <2>3 DEF Attemptable
<1> HIDE DEF q
<1>6. Entries(q) = Entries(queue)
  BY <1>2, <1>4, <1>5, EntriesSame
<1> QED
  BY <1>1, <1>4, <1>6, OnlyReadiness DEF Seen

LEMMA ForegroundSeen == ASSUME Seen, Foreground PROVE Seen' /\ PromiseStep
<1>1. CASE Compact
  <2>1. queue' = queue /\ chat' = "busy" /\ stopping' = stopping /\ UNCHANGED <<history, steers>>
    BY <1>1, WriteSets DEF Compact
  <2> QED
    BY <2>1, OnlyReadiness DEF Seen
<1>2. CASE Compacted
  <2>1. queue' = queue /\ chat' = "idle" /\ stopping' = stopping /\ UNCHANGED <<history, steers>>
    BY <1>2, WriteSets DEF Compacted
  <2> QED
    BY <2>1, OnlyReadiness DEF Seen
<1>3. CASE Commit
  <2>1. /\ MayCommit(attempt.payload) /\ turns' = Append(turns, attempt.payload)
        /\ UNCHANGED <<accepted, removed, steers>>
    BY <1>3 DEF Commit
  <2>2. queue' = Tail(queue) /\ chat' = "busy" /\ stopping' = stopping
    BY <1>3, WriteSets DEF Commit
  <2> QED
    BY <2>1, <2>2, Committed
<1>4. CASE Reject
  BY <1>4, Unseen DEF Reject
<1> QED
  BY <1>1, <1>2, <1>3, <1>4 DEF Foreground

LEMMA BackgroundSeen == ASSUME Seen, BackgroundStep PROVE Seen' /\ PromiseStep
<1>1. CASE CommitBackground
  <2>1. /\ MayCommit(background.payload) /\ turns' = Append(turns, background.payload)
        /\ UNCHANGED <<accepted, removed, steers>>
    BY <1>1 DEF CommitBackground
  <2>2. queue' = Tail(queue) /\ chat' = "busy" /\ stopping' = stopping
    BY <1>1, WriteSets DEF CommitBackground
  <2> QED
    BY <2>1, <2>2, Committed
<1>2. CASE RejectBackground
  BY <1>2, Unseen DEF RejectBackground
<1>3. CASE SettleBackground
  BY <1>3, Unseen DEF SettleBackground
<1> QED
  BY <1>1, <1>2, <1>3 DEF BackgroundStep

LEMMA MicrotaskSeen == ASSUME Seen, Microtask PROVE Seen' /\ PromiseStep
<1>1. CASE Notify
  BY <1>1, Unseen DEF Notify
<1>2. ASSUME NEW h \in Hooks, Wake(h)
      PROVE  Seen' /\ PromiseStep
  BY <1>2, Unseen DEF Wake
<1>3. CASE ParkHead
  <2>1. CASE background.same /\ queue # <<>>
    <3>1. /\ queue' = [queue EXCEPT ![1] = Parked(queue[1])]
          /\ chat' = chat /\ stopping' = stopping /\ UNCHANGED <<history, steers>>
      BY <1>3, <2>1, WriteSets DEF ParkHead
    <3>2. 1 \in DOMAIN queue /\ queue[1] \in Record
      <4>1. queue \in Seq(Record)
        BY DEF Seen
      <4> QED
        BY <2>1, <4>1, TailFacts
    <3>3. Parked(queue[1]) \in Record /\ Parked(queue[1]).id = queue[1].id
      BY <3>2 DEF Parked, Record
    <3> QED
      BY <3>1, <3>2, <3>3, Replaced
  <2>2. CASE ~(background.same /\ queue # <<>>)
    BY <1>3, <2>2, Unseen DEF ParkHead
  <2> QED
    BY <2>1, <2>2
<1>4. CASE DrainAgain
  BY <1>4, Unseen DEF DrainAgain
<1> QED
  BY <1>1, <1>2, <1>3, <1>4 DEF Microtask

LEMMA StepSeen ==
  ASSUME Seen, "steer" \notin Environment, [Next]_vars
  PROVE  Seen' /\ PromiseStep
<1>1. CASE Accept
  <2>1. /\ queue' = Append(queue, NewRecord(accepted + 1, "ready", FALSE))
        /\ chat' = chat /\ stopping' = stopping
    BY <1>1, WriteSets DEF Accept, WriteQueue
  <2> QED
    BY <1>1, <2>1, Accepted DEF Accept
<1>2. CASE Defer
  <2>1. /\ queue' = Append(queue, NewRecord(accepted + 1, "preparing", FALSE))
        /\ chat' = chat /\ stopping' = stopping
    BY <1>2, WriteSets DEF Defer, WriteQueue
  <2> QED
    BY <1>2, <2>1, Accepted DEF Defer
<1>3. CASE TurnEnds
  <2>1. queue' = queue /\ chat' = "idle" /\ stopping' = FALSE /\ UNCHANGED <<history, steers>>
    BY <1>3, WriteSets DEF TurnEnds
  <2> QED
    BY <2>1, OnlyReadiness DEF Seen
<1>4. CASE Stop
  <2>1. queue' = queue /\ chat' = "idle" /\ stopping' = TRUE /\ UNCHANGED <<history, steers>>
    BY <1>4, WriteSets DEF Stop, WriteChat
  <2> QED
    BY <2>1, OnlyReadiness DEF Seen
<1>5. CASE OtherAcquires \/ OtherReleases
  BY <1>5, Unseen DEF OtherAcquires, OtherReleases
<1>6. CASE Steered \/ SteerFails
  BY <1>6 DEF Steered, SteerFails, Seen
<1>7. CASE UNCHANGED vars
  BY <1>7, Unseen DEF vars
<1> QED
  BY <1>1, <1>2, <1>3, <1>4, <1>5, <1>6, <1>7, EditSeen, ViewSeen, LoadSeen, ForegroundSeen,
     BackgroundSeen, MicrotaskSeen DEF Next

\* Whatever the mounted chat, the background drain, their timers, waiters and
\* retries do, the session's queue and its turns behave as the laws' queue: order,
\* places, one turn for each message with its newest text, only while ready, and
\* none lost.  Steering a queued message is left out; it breaks the laws.
THEOREM QueueRefinesLaws ==
  ASSUME "steer" \notin Environment
  PROVE  Spec => Implements
<1>1. Init => Seen /\ Promise!Init
  BY InitSeen
<1>2. Seen /\ [Next]_vars => Seen' /\ PromiseStep
  BY StepSeen
<1>3. Seen /\ [Next]_vars => Seen' /\ [Promise!Next]_(Promise!vars)
  BY <1>2 DEF PromiseStep
<1> QED
  BY <1>1, <1>3, PTL DEF Spec, Implements, Promise!Spec
-----------------------------------------------------------------------------
(* What ChatQueue_proofs proves of the laws' queue holds of this one *)

Proved == INSTANCE ChatQueue_proofs WITH
  Texts <- 0..MaxEdits,
  queue <- Entries(queue),
  turns <- Dispatched(turns),
  ready <- Ready(chat, stopping)

LEMMA LawsHold == Implements => [](Promise!InOrder /\ Promise!NothingLost)
<1>1. Promise!Init => Proved!Init
  BY DEF Promise!Init, Promise!Entry, Promise!Messages,
         Proved!Init, Proved!Entry, Proved!Messages
<1>2. [Promise!Next]_(Promise!vars) => [Proved!Next]_(Proved!vars)
  BY DEF Promise!Next, Promise!vars, Promise!Accept, Promise!Revise, Promise!Withdraw,
         Promise!Dispatch, Promise!Deliver, Promise!Steer, Promise!SetReady, Promise!RemoveAt,
         Proved!Next, Proved!vars, Proved!Accept, Proved!Revise, Proved!Withdraw,
         Proved!Dispatch, Proved!Deliver, Proved!Steer, Proved!SetReady, Proved!RemoveAt
<1>3. Proved!InOrder /\ Proved!NothingLost => Promise!InOrder /\ Promise!NothingLost
  BY DEF Promise!InOrder, Promise!NothingLost, Promise!Ids,
         Proved!InOrder, Proved!NothingLost, Proved!Ids
<1>4. Proved!Spec => [](Proved!TypeOK /\ Proved!InOrder /\ Proved!NothingLost)
  BY Proved!QueueLaws
<1> QED
  BY <1>1, <1>2, <1>3, <1>4, PTL DEF Implements, Promise!Spec, Proved!Spec

\* A queued message becomes at most one user turn, whichever drain dispatches it
\* and however often it was rejected before, as long as it is not steered.
THEOREM OneTurnWithoutSteering ==
  ASSUME "steer" \notin Environment
  PROVE  Spec => []OneTurnEach
<1>1. Seen /\ Promise!InOrder => OneTurnEach
  <2> SUFFICES ASSUME Seen, Promise!InOrder,
                      NEW i \in DOMAIN turns, NEW j \in DOMAIN turns, turns[i].id = turns[j].id
               PROVE  i = j
    BY DEF OneTurnEach
  <2>1. i \in Nat /\ j \in Nat /\ turns[i] \in Payload /\ turns[j] \in Payload
    BY LenProperties, ElementOfSeq DEF Seen
  <2>2. turns[i].id \in Nat /\ turns[j].id \in Nat
    BY <2>1 DEF Payload, Messages
  <2>3. \A k \in DOMAIN turns :
          k \in DOMAIN Dispatched(turns) /\ Dispatched(turns)[k].id = turns[k].id
    BY DEF Dispatched
  <2>4. (i < j => turns[i].id < turns[j].id) /\ (j < i => turns[j].id < turns[i].id)
    BY <2>3 DEF Promise!InOrder
  <2> QED
    BY <2>1, <2>2, <2>4
<1>2. Seen /\ [Next]_vars => Seen'
  BY StepSeen
<1>3. Init => Seen
  BY InitSeen
<1>4. Spec => Implements
  BY QueueRefinesLaws
<1> QED
  BY <1>1, <1>2, <1>3, <1>4, LawsHold, PTL DEF Spec
-----------------------------------------------------------------------------
(* What the drains do to one hook *)

LEMMA HookFields ==
  ASSUME NEW hook \in Hook
  PROVE  /\ hook.mounted \in BOOLEAN /\ hook.used \in BOOLEAN /\ hook.stale \in BOOLEAN
         /\ hook.last \in [payload : Payload, current : BOOLEAN] \cup {None}
         /\ hook.waiting \in Payload \cup {None} /\ hook.timer \in Payload \cup {None}
         /\ hook.rejections \in Rejection \cup {None} /\ hook.shown \in {"idle", "busy"}
         /\ hook = [mounted |-> hook.mounted, used |-> hook.used, last |-> hook.last,
                    waiting |-> hook.waiting, timer |-> hook.timer,
                    rejections |-> hook.rejections, shown |-> hook.shown, stale |-> hook.stale]
  BY DEF Hook

LEMMA PayloadFacts ==
  ASSUME NEW r \in Record
  PROVE  PayloadOf(r) \in Payload /\ PayloadOf(r).id = r.id /\ PayloadOf(r).rev = r.rev
         /\ PayloadOf(r) # None /\ r # None
  BY ComposerAssumption DEF PayloadOf, Record, Payload

LEMMA FirstFacts ==
  ASSUME NEW q \in Seq(Record)
  PROVE  /\ First(q) \in Record \cup {None}
         /\ q # <<>> <=> First(q) # None
         /\ q # <<>> => First(q) = Head(q) /\ First(q) = q[1] /\ First(q) \in Record
                        /\ 1 \in DOMAIN q
<1>1. CASE q = <<>>
  BY <1>1 DEF First
<1>2. CASE q # <<>>
  <2>1. Head(q) = q[1] /\ 1 \in DOMAIN q /\ q[1] \in Record
    BY <1>2, TailFacts
  <2> QED
    BY <1>2, <2>1, PayloadFacts DEF First
<1> QED
  BY <1>1, <1>2

-----------------------------------------------------------------------------
(* What a write of the store does *)

BackgroundHolds(b) == b # None /\ b.pc \in {"sending", "running", "settling"}

\* Cycled, or forgetful of rejections, a hook is one that waits and shows the same.
Softened(old, new) ==
  /\ new \in Hook
  /\ new.mounted = old.mounted /\ new.used = old.used
  /\ new.waiting = old.waiting /\ new.shown = old.shown
  /\ new.timer \in {old.timer, None} /\ new.rejections \in {old.rejections, None}
  /\ old.last = None => new.last = None
  /\ new.last # None => /\ old.last # None /\ new.last.payload = old.last.payload
                        /\ new.last.current => old.last.current

LEMMA CycleSoftens ==
  ASSUME NEW hook \in Hook
  PROVE  /\ Softened(hook, NextCycle(hook))
         /\ NextCycle(hook).last # None => ~NextCycle(hook).last.current
         /\ NextCycle(hook).timer = hook.timer /\ NextCycle(hook).stale = hook.stale
         /\ NextCycle(hook).rejections = hook.rejections
<1>1. PICK l : l = IF hook.last = None THEN None ELSE [hook.last EXCEPT !.current = FALSE]
  OBVIOUS
<1>2. /\ l \in [payload : Payload, current : BOOLEAN] \cup {None}
      /\ hook.last = None => l = None
      /\ l # None => /\ hook.last # None /\ l.payload = hook.last.payload
                     /\ l.current = FALSE
  BY <1>1, HookFields
<1>3. NextCycle(hook) = [hook EXCEPT !.last = l]
  BY <1>1 DEF NextCycle
<1> QED
  BY <1>2, <1>3, HookFields DEF Softened, Hook

LEMMA ForgetSoftens ==
  ASSUME NEW hook \in Hook
  PROVE  /\ Softened(hook, ForgetRejections(hook))
         /\ ForgetRejections(hook).timer = None /\ ForgetRejections(hook).rejections = None
         /\ ForgetRejections(hook).stale = hook.stale
         /\ ForgetRejections(hook).last = hook.last
  BY HookFields DEF ForgetRejections, Softened, Hook

LEMMA SoftenedTwice ==
  ASSUME NEW f, NEW g, NEW h, Softened(f, g), Softened(g, h)
  PROVE  Softened(f, h)
  BY DEF Softened

\* The view's hook after a write, before it drains.
SubscribedAs(hook, c, s, old, new, k) ==
  /\ Softened(hook, k)
  /\ k.stale <=> hook.stale \/ old # new
  /\ IdleEdge(c, s) /\ k.last # None => ~k.last.current
  /\ NewSend(old, new) => k.timer = None
  /\ ~NewSend(old, new) => k.rejections = hook.rejections
  /\ ~IdleEdge(c, s) /\ ~NewSend(old, new) => k.timer = hook.timer

LEMMA SubscribedFacts ==
  ASSUME NEW hook \in Hook, NEW c, NEW s, NEW old, NEW new
  PROVE  SubscribedAs(hook, c, s, old, new, Subscribed(hook, c, s, old, new))
<1> DEFINE cycled == IF IdleEdge(c, s) THEN [NextCycle(hook) EXCEPT !.timer = None] ELSE hook
           seen == [cycled EXCEPT !.stale = @ \/ old # new]
           k == Subscribed(hook, c, s, old, new)
<1>1. k = IF NewSend(old, new) THEN ForgetRejections(seen) ELSE seen
  BY DEF Subscribed
<1>2. /\ Softened(hook, cycled) /\ cycled \in Hook /\ cycled.stale = hook.stale
      /\ cycled.rejections = hook.rejections
      /\ IdleEdge(c, s) /\ cycled.last # None => ~cycled.last.current
      /\ ~IdleEdge(c, s) => cycled.timer = hook.timer
  <2>1. CASE IdleEdge(c, s)
    <3>1. PICK n : n = NextCycle(hook)
      OBVIOUS
    <3>2. /\ Softened(hook, n) /\ n.stale = hook.stale /\ n.rejections = hook.rejections
          /\ n.last # None => ~n.last.current
      BY <3>1, CycleSoftens
    <3>3. n \in Hook /\ cycled = [n EXCEPT !.timer = None]
      BY <2>1, <3>1, <3>2 DEF Softened
    <3> HIDE DEF cycled
    <3>4. /\ cycled \in Hook /\ cycled.stale = n.stale /\ cycled.rejections = n.rejections
          /\ cycled.last = n.last /\ cycled.timer = None /\ cycled.waiting = n.waiting
          /\ cycled.shown = n.shown /\ cycled.mounted = n.mounted /\ cycled.used = n.used
      BY <3>3, HookFields DEF Hook
    <3> QED
      BY <2>1, <3>2, <3>4 DEF Softened
  <2>2. CASE ~IdleEdge(c, s)
    BY <2>2, HookFields DEF Softened
  <2> QED
    BY <2>1, <2>2
<1> HIDE DEF cycled
<1>3. PICK flag : flag = (cycled.stale \/ old # new)
  OBVIOUS
<1>4. flag \in BOOLEAN /\ seen = [cycled EXCEPT !.stale = flag]
  BY <1>3
<1>5. flag <=> hook.stale \/ old # new
  BY <1>2, <1>3
<1> HIDE DEF seen
<1>6. /\ seen \in Hook /\ seen.stale = flag /\ seen.rejections = cycled.rejections
      /\ seen.last = cycled.last /\ seen.timer = cycled.timer /\ seen.waiting = cycled.waiting
      /\ seen.shown = cycled.shown /\ seen.mounted = cycled.mounted /\ seen.used = cycled.used
  BY <1>2, <1>4, HookFields DEF Hook
<1>7. Softened(hook, seen)
  BY <1>2, <1>6 DEF Softened
<1>8. CASE NewSend(old, new)
  <2>1. k = ForgetRejections(seen)
    BY <1>1, <1>8
  <2>2. /\ Softened(seen, k) /\ k.timer = None /\ k.stale = seen.stale /\ k.last = seen.last
    BY <1>6, <2>1, ForgetSoftens
  <2>3. Softened(hook, k)
    BY <1>7, <2>2, SoftenedTwice
  <2> QED
    BY <1>2, <1>5, <1>6, <1>8, <2>2, <2>3 DEF SubscribedAs
<1>9. CASE ~NewSend(old, new)
  <2>1. k = seen
    BY <1>1, <1>9
  <2> QED
    BY <1>2, <1>5, <1>6, <1>7, <1>9, <2>1 DEF SubscribedAs
<1> QED
  BY <1>8, <1>9

\* What Drained does to one hook.
DrainedAs(h, hook, r, c, s, now, b, k, next) ==
  LET p == PayloadOf(r) IN
  \/ ~Tries(h, hook, r, Ready(c, s), now) /\ k = hook /\ next = now
  \/ /\ Tries(h, hook, r, Ready(c, s), now) /\ Leased(now, b)
     /\ k = [hook EXCEPT !.waiting = p] /\ next = now
  \/ /\ Tries(h, hook, r, Ready(c, s), now) /\ ~Leased(now, b)
     /\ k = [hook EXCEPT !.last = [payload |-> p, current |-> TRUE]]
     /\ next = [hook |-> h, payload |-> p, pc |-> "preparing"]

LEMMA DrainedFacts ==
  ASSUME NEW h, NEW hook, NEW r, NEW c, NEW s, NEW now, NEW b, NEW d,
         d = Drained(h, hook, r, Ready(c, s), now, b)
  PROVE  DrainedAs(h, hook, r, c, s, now, b, d.hook, d.attempt)
  BY DEF Drained, DrainedAs

DrainSound(h, hook, r, c, s, now, b, k, next) ==
  /\ k \in Hook /\ next \in Attempt \cup {None}
  /\ k.mounted = hook.mounted /\ k.used = hook.used /\ k.stale = hook.stale
  /\ k.shown = hook.shown /\ k.timer = hook.timer /\ k.rejections = hook.rejections
  /\ k.last # hook.last => next # now
  /\ next # now => /\ next \in Attempt /\ next.hook = h /\ next.pc = "preparing"
                   /\ Ready(c, s) /\ ~Leased(now, b)
                   /\ ForegroundClaims(r) /\ next.payload = PayloadOf(r)
                   /\ k.waiting = None /\ k.last.payload = PayloadOf(r)
                   /\ ~Exhausted(k, next.payload)

LEMMA DrainedTypes ==
  ASSUME NEW h \in Hooks, NEW hook \in Hook, NEW r \in Record \cup {None},
         NEW c, NEW s, NEW now \in Attempt \cup {None}, NEW b, NEW k, NEW next,
         DrainedAs(h, hook, r, c, s, now, b, k, next)
  PROVE  DrainSound(h, hook, r, c, s, now, b, k, next)
<1>1. CASE Tries(h, hook, r, Ready(c, s), now)
  <2>1. r \in Record /\ ForegroundClaims(r) /\ Ready(c, s) /\ ~Exhausted(hook, PayloadOf(r))
        /\ hook.waiting = None
    BY <1>1 DEF Tries, ForegroundClaims, Attemptable
  <2>2. PICK p : p = PayloadOf(r)
    OBVIOUS
  <2>3. p \in Payload
    BY <2>1, <2>2, PayloadFacts
  <2>4. CASE Leased(now, b)
    <3>1. k = [hook EXCEPT !.waiting = p] /\ next = now
      BY <1>1, <2>2, <2>4 DEF DrainedAs
    <3> QED
      BY <2>3, <3>1, HookFields DEF Hook, DrainSound
  <2>5. CASE ~Leased(now, b)
    <3>1. PICK l : l = [payload |-> p, current |-> TRUE]
      OBVIOUS
    <3>2. /\ k = [hook EXCEPT !.last = l]
          /\ next = [hook |-> h, payload |-> p, pc |-> "preparing"]
      BY <1>1, <2>2, <2>5, <3>1 DEF DrainedAs
    <3>3. l \in [payload : Payload, current : BOOLEAN] /\ l.payload = p
      BY <2>3, <3>1
    <3>4. /\ k \in Hook /\ k.mounted = hook.mounted /\ k.used = hook.used
          /\ k.stale = hook.stale /\ k.shown = hook.shown /\ k.timer = hook.timer
          /\ k.rejections = hook.rejections /\ k.waiting = hook.waiting /\ k.last = l
      BY <3>2, <3>3, HookFields DEF Hook
    <3>5. next \in Attempt /\ next.hook = h /\ next.payload = p /\ next.pc = "preparing"
      BY <2>3, <3>2 DEF Attempt
    <3>6. next # now
      BY <2>5, <3>5, ComposerAssumption DEF Leased
    <3>7. ~Exhausted(k, next.payload)
      BY <2>1, <2>2, <3>4, <3>5 DEF Exhausted
    <3> QED
      BY <2>1, <2>2, <2>5, <3>3, <3>4, <3>5, <3>6, <3>7 DEF DrainSound
  <2> QED
    BY <2>4, <2>5
<1>2. CASE ~Tries(h, hook, r, Ready(c, s), now)
  BY <1>2 DEF DrainedAs, DrainSound
<1> QED
  BY <1>1, <1>2

\* A hook and the attempt, after one drain or none.
LEMMA TryDrainFacts ==
  ASSUME hooks \in [Hooks -> Hook], NEW h \in Hooks, NEW hook, TryDrain(h, hook)
  PROVE  \E k, next :
           /\ DrainedAs(h, hook, First(queue), chat, stopping, attempt, background, k, next)
           /\ hooks' = [hooks EXCEPT ![h] = k] /\ attempt' = next
<1>1. PICK d : d = Drained(h, hook, First(queue), Ready(chat, stopping), attempt, background)
  OBVIOUS
<1>2. hooks' = [hooks EXCEPT ![h] = d.hook] /\ attempt' = d.attempt
  BY <1>1 DEF TryDrain
<1>3. DrainedAs(h, hook, First(queue), chat, stopping, attempt, background, d.hook, d.attempt)
  BY <1>1 DEF Drained, DrainedAs
<1> QED
  BY <1>2, <1>3

\* What a write does to the view and to its attempt.
ViewWrote(v, q, c, s, table, a, b, d, k, next) ==
  \E base \in Hook :
    /\ SubscribedAs(table[v], c, s, First(queue), First(q), base)
    /\ IF v # d /\ (IdleEdge(c, s) \/ HeadEdge(First(queue), First(q)))
       THEN DrainedAs(v, base, First(q), c, s, a, b, k, next)
       ELSE k = base /\ next = a

OneView == \A g, h \in Mounted : g = h

LEMMA WriteView ==
  ASSUME OneView, NEW q, NEW c, NEW s, NEW table \in [Hooks -> Hook], NEW a, NEW b, NEW d,
         Write(q, c, s, table, a, b, d)
  PROVE  \/ ~Open /\ hooks' = table /\ attempt' = a
         \/ \E v \in Mounted : \E k, next :
              /\ ViewWrote(v, q, c, s, table, a, b, d, k, next)
              /\ hooks' = [table EXCEPT ![v] = k] /\ attempt' = next
<1>1. CASE ~Open
  BY <1>1 DEF Write
<1>2. CASE Open
  <2>1. PICK v : v = CHOOSE h \in Hooks : Open => h \in Mounted
    OBVIOUS
  <2>2. v \in Mounted /\ v \in Hooks
    <3>1. \E h \in Hooks : Open => h \in Mounted
      BY <1>2 DEF Open, Mounted
    <3>2. v \in Hooks /\ (Open => v \in Mounted)
      BY <2>1, <3>1
    <3> QED
      BY <1>2, <3>2
  <2>3. PICK base : base = Subscribed(table[v], c, s, First(queue), First(q))
    OBVIOUS
  <2>4. base \in Hook /\ SubscribedAs(table[v], c, s, First(queue), First(q), base)
    <3>1. table[v] \in Hook
      BY <2>2
    <3>2. PICK t, old, new : t = table[v] /\ old = First(queue) /\ new = First(q)
      OBVIOUS
    <3>3. t \in Hook /\ base = Subscribed(t, c, s, old, new)
      BY <2>3, <3>1, <3>2
    <3>4. SubscribedAs(t, c, s, old, new, base)
      BY <3>3, SubscribedFacts, Zenon
    <3> QED
      BY <3>2, <3>4 DEF SubscribedAs, Softened
  <2>5. PICK fg : fg = IF v # d /\ (IdleEdge(c, s) \/ HeadEdge(First(queue), First(q)))
                       THEN Drained(v, base, First(q), Ready(c, s), a, b)
                       ELSE [hook |-> base, attempt |-> a]
    OBVIOUS
  <2>6. hooks' = [table EXCEPT ![v] = fg.hook] /\ attempt' = fg.attempt
    BY <1>2, <2>1, <2>3, <2>5 DEF Write
  <2>7. ViewWrote(v, q, c, s, table, a, b, d, fg.hook, fg.attempt)
    <3>1. CASE v # d /\ (IdleEdge(c, s) \/ HeadEdge(First(queue), First(q)))
      <4>1. fg = Drained(v, base, First(q), Ready(c, s), a, b)
        BY <2>5, <3>1
      <4>2. DrainedAs(v, base, First(q), c, s, a, b, fg.hook, fg.attempt)
        BY <4>1 DEF Drained, DrainedAs
      <4> QED
        BY <2>4, <3>1, <4>2 DEF ViewWrote
    <3>2. CASE ~(v # d /\ (IdleEdge(c, s) \/ HeadEdge(First(queue), First(q))))
      BY <2>4, <2>5, <3>2 DEF ViewWrote
    <3> QED
      BY <3>1, <3>2
  <2> QED
    BY <2>2, <2>6, <2>7
<1> QED
  BY <1>1, <1>2

ViewSound(v, q, c, s, table, a, b, k, next) ==
  /\ k \in Hook /\ next \in Attempt \cup {None}
  /\ k.mounted = table[v].mounted /\ k.used = table[v].used
  /\ k.shown = table[v].shown
  /\ k.stale <=> table[v].stale \/ First(queue) # First(q)
  /\ k.timer \in {table[v].timer, None}
  /\ k.rejections \in {table[v].rejections, None}
  /\ next # a => /\ next \in Attempt /\ next.hook = v
                 /\ Ready(c, s) /\ ~Leased(a, b)
                 /\ ForegroundClaims(First(q)) /\ next.payload = PayloadOf(First(q))
                 /\ ~Exhausted(k, next.payload)

LEMMA ViewWroteTypes ==
  ASSUME NEW v \in Hooks, NEW q \in Seq(Record), NEW c, NEW s,
         NEW table \in [Hooks -> Hook], NEW a \in Attempt \cup {None}, NEW b, NEW d, NEW k,
         NEW next, ViewWrote(v, q, c, s, table, a, b, d, k, next)
  PROVE  ViewSound(v, q, c, s, table, a, b, k, next)
<1>1. PICK base \in Hook :
        /\ SubscribedAs(table[v], c, s, First(queue), First(q), base)
        /\ IF v # d /\ (IdleEdge(c, s) \/ HeadEdge(First(queue), First(q)))
           THEN DrainedAs(v, base, First(q), c, s, a, b, k, next)
           ELSE k = base /\ next = a
  BY DEF ViewWrote
<1>2. /\ base.mounted = table[v].mounted /\ base.used = table[v].used
      /\ base.shown = table[v].shown
      /\ base.stale <=> table[v].stale \/ First(queue) # First(q)
      /\ base.timer \in {table[v].timer, None}
      /\ base.rejections \in {table[v].rejections, None}
  BY <1>1 DEF SubscribedAs, Softened
<1>3. CASE v # d /\ (IdleEdge(c, s) \/ HeadEdge(First(queue), First(q)))
  <2>1. DrainedAs(v, base, First(q), c, s, a, b, k, next)
    BY <1>1, <1>3
  <2>2. First(q) \in Record \cup {None}
    BY FirstFacts
  <2>3. PICK r : r = First(q)
    OBVIOUS
  <2>4. DrainSound(v, base, r, c, s, a, b, k, next)
    <3>1. r \in Record \cup {None} /\ DrainedAs(v, base, r, c, s, a, b, k, next)
      BY <2>1, <2>2, <2>3
    <3> QED
      BY <3>1, DrainedTypes, Zenon
  <2> QED
    BY <1>2, <2>3, <2>4 DEF DrainSound, ViewSound
<1>4. CASE ~(v # d /\ (IdleEdge(c, s) \/ HeadEdge(First(queue), First(q))))
  BY <1>1, <1>2, <1>4 DEF ViewSound
<1> QED
  BY <1>3, <1>4

\* What the background drain does.
BackgroundDrainedAs(r, c, s, open, excluded, a, b, w, k, next) ==
  LET tries == BackgroundClaims(r, open, excluded) /\ Ready(c, s) /\ b = None /\ w = None IN
  \/ ~tries /\ k = b /\ next = w
  \/ tries /\ Leased(a, b) /\ k = b /\ next = PayloadOf(r)
  \/ tries /\ ~Leased(a, b) /\ k = Background(r) /\ next = w

BackgroundSound(r, c, s, open, excluded, a, b, w, k, next) ==
  /\ k \in BackgroundAttempt \cup {None} /\ next \in Payload \cup {None}
  /\ w # None => next # None
  /\ next # w => Leased(a, b)
  /\ k # b => /\ k # None /\ k = Background(r) /\ k.pc = "sending" /\ k.payload = PayloadOf(r)
              /\ b = None
              /\ BackgroundClaims(r, open, excluded) /\ Ready(c, s) /\ ~Leased(a, b)
  /\ BackgroundClaims(r, open, excluded) /\ Ready(c, s) => k # None \/ next # None

LEMMA BackgroundDrainedTypes ==
  ASSUME NEW r \in Record \cup {None}, NEW c, NEW s, NEW open, NEW excluded, NEW a,
         NEW b \in BackgroundAttempt \cup {None}, NEW w \in Payload \cup {None},
         NEW k, NEW next, BackgroundDrainedAs(r, c, s, open, excluded, a, b, w, k, next)
  PROVE  BackgroundSound(r, c, s, open, excluded, a, b, w, k, next)
<1> DEFINE tries == BackgroundClaims(r, open, excluded) /\ Ready(c, s) /\ b = None /\ w = None
<1>1. CASE ~tries
  BY <1>1 DEF BackgroundDrainedAs, BackgroundSound
<1>2. CASE tries
  <2>1. r \in Record
    BY <1>2 DEF BackgroundClaims, Attemptable
  <2>2. PayloadOf(r) \in Payload /\ PayloadOf(r) # None
    BY <2>1, PayloadFacts
  <2>3. /\ Background(r) \in BackgroundAttempt /\ Background(r).pc = "sending"
        /\ Background(r).payload = PayloadOf(r)
    BY <2>2 DEF Background, BackgroundAttempt
  <2>4. Background(r) # None
    BY <2>3, ComposerAssumption
  <2> QED
    BY <1>2, <2>2, <2>3, <2>4 DEF BackgroundDrainedAs, BackgroundSound
<1> QED
  BY <1>1, <1>2

LEMMA DrainBackgroundFacts ==
  ASSUME NEW open, NEW excluded, NEW a, NEW b, NEW w, DrainBackground(open, excluded, a, b, w)
  PROVE  BackgroundDrainedAs(First(queue), chat, stopping, open, excluded, a, b, w,
                             background', waiter')
<1>1. PICK d : d = BackgroundDrained(First(queue), Ready(chat, stopping), open, excluded, a, b, w)
  OBVIOUS
<1>2. background' = d.attempt /\ waiter' = d.waiter
  BY <1>1 DEF DrainBackground
<1>3. BackgroundDrainedAs(First(queue), chat, stopping, open, excluded, a, b, w,
                          d.attempt, d.waiter)
  BY <1>1 DEF BackgroundDrained, BackgroundDrainedAs
<1> QED
  BY <1>2, <1>3

BackgroundWrote(q, c, s, a, b) ==
  /\ exclusions' = IF Open THEN exclusions ELSE Noted(q)
  /\ \E own \in BackgroundAttempt \cup {None}, kept \in Payload \cup {None} :
       /\ b = None <=> own = None
       /\ b # None => own.pc = b.pc /\ own.payload = b.payload
       /\ kept = IF First(queue) = First(q) THEN waiter ELSE None
       /\ IF First(queue) # First(q) \/ ~Ready(chat, stopping)
          THEN BackgroundDrainedAs(First(q), c, s, Open, exclusions', a, own, kept,
                                   background', waiter')
          ELSE background' = own /\ waiter' = kept

LEMMA WriteBackground ==
  ASSUME NEW q, NEW c, NEW s, NEW table, NEW a, NEW b \in BackgroundAttempt \cup {None}, NEW d,
         waiter \in Payload \cup {None}, Write(q, c, s, table, a, b, d)
  PROVE  BackgroundWrote(q, c, s, a, b)
<1>1. exclusions' = IF Open THEN exclusions ELSE Noted(q)
  BY DEF Write
<1>2. PICK flag : flag = (b.same /\ First(queue) = First(q))
  OBVIOUS
<1>3. PICK own : own = IF b = None THEN None ELSE [b EXCEPT !.same = flag]
  OBVIOUS
<1>4. /\ own \in BackgroundAttempt \cup {None} /\ (b = None <=> own = None)
      /\ b # None => own.pc = b.pc /\ own.payload = b.payload
  <2>1. CASE b = None
    BY <1>3, <2>1
  <2>2. CASE b # None
    <3>1. b \in BackgroundAttempt /\ flag \in BOOLEAN /\ own = [b EXCEPT !.same = flag]
      BY <1>2, <1>3, <2>2
    <3>2. own \in BackgroundAttempt /\ own.pc = b.pc /\ own.payload = b.payload
      BY <3>1 DEF BackgroundAttempt
    <3> QED
      BY <2>2, <3>2, ComposerAssumption
  <2> QED
    BY <2>1, <2>2
<1>5. PICK kept : kept = IF First(queue) = First(q) THEN waiter ELSE None
  OBVIOUS
<1>6. kept \in Payload \cup {None}
  BY <1>5
<1>7. PICK bg : bg = IF First(queue) # First(q) \/ ~Ready(chat, stopping)
                     THEN BackgroundDrained(First(q), Ready(c, s), Open, exclusions', a, own, kept)
                     ELSE [attempt |-> own, waiter |-> kept]
  OBVIOUS
<1>8. background' = bg.attempt /\ waiter' = bg.waiter
  BY <1>1, <1>2, <1>3, <1>5, <1>7 DEF Write
<1>9. CASE First(queue) # First(q) \/ ~Ready(chat, stopping)
  <2>1. bg = BackgroundDrained(First(q), Ready(c, s), Open, exclusions', a, own, kept)
    BY <1>7, <1>9
  <2>2. PICK excluded : excluded = exclusions'
    OBVIOUS
  <2>3. BackgroundDrainedAs(First(q), c, s, Open, excluded, a, own, kept, bg.attempt, bg.waiter)
    BY <2>1, <2>2 DEF BackgroundDrained, BackgroundDrainedAs
  <2>4. BackgroundDrainedAs(First(q), c, s, Open, exclusions', a, own, kept,
                            background', waiter')
    BY <1>8, <2>2, <2>3
  <2> QED
    BY <1>1, <1>4, <1>5, <1>6, <1>9, <2>4 DEF BackgroundWrote
<1>10. CASE ~(First(queue) # First(q) \/ ~Ready(chat, stopping))
  BY <1>1, <1>4, <1>5, <1>6, <1>7, <1>8, <1>10 DEF BackgroundWrote
<1> QED
  BY <1>9, <1>10

\* What comes of the background attempt and of its waiter.
BackgroundKept(q, c, s, a, b) ==
  /\ background' \in BackgroundAttempt \cup {None} /\ waiter' \in Payload \cup {None}
  /\ b # None => /\ background' # None /\ background'.pc = b.pc
                 /\ background'.payload = b.payload
  /\ b = None /\ background' # None =>
       /\ background'.pc = "sending" /\ background'.payload = PayloadOf(First(q))
       /\ BackgroundClaims(First(q), Open, exclusions') /\ Ready(c, s) /\ ~Leased(a, b)
  /\ waiter' # None => waiter' = waiter \/ Leased(a, b)
  /\ BackgroundClaims(First(q), Open, exclusions') /\ Ready(c, s) =>
       \/ background' # None \/ waiter' # None
       \/ First(queue) = First(q) /\ Ready(chat, stopping) /\ waiter' = waiter

LEMMA WriteKeepsBackground ==
  ASSUME NEW q \in Seq(Record), NEW c, NEW s, NEW a,
         NEW b \in BackgroundAttempt \cup {None}, BackgroundWrote(q, c, s, a, b)
  PROVE  BackgroundKept(q, c, s, a, b)
<1>1. PICK own \in BackgroundAttempt \cup {None}, kept \in Payload \cup {None} :
        /\ b = None <=> own = None
        /\ b # None => own.pc = b.pc /\ own.payload = b.payload
        /\ kept = IF First(queue) = First(q) THEN waiter ELSE None
        /\ IF First(queue) # First(q) \/ ~Ready(chat, stopping)
           THEN BackgroundDrainedAs(First(q), c, s, Open, exclusions', a, own, kept,
                                    background', waiter')
           ELSE background' = own /\ waiter' = kept
  BY DEF BackgroundWrote
<1>2. Leased(a, own) <=> Leased(a, b)
  BY <1>1 DEF Leased
<1>3. CASE First(queue) # First(q) \/ ~Ready(chat, stopping)
  <2>1. PICK r, excluded, open, k, next :
          /\ r = First(q) /\ excluded = exclusions' /\ open = Open
          /\ k = background' /\ next = waiter'
    OBVIOUS
  <2>2. r \in Record \cup {None}
        /\ BackgroundDrainedAs(r, c, s, open, excluded, a, own, kept, k, next)
    BY <1>1, <1>3, <2>1, FirstFacts
  <2>3. BackgroundSound(r, c, s, open, excluded, a, own, kept, k, next)
    BY <2>2, BackgroundDrainedTypes, Zenon
  <2> QED
    BY <1>1, <1>2, <2>1, <2>3 DEF BackgroundSound, BackgroundKept
<1>4. CASE ~(First(queue) # First(q) \/ ~Ready(chat, stopping))
  BY <1>1, <1>4 DEF BackgroundKept
<1> QED
  BY <1>3, <1>4

-----------------------------------------------------------------------------
(* Types, and who holds the lease *)

\* One holds the lease at a time; no turn runs in a session that is ready, and
\* what the mounted chat sends can still be rejected.
LeaseOK(table, a, b, held, running, c, s) ==
  /\ a # None => /\ ~held /\ ~BackgroundHolds(b) /\ running = "none"
                 /\ ~Exhausted(table[a.hook], a.payload)
  /\ held => ~BackgroundHolds(b)
  /\ running # "none" => ~Ready(c, s)
  /\ running = "background" => b # None /\ b.pc = "running"

LeaseInv == LeaseOK(hooks, attempt, background, other, turn, chat, stopping)

\* The background attempt is over, or fails, as long as the task that ends it waits.
Ends == {"parkHead", "drainAgain"}
TaskOK(tasks, b) ==
  /\ \A i, j \in DOMAIN tasks : tasks[i] \in Ends /\ tasks[j] \in Ends => i = j
  /\ \A i \in DOMAIN tasks :
       /\ tasks[i] = "parkHead" => b # None /\ b.pc = "failing"
       /\ tasks[i] = "drainAgain" => b # None /\ b.pc = "done"

TaskInv == TaskOK(microtasks, background)

TypeInv == TypeOK /\ OneView /\ LeaseInv /\ TaskInv

\* What a write leaves, as long as what it is given is well typed.
Wrote(q, c, s, table, a, b, running) ==
  /\ queue' = q /\ chat' = c /\ stopping' = s
  /\ hooks' \in [Hooks -> Hook] /\ attempt' \in Attempt \cup {None}
  /\ background' \in BackgroundAttempt \cup {None} /\ waiter' \in Payload \cup {None}
  /\ exclusions' \in SUBSET Messages
  /\ \A h \in Hooks : /\ hooks'[h].mounted = table[h].mounted
                      /\ hooks'[h].used = table[h].used
  /\ b # None => background' # None /\ background'.pc = b.pc
  /\ LeaseOK(hooks', attempt', background', other, running, c, s)

LEMMA NotedTypes ==
  ASSUME exclusions \in SUBSET Messages, NEW q \in Seq(Record)
  PROVE  Noted(q) \in SUBSET Messages
<1>1. \A i \in DOMAIN q : q[i] \in Record
  BY ElementOfSeq, LenProperties
<1>2. \A i \in DOMAIN q : q[i].id \in Messages
  BY <1>1 DEF Record
<1> QED
  BY <1>2 DEF Noted

LEMMA WriteTyped ==
  ASSUME TypeOK, OneView, NEW q \in Seq(Record), NEW c, NEW s,
         NEW table \in [Hooks -> Hook], NEW a \in Attempt \cup {None},
         NEW b \in BackgroundAttempt \cup {None}, NEW d, NEW running,
         LeaseOK(table, a, b, other, running, c, s), Write(q, c, s, table, a, b, d)
  PROVE  Wrote(q, c, s, table, a, b, running)
<1>1. queue' = q /\ chat' = c /\ stopping' = s
  BY DEF Write
<1>2. BackgroundKept(q, c, s, a, b) /\ exclusions' = IF Open THEN exclusions ELSE Noted(q)
  <2>1. waiter \in Payload \cup {None}
    BY DEF TypeOK
  <2>2. BackgroundWrote(q, c, s, a, b)
    BY <2>1, WriteBackground, Zenon
  <2> QED
    BY <2>2, WriteKeepsBackground DEF BackgroundWrote
<1>3. /\ background' \in BackgroundAttempt \cup {None} /\ waiter' \in Payload \cup {None}
      /\ b # None => background' # None /\ background'.pc = b.pc
      /\ b = None /\ background' # None =>
           BackgroundClaims(First(q), Open, exclusions') /\ ~Leased(a, b)
  BY <1>2 DEF BackgroundKept
<1>4. exclusions' \in SUBSET Messages
  BY <1>2, NotedTypes DEF TypeOK
<1>5. \/ ~Open /\ hooks' = table /\ attempt' = a
      \/ \E v \in Mounted : \E k, next :
           /\ ViewWrote(v, q, c, s, table, a, b, d, k, next)
           /\ hooks' = [table EXCEPT ![v] = k] /\ attempt' = next
  BY WriteView
<1>6. CASE hooks' = table /\ attempt' = a
  <2>1. a # None => ~BackgroundHolds(background')
    BY <1>3 DEF LeaseOK, BackgroundHolds, Leased
  <2>2. other => ~BackgroundHolds(background')
    BY <1>3 DEF LeaseOK, BackgroundHolds, Leased
  <2>3. LeaseOK(hooks', attempt', background', other, running, c, s)
    BY <1>3, <1>6, <2>1, <2>2 DEF LeaseOK
  <2> QED
    BY <1>1, <1>3, <1>4, <1>6, <2>3 DEF Wrote
<1>7. CASE \E v \in Mounted : \E k, next :
             /\ ViewWrote(v, q, c, s, table, a, b, d, k, next)
             /\ hooks' = [table EXCEPT ![v] = k] /\ attempt' = next
  <2>1. PICK v \in Mounted : \E k, next :
             /\ ViewWrote(v, q, c, s, table, a, b, d, k, next)
             /\ hooks' = [table EXCEPT ![v] = k] /\ attempt' = next
    BY <1>7
  <2>2. PICK k, next : /\ ViewWrote(v, q, c, s, table, a, b, d, k, next)
                       /\ hooks' = [table EXCEPT ![v] = k] /\ attempt' = next
    BY <2>1
  <2>3. v \in Hooks /\ Open
    BY DEF Mounted, Open
  <2>4. /\ k \in Hook /\ next \in Attempt \cup {None}
        /\ k.mounted = table[v].mounted /\ k.used = table[v].used
        /\ k.rejections \in {table[v].rejections, None}
        /\ next # a => /\ next \in Attempt /\ next.hook = v
                       /\ Ready(c, s) /\ ~Leased(a, b)
                       /\ ForegroundClaims(First(q)) /\ next.payload = PayloadOf(First(q))
                       /\ ~Exhausted(k, next.payload)
    <3>1. ViewSound(v, q, c, s, table, a, b, k, next)
      BY <2>2, <2>3, ViewWroteTypes, Zenon
    <3> QED
      BY <3>1 DEF ViewSound
  <2>5. /\ hooks' \in [Hooks -> Hook] /\ attempt' \in Attempt \cup {None}
        /\ \A h \in Hooks : hooks'[h].mounted = table[h].mounted /\ hooks'[h].used = table[h].used
        /\ hooks'[v] = k /\ \A h \in Hooks : h # v => hooks'[h] = table[h]
    BY <2>2, <2>3, <2>4
  <2>6. other => ~BackgroundHolds(background')
    BY <1>3 DEF LeaseOK, BackgroundHolds, Leased
  <2>7. attempt' # None => /\ ~other /\ ~BackgroundHolds(background') /\ running = "none"
                           /\ ~Exhausted(hooks'[attempt'.hook], attempt'.payload)
    <3>1. CASE next = a
      <4>1. a # None => a.hook \in Hooks
        BY DEF Attempt
      <4>2. a # None => ~Exhausted(hooks'[a.hook], a.payload)
        BY <2>4, <2>5, <4>1 DEF LeaseOK, Exhausted
      <4>3. a # None => ~BackgroundHolds(background')
        BY <1>3 DEF LeaseOK, BackgroundHolds, Leased
      <4> QED
        BY <2>2, <3>1, <4>2, <4>3 DEF LeaseOK
    <3>2. CASE next # a
      <4>1. ~BackgroundHolds(background')
        <5>1. ~BackgroundHolds(b)
          BY <2>4, <3>2 DEF Leased, BackgroundHolds
        <5>2. ~(b = None /\ background' # None)
          BY <1>3, <2>3, <2>4, <3>2 DEF BackgroundClaims, ForegroundClaims
        <5> QED
          BY <1>3, <5>1, <5>2 DEF BackgroundHolds
      <4>2. running = "none"
        BY <2>4, <3>2 DEF LeaseOK
      <4> QED
        BY <2>2, <2>4, <2>5, <3>2, <4>1, <4>2 DEF Leased
    <3> QED
      BY <3>1, <3>2
  <2>8. LeaseOK(hooks', attempt', background', other, running, c, s)
    BY <1>3, <2>6, <2>7 DEF LeaseOK
  <2> QED
    BY <1>1, <1>3, <1>4, <2>5, <2>8 DEF Wrote
<1> QED
  BY <1>5, <1>6, <1>7

LEMMA AfterWrite ==
  ASSUME TypeInv, NEW q \in Seq(Record), NEW c \in {"idle", "busy"}, NEW s \in BOOLEAN,
         NEW table \in [Hooks -> Hook], NEW a \in Attempt \cup {None},
         NEW b \in BackgroundAttempt \cup {None}, NEW d,
         NEW running \in {"none", "foreground", "background"},
         \A h \in Hooks : table[h].mounted = hooks[h].mounted,
         LeaseOK(table, a, b, other, running, c, s), Write(q, c, s, table, a, b, d),
         turn' = running, other' = other, accepted' \in 0..MaxMessages,
         removed' \in SUBSET Messages, turns' \in Seq(Payload), steers' \in Seq(Steer),
         microtasks' \in Seq(Hooks \cup Tasks), TaskOK(microtasks', b)
  PROVE  TypeInv'
<1>1. Wrote(q, c, s, table, a, b, running)
  <2>1. TypeOK /\ OneView
    BY DEF TypeInv
  <2> QED
    BY <2>1, WriteTyped, Zenon
<1>2. TypeOK'
  <2>1. other' \in BOOLEAN
    BY DEF TypeInv, TypeOK
  <2> QED
    BY <1>1, <2>1 DEF TypeOK, Wrote
<1>3. OneView'
  BY <1>1 DEF TypeInv, Wrote, OneView, Mounted
<1>4. LeaseInv'
  BY <1>1 DEF Wrote, LeaseInv
<1>5. TaskInv'
  BY <1>1 DEF Wrote, TaskInv, TaskOK
<1> QED
  BY <1>2, <1>3, <1>4, <1>5 DEF TypeInv

\* Only the queue is written.
LEMMA AfterWriteQueue ==
  ASSUME TypeInv, NEW q \in Seq(Record), NEW d,
         Write(q, chat, stopping, hooks, attempt, background, d),
         UNCHANGED <<turn, other, microtasks>>, accepted' \in 0..MaxMessages,
         removed' \in SUBSET Messages, turns' \in Seq(Payload), steers' \in Seq(Steer)
  PROVE  TypeInv'
<1>1. PICK c, s, table, a, b, running :
        /\ c = chat /\ s = stopping /\ table = hooks /\ a = attempt /\ b = background
        /\ running = turn
  OBVIOUS
<1>2. /\ c \in {"idle", "busy"} /\ s \in BOOLEAN /\ table \in [Hooks -> Hook]
      /\ a \in Attempt \cup {None} /\ b \in BackgroundAttempt \cup {None}
      /\ running \in {"none", "foreground", "background"}
      /\ microtasks' \in Seq(Hooks \cup Tasks)
  BY <1>1 DEF TypeInv, TypeOK
<1>3. /\ \A h \in Hooks : table[h].mounted = hooks[h].mounted
      /\ LeaseOK(table, a, b, other, running, c, s) /\ TaskOK(microtasks', b)
      /\ Write(q, c, s, table, a, b, d) /\ turn' = running /\ other' = other
  BY <1>1 DEF TypeInv, LeaseInv, TaskInv
<1> QED
  BY <1>2, <1>3, AfterWrite, Zenon

\* Only the state of the session is written, and the turn and attempts with it.
LEMMA AfterWriteChat ==
  ASSUME TypeInv, NEW c \in {"idle", "busy"}, NEW s \in BOOLEAN,
         NEW a \in Attempt \cup {None}, NEW b \in BackgroundAttempt \cup {None},
         NEW running \in {"none", "foreground", "background"},
         LeaseOK(hooks, a, b, other, running, c, s),
         Write(queue, c, s, hooks, a, b, None), turn' = running,
         TaskOK(microtasks', b), UNCHANGED <<history, other, steers, microtasks>>
  PROVE  TypeInv'
<1>1. PICK q, table, d : q = queue /\ table = hooks /\ d = None
  OBVIOUS
<1>2. /\ q \in Seq(Record) /\ table \in [Hooks -> Hook]
      /\ microtasks' \in Seq(Hooks \cup Tasks) /\ accepted' \in 0..MaxMessages
      /\ removed' \in SUBSET Messages /\ turns' \in Seq(Payload) /\ steers' \in Seq(Steer)
  BY <1>1 DEF TypeInv, TypeOK, history
<1>3. /\ \A h \in Hooks : table[h].mounted = hooks[h].mounted
      /\ LeaseOK(table, a, b, other, running, c, s) /\ other' = other
      /\ Write(q, c, s, table, a, b, d)
  BY <1>1
<1> QED
  BY <1>2, <1>3, AfterWrite, Zenon

LEMMA QueueTypes ==
  ASSUME TypeInv
  PROVE  /\ queue \in Seq(Record) /\ DOMAIN queue = 1 .. Len(queue) /\ Len(queue) \in Nat
         /\ \A i \in DOMAIN queue : queue[i] \in Record
         /\ queue # <<>> => Head(queue) \in Record /\ Tail(queue) \in Seq(Record)
                            /\ Head(queue) = queue[1] /\ 1 \in DOMAIN queue
         /\ First(queue) \in Record \cup {None}
<1>1. queue \in Seq(Record)
  BY DEF TypeInv, TypeOK
<1>2. queue # <<>> => Head(queue) \in Record /\ Tail(queue) \in Seq(Record)
                      /\ Head(queue) = queue[1] /\ 1 \in DOMAIN queue
  BY <1>1, TailFacts
<1> QED
  BY <1>1, <1>2, FirstFacts, ElementOfSeq, LenProperties

LEMMA AcceptTyped ==
  ASSUME TypeInv, NEW kind \in {"ready", "preparing"}, accepted < MaxMessages,
         accepted' = accepted + 1,
         WriteQueue(Append(queue, NewRecord(accepted + 1, kind, FALSE))),
         UNCHANGED <<removed, turns, turn, other, steers, microtasks>>
  PROVE  TypeInv'
<1>1. accepted \in Nat /\ accepted + 1 \in 1..MaxMessages /\ 0 \in 0..MaxEdits
      /\ accepted + 1 \in 0..MaxMessages
  BY ComposerAssumption DEF TypeInv, TypeOK
<1>2. PICK r : r = NewRecord(accepted + 1, kind, FALSE)
  OBVIOUS
<1>3. r \in Record
  BY <1>1, <1>2 DEF NewRecord, Record, Messages
<1>4. Append(queue, r) \in Seq(Record)
  BY <1>3, QueueTypes, AppendFacts
<1>5. PICK q, d : q = Append(queue, r) /\ d = None
  OBVIOUS
<1>6. Write(q, chat, stopping, hooks, attempt, background, d)
  BY <1>2, <1>5 DEF WriteQueue
<1>7. /\ q \in Seq(Record) /\ accepted' \in 0..MaxMessages /\ removed' \in SUBSET Messages
      /\ turns' \in Seq(Payload) /\ steers' \in Seq(Steer)
      /\ UNCHANGED <<turn, other, microtasks>>
  BY <1>1, <1>4, <1>5 DEF TypeInv, TypeOK
<1> QED
  BY <1>6, <1>7, AfterWriteQueue, Zenon

LEMMA ReplaceTyped ==
  ASSUME TypeInv, NEW i \in DOMAIN queue, NEW r \in Record, ReplaceRecord(i, r)
  PROVE  TypeInv'
<1>1. PICK q, d : q = [queue EXCEPT ![i] = r] /\ d = None
  OBVIOUS
<1>2. q \in Seq(Record)
  BY <1>1, QueueTypes, ExceptSeq
<1>3. Write(q, chat, stopping, hooks, attempt, background, d)
  BY <1>1 DEF ReplaceRecord, WriteQueue
<1>4. /\ accepted' \in 0..MaxMessages /\ removed' \in SUBSET Messages
      /\ turns' \in Seq(Payload) /\ steers' \in Seq(Steer)
      /\ UNCHANGED <<turn, other, microtasks>>
  BY DEF TypeInv, TypeOK, ReplaceRecord, history
<1> QED
  BY <1>2, <1>3, <1>4, AfterWriteQueue, Zenon

\* What the composer makes of a record.
LEMMA RecordTypes ==
  ASSUME NEW r \in Record
  PROVE  /\ Released(r) \in Record /\ Released(r).id = r.id /\ Released(r).rev = r.rev
         /\ Released(r).kind = "ready" /\ Released(r).released = TRUE
         /\ Released(r).editing = r.editing /\ Released(r).restored = FALSE
         /\ Parked(r) \in Record /\ Parked(r).id = r.id /\ Parked(r).rev = r.rev
         /\ Parked(r).kind = "failed" /\ Parked(r).editing = r.editing
         /\ [r EXCEPT !.kind = "failed"] \in Record
         /\ [r EXCEPT !.editing = TRUE] \in Record /\ [r EXCEPT !.editing = FALSE] \in Record
         /\ [r EXCEPT !.restored = FALSE] \in Record
         /\ r.rev < MaxEdits => [r EXCEPT !.rev = @ + 1, !.editing = FALSE] \in Record
<1>1. r.rev < MaxEdits => r.rev + 1 \in 0..MaxEdits
  BY ComposerAssumption DEF Record
<1>2. PICK n : n = r.rev + 1
  OBVIOUS
<1>3. r.rev < MaxEdits => [r EXCEPT !.rev = n, !.editing = FALSE] \in Record
  BY <1>1, <1>2 DEF Record
<1> QED
  BY <1>2, <1>3 DEF Released, Parked, Record

LEMMA EditTyped ==
  ASSUME TypeInv, NEW i \in DOMAIN queue, Edit(i)
  PROVE  TypeInv'
<1>1. PICK r : r = queue[i]
  OBVIOUS
<1>2. r \in Record
  BY <1>1, QueueTypes
<1>3. CASE Release(i) \/ FailDeferred(i) \/ BeginEditing(i) \/ CancelEditing(i)
  <2>1. \E e \in Record : ReplaceRecord(i, e)
    BY <1>1, <1>2, <1>3, RecordTypes DEF Release, FailDeferred, BeginEditing, CancelEditing
  <2> QED
    BY <2>1, ReplaceTyped
<1>4. CASE Save(i)
  <2>1. PICK e : e = [r EXCEPT !.rev = @ + 1, !.editing = FALSE]
    OBVIOUS
  <2>2. e \in Record /\ Released(e) \in Record
    BY <1>1, <1>2, <1>4, <2>1, RecordTypes DEF Save
  <2>3. PICK f : f = IF e.kind = "failed" THEN Released(e) ELSE e
    OBVIOUS
  <2>4. f \in Record /\ ReplaceRecord(i, f)
    BY <1>1, <1>4, <2>1, <2>2, <2>3 DEF Save
  <2> QED
    BY <2>4, ReplaceTyped
<1>5. CASE Dismiss(i)
  <2>1. PICK h \in Mounted :
          Write(RemoveAt(queue, i), chat, stopping, hooks, attempt, background,
                Dismissing(h, queue[i].id))
    BY <1>5 DEF Dismiss
  <2>2. PICK q, d : q = RemoveAt(queue, i) /\ d = Dismissing(h, queue[i].id)
    OBVIOUS
  <2>3. q \in Seq(Record)
    BY <2>2, QueueTypes, RemoveAtFacts
  <2>4. Write(q, chat, stopping, hooks, attempt, background, d)
    BY <2>1, <2>2
  <2>5. removed' \in SUBSET Messages
    <3>1. r.id \in Messages /\ removed' = removed \cup {r.id} /\ removed \in SUBSET Messages
      BY <1>1, <1>2, <1>5 DEF Dismiss, Record, TypeInv, TypeOK
    <3> QED
      BY <3>1
  <2>6. /\ accepted' \in 0..MaxMessages
        /\ turns' \in Seq(Payload) /\ steers' \in Seq(Steer)
        /\ UNCHANGED <<turn, other, microtasks>>
    BY <1>5 DEF TypeInv, TypeOK, Dismiss
  <2> QED
    BY <2>3, <2>4, <2>5, <2>6, AfterWriteQueue, Zenon
<1> QED
  BY <1>3, <1>4, <1>5 DEF Edit

LoadedAs(q, e) ==
  /\ e \in Seq(Record) /\ Len(e) = Len(q) /\ DOMAIN e = DOMAIN q
  /\ \A i \in DOMAIN q : /\ e[i].id = q[i].id /\ e[i].rev = q[i].rev
                         /\ e[i].kind = q[i].kind /\ e[i].editing = q[i].editing
                         /\ e[i].released = q[i].released /\ e[i].restored = FALSE

\* A load of the session clears the restored flag of each record.
LEMMA LoadedFacts ==
  ASSUME NEW q \in Seq(Record), NEW e, e = [i \in DOMAIN q |-> [q[i] EXCEPT !.restored = FALSE]]
  PROVE  LoadedAs(q, e)
<1>1. /\ DOMAIN q = 1 .. Len(q) /\ Len(q) \in Nat
      /\ \A i \in DOMAIN q : q[i] \in Record
  BY LenProperties, ElementOfSeq
<1>2. \A i \in DOMAIN q : e[i] = [q[i] EXCEPT !.restored = FALSE]
  OBVIOUS
<1>3. \A i \in DOMAIN q : /\ e[i] \in Record /\ e[i].id = q[i].id /\ e[i].rev = q[i].rev
                          /\ e[i].kind = q[i].kind /\ e[i].editing = q[i].editing
                          /\ e[i].released = q[i].released /\ e[i].restored = FALSE
  BY <1>1, <1>2 DEF Record
<1>4. e \in Seq(Record) /\ DOMAIN e = DOMAIN q
  BY <1>1, <1>3, SeqDef
<1>5. Len(e) = Len(q)
  BY <1>1, <1>4, LenProperties
<1> QED
  BY <1>3, <1>4, <1>5 DEF LoadedAs

LEMMA LoadTyped ==
  ASSUME TypeInv, Load
  PROVE  TypeInv'
<1>1. PICK q, d :
        q = [i \in DOMAIN queue |-> [queue[i] EXCEPT !.restored = FALSE]] /\ d = None
  OBVIOUS
<1>2. q \in Seq(Record)
  BY <1>1, QueueTypes, LoadedFacts DEF LoadedAs
<1>3. Write(q, chat, stopping, hooks, attempt, background, d)
  BY <1>1 DEF Load, WriteQueue
<1>4. /\ accepted' \in 0..MaxMessages /\ removed' \in SUBSET Messages
      /\ turns' \in Seq(Payload) /\ steers' \in Seq(Steer)
      /\ UNCHANGED <<turn, other, microtasks>>
  BY DEF TypeInv, TypeOK, Load, history
<1> QED
  BY <1>2, <1>3, <1>4, AfterWriteQueue, Zenon

LEMMA WithoutFacts ==
  ASSUME NEW q \in Seq(Record), NEW id
  PROVE  \/ Without(q, id) = q /\ \A i \in DOMAIN q : q[i].id # id
         \/ \E i \in DOMAIN q : q[i].id = id /\ Without(q, id) = RemoveAt(q, i)
<1> DEFINE places == {i \in DOMAIN q : q[i].id = id}
<1>1. CASE places = {}
  BY <1>1 DEF Without
<1>2. CASE places # {}
  <2>1. PICK i : i = CHOOSE j \in places : TRUE
    OBVIOUS
  <2>2. i \in places
    BY <1>2, <2>1
  <2>3. Without(q, id) = RemoveAt(q, i)
    BY <1>2, <2>1 DEF Without
  <2> QED
    BY <2>2, <2>3
<1> QED
  BY <1>1, <1>2

LEMMA SteeredTyped ==
  ASSUME TypeInv, Steered
  PROVE  TypeInv'
<1>1. PICK id : id = Head(steers).payload.id
  OBVIOUS
<1>2. PICK q, d : q = Without(queue, id) /\ d = Dismissing(Head(steers).hook, id)
  OBVIOUS
<1>3. q \in Seq(Record)
  BY <1>2, QueueTypes, WithoutFacts, RemoveAtFacts
<1>4. Write(q, chat, stopping, hooks, attempt, background, d)
  BY <1>1, <1>2 DEF Steered
<1>5. turns' \in Seq(Payload) /\ steers' \in Seq(Steer)
  <2>1. steers \in Seq(Steer) /\ steers # <<>> /\ turns \in Seq(Payload)
        /\ steers' = Tail(steers) /\ turns' = Append(turns, Head(steers).payload)
    BY DEF Steered, TypeInv, TypeOK
  <2>2. steers' \in Seq(Steer) /\ Head(steers) \in Steer
    BY <2>1, TailFacts
  <2>3. PICK p : p = Head(steers).payload
    OBVIOUS
  <2>4. p \in Payload /\ turns' = Append(turns, p)
    BY <2>1, <2>2, <2>3 DEF Steer
  <2> QED
    BY <2>1, <2>2, <2>4, AppendFacts
<1>6. /\ accepted' \in 0..MaxMessages /\ removed' \in SUBSET Messages
      /\ UNCHANGED <<turn, other, microtasks>>
  BY DEF TypeInv, TypeOK, Steered
<1> QED
  BY <1>3, <1>4, <1>5, <1>6, AfterWriteQueue, Zenon

LEMMA CompactTyped ==
  ASSUME TypeInv, Compact \/ Compacted
  PROVE  TypeInv'
<1>1. attempt \in Attempt /\ background \in BackgroundAttempt \cup {None} /\ stopping \in BOOLEAN
      /\ attempt # None /\ turn \in {"none", "foreground", "background"}
  BY DEF Compact, Compacted, TypeInv, TypeOK
<1>2. PICK c, pc : /\ c \in {"idle", "busy"} /\ pc \in {"compacting", "compacted"}
                   /\ Write(queue, c, stopping, hooks, [attempt EXCEPT !.pc = pc], background,
                            None)
  BY DEF Compact, Compacted
<1>3. PICK a, b, s, running : /\ a = [attempt EXCEPT !.pc = pc] /\ b = background
                              /\ s = stopping /\ running = turn
  OBVIOUS
<1>4. a \in Attempt /\ a.hook = attempt.hook /\ a.payload = attempt.payload
  BY <1>1, <1>2, <1>3 DEF Attempt
<1>5. LeaseOK(hooks, a, b, other, running, c, s)
  BY <1>1, <1>3, <1>4 DEF TypeInv, LeaseInv, LeaseOK
<1>6. /\ b \in BackgroundAttempt \cup {None} /\ s \in BOOLEAN
      /\ running \in {"none", "foreground", "background"} /\ turn' = running
      /\ TaskOK(microtasks', b) /\ UNCHANGED <<history, other, steers, microtasks>>
      /\ Write(queue, c, s, hooks, a, b, None)
  BY <1>1, <1>2, <1>3 DEF Compact, Compacted, TypeInv, TaskInv
<1> QED
  BY <1>2, <1>4, <1>5, <1>6, AfterWriteChat, Zenon

LEMMA TurnEndsTyped ==
  ASSUME TypeInv, TurnEnds
  PROVE  TypeInv'
<1>1. PICK b : b = IF turn = "background" THEN [background EXCEPT !.pc = "settling"]
                   ELSE background
  OBVIOUS
<1>2. turn = "background" => background \in BackgroundAttempt /\ background.pc = "running"
  BY DEF TypeInv, TypeOK, LeaseInv, LeaseOK
<1>3. turn = "background" => b \in BackgroundAttempt /\ b # None
  BY <1>1, <1>2, ComposerAssumption DEF BackgroundAttempt
<1>4. b \in BackgroundAttempt \cup {None}
  BY <1>1, <1>3 DEF TypeInv, TypeOK
<1>5. BackgroundHolds(b) <=> BackgroundHolds(background)
  <2>1. CASE turn = "background"
    <3>1. b.pc = "settling"
      BY <1>1, <1>2, <2>1 DEF BackgroundAttempt
    <3> QED
      BY <1>2, <1>3, <2>1, <3>1, ComposerAssumption DEF BackgroundHolds
  <2>2. CASE turn # "background"
    BY <1>1, <2>2
  <2> QED
    BY <2>1, <2>2
<1>6. PICK a, running, c, s : /\ a = attempt /\ running = "none" /\ c = "idle" /\ s = FALSE
  OBVIOUS
<1>7. LeaseOK(hooks, a, b, other, running, c, s)
  BY <1>5, <1>6 DEF TypeInv, LeaseInv, LeaseOK
<1>8. /\ a \in Attempt \cup {None} /\ s \in BOOLEAN /\ c \in {"idle", "busy"}
      /\ running \in {"none", "foreground", "background"} /\ turn' = running
      /\ UNCHANGED <<history, other, steers, microtasks>>
      /\ Write(queue, c, s, hooks, a, b, None)
  BY <1>1, <1>6 DEF TurnEnds, TypeInv, TypeOK
<1>9. TaskOK(microtasks', b)
  <2>1. microtasks' = <<>>
    BY DEF TurnEnds, Quiet
  <2>2. DOMAIN microtasks' = {}
    BY <2>1
  <2> QED
    BY <2>2 DEF TaskOK
<1> QED
  BY <1>4, <1>7, <1>8, <1>9, AfterWriteChat, Zenon

LEMMA StopTyped ==
  ASSUME TypeInv, Stop
  PROVE  TypeInv'
<1>1. PICK a, b, running, c, s :
        a = attempt /\ b = background /\ running = turn /\ c = "idle" /\ s = TRUE
  OBVIOUS
<1>2. LeaseOK(hooks, a, b, other, running, c, s)
  BY <1>1 DEF TypeInv, LeaseInv, LeaseOK, Ready
<1>3. /\ a \in Attempt \cup {None} /\ s \in BOOLEAN /\ c \in {"idle", "busy"}
      /\ b \in BackgroundAttempt \cup {None} /\ TaskOK(microtasks', b)
      /\ running \in {"none", "foreground", "background"} /\ turn' = running
      /\ UNCHANGED <<history, other, steers, microtasks>>
      /\ Write(queue, c, s, hooks, a, b, None)
  BY <1>1 DEF Stop, WriteChat, TypeInv, TypeOK, TaskInv
<1> QED
  BY <1>2, <1>3, AfterWriteChat, Zenon

\* The hook whose attempt is committed forgets what it tried.
Cleared(h) == [hooks EXCEPT ![h].last = None, ![h].rejections = None]

LEMMA ClearedFacts ==
  ASSUME hooks \in [Hooks -> Hook], NEW h \in Hooks, NEW table, table = Cleared(h)
  PROVE  /\ table \in [Hooks -> Hook]
         /\ \A g \in Hooks : g # h => table[g] = hooks[g]
         /\ table[h].last = None /\ table[h].rejections = None
         /\ table[h].mounted = hooks[h].mounted /\ table[h].used = hooks[h].used
         /\ table[h].waiting = hooks[h].waiting /\ table[h].timer = hooks[h].timer
         /\ table[h].shown = hooks[h].shown /\ table[h].stale = hooks[h].stale
<1>1. PICK k : k = [hooks[h] EXCEPT !.last = None, !.rejections = None]
  OBVIOUS
<1>2. /\ k \in Hook /\ k.last = None /\ k.rejections = None
      /\ k.mounted = hooks[h].mounted /\ k.used = hooks[h].used
      /\ k.waiting = hooks[h].waiting /\ k.timer = hooks[h].timer
      /\ k.shown = hooks[h].shown /\ k.stale = hooks[h].stale
  BY <1>1, HookFields DEF Hook
<1>3. table = [hooks EXCEPT ![h] = k]
  BY <1>1 DEF Cleared
<1> QED
  BY <1>2, <1>3

LEMMA CommitTyped ==
  ASSUME TypeInv, Commit
  PROVE  TypeInv'
<1>1. /\ attempt \in Attempt /\ queue # <<>> /\ Quiet
      /\ background \in BackgroundAttempt \cup {None} /\ turns \in Seq(Payload)
  BY DEF Commit, TypeInv, TypeOK, MayCommit, Owned, First, Attemptable
<1>2. PICK h : h = attempt.hook
  OBVIOUS
<1>3. PICK q, table, c, s, a, b, d, running :
        /\ q = Tail(queue) /\ table = Cleared(h) /\ c = "busy" /\ s = stopping
        /\ a = None /\ b = background /\ d = None /\ running = "foreground"
  OBVIOUS
<1>4. h \in Hooks /\ hooks \in [Hooks -> Hook]
  BY <1>1, <1>2 DEF Attempt, TypeInv, TypeOK
<1>5. /\ table \in [Hooks -> Hook]
      /\ \A g \in Hooks : table[g].mounted = hooks[g].mounted
  BY <1>3, <1>4, ClearedFacts
<1>6. LeaseOK(table, a, b, other, running, c, s)
  BY <1>3 DEF TypeInv, LeaseInv, LeaseOK, Ready
<1>7. Write(q, c, s, table, a, b, d)
  BY <1>2, <1>3 DEF Commit, Cleared
<1>8. /\ q \in Seq(Record) /\ c \in {"idle", "busy"} /\ s \in BOOLEAN
      /\ a \in Attempt \cup {None} /\ b \in BackgroundAttempt \cup {None}
      /\ running \in {"none", "foreground", "background"}
      /\ turn' = running /\ other' = other /\ accepted' \in 0..MaxMessages
      /\ removed' \in SUBSET Messages /\ steers' \in Seq(Steer)
  BY <1>1, <1>3, QueueTypes DEF Commit, TypeInv, TypeOK
<1>9. turns' \in Seq(Payload)
  BY <1>1, AppendFacts DEF Commit, Attempt
<1>10. microtasks' \in Seq(Hooks \cup Tasks) /\ TaskOK(microtasks', b)
  BY DEF Commit, TaskOK, Ends, Tasks
<1> QED
  BY <1>5, <1>6, <1>7, <1>8, <1>9, <1>10, AfterWrite, Zenon

LEMMA CommitBackgroundTyped ==
  ASSUME TypeInv, CommitBackground
  PROVE  TypeInv'
<1>1. /\ background \in BackgroundAttempt /\ background.pc = "sending" /\ queue # <<>> /\ Quiet
      /\ turns \in Seq(Payload) /\ attempt \in Attempt \cup {None}
      /\ background # None
  BY DEF CommitBackground, TypeInv, TypeOK, MayCommit, Owned, First, Attemptable
<1>2. PICK q, table, c, s, a, b, d, running :
        /\ q = Tail(queue) /\ table = hooks /\ c = "busy" /\ s = stopping
        /\ a = attempt /\ b = [background EXCEPT !.pc = "running"] /\ d = None
        /\ running = "background"
  OBVIOUS
<1>3. b \in BackgroundAttempt /\ b.pc = "running" /\ b # None
  BY <1>1, <1>2, ComposerAssumption DEF BackgroundAttempt
<1>4. attempt = None /\ ~other
  BY <1>1 DEF TypeInv, LeaseInv, LeaseOK, BackgroundHolds
<1>5. LeaseOK(table, a, b, other, running, c, s)
  BY <1>2, <1>3, <1>4 DEF LeaseOK, Ready
<1>6. Write(q, c, s, table, a, b, d)
  BY <1>2 DEF CommitBackground
<1>7. /\ q \in Seq(Record) /\ c \in {"idle", "busy"} /\ s \in BOOLEAN
      /\ a \in Attempt \cup {None} /\ b \in BackgroundAttempt \cup {None}
      /\ table \in [Hooks -> Hook] /\ \A g \in Hooks : table[g].mounted = hooks[g].mounted
      /\ running \in {"none", "foreground", "background"}
      /\ turn' = running /\ other' = other /\ accepted' \in 0..MaxMessages
      /\ removed' \in SUBSET Messages /\ steers' \in Seq(Steer)
      /\ microtasks' \in Seq(Hooks \cup Tasks)
  BY <1>1, <1>2, <1>3, QueueTypes DEF CommitBackground, TypeInv, TypeOK
<1>8. turns' \in Seq(Payload)
  BY <1>1, AppendFacts DEF CommitBackground, BackgroundAttempt
<1>9. TaskOK(microtasks', b)
  <2>1. microtasks' = <<>>
    BY <1>1 DEF CommitBackground, Quiet
  <2>2. DOMAIN microtasks' = {}
    BY <2>1
  <2> QED
    BY <2>2 DEF TaskOK
<1> QED
  BY <1>5, <1>6, <1>7, <1>8, <1>9, AfterWrite, Zenon

\* The task that runs is the first; what ends the background attempt is due once.
LEMMA TaskFacts ==
  ASSUME TypeInv, microtasks # <<>>
  PROVE  /\ Tail(microtasks) \in Seq(Hooks \cup Tasks)
         /\ Head(microtasks) = microtasks[1] /\ 1 \in DOMAIN microtasks
         /\ Len(microtasks) \in Nat /\ DOMAIN microtasks = 1 .. Len(microtasks)
         /\ DOMAIN Tail(microtasks) = 1 .. Len(microtasks) - 1
         /\ \A i \in DOMAIN Tail(microtasks) : /\ i + 1 \in DOMAIN microtasks
                                               /\ Tail(microtasks)[i] = microtasks[i + 1]
         /\ TaskOK(Tail(microtasks), background)
         /\ Head(microtasks) \in Ends =>
              \A i \in DOMAIN Tail(microtasks) : Tail(microtasks)[i] \notin Ends
<1>1. microtasks \in Seq(Hooks \cup Tasks) /\ TaskOK(microtasks, background)
  BY DEF TypeInv, TypeOK, TaskInv
<1>2. /\ Tail(microtasks) \in Seq(Hooks \cup Tasks)
      /\ Head(microtasks) = microtasks[1] /\ 1 \in DOMAIN microtasks
      /\ Len(microtasks) \in Nat /\ DOMAIN microtasks = 1 .. Len(microtasks)
      /\ DOMAIN Tail(microtasks) = 1 .. Len(microtasks) - 1
      /\ \A i \in 1 .. Len(microtasks) - 1 : Tail(microtasks)[i] = microtasks[i + 1]
  BY <1>1, TailFacts, LenProperties
<1>3. \A i \in DOMAIN Tail(microtasks) : /\ i + 1 \in DOMAIN microtasks /\ i + 1 # 1
                                         /\ Tail(microtasks)[i] = microtasks[i + 1]
  BY <1>2
<1>4. TaskOK(Tail(microtasks), background)
  <2>1. ASSUME NEW i \in DOMAIN Tail(microtasks), NEW j \in DOMAIN Tail(microtasks),
               Tail(microtasks)[i] \in Ends, Tail(microtasks)[j] \in Ends
        PROVE  i = j
    <3>1. i + 1 = j + 1
      BY <1>1, <1>3, <2>1 DEF TaskOK
    <3> QED
      BY <1>2, <3>1
  <2>2. ASSUME NEW i \in DOMAIN Tail(microtasks)
        PROVE  /\ Tail(microtasks)[i] = "parkHead" =>
                    background # None /\ background.pc = "failing"
               /\ Tail(microtasks)[i] = "drainAgain" =>
                    background # None /\ background.pc = "done"
    BY <1>1, <1>3 DEF TaskOK
  <2> QED
    BY <2>1, <2>2 DEF TaskOK
<1>5. Head(microtasks) \in Ends =>
        \A i \in DOMAIN Tail(microtasks) : Tail(microtasks)[i] \notin Ends
  BY <1>1, <1>2, <1>3 DEF TaskOK
<1> QED
  BY <1>2, <1>3, <1>4, <1>5

\* A task joins the end.
LEMMA TasksJoin ==
  ASSUME NEW s \in Seq(Hooks \cup Tasks), NEW t \in Hooks \cup Tasks
  PROVE  /\ s \o <<t>> \in Seq(Hooks \cup Tasks) /\ Len(s) \in Nat
         /\ DOMAIN (s \o <<t>>) = 1 .. Len(s) + 1 /\ DOMAIN s = 1 .. Len(s)
         /\ \A i \in 1 .. Len(s) : (s \o <<t>>)[i] = s[i]
         /\ (s \o <<t>>)[Len(s) + 1] = t
  OBVIOUS

LEMMA ParkHeadTyped ==
  ASSUME TypeInv, ParkHead
  PROVE  TypeInv'
<1>1. /\ background \in BackgroundAttempt /\ background # None /\ microtasks # <<>>
      /\ Head(microtasks) = "parkHead" /\ background.pc = "failing"
  <2>1. microtasks # <<>> /\ Head(microtasks) = "parkHead" /\ background # None
    BY DEF ParkHead, Task
  <2>2. background.pc = "failing"
    BY <2>1, TaskFacts DEF TypeInv, TaskInv, TaskOK
  <2> QED
    BY <2>1, <2>2 DEF TypeInv, TypeOK
<1>2. PICK b : b = [background EXCEPT !.pc = "done"]
  OBVIOUS
<1>3. /\ b \in BackgroundAttempt /\ b # None /\ b.pc = "done"
  BY <1>1, <1>2, ComposerAssumption DEF BackgroundAttempt
<1>4. microtasks' \in Seq(Hooks \cup Tasks) /\ TaskOK(microtasks', b)
  <2>1. PICK rest : rest = Tail(microtasks)
    OBVIOUS
  <2>2. /\ rest \in Seq(Hooks \cup Tasks) /\ microtasks' = rest \o <<"drainAgain">>
        /\ \A i \in DOMAIN rest : rest[i] \notin Ends
    BY <1>1, <2>1, TaskFacts DEF ParkHead, Ends
  <2>3. /\ microtasks' \in Seq(Hooks \cup Tasks) /\ Len(rest) \in Nat
        /\ DOMAIN microtasks' = 1 .. Len(rest) + 1 /\ DOMAIN rest = 1 .. Len(rest)
        /\ \A i \in 1 .. Len(rest) : microtasks'[i] = rest[i]
        /\ microtasks'[Len(rest) + 1] = "drainAgain"
    BY <2>2, TasksJoin DEF Tasks
  <2>4. \A i \in DOMAIN microtasks' : microtasks'[i] \in Ends =>
          i = Len(rest) + 1 /\ microtasks'[i] = "drainAgain"
    BY <2>2, <2>3
  <2>5. \A i \in DOMAIN microtasks' : microtasks'[i] # "parkHead"
    BY <2>4 DEF Ends
  <2> QED
    BY <1>3, <2>3, <2>4, <2>5 DEF TaskOK
<1>5. LeaseOK(hooks, attempt, b, other, turn, chat, stopping)
  BY <1>1, <1>3 DEF TypeInv, LeaseInv, LeaseOK, BackgroundHolds
<1>6. CASE background.same /\ queue # <<>>
  <2>1. PICK q, c, s, table, a, d, running :
          /\ q = [queue EXCEPT ![1] = Parked(@)] /\ c = chat /\ s = stopping /\ table = hooks
          /\ a = attempt /\ d = None /\ running = turn
    OBVIOUS
  <2>2. q \in Seq(Record)
    <3>1. Head(queue) = queue[1] /\ 1 \in DOMAIN queue /\ Parked(queue[1]) \in Record
          /\ queue \in Seq(Record)
      BY <1>6, QueueTypes, RecordTypes
    <3>2. PICK r : r = Parked(queue[1])
      OBVIOUS
    <3>3. q = [queue EXCEPT ![1] = r] /\ r \in Record
      BY <2>1, <3>1, <3>2
    <3> QED
      BY <3>1, <3>3, ExceptSeq
  <2>3. Write(q, c, s, table, a, b, d)
    BY <1>2, <1>6, <2>1 DEF ParkHead
  <2>4. /\ c \in {"idle", "busy"} /\ s \in BOOLEAN /\ table \in [Hooks -> Hook]
        /\ a \in Attempt \cup {None} /\ b \in BackgroundAttempt \cup {None}
        /\ running \in {"none", "foreground", "background"}
        /\ \A h \in Hooks : table[h].mounted = hooks[h].mounted
        /\ LeaseOK(table, a, b, other, running, c, s)
        /\ turn' = running /\ other' = other /\ accepted' \in 0..MaxMessages
        /\ removed' \in SUBSET Messages /\ turns' \in Seq(Payload) /\ steers' \in Seq(Steer)
    BY <1>3, <1>5, <2>1 DEF ParkHead, TypeInv, TypeOK, history
  <2> QED
    BY <1>4, <2>2, <2>3, <2>4, AfterWrite, Zenon
<1>7. CASE ~(background.same /\ queue # <<>>)
  <2>1. background' = b /\ UNCHANGED <<store, hooks, attempt, waiter, exclusions>>
    BY <1>2, <1>7 DEF ParkHead
  <2>2. UNCHANGED <<history, turn, other, steers>>
    BY DEF ParkHead
  <2>3. TypeOK'
    BY <1>3, <1>4, <2>1, <2>2 DEF TypeInv, TypeOK, store, history
  <2>4. LeaseInv' /\ TaskInv' /\ OneView'
    BY <1>4, <1>5, <2>1, <2>2 DEF LeaseInv, TaskInv, OneView, Mounted, store, TypeInv
  <2> QED
    BY <2>3, <2>4 DEF TypeInv
<1> QED
  BY <1>6, <1>7

\* Lease and hooks after a drain of the mounted chat's, or a change of its hook.
HookStep(h, hook) ==
  /\ hooks' \in [Hooks -> Hook] /\ attempt' \in Attempt \cup {None}
  /\ \A g \in Hooks : g # h => hooks'[g] = hooks[g]
  /\ hooks'[h].mounted = hook.mounted /\ hooks'[h].used = hook.used
  /\ LeaseOK(hooks', attempt', background, other, turn, chat, stopping)
  /\ attempt' # attempt => ForegroundClaims(First(queue)) /\ ~Leased(attempt, background)

LEMMA TryTyped ==
  ASSUME TypeInv, NEW h \in Hooks, NEW hook \in Hook,
         hook.rejections \in {hooks[h].rejections, None}, TryDrain(h, hook)
  PROVE  HookStep(h, hook)
<1>1. hooks \in [Hooks -> Hook] /\ attempt \in Attempt \cup {None}
  BY DEF TypeInv, TypeOK
<1>2. PICK k, next :
        /\ DrainedAs(h, hook, First(queue), chat, stopping, attempt, background, k, next)
        /\ hooks' = [hooks EXCEPT ![h] = k] /\ attempt' = next
  BY <1>1, TryDrainFacts
<1>3. PICK r, now, b : r = First(queue) /\ now = attempt /\ b = background
  OBVIOUS
<1>4. DrainSound(h, hook, r, chat, stopping, now, b, k, next)
  <2>1. /\ r \in Record \cup {None} /\ now \in Attempt \cup {None}
        /\ DrainedAs(h, hook, r, chat, stopping, now, b, k, next)
    BY <1>1, <1>2, <1>3, QueueTypes
  <2> QED
    BY <2>1, DrainedTypes, Zenon
<1>5. /\ k \in Hook /\ next \in Attempt \cup {None}
      /\ k.mounted = hook.mounted /\ k.used = hook.used /\ k.rejections = hook.rejections
      /\ next # attempt => /\ next \in Attempt /\ next.hook = h
                           /\ Ready(chat, stopping) /\ ~Leased(attempt, background)
                           /\ ForegroundClaims(First(queue)) /\ ~Exhausted(k, next.payload)
  BY <1>3, <1>4 DEF DrainSound
<1>6. /\ hooks' \in [Hooks -> Hook] /\ hooks'[h] = k
      /\ \A g \in Hooks : g # h => hooks'[g] = hooks[g]
  BY <1>1, <1>2, <1>5
<1>7. LeaseOK(hooks', attempt', background, other, turn, chat, stopping)
  <2>1. LeaseOK(hooks, attempt, background, other, turn, chat, stopping)
    BY DEF TypeInv, LeaseInv
  <2>2. CASE next = attempt
    <3>1. attempt # None => attempt.hook \in Hooks
      BY <1>1 DEF Attempt
    <3>2. attempt # None => ~Exhausted(hooks'[attempt.hook], attempt.payload)
      BY <1>5, <1>6, <2>1, <3>1 DEF LeaseOK, Exhausted
    <3> QED
      BY <1>2, <2>1, <2>2, <3>2 DEF LeaseOK
  <2>3. CASE next # attempt
    BY <1>2, <1>5, <1>6, <2>1, <2>3 DEF LeaseOK, Leased, BackgroundHolds
  <2> QED
    BY <2>2, <2>3
<1> QED
  BY <1>2, <1>5, <1>6, <1>7 DEF HookStep

LEMMA HookChanged ==
  ASSUME TypeInv, NEW h \in Hooks, NEW k \in Hook,
         k.rejections \in {hooks[h].rejections, None},
         hooks' = [hooks EXCEPT ![h] = k], attempt' = attempt
  PROVE  HookStep(h, k)
<1>1. /\ hooks \in [Hooks -> Hook] /\ attempt \in Attempt \cup {None}
      /\ LeaseOK(hooks, attempt, background, other, turn, chat, stopping)
  BY DEF TypeInv, TypeOK, LeaseInv
<1>2. /\ hooks' \in [Hooks -> Hook] /\ hooks'[h] = k
      /\ \A g \in Hooks : g # h => hooks'[g] = hooks[g]
  BY <1>1
<1>3. attempt # None => attempt.hook \in Hooks
  BY <1>1 DEF Attempt
<1>4. attempt # None => ~Exhausted(hooks'[attempt.hook], attempt.payload)
  BY <1>1, <1>2, <1>3 DEF LeaseOK, Exhausted
<1> QED
  BY <1>1, <1>2, <1>4 DEF HookStep, LeaseOK

\* A hook changes, in the mounted chat, and no record does.
LEMMA AfterHook ==
  ASSUME TypeInv, NEW h \in Hooks, NEW hook, HookStep(h, hook),
         hook.mounted = hooks[h].mounted,
         microtasks' \in Seq(Hooks \cup Tasks), TaskOK(microtasks', background),
         UNCHANGED <<store, history, turn, background, waiter, exclusions, other, steers>>
  PROVE  TypeInv'
<1>1. TypeOK'
  BY DEF TypeInv, TypeOK, HookStep, store, history
<1>2. OneView'
  BY DEF TypeInv, OneView, Mounted, HookStep
<1>3. LeaseInv' /\ TaskInv'
  BY DEF HookStep, LeaseInv, TaskInv, store
<1> QED
  BY <1>1, <1>2, <1>3 DEF TypeInv

LEMMA NoTasks ==
  ASSUME TypeInv, Quiet
  PROVE  /\ microtasks = <<>> /\ microtasks \in Seq(Hooks \cup Tasks)
         /\ \A b : TaskOK(microtasks, b) /\ TaskOK(<<"notify">>, b)
         /\ <<"notify">> \in Seq(Hooks \cup Tasks)
<1>1. microtasks = <<>> /\ DOMAIN microtasks = {} /\ microtasks \in Seq(Hooks \cup Tasks)
  BY DEF Quiet
<1>2. \A b : TaskOK(microtasks, b)
  BY <1>1 DEF TaskOK
<1>3. \A b : TaskOK(<<"notify">>, b)
  BY DEF TaskOK, Ends
<1>4. <<"notify">> \in Seq(Hooks \cup Tasks)
  BY DEF Tasks
<1> QED
  BY <1>1, <1>2, <1>3, <1>4

LEMMA RekeyedFacts ==
  ASSUME NEW hook \in Hook, queue \in Seq(Record)
  PROVE  /\ Rekeyed(hook) \in Hook
         /\ Rekeyed(hook).mounted = hook.mounted /\ Rekeyed(hook).used = hook.used
         /\ Rekeyed(hook).rejections \in {hook.rejections, None}
         /\ Rekeyed(hook).timer \in {hook.timer, None}
         /\ Rekeyed(hook).waiting =
              IF queue # <<>> /\ hook.waiting = PayloadOf(Head(queue)) THEN hook.waiting ELSE None
         /\ Rekeyed(hook).last \in {hook.last, None}
         /\ Rekeyed(hook).last = None =>
              Rekeyed(hook).rejections = None /\ Rekeyed(hook).timer = None
         /\ Rekeyed(hook).last # None => /\ Rekeyed(hook).rejections = hook.rejections
                                         /\ Rekeyed(hook).timer = hook.timer
<1>1. PICK w : w = IF queue # <<>> /\ hook.waiting = PayloadOf(Head(queue)) THEN hook.waiting
                   ELSE None
  OBVIOUS
<1>2. PICK waited : waited = [hook EXCEPT !.waiting = w]
  OBVIOUS
<1>3. /\ waited \in Hook /\ waited.mounted = hook.mounted /\ waited.used = hook.used
      /\ waited.rejections = hook.rejections /\ waited.timer = hook.timer
      /\ waited.last = hook.last /\ waited.waiting = w
  BY <1>1, <1>2, HookFields DEF Hook
<1>4. waited = IF First(queue) # None /\ hook.waiting = PayloadOf(First(queue)) THEN hook
               ELSE [hook EXCEPT !.waiting = None]
  <2>1. First(queue) # None <=> queue # <<>>
    BY FirstFacts
  <2>2. queue # <<>> => First(queue) = Head(queue)
    BY FirstFacts
  <2>3. CASE queue # <<>> /\ hook.waiting = PayloadOf(Head(queue))
    <3>1. waited = hook
      BY <1>1, <1>2, <2>3, HookFields DEF Hook
    <3> QED
      BY <2>1, <2>2, <2>3, <3>1
  <2>4. CASE ~(queue # <<>> /\ hook.waiting = PayloadOf(Head(queue)))
    BY <1>1, <1>2, <2>1, <2>2, <2>4
  <2> QED
    BY <2>3, <2>4
<1>5. \/ hook.last # None /\ Rekeyed(hook) = waited
      \/ Rekeyed(hook) = ForgetRejections([waited EXCEPT !.last = None])
  BY <1>4 DEF Rekeyed
<1>6. PICK n : n = [waited EXCEPT !.last = None]
  OBVIOUS
<1>7. /\ n \in Hook /\ n.mounted = waited.mounted /\ n.used = waited.used
      /\ n.waiting = waited.waiting /\ n.last = None
  BY <1>3, <1>6, HookFields DEF Hook
<1>8. /\ ForgetRejections(n) \in Hook /\ ForgetRejections(n).mounted = n.mounted
      /\ ForgetRejections(n).used = n.used /\ ForgetRejections(n).waiting = n.waiting
      /\ ForgetRejections(n).last = None /\ ForgetRejections(n).timer = None
      /\ ForgetRejections(n).rejections = None
  BY <1>7, ForgetSoftens DEF Softened
<1>9. CASE hook.last # None /\ Rekeyed(hook) = waited
  BY <1>1, <1>3, <1>9
<1>10. CASE Rekeyed(hook) = ForgetRejections(n)
  BY <1>1, <1>3, <1>7, <1>8, <1>10
<1> QED
  BY <1>5, <1>6, <1>9, <1>10

\* The hook that a render leaves to be tried.
Rendered(hook) ==
  [(IF hook.stale THEN Rekeyed(hook) ELSE hook) EXCEPT !.stale = FALSE, !.shown = chat]

LEMMA RenderedFacts ==
  ASSUME NEW hook \in Hook, queue \in Seq(Record), chat \in {"idle", "busy"}
  PROVE  LET base == IF hook.stale THEN Rekeyed(hook) ELSE hook
             k == Rendered(hook)
         IN
         /\ k \in Hook /\ k.stale = FALSE /\ k.shown = chat
         /\ k.mounted = hook.mounted /\ k.used = hook.used
         /\ k.last = base.last /\ k.waiting = base.waiting /\ k.timer = base.timer
         /\ k.rejections = base.rejections
         /\ k.rejections \in {hook.rejections, None}
<1>1. PICK base : base = IF hook.stale THEN Rekeyed(hook) ELSE hook
  OBVIOUS
<1>2. /\ base \in Hook /\ base.mounted = hook.mounted /\ base.used = hook.used
      /\ base.rejections \in {hook.rejections, None}
  BY <1>1, RekeyedFacts
<1>3. PICK k : k = [base EXCEPT !.stale = FALSE, !.shown = chat]
  OBVIOUS
<1>4. /\ k \in Hook /\ k.stale = FALSE /\ k.shown = chat
      /\ k.mounted = base.mounted /\ k.used = base.used
      /\ k.last = base.last /\ k.waiting = base.waiting /\ k.timer = base.timer
      /\ k.rejections = base.rejections
  BY <1>2, <1>3, HookFields DEF Hook
<1>5. Rendered(hook) = k
  BY <1>1, <1>3 DEF Rendered
<1> QED
  BY <1>1, <1>2, <1>4, <1>5

LEMMA RenderTyped ==
  ASSUME TypeInv, NEW h \in Hooks, Render(h)
  PROVE  TypeInv'
<1>1. hooks[h] \in Hook /\ queue \in Seq(Record) /\ chat \in {"idle", "busy"}
  BY DEF TypeInv, TypeOK
<1>2. PICK hook : hook = Rendered(hooks[h])
  OBVIOUS
<1>3. hook \in Hook /\ hook.rejections \in {hooks[h].rejections, None}
      /\ hook.mounted = hooks[h].mounted
  BY <1>1, <1>2, RenderedFacts
<1>4. TryDrain(h, hook) /\ Quiet
      /\ UNCHANGED <<store, history, turn, background, waiter, exclusions, other, steers,
                     microtasks>>
  BY <1>2 DEF Render, Rendered
<1>5. HookStep(h, hook)
  BY <1>3, <1>4, TryTyped
<1>6. microtasks' \in Seq(Hooks \cup Tasks) /\ TaskOK(microtasks', background)
  BY <1>4, NoTasks
<1> QED
  BY <1>3, <1>4, <1>5, <1>6, AfterHook

LEMMA RetryTyped ==
  ASSUME TypeInv, NEW h \in Hooks, Retry(h)
  PROVE  TypeInv'
<1>1. hooks[h] \in Hook
  BY DEF TypeInv, TypeOK
<1>2. PICK hook : hook = hooks[h]
  OBVIOUS
<1>3. PICK fired : fired = [hook EXCEPT !.timer = None]
  OBVIOUS
<1>4. /\ fired \in Hook /\ fired.rejections = hook.rejections /\ fired.mounted = hook.mounted
  BY <1>1, <1>2, <1>3, HookFields DEF Hook
<1>5. PICK blank : blank = [hook EXCEPT !.last = None]
  OBVIOUS
<1>6. /\ blank \in Hook /\ blank.rejections = hook.rejections /\ blank.mounted = hook.mounted
  BY <1>1, <1>2, <1>5, HookFields DEF Hook
<1>7. PICK cycled : cycled = NextCycle(fired)
  OBVIOUS
<1>8. /\ cycled \in Hook /\ cycled.rejections = hook.rejections /\ cycled.mounted = hook.mounted
  BY <1>4, <1>7, CycleSoftens DEF Softened
<1>9. \/ hooks' = [hooks EXCEPT ![h] = fired] /\ attempt' = attempt
      \/ hooks' = [hooks EXCEPT ![h] = blank] /\ attempt' = attempt
      \/ TryDrain(h, cycled)
  BY <1>2, <1>3, <1>5, <1>7 DEF Retry
<1>10. \E k \in Hook : HookStep(h, k) /\ k.mounted = hooks[h].mounted
  BY <1>2, <1>4, <1>6, <1>8, <1>9, HookChanged, TryTyped
<1>11. microtasks' \in Seq(Hooks \cup Tasks) /\ TaskOK(microtasks', background)
       /\ UNCHANGED <<store, history, turn, background, waiter, exclusions, other, steers>>
  <2>1. Quiet /\ microtasks' = microtasks
        /\ UNCHANGED <<store, history, turn, background, waiter, exclusions, other, steers>>
    BY DEF Retry
  <2> QED
    BY <2>1, NoTasks
<1> QED
  BY <1>10, <1>11, AfterHook

LEMMA WakeTyped ==
  ASSUME TypeInv, NEW h \in Hooks, Wake(h)
  PROVE  TypeInv'
<1>1. hooks[h] \in Hook /\ microtasks # <<>>
  BY DEF TypeInv, TypeOK, Wake, Task
<1>2. PICK hook : hook = hooks[h]
  OBVIOUS
<1>3. TryDrain(h, hook) /\ hook \in Hook
  BY <1>1, <1>2 DEF Wake
<1>4. HookStep(h, hook)
  BY <1>2, <1>3, TryTyped
<1>5. microtasks' \in Seq(Hooks \cup Tasks) /\ TaskOK(microtasks', background)
  BY <1>1, TaskFacts DEF Wake
<1>6. UNCHANGED <<store, history, turn, background, waiter, exclusions, other, steers>>
  BY DEF Wake
<1> QED
  BY <1>2, <1>4, <1>5, <1>6, AfterHook

\* A drain of the background's, once the mounted chat's has tried.
LEMMA BackgroundLease ==
  ASSUME NEW table, NEW now, LeaseOK(table, now, background, other, turn, chat, stopping),
         NEW open, NEW excluded, NEW b \in BackgroundAttempt \cup {None},
         b = background \/ (b = None /\ ~BackgroundHolds(background)),
         now # attempt => ForegroundClaims(First(queue)) /\ open,
         BackgroundSound(First(queue), chat, stopping, open, excluded, attempt, b, waiter,
                         background', waiter')
  PROVE  LeaseOK(table, now, background', other, turn, chat, stopping)
<1>1. CASE background' = b
  <2>1. CASE b = background
    BY <1>1, <2>1
  <2>2. CASE b = None /\ ~BackgroundHolds(background)
    <3>1. turn # "background"
      BY <2>2 DEF LeaseOK, BackgroundHolds
    <3> QED
      BY <1>1, <2>2, <3>1 DEF LeaseOK, BackgroundHolds
  <2> QED
    BY <2>1, <2>2
<1>2. CASE background' # b
  <2>1. /\ b = None /\ BackgroundClaims(First(queue), open, excluded) /\ Ready(chat, stopping)
        /\ ~Leased(attempt, b)
    BY <1>2 DEF BackgroundSound
  <2>2. attempt = None /\ ~other
    BY <2>1 DEF Leased
  <2>3. now = None
    BY <2>1, <2>2 DEF BackgroundClaims, ForegroundClaims
  <2> QED
    BY <2>1, <2>2, <2>3 DEF LeaseOK
<1> QED
  BY <1>1, <1>2

LEMMA DrainBackgroundTyped ==
  ASSUME TypeInv, NEW open, NEW excluded, NEW b \in BackgroundAttempt \cup {None},
         DrainBackground(open, excluded, attempt, b, waiter)
  PROVE  BackgroundSound(First(queue), chat, stopping, open, excluded, attempt, b, waiter,
                         background', waiter')
<1>1. PICK r, c, s, a, w, k, next :
        /\ r = First(queue) /\ c = chat /\ s = stopping /\ a = attempt /\ w = waiter
        /\ k = background' /\ next = waiter'
  OBVIOUS
<1>2. BackgroundDrainedAs(First(queue), chat, stopping, open, excluded, attempt, b, waiter,
                          background', waiter')
  <2>1. PICK a1, w1 : a1 = attempt /\ w1 = waiter
    OBVIOUS
  <2>2. DrainBackground(open, excluded, a1, b, w1)
    BY <2>1
  <2>3. BackgroundDrainedAs(First(queue), chat, stopping, open, excluded, a1, b, w1,
                            background', waiter')
    BY <2>2, DrainBackgroundFacts, Zenon
  <2> QED
    BY <2>1, <2>3
<1>3. /\ r \in Record \cup {None} /\ w \in Payload \cup {None}
      /\ BackgroundDrainedAs(r, c, s, open, excluded, a, b, w, k, next)
  BY <1>1, <1>2, QueueTypes DEF TypeInv, TypeOK
<1>4. BackgroundSound(r, c, s, open, excluded, a, b, w, k, next)
  BY <1>3, BackgroundDrainedTypes, Zenon
<1> QED
  BY <1>1, <1>4

LEMMA MountTyped ==
  ASSUME TypeInv, NEW h \in Hooks, Mount(h)
  PROVE  TypeInv'
<1>1. hooks[h] \in Hook /\ chat \in {"idle", "busy"} /\ background \in BackgroundAttempt \cup {None}
  BY DEF TypeInv, TypeOK
<1>2. PICK hook : hook = [hooks[h] EXCEPT !.mounted = TRUE, !.used = TRUE, !.shown = chat]
  OBVIOUS
<1>3. hook \in Hook /\ hook.rejections = hooks[h].rejections /\ hook.mounted = TRUE
  BY <1>1, <1>2, HookFields DEF Hook
<1>4. TryDrain(h, hook) /\ Quiet /\ ~Open
      /\ DrainBackground(TRUE, {}, attempt, background, waiter)
      /\ exclusions' = {} /\ UNCHANGED <<store, history, turn, other, steers, microtasks>>
  BY <1>2 DEF Mount
<1>5. HookStep(h, hook)
  BY <1>3, <1>4, TryTyped
<1>6. BackgroundSound(First(queue), chat, stopping, TRUE, {}, attempt, background, waiter,
                      background', waiter')
  BY <1>1, <1>4, DrainBackgroundTyped
<1>7. LeaseOK(hooks', attempt', background', other, turn, chat, stopping)
  <2>1. PICK table, now, open, excluded, b :
          table = hooks' /\ now = attempt' /\ open = TRUE /\ excluded = {} /\ b = background
    OBVIOUS
  <2>2. /\ LeaseOK(table, now, background, other, turn, chat, stopping)
        /\ b \in BackgroundAttempt \cup {None}
        /\ b = background \/ (b = None /\ ~BackgroundHolds(background))
        /\ now # attempt => ForegroundClaims(First(queue)) /\ open
        /\ BackgroundSound(First(queue), chat, stopping, open, excluded, attempt, b, waiter,
                           background', waiter')
    BY <1>1, <1>5, <1>6, <2>1 DEF HookStep
  <2>3. LeaseOK(table, now, background', other, turn, chat, stopping)
    BY <2>2, BackgroundLease, Zenon
  <2> QED
    BY <2>1, <2>3
<1>8. TypeOK'
  BY <1>4, <1>5, <1>6 DEF TypeInv, TypeOK, HookStep, BackgroundSound, store, history
<1>9. OneView'
  BY <1>4, <1>5 DEF OneView, Mounted, Open, HookStep
<1>10. LeaseInv' /\ TaskInv'
  BY <1>4, <1>7, NoTasks DEF LeaseInv, TaskInv, store
<1> QED
  BY <1>8, <1>9, <1>10 DEF TypeInv

LEMMA UnmountTyped ==
  ASSUME TypeInv, NEW h \in Hooks, Unmount(h)
  PROVE  TypeInv'
<1>1. hooks[h] \in Hook /\ background \in BackgroundAttempt \cup {None}
      /\ exclusions \in SUBSET Messages /\ queue \in Seq(Record) /\ hooks \in [Hooks -> Hook]
  BY DEF TypeInv, TypeOK
<1>2. PICK hook : hook = [hooks[h] EXCEPT !.mounted = FALSE, !.waiting = None,
                                          !.timer = None, !.stale = FALSE]
  OBVIOUS
<1>3. hook \in Hook /\ hook.rejections = hooks[h].rejections /\ hook.mounted = FALSE
  BY <1>1, <1>2, HookFields DEF Hook
<1>4. /\ hooks' = [hooks EXCEPT ![h] = hook] /\ attempt' = attempt /\ Quiet
      /\ DrainBackground(FALSE, Noted(queue), attempt, background, waiter)
      /\ exclusions' = Noted(queue)
      /\ UNCHANGED <<store, history, turn, other, steers, microtasks>>
  BY <1>2 DEF Unmount
<1>5. HookStep(h, hook)
  BY <1>3, <1>4, HookChanged
<1>6. BackgroundSound(First(queue), chat, stopping, FALSE, Noted(queue), attempt, background,
                      waiter, background', waiter')
  BY <1>1, <1>4, DrainBackgroundTyped
<1>7. LeaseOK(hooks', attempt', background', other, turn, chat, stopping)
  <2>1. PICK table, now, open, excluded, b :
          /\ table = hooks' /\ now = attempt' /\ open = FALSE /\ excluded = Noted(queue)
          /\ b = background
    OBVIOUS
  <2>2. /\ LeaseOK(table, now, background, other, turn, chat, stopping)
        /\ b \in BackgroundAttempt \cup {None}
        /\ b = background \/ (b = None /\ ~BackgroundHolds(background))
        /\ now # attempt => ForegroundClaims(First(queue)) /\ open
        /\ BackgroundSound(First(queue), chat, stopping, open, excluded, attempt, b, waiter,
                           background', waiter')
    BY <1>1, <1>4, <1>5, <1>6, <2>1 DEF HookStep
  <2>3. LeaseOK(table, now, background', other, turn, chat, stopping)
    BY <2>2, BackgroundLease, Zenon
  <2> QED
    BY <2>1, <2>3
<1>8. TypeOK'
  BY <1>1, <1>4, <1>5, <1>6, NotedTypes
     DEF TypeInv, TypeOK, HookStep, BackgroundSound, store, history
<1>9. OneView'
  BY <1>3, <1>4, <1>5 DEF TypeInv, OneView, Mounted, HookStep
<1>10. LeaseInv' /\ TaskInv'
  BY <1>4, <1>7, NoTasks DEF LeaseInv, TaskInv, store
<1> QED
  BY <1>8, <1>9, <1>10 DEF TypeInv

LEMMA RejectTyped ==
  ASSUME TypeInv, Reject
  PROVE  TypeInv'
<1>1. /\ attempt \in Attempt /\ attempt # None /\ hooks \in [Hooks -> Hook]
      /\ LeaseOK(hooks, attempt, background, other, turn, chat, stopping)
  BY DEF Reject, TypeInv, TypeOK, LeaseInv
<1>2. PICK h, p : h = attempt.hook /\ p = attempt.payload
  OBVIOUS
<1>3. h \in Hooks /\ p \in Payload /\ ~Exhausted(hooks[h], p) /\ hooks[h] \in Hook
  BY <1>1, <1>2 DEF Attempt, LeaseOK
<1>4. PICK n : n = Rejections(hooks[h], p)
  OBVIOUS
<1>5. n \in Rejection /\ n.payload = p
  <2>1. CASE hooks[h].rejections # None /\ hooks[h].rejections.payload = p
    <3>1. hooks[h].rejections \in Rejection /\ hooks[h].rejections.count < MaxRejections
      <4>1. hooks[h].rejections \in Rejection
        BY <1>3, <2>1, HookFields
      <4>2. hooks[h].rejections.count \in Nat /\ MaxRejections \in Nat
        BY <4>1, ComposerAssumption DEF Rejection
      <4> QED
        BY <1>3, <2>1, <4>1, <4>2 DEF Exhausted
    <3>2. n = [payload |-> p, count |-> hooks[h].rejections.count + 1]
      BY <1>4, <2>1 DEF Rejections
    <3>3. hooks[h].rejections.count + 1 \in 1..MaxRejections
      BY <3>1, ComposerAssumption DEF Rejection
    <3> QED
      BY <1>3, <3>2, <3>3 DEF Rejection
  <2>2. CASE ~(hooks[h].rejections # None /\ hooks[h].rejections.payload = p)
    <3>1. n = [payload |-> p, count |-> 1] /\ 1 \in 1..MaxRejections
      BY <1>4, <2>2, ComposerAssumption DEF Rejections
    <3> QED
      BY <1>3, <3>1 DEF Rejection
  <2> QED
    BY <2>1, <2>2
<1>6. PICK t : t = IF n.count >= MaxRejections THEN None
                   ELSE IF hooks[h].timer = None THEN p ELSE hooks[h].timer
  OBVIOUS
<1>7. PICK k : k = [hooks[h] EXCEPT !.rejections = n, !.timer = t]
  OBVIOUS
<1>8. k \in Hook /\ k.mounted = hooks[h].mounted
  <2>1. t \in Payload \cup {None}
    BY <1>3, <1>6, HookFields
  <2> QED
    BY <1>3, <1>5, <1>7, <2>1, HookFields DEF Hook
<1>9. hooks' \in [Hooks -> Hook] /\ \A g \in Hooks : hooks'[g].mounted = hooks[g].mounted
  <2>1. CASE Owned(p)
    <3>1. hooks' = [hooks EXCEPT ![h] = RejectedBy(@, p)]
      BY <1>2, <2>1 DEF Reject
    <3>2. RejectedBy(hooks[h], p) = k
      BY <1>4, <1>6, <1>7 DEF RejectedBy
    <3>3. hooks' = [hooks EXCEPT ![h] = k]
      BY <3>1, <3>2
    <3> QED
      BY <1>1, <1>8, <3>3
  <2>2. CASE ~Owned(p)
    BY <1>1, <1>2, <2>2 DEF Reject
  <2> QED
    BY <2>1, <2>2
<1>10. microtasks' \in Seq(Hooks \cup Tasks) /\ TaskOK(microtasks', background)
  <2>1. microtasks' = <<"notify">> \/ microtasks' = <<"notify">> \o TriesNext(h)
    BY <1>2 DEF Reject
  <2>2. PICK start : start = <<"notify">>
    OBVIOUS
  <2>3. start \in Seq(Hooks \cup Tasks) /\ Len(start) = 1 /\ start[1] = "notify"
    BY <2>2 DEF Tasks
  <2>4. CASE microtasks' = start
    <3>1. DOMAIN microtasks' = {1} /\ microtasks'[1] = "notify"
      BY <2>2, <2>4
    <3> QED
      BY <2>3, <2>4, <3>1 DEF TaskOK, Ends
  <2>5. CASE microtasks' = start \o <<h>>
    <3>1. /\ microtasks' \in Seq(Hooks \cup Tasks) /\ DOMAIN microtasks' = 1 .. 2
          /\ microtasks'[1] = "notify" /\ microtasks'[2] = h
      <4>1. PICK both : both = start \o <<h>>
        OBVIOUS
      <4>2. h \in Hooks \cup Tasks
        BY <1>3
      <4>3. /\ both \in Seq(Hooks \cup Tasks) /\ DOMAIN both = 1 .. Len(start) + 1
            /\ \A i \in 1 .. Len(start) : both[i] = start[i]
            /\ both[Len(start) + 1] = h
        BY <2>3, <4>1, <4>2, TasksJoin
      <4>4. 1 \in 1 .. Len(start)
        BY <2>3
      <4>5. DOMAIN both = 1 .. 2 /\ both[1] = "notify" /\ both[2] = h
        BY <2>3, <4>3, <4>4
      <4> QED
        BY <2>5, <4>1, <4>3, <4>5
    <3>2. h \notin Tasks
      BY <1>3, ComposerAssumption
    <3>3. \A i \in DOMAIN microtasks' : microtasks'[i] \notin Ends
      BY <3>1, <3>2 DEF Tasks, Ends
    <3> QED
      BY <3>1, <3>3 DEF TaskOK, Ends
  <2>6. microtasks' = start \/ microtasks' = start \o <<h>>
    <3>1. CASE TriesNext(h) = <<h>>
      BY <2>1, <2>2, <3>1
    <3>2. CASE TriesNext(h) = <<>>
      BY <2>1, <2>2, <2>3, <3>2, ConcatEmptySeq
    <3>3. TriesNext(h) = <<h>> \/ TriesNext(h) = <<>>
      BY DEF TriesNext
    <3> QED
      BY <3>1, <3>2, <3>3
  <2> QED
    BY <2>4, <2>5, <2>6
<1>11. attempt' = None
       /\ UNCHANGED <<store, history, turn, background, waiter, exclusions, other, steers>>
  BY DEF Reject
<1>12. TypeOK'
  BY <1>9, <1>10, <1>11 DEF TypeInv, TypeOK, store, history
<1>13. OneView'
  BY <1>9 DEF TypeInv, OneView, Mounted
<1>14. LeaseInv' /\ TaskInv'
  BY <1>1, <1>10, <1>11 DEF LeaseInv, LeaseOK, TaskInv, store
<1> QED
  BY <1>12, <1>13, <1>14 DEF TypeInv

\* The background attempt is over, and one task or two see to it.
LEMMA BackgroundEnds ==
  ASSUME TypeInv, Quiet, NEW pc \in {"done", "failing"},
         NEW t, t = IF pc = "done" THEN "drainAgain" ELSE "parkHead",
         background # None, background.pc \in {"sending", "settling"},
         background' = [background EXCEPT !.pc = pc], microtasks' = <<"notify", t>>,
         UNCHANGED <<store, history, turn, hooks, attempt, waiter, exclusions, other, steers>>
  PROVE  TypeInv'
<1>1. background \in BackgroundAttempt
  BY DEF TypeInv, TypeOK
<1>2. background' \in BackgroundAttempt /\ background'.pc = pc /\ background' # None
  BY <1>1, ComposerAssumption DEF BackgroundAttempt
<1>3. microtasks' \in Seq(Hooks \cup Tasks) /\ TaskOK(microtasks', background')
  BY <1>2 DEF Tasks, Ends, TaskOK
<1>4. TypeOK'
  BY <1>2, <1>3 DEF TypeInv, TypeOK, store, history
<1>5. LeaseInv'
  <2>1. ~BackgroundHolds(background')
    BY <1>2 DEF BackgroundHolds
  <2>2. turn # "background"
    BY DEF TypeInv, LeaseInv, LeaseOK
  <2> QED
    BY <2>1, <2>2 DEF TypeInv, LeaseInv, LeaseOK, store
<1>6. OneView' /\ TaskInv'
  BY <1>3 DEF TypeInv, OneView, Mounted, TaskInv
<1> QED
  BY <1>4, <1>5, <1>6 DEF TypeInv

LEMMA BackgroundStepTyped ==
  ASSUME TypeInv, RejectBackground \/ SettleBackground
  PROVE  TypeInv'
<1>1. \E pc \in {"done", "failing"} :
        LET t == IF pc = "done" THEN "drainAgain" ELSE "parkHead" IN
        /\ Quiet /\ background # None /\ background.pc \in {"sending", "settling"}
        /\ background' = [background EXCEPT !.pc = pc] /\ microtasks' = <<"notify", t>>
        /\ UNCHANGED <<store, history, turn, hooks, attempt, waiter, exclusions, other, steers>>
  BY DEF RejectBackground, SettleBackground
<1> QED
  BY <1>1, BackgroundEnds

LEMMA DrainAgainTyped ==
  ASSUME TypeInv, DrainAgain
  PROVE  TypeInv'
<1>1. microtasks # <<>> /\ background \in BackgroundAttempt \cup {None}
  BY DEF DrainAgain, Task, TypeInv, TypeOK
<1>2. PICK b : b = IF Task("drainAgain") THEN None ELSE background
  OBVIOUS
<1>3. Task("drainAgain") => /\ background # None /\ background.pc = "done"
                            /\ \A i \in DOMAIN Tail(microtasks) : Tail(microtasks)[i] \notin Ends
  BY TaskFacts DEF Task, TypeInv, TaskInv, TaskOK, Ends
<1>4. b \in BackgroundAttempt \cup {None}
      /\ (b = background \/ (b = None /\ ~BackgroundHolds(background)))
  <2>1. CASE Task("drainAgain")
    BY <1>2, <1>3, <2>1 DEF BackgroundHolds
  <2>2. CASE ~Task("drainAgain")
    BY <1>1, <1>2, <2>2
  <2> QED
    BY <2>1, <2>2
<1>5. DrainBackground(Open, exclusions, attempt, b, waiter)
      /\ microtasks' = Tail(microtasks)
      /\ UNCHANGED <<store, history, turn, hooks, attempt, exclusions, other, steers>>
  BY <1>2 DEF DrainAgain
<1>6. BackgroundSound(First(queue), chat, stopping, Open, exclusions, attempt, b, waiter,
                      background', waiter')
  <2>1. PICK open, excluded : open = Open /\ excluded = exclusions
    OBVIOUS
  <2>2. DrainBackground(open, excluded, attempt, b, waiter)
    BY <1>5, <2>1
  <2>3. BackgroundSound(First(queue), chat, stopping, open, excluded, attempt, b, waiter,
                        background', waiter')
    BY <1>4, <2>2, DrainBackgroundTyped
  <2> QED
    BY <2>1, <2>3
<1>7. LeaseOK(hooks', attempt', background', other, turn, chat, stopping)
  <2>1. PICK table, now, open, excluded :
          table = hooks /\ now = attempt /\ open = Open /\ excluded = exclusions
    OBVIOUS
  <2>2. /\ LeaseOK(table, now, background, other, turn, chat, stopping)
        /\ now # attempt => ForegroundClaims(First(queue)) /\ open
        /\ BackgroundSound(First(queue), chat, stopping, open, excluded, attempt, b, waiter,
                           background', waiter')
    BY <1>6, <2>1 DEF TypeInv, LeaseInv
  <2>3. LeaseOK(table, now, background', other, turn, chat, stopping)
    BY <1>4, <2>2, BackgroundLease, Zenon
  <2> QED
    BY <1>5, <2>1, <2>3
<1>8. microtasks' \in Seq(Hooks \cup Tasks) /\ TaskOK(microtasks', background')
  <2>1. Tail(microtasks) \in Seq(Hooks \cup Tasks) /\ TaskOK(Tail(microtasks), background)
    BY <1>1, TaskFacts
  <2>2. CASE Task("drainAgain")
    BY <1>3, <1>5, <2>1, <2>2 DEF TaskOK, Ends
  <2>3. CASE ~Task("drainAgain")
    <3>1. background' = background \/ background = None
      BY <1>2, <1>6, <2>3 DEF BackgroundSound
    <3> QED
      BY <1>5, <2>1, <3>1 DEF TaskOK
  <2> QED
    BY <2>2, <2>3
<1>9. TypeOK'
  BY <1>5, <1>6, <1>8 DEF TypeInv, TypeOK, BackgroundSound, store, history
<1>10. OneView' /\ LeaseInv' /\ TaskInv'
  BY <1>5, <1>7, <1>8 DEF TypeInv, OneView, Mounted, LeaseInv, TaskInv, store
<1> QED
  BY <1>9, <1>10 DEF TypeInv

\* Those who are woken: each once, in some order.
LEMMA WakesFacts ==
  ASSUME NEW S, IsFiniteSet(S), NEW wakes \in SetToSeqs(S)
  PROVE  /\ wakes \in Seq(S)
         /\ \A x \in S : \E i \in DOMAIN wakes : wakes[i] = x
<1>1. PICK n : n = Cardinality(S)
  OBVIOUS
<1>2. n \in Nat /\ wakes \in [1 .. n -> S]
      /\ \A i, j \in 1 .. n : i # j => wakes[i] # wakes[j]
  BY <1>1, FS_CardinalityType DEF SetToSeqs
<1>3. wakes \in Injection(1 .. n, S)
  BY <1>2 DEF Injection, IsInjective
<1>4. IsFiniteSet(1 .. n) /\ Cardinality(1 .. n) = n
  <2>1. 1 \in Int /\ n \in Int /\ (IF 1 > n THEN 0 ELSE n - 1 + 1) = n
    BY <1>2
  <2> QED
    BY <2>1, FS_Interval
<1>5. wakes \in Surjection(1 .. n, S)
  BY <1>1, <1>3, <1>4, FS_Injection
<1>6. wakes \in Seq(S) /\ DOMAIN wakes = 1 .. n
  BY <1>2
<1> QED
  BY <1>5, <1>6 DEF Surjection

\* Tasks that go before, and one that may come after.
LEMMA TasksAround ==
  ASSUME NEW S, NEW front \in Seq(S), NEW s \in Seq(S), NEW t \in Seq(S), NEW all,
         all = front \o s \o t
  PROVE  /\ all \in Seq(S) /\ Len(front) \in Nat /\ Len(s) \in Nat /\ Len(t) \in Nat
         /\ DOMAIN all = 1 .. Len(front) + Len(s) + Len(t)
         /\ DOMAIN front = 1 .. Len(front) /\ DOMAIN s = 1 .. Len(s) /\ DOMAIN t = 1 .. Len(t)
         /\ \A i \in 1 .. Len(front) : all[i] = front[i]
         /\ \A i \in 1 .. Len(s) : all[Len(front) + i] = s[i]
         /\ \A i \in 1 .. Len(t) : all[Len(front) + Len(s) + i] = t[i]
<1>1. PICK most : most = front \o s
  OBVIOUS
<1>2. /\ most \in Seq(S) /\ Len(most) = Len(front) + Len(s)
      /\ \A i \in 1 .. Len(front) : most[i] = front[i]
      /\ \A i \in 1 .. Len(s) : most[Len(front) + i] = s[i]
  BY <1>1
<1>3. /\ all \in Seq(S) /\ Len(all) = Len(most) + Len(t)
      /\ \A i \in 1 .. Len(most) : all[i] = most[i]
      /\ \A i \in 1 .. Len(t) : all[Len(most) + i] = t[i]
  BY <1>1, <1>2
<1> QED
  BY <1>2, <1>3

\* The waiting mounts are woken before what is due, the background drain after it.
NotifiedAs(wakes, last) ==
  /\ wakes \in Seq(Hooks) /\ last \in Seq({"resume"})
  /\ microtasks' = wakes \o Tail(microtasks) \o last
  /\ \A h \in Hooks : hooks[h].waiting # None => \E i \in DOMAIN wakes : wakes[i] = h
  /\ \A i \in DOMAIN wakes : hooks[wakes[i]].waiting # None
  /\ waiter # None => last = <<"resume">>

LEMMA NotifyWakes ==
  ASSUME Notify, ~Leased(attempt, background)
  PROVE  \E wakes, last : NotifiedAs(wakes, last)
<1>1. PICK idlers : idlers = {h \in Hooks : hooks[h].waiting # None}
  OBVIOUS
<1>2. IsFiniteSet(idlers)
  <2>1. IsFiniteSet(Hooks) /\ idlers \in SUBSET Hooks
    BY <1>1, ComposerAssumption
  <2> QED
    BY <2>1, FS_Subset
<1>3. PICK last : last = IF waiter # None THEN <<"resume">> ELSE <<>>
  OBVIOUS
<1>4. PICK wakes \in SetToSeqs(idlers) : microtasks' = wakes \o Tail(microtasks) \o last
  BY <1>1, <1>3 DEF Notify
<1>5. wakes \in Seq(idlers) /\ \A h \in idlers : \E i \in DOMAIN wakes : wakes[i] = h
  BY <1>2, WakesFacts
<1>6. wakes \in Seq(Hooks) /\ \A i \in DOMAIN wakes : hooks[wakes[i]].waiting # None
  BY <1>1, <1>5
<1>7. last \in Seq({"resume"}) /\ (waiter # None => last = <<"resume">>)
  <2>1. waiter # None => last = <<"resume">>
    BY <1>3
  <2>2. last = <<"resume">> \/ last = <<>>
    BY <1>3
  <2>3. <<"resume">> \in Seq({"resume"})
    OBVIOUS
  <2>4. <<>> \in Seq({"resume"})
    BY EmptySeq
  <2> QED
    BY <2>1, <2>2, <2>3, <2>4
<1> QED
  BY <1>1, <1>4, <1>5, <1>6, <1>7 DEF NotifiedAs

LEMMA NotifyTyped ==
  ASSUME TypeInv, Notify
  PROVE  TypeInv'
<1>1. /\ microtasks # <<>> /\ hooks \in [Hooks -> Hook]
      /\ UNCHANGED <<store, history, turn, attempt, background, exclusions, other, steers>>
  BY DEF Notify, Task, TypeInv, TypeOK
<1>2. CASE Leased(attempt, background)
  <2>1. microtasks' = Tail(microtasks) /\ UNCHANGED <<hooks, waiter>>
    BY <1>2 DEF Notify
  <2>2. microtasks' \in Seq(Hooks \cup Tasks) /\ TaskOK(microtasks', background)
    BY <1>1, <2>1, TaskFacts
  <2>3. TypeOK'
    BY <1>1, <2>1, <2>2 DEF TypeInv, TypeOK, store, history
  <2> QED
    BY <1>1, <2>1, <2>2, <2>3 DEF TypeInv, OneView, Mounted, LeaseInv, TaskInv, store
<1>3. CASE ~Leased(attempt, background)
  <2>1. hooks' = [h \in Hooks |-> [hooks[h] EXCEPT !.waiting = None]] /\ waiter' = None
    BY <1>3 DEF Notify
  <2>2. \A h \in Hooks : /\ hooks'[h] \in Hook /\ hooks'[h].mounted = hooks[h].mounted
                         /\ hooks'[h].rejections = hooks[h].rejections
    <3>1. ASSUME NEW h \in Hooks
          PROVE  /\ hooks'[h] \in Hook /\ hooks'[h].mounted = hooks[h].mounted
                 /\ hooks'[h].rejections = hooks[h].rejections
      <4>1. hooks'[h] = [hooks[h] EXCEPT !.waiting = None] /\ hooks[h] \in Hook
        BY <1>1, <2>1
      <4> QED
        BY <4>1, HookFields DEF Hook
    <3> QED
      BY <3>1
  <2>3. hooks' \in [Hooks -> Hook]
    BY <2>1, <2>2
  <2>4. PICK wakes, last : NotifiedAs(wakes, last)
    BY <1>3, NotifyWakes
  <2>5. PICK rest : rest = Tail(microtasks)
    OBVIOUS
  <2>6. rest \in Seq(Hooks \cup Tasks) /\ TaskOK(rest, background)
    BY <1>1, <2>5, TaskFacts
  <2>7. /\ wakes \in Seq(Hooks \cup Tasks) /\ last \in Seq(Hooks \cup Tasks)
        /\ microtasks' = wakes \o rest \o last
    BY <2>4, <2>5 DEF NotifiedAs, Tasks
  <2>8. /\ microtasks' \in Seq(Hooks \cup Tasks) /\ Len(wakes) \in Nat /\ Len(rest) \in Nat
        /\ DOMAIN microtasks' = 1 .. Len(wakes) + Len(rest) + Len(last) /\ Len(last) \in Nat
        /\ DOMAIN wakes = 1 .. Len(wakes) /\ DOMAIN rest = 1 .. Len(rest)
        /\ DOMAIN last = 1 .. Len(last)
        /\ \A i \in 1 .. Len(wakes) : microtasks'[i] = wakes[i]
        /\ \A i \in 1 .. Len(rest) : microtasks'[Len(wakes) + i] = rest[i]
        /\ \A i \in 1 .. Len(last) : microtasks'[Len(wakes) + Len(rest) + i] = last[i]
    BY <2>6, <2>7, TasksAround
  <2>9. \A i \in DOMAIN microtasks' : microtasks'[i] \in Ends =>
          i - Len(wakes) \in DOMAIN rest /\ microtasks'[i] = rest[i - Len(wakes)]
    <3>1. ASSUME NEW i \in DOMAIN microtasks', microtasks'[i] \in Ends
          PROVE  i - Len(wakes) \in DOMAIN rest /\ microtasks'[i] = rest[i - Len(wakes)]
      <4>1. CASE i \in 1 .. Len(wakes)
        <5>1. microtasks'[i] \in Hooks
          BY <2>4, <2>8, <4>1 DEF NotifiedAs
        <5> QED
          BY <3>1, <5>1, ComposerAssumption DEF Ends, Tasks
      <4>2. CASE i > Len(wakes) + Len(rest)
        <5>1. PICK j : j = i - (Len(wakes) + Len(rest))
          OBVIOUS
        <5>2. j \in 1 .. Len(last) /\ i = Len(wakes) + Len(rest) + j
          BY <2>8, <3>1, <4>2, <5>1
        <5>3. last[j] \in {"resume"}
          BY <2>4, <2>8, <5>2 DEF NotifiedAs
        <5> QED
          BY <2>8, <3>1, <5>2, <5>3 DEF Ends
      <4>3. CASE i > Len(wakes) /\ i <= Len(wakes) + Len(rest)
        <5>1. PICK j : j = i - Len(wakes)
          OBVIOUS
        <5>2. j \in 1 .. Len(rest) /\ i = Len(wakes) + j
          BY <2>8, <3>1, <4>3, <5>1
        <5> QED
          BY <2>8, <5>1, <5>2
      <4> QED
        BY <2>8, <3>1, <4>1, <4>2, <4>3
    <3> QED
      BY <3>1
  <2>10. TaskOK(microtasks', background)
    <3>1. ASSUME NEW i \in DOMAIN microtasks', NEW j \in DOMAIN microtasks',
                 microtasks'[i] \in Ends, microtasks'[j] \in Ends
          PROVE  i = j
      <4>1. i - Len(wakes) = j - Len(wakes)
        BY <2>6, <2>9, <3>1 DEF TaskOK
      <4> QED
        BY <2>8, <4>1
    <3>2. ASSUME NEW i \in DOMAIN microtasks'
          PROVE  /\ microtasks'[i] = "parkHead" => background # None /\ background.pc = "failing"
                 /\ microtasks'[i] = "drainAgain" => background # None /\ background.pc = "done"
      BY <2>6, <2>9, <3>2 DEF TaskOK, Ends
    <3> QED
      BY <3>1, <3>2 DEF TaskOK
  <2>11. TypeOK'
    BY <1>1, <2>1, <2>3, <2>8 DEF TypeInv, TypeOK, store, history
  <2>12. OneView'
    BY <2>2 DEF TypeInv, OneView, Mounted
  <2>13. LeaseInv'
    <3>1. attempt # None => attempt.hook \in Hooks
      BY DEF TypeInv, TypeOK, Attempt
    <3>2. attempt # None => ~Exhausted(hooks'[attempt.hook], attempt.payload)
      BY <2>2, <3>1 DEF TypeInv, LeaseInv, LeaseOK, Exhausted
    <3> QED
      BY <1>1, <3>2 DEF TypeInv, LeaseInv, LeaseOK, store
  <2>14. TaskInv'
    BY <1>1, <2>10 DEF TaskInv
  <2> QED
    BY <2>11, <2>12, <2>13, <2>14 DEF TypeInv
<1> QED
  BY <1>2, <1>3

LEMMA OtherTyped ==
  ASSUME TypeInv, OtherAcquires \/ OtherReleases
  PROVE  TypeInv'
<1>1. Quiet /\ other' \in BOOLEAN /\ UNCHANGED <<store, history, turn, drains, steers>>
  BY DEF OtherAcquires, OtherReleases
<1>2. microtasks' \in Seq(Hooks \cup Tasks) /\ TaskOK(microtasks', background)
  <2>1. CASE microtasks' = microtasks
    BY <1>1, <2>1, NoTasks
  <2>2. CASE microtasks' = <<"notify">>
    BY <2>2 DEF TaskOK, Ends, Tasks
  <2> QED
    BY <2>1, <2>2 DEF OtherAcquires, OtherReleases
<1>3. other' = TRUE => attempt = None /\ ~BackgroundHolds(background)
  BY DEF OtherAcquires, OtherReleases, Leased, BackgroundHolds
<1>4. LeaseInv'
  BY <1>1, <1>3 DEF TypeInv, LeaseInv, LeaseOK, store, drains
<1>5. TypeOK'
  BY <1>1, <1>2 DEF TypeInv, TypeOK, store, history, drains
<1> QED
  BY <1>1, <1>2, <1>4, <1>5 DEF TypeInv, OneView, Mounted, TaskInv, drains

LEMMA SteersTyped ==
  ASSUME TypeInv, SteerFails \/ \E h \in Hooks : StartSteer(h)
  PROVE  TypeInv'
<1>1. /\ steers \in Seq(Steer)
      /\ UNCHANGED <<store, history, turn, drains, other, microtasks>>
  BY DEF TypeInv, TypeOK, SteerFails, StartSteer
<1>2. steers' \in Seq(Steer)
  <2>1. CASE SteerFails
    BY <1>1, <2>1, TailFacts DEF SteerFails
  <2>2. CASE \E h \in Hooks : StartSteer(h)
    <3>1. PICK h \in Hooks : StartSteer(h)
      BY <2>2
    <3>2. First(queue) # None /\ queue \in Seq(Record)
      BY <3>1 DEF StartSteer, Attemptable, TypeInv, TypeOK
    <3>3. queue # <<>>
      BY <3>2 DEF First
    <3>4. Head(queue) \in Record
      BY <3>2, <3>3, HeadTailProperties
    <3>5. PICK steer : steer = [hook |-> h, payload |-> PayloadOf(Head(queue))]
      OBVIOUS
    <3>6. steer \in Steer
      BY <3>4, <3>5, PayloadFacts DEF Steer
    <3>7. steers' = Append(steers, steer)
      BY <3>1, <3>5 DEF StartSteer
    <3> QED
      BY <1>1, <3>6, <3>7, AppendFacts
  <2> QED
    BY <2>1, <2>2
<1>3. TypeOK'
  BY <1>1, <1>2 DEF TypeInv, TypeOK, store, history, drains
<1> QED
  BY <1>1, <1>3 DEF TypeInv, OneView, Mounted, LeaseInv, TaskInv, store, drains

-----------------------------------------------------------------------------
(* Every step, and the first state *)

LEMMA InitTyped == Init => TypeInv
<1> SUFFICES ASSUME Init PROVE TypeInv
  OBVIOUS
<1>1. queue \in Seq(Record)
  <2>1. ASSUME NEW i \in 1 .. Restored PROVE NewRecord(i, "ready", TRUE) \in Record
    <3>1. i \in Messages /\ 0 \in 0 .. MaxEdits
      BY <2>1, ComposerAssumption DEF Messages
    <3>2. PICK r : r = NewRecord(i, "ready", TRUE)
      OBVIOUS
    <3>3. r \in Record
      BY <3>1, <3>2 DEF NewRecord, Record
    <3> QED
      BY <3>2, <3>3, Zenon
  <2>2. queue \in [1 .. Restored -> Record] /\ Restored \in Nat
    <3>1. queue = [i \in 1 .. Restored |-> NewRecord(i, "ready", TRUE)]
      BY DEF Init
    <3>2. queue \in [1 .. Restored -> Record]
      BY <2>1, <3>1, Zenon
    <3> QED
      BY <3>2, ComposerAssumption
  <2> QED
    BY <2>2
<1>2. NewHook \in Hook
  BY DEF NewHook, Hook
<1>3. hooks \in [Hooks -> Hook] /\ \A h \in Hooks : hooks[h].mounted = FALSE
  BY <1>2 DEF Init, NewHook
<1>4. accepted \in 0 .. MaxMessages /\ exclusions \in SUBSET Messages /\ removed \in SUBSET Messages
  BY ComposerAssumption DEF Init, Messages
<1>5. /\ turns \in Seq(Payload) /\ steers \in Seq(Steer) /\ microtasks \in Seq(Hooks \cup Tasks)
      /\ DOMAIN microtasks = {}
  BY EmptySeq DEF Init
<1>6. TypeOK
  BY <1>1, <1>3, <1>4, <1>5 DEF Init, TypeOK
<1>7. OneView
  BY <1>3 DEF OneView, Mounted
<1>8. LeaseInv
  BY DEF Init, LeaseInv, LeaseOK
<1>9. TaskInv
  BY <1>5 DEF TaskInv, TaskOK
<1> QED
  BY <1>6, <1>7, <1>8, <1>9 DEF TypeInv

LEMMA StuttersTyped ==
  ASSUME TypeInv, UNCHANGED vars
  PROVE  TypeInv'
<1>1. TypeOK'
  BY DEF TypeInv, TypeOK, vars, store, history, drains
<1>2. OneView' /\ LeaseInv' /\ TaskInv'
  BY DEF TypeInv, OneView, Mounted, LeaseInv, TaskInv, vars, store, drains
<1> QED
  BY <1>1, <1>2 DEF TypeInv

LEMMA StepTyped ==
  ASSUME TypeInv, Next
  PROVE  TypeInv'
<1>1. CASE Accept \/ Defer
  <2>1. accepted < MaxMessages /\ accepted' = accepted + 1
        /\ UNCHANGED <<removed, turns, turn, other, steers, microtasks>>
    BY <1>1 DEF Accept, Defer
  <2>2. \E kind \in {"ready", "preparing"} :
          WriteQueue(Append(queue, NewRecord(accepted + 1, kind, FALSE)))
    BY <1>1 DEF Accept, Defer
  <2> QED
    BY <2>1, <2>2, AcceptTyped
<1>2. CASE Load
  BY <1>2, LoadTyped
<1>3. CASE \E i \in DOMAIN queue : Edit(i)
  BY <1>3, EditTyped
<1>4. CASE \E h \in Hooks : View(h)
  BY <1>4, MountTyped, UnmountTyped, RenderTyped, RetryTyped, SteersTyped DEF View
<1>5. CASE Foreground
  BY <1>5, CompactTyped, CommitTyped, RejectTyped DEF Foreground
<1>6. CASE BackgroundStep
  BY <1>6, CommitBackgroundTyped, BackgroundStepTyped DEF BackgroundStep
<1>7. CASE Microtask
  BY <1>7, NotifyTyped, WakeTyped, ParkHeadTyped, DrainAgainTyped DEF Microtask
<1>8. CASE TurnEnds \/ Stop
  BY <1>8, TurnEndsTyped, StopTyped
<1>9. CASE OtherAcquires \/ OtherReleases
  BY <1>9, OtherTyped
<1>10. CASE Steered \/ SteerFails
  BY <1>10, SteeredTyped, SteersTyped
<1> QED
  BY <1>1, <1>2, <1>3, <1>4, <1>5, <1>6, <1>7, <1>8, <1>9, <1>10 DEF Next

\* Every state has its type, one view shows the chat at a time, one drain or
\* other sender holds the dispatch lease, and the task that ends an attempt of
\* the background drain is due once.
THEOREM QueueTyped == Spec => []TypeInv
<1>1. TypeInv /\ [Next]_vars => TypeInv'
  BY StepTyped, StuttersTyped
<1> QED
  BY <1>1, InitTyped, PTL DEF Spec

\* useMessageQueue and useBackgroundQueuedMessageDrain keep every ref, attempt,
\* waiter and task within its type, however often and in whatever order the
\* chat is mounted, edited, contended for and steered.
THEOREM ComposerTypeCorrect == Spec => []TypeOK
<1>1. TypeInv => TypeOK
  BY DEF TypeInv
<1> QED
  BY <1>1, QueueTyped, PTL

-----------------------------------------------------------------------------
(* A chat that nobody has opened *)

Unopened == \A h \in Hooks : ~hooks[h].used

Untouched ==
  /\ \A h \in Hooks : hooks[h].timer = None /\ hooks[h].waiting = None
  /\ \A i \in DOMAIN queue : /\ queue[i].kind = "ready" /\ ~queue[i].editing
                             /\ ~queue[i].released /\ queue[i].id \in exclusions
  /\ attempt = None /\ background = None /\ waiter = None /\ turn = "none"
  /\ steers = <<>> /\ turns = <<>>
  /\ \A i \in DOMAIN microtasks : microtasks[i] = "notify"

\* A mount is the use of a hook.  Until there is one, every record is a restored
\* one the background drain leaves alone, and nothing is under way.
UnopenedInv ==
  /\ \A h \in Hooks : hooks[h].mounted => hooks[h].used
  /\ Unopened => Untouched

\* Once used, a hook remains so, and only a used one is mounted.
UsedGrows ==
  \A h \in Hooks : /\ hooks[h].used => hooks'[h].used
                   /\ hooks'[h].mounted => hooks[h].mounted \/ hooks'[h].used

DrainKept(hook, k) ==
  /\ k.mounted = hook.mounted /\ k.used = hook.used /\ k.stale = hook.stale
  /\ k.shown = hook.shown /\ k.timer = hook.timer /\ k.rejections = hook.rejections

LEMMA DrainedKeeps ==
  ASSUME NEW h, NEW hook \in Hook, NEW r, NEW c, NEW s, NEW now, NEW b, NEW k, NEW next,
         DrainedAs(h, hook, r, c, s, now, b, k, next)
  PROVE  DrainKept(hook, k)
<1>1. PICK p : p = PayloadOf(r)
  OBVIOUS
<1>2. PICK l : l = [payload |-> p, current |-> TRUE]
  OBVIOUS
<1>3. k = hook \/ k = [hook EXCEPT !.waiting = p] \/ k = [hook EXCEPT !.last = l]
  BY <1>1, <1>2 DEF DrainedAs
<1> QED
  BY <1>3, HookFields DEF DrainKept

LEMMA WriteUses ==
  ASSUME OneView, NEW q, NEW c, NEW s, NEW table \in [Hooks -> Hook], NEW a, NEW b, NEW d,
         Write(q, c, s, table, a, b, d)
  PROVE  \A h \in Hooks : /\ hooks'[h].mounted = table[h].mounted
                          /\ hooks'[h].used = table[h].used
<1>1. \/ ~Open /\ hooks' = table /\ attempt' = a
      \/ \E v \in Mounted : \E k, next :
           /\ ViewWrote(v, q, c, s, table, a, b, d, k, next)
           /\ hooks' = [table EXCEPT ![v] = k] /\ attempt' = next
  BY WriteView
<1>2. CASE \E v \in Mounted : \E k, next :
             /\ ViewWrote(v, q, c, s, table, a, b, d, k, next)
             /\ hooks' = [table EXCEPT ![v] = k] /\ attempt' = next
  <2>1. PICK v \in Mounted : \E k, next :
             /\ ViewWrote(v, q, c, s, table, a, b, d, k, next)
             /\ hooks' = [table EXCEPT ![v] = k] /\ attempt' = next
    BY <1>2
  <2>2. PICK k, next : /\ ViewWrote(v, q, c, s, table, a, b, d, k, next)
                       /\ hooks' = [table EXCEPT ![v] = k] /\ attempt' = next
    BY <2>1
  <2>3. PICK base \in Hook :
          /\ SubscribedAs(table[v], c, s, First(queue), First(q), base)
          /\ \/ DrainedAs(v, base, First(q), c, s, a, b, k, next)
             \/ k = base /\ next = a
    BY <2>2 DEF ViewWrote
  <2>4. base.mounted = table[v].mounted /\ base.used = table[v].used
    BY <2>3 DEF SubscribedAs, Softened
  <2>5. k.mounted = base.mounted /\ k.used = base.used
    <3>1. PICK r : r = First(q)
      OBVIOUS
    <3>2. DrainedAs(v, base, r, c, s, a, b, k, next) \/ k = base
      BY <2>3, <3>1
    <3> QED
      BY <3>2, DrainedKeeps DEF DrainKept
  <2>6. v \in Hooks
    BY DEF Mounted
  <2> QED
    BY <2>2, <2>4, <2>5, <2>6
<1> QED
  BY <1>1, <1>2

LEMMA TryUses ==
  ASSUME hooks \in [Hooks -> Hook], NEW h \in Hooks, NEW hook \in Hook, TryDrain(h, hook)
  PROVE  /\ hooks'[h].mounted = hook.mounted /\ hooks'[h].used = hook.used
         /\ \A g \in Hooks : g # h => hooks'[g] = hooks[g]
<1>1. PICK k, next :
        /\ DrainedAs(h, hook, First(queue), chat, stopping, attempt, background, k, next)
        /\ hooks' = [hooks EXCEPT ![h] = k] /\ attempt' = next
  BY TryDrainFacts
<1>2. PICK r, c, s, a, b :
        r = First(queue) /\ c = chat /\ s = stopping /\ a = attempt /\ b = background
  OBVIOUS
<1>3. DrainedAs(h, hook, r, c, s, a, b, k, next)
  BY <1>1, <1>2
<1>4. k.mounted = hook.mounted /\ k.used = hook.used
  BY <1>3, DrainedKeeps DEF DrainKept
<1> QED
  BY <1>1, <1>4

LEMMA WritersUse ==
  ASSUME TypeInv, NEW table \in [Hooks -> Hook],
         \A h \in Hooks : table[h].mounted = hooks[h].mounted /\ table[h].used = hooks[h].used,
         \E q, c, s, a, b, d : Write(q, c, s, table, a, b, d)
  PROVE  UsedGrows
<1>1. PICK q, c, s, a, b, d : Write(q, c, s, table, a, b, d)
  OBVIOUS
<1>2. \A h \in Hooks : /\ hooks'[h].mounted = table[h].mounted
                       /\ hooks'[h].used = table[h].used
  BY <1>1, WriteUses DEF TypeInv
<1> QED
  BY <1>2 DEF UsedGrows

LEMMA ViewUses ==
  ASSUME TypeInv, NEW h \in Hooks, View(h) \/ Wake(h)
  PROVE  UsedGrows
<1>1. hooks \in [Hooks -> Hook] /\ hooks[h] \in Hook /\ queue \in Seq(Record)
      /\ chat \in {"idle", "busy"}
  BY DEF TypeInv, TypeOK
<1>2. CASE Mount(h)
  <2>1. PICK hook : hook = [hooks[h] EXCEPT !.mounted = TRUE, !.used = TRUE, !.shown = chat]
    OBVIOUS
  <2>2. hook \in Hook /\ hook.used = TRUE
    BY <1>1, <2>1, HookFields DEF Hook
  <2>3. TryDrain(h, hook)
    BY <1>2, <2>1 DEF Mount
  <2> QED
    BY <1>1, <2>2, <2>3, TryUses DEF UsedGrows
<1>3. CASE Unmount(h)
  <2>1. PICK hook : hook = [hooks[h] EXCEPT !.mounted = FALSE, !.waiting = None,
                                            !.timer = None, !.stale = FALSE]
    OBVIOUS
  <2>2. hook.used = hooks[h].used /\ hook.mounted = FALSE
    BY <1>1, <2>1, HookFields
  <2>3. hooks' = [hooks EXCEPT ![h] = hook]
    BY <1>3, <2>1 DEF Unmount
  <2> QED
    BY <1>1, <2>2, <2>3 DEF UsedGrows
<1>4. CASE Render(h)
  <2>1. PICK hook : hook = Rendered(hooks[h])
    OBVIOUS
  <2>2. hook \in Hook /\ hook.used = hooks[h].used /\ hook.mounted = hooks[h].mounted
    BY <1>1, <2>1, RenderedFacts
  <2>3. TryDrain(h, hook)
    BY <1>4, <2>1 DEF Render, Rendered
  <2> QED
    BY <1>1, <2>2, <2>3, TryUses DEF UsedGrows
<1>5. CASE Retry(h)
  <2>1. PICK hook : hook = hooks[h]
    OBVIOUS
  <2>2. PICK fired, blank, cycled :
          /\ fired = [hook EXCEPT !.timer = None] /\ blank = [hook EXCEPT !.last = None]
          /\ cycled = NextCycle(fired)
    OBVIOUS
  <2>3. /\ fired \in Hook /\ fired.used = hook.used /\ fired.mounted = hook.mounted
        /\ blank.used = hook.used /\ blank.mounted = hook.mounted
    BY <1>1, <2>1, <2>2, HookFields DEF Hook
  <2>4. cycled \in Hook /\ cycled.used = hook.used /\ cycled.mounted = hook.mounted
    BY <2>2, <2>3, CycleSoftens DEF Softened
  <2>5. \/ hooks' = [hooks EXCEPT ![h] = fired] \/ hooks' = [hooks EXCEPT ![h] = blank]
        \/ TryDrain(h, cycled)
    BY <1>5, <2>1, <2>2 DEF Retry
  <2>6. CASE TryDrain(h, cycled)
    BY <1>1, <2>1, <2>4, <2>6, TryUses DEF UsedGrows
  <2> QED
    BY <1>1, <2>1, <2>3, <2>5, <2>6 DEF UsedGrows
<1>6. CASE StartSteer(h)
  BY <1>6 DEF StartSteer, drains, UsedGrows
<1>7. CASE Wake(h)
  <2>1. PICK hook : hook = hooks[h]
    OBVIOUS
  <2>2. TryDrain(h, hook) /\ hook \in Hook
    BY <1>1, <1>7, <2>1 DEF Wake
  <2> QED
    BY <1>1, <2>1, <2>2, TryUses DEF UsedGrows
<1> QED
  BY <1>2, <1>3, <1>4, <1>5, <1>6, <1>7 DEF View

LEMMA StepUses ==
  ASSUME TypeInv, Next
  PROVE  UsedGrows
<1>1. hooks \in [Hooks -> Hook] /\ attempt \in Attempt \cup {None}
  BY DEF TypeInv, TypeOK
<1>2. CASE \E q, c, s, a, b, d : Write(q, c, s, hooks, a, b, d)
  <2>1. PICK table : table = hooks
    OBVIOUS
  <2>2. /\ table \in [Hooks -> Hook] /\ \E q, c, s, a, b, d : Write(q, c, s, table, a, b, d)
        /\ \A h \in Hooks : table[h].mounted = hooks[h].mounted /\ table[h].used = hooks[h].used
    BY <1>1, <1>2, <2>1
  <2> QED
    BY <2>2, WritersUse
<1>3. CASE hooks' = hooks
  BY <1>3 DEF UsedGrows
<1>4. CASE Accept \/ Defer \/ Load
  <2>1. \E q, c, s, a, b, d : Write(q, c, s, hooks, a, b, d)
    BY <1>4 DEF Accept, Defer, Load, WriteQueue
  <2> QED
    BY <1>2, <2>1
<1>5. CASE \E i \in DOMAIN queue : Edit(i)
  <2>1. PICK i \in DOMAIN queue : Edit(i)
    BY <1>5
  <2>2. (\E r : ReplaceRecord(i, r)) \/ Dismiss(i)
    BY <2>1 DEF Edit, Release, FailDeferred, BeginEditing, CancelEditing, Save
  <2>3. \E q, c, s, a, b, d : Write(q, c, s, hooks, a, b, d)
    BY <2>2 DEF ReplaceRecord, WriteQueue, Dismiss
  <2> QED
    BY <1>2, <2>3
<1>6. CASE \E h \in Hooks : View(h) \/ Wake(h)
  BY <1>6, ViewUses
<1>7. CASE Compact \/ Compacted
  <2>1. \E q, c, s, a, b, d : Write(q, c, s, hooks, a, b, d)
    BY <1>7 DEF Compact, Compacted
  <2> QED
    BY <1>2, <2>1
<1>8. CASE Commit
  <2>1. PICK h : h = attempt.hook
    OBVIOUS
  <2>2. h \in Hooks
    BY <1>1, <1>8, <2>1 DEF Commit, Attempt
  <2>3. PICK table : table = Cleared(h)
    OBVIOUS
  <2>4. \E q, c, s, a, b, d : Write(q, c, s, table, a, b, d)
    BY <1>8, <2>1, <2>3 DEF Commit, Cleared
  <2>5. /\ table \in [Hooks -> Hook]
        /\ \A g \in Hooks : table[g].mounted = hooks[g].mounted /\ table[g].used = hooks[g].used
    BY <1>1, <2>2, <2>3, ClearedFacts
  <2> QED
    BY <2>4, <2>5, WritersUse
<1>9. CASE Reject
  <2>1. PICK h, p : h = attempt.hook /\ p = attempt.payload
    OBVIOUS
  <2>2. PICK k : k = RejectedBy(hooks[h], p)
    OBVIOUS
  <2>3. h \in Hooks /\ hooks[h] \in Hook
    BY <1>1, <1>9, <2>1 DEF Reject, Attempt
  <2>4. hooks' = [hooks EXCEPT ![h] = k] \/ hooks' = hooks
    BY <1>9, <2>1, <2>2 DEF Reject
  <2>5. k.mounted = hooks[h].mounted /\ k.used = hooks[h].used
    <3>1. PICK n, t : k = [hooks[h] EXCEPT !.rejections = n, !.timer = t]
      BY <2>2 DEF RejectedBy
    <3> QED
      BY <2>3, <3>1, HookFields
  <2> QED
    BY <1>1, <2>3, <2>4, <2>5 DEF UsedGrows
<1>10. CASE BackgroundStep
  <2>1. CASE CommitBackground
    <3>1. \E q, c, s, a, b, d : Write(q, c, s, hooks, a, b, d)
      BY <2>1 DEF CommitBackground
    <3> QED
      BY <1>2, <3>1
  <2>2. CASE RejectBackground \/ SettleBackground
    BY <1>3, <2>2 DEF RejectBackground, SettleBackground
  <2> QED
    BY <1>10, <2>1, <2>2 DEF BackgroundStep
<1>11. CASE Notify
  <2>1. CASE hooks' = [h \in Hooks |-> [hooks[h] EXCEPT !.waiting = None]]
    <3>1. ASSUME NEW h \in Hooks
          PROVE  hooks'[h].mounted = hooks[h].mounted /\ hooks'[h].used = hooks[h].used
      <4>1. hooks'[h] = [hooks[h] EXCEPT !.waiting = None] /\ hooks[h] \in Hook
        BY <1>1, <2>1
      <4> QED
        BY <4>1, HookFields
    <3> QED
      BY <3>1 DEF UsedGrows
  <2>2. hooks' = hooks \/ hooks' = [h \in Hooks |-> [hooks[h] EXCEPT !.waiting = None]]
    BY <1>11 DEF Notify
  <2> QED
    BY <1>3, <2>1, <2>2
<1>12. CASE ParkHead
  <2>1. (\E q, c, s, a, b, d : Write(q, c, s, hooks, a, b, d)) \/ hooks' = hooks
    BY <1>12 DEF ParkHead
  <2> QED
    BY <1>2, <1>3, <2>1
<1>13. CASE DrainAgain \/ OtherAcquires \/ OtherReleases \/ SteerFails
  BY <1>3, <1>13 DEF DrainAgain, OtherAcquires, OtherReleases, SteerFails, drains
<1>14. CASE TurnEnds \/ Stop \/ Steered
  <2>1. \E q, c, s, a, b, d : Write(q, c, s, hooks, a, b, d)
    BY <1>14 DEF TurnEnds, Stop, Steered, WriteChat
  <2> QED
    BY <1>2, <2>1
<1> QED
  BY <1>4, <1>5, <1>6, <1>7, <1>8, <1>9, <1>10, <1>11, <1>12, <1>13, <1>14
     DEF Next, Foreground, Microtask

\* A write while no view owns the queue: no record that waits is sent.
LEMMA UntouchedWrite ==
  ASSUME TypeInv, ~Open, NEW q \in Seq(Record), attempt = None, background = None, waiter = None,
         WriteQueue(q),
         \A i \in DOMAIN q : /\ q[i].kind = "ready" /\ ~q[i].editing
                             /\ ~q[i].released /\ q[i].id \in exclusions
  PROVE  /\ queue' = q /\ hooks' = hooks /\ attempt' = None /\ background' = None
         /\ waiter' = None /\ exclusions \subseteq exclusions'
<1>1. /\ queue' = q /\ hooks' = hooks /\ attempt' = attempt /\ exclusions' = Noted(q)
  BY DEF WriteQueue, Write
<1>2. exclusions \subseteq Noted(q)
  BY DEF Noted
<1>3. ~BackgroundClaims(First(q), Open, Noted(q))
  <2>1. CASE First(q) = None
    BY <2>1 DEF BackgroundClaims, Attemptable
  <2>2. CASE First(q) # None
    <3>1. First(q) = q[1] /\ 1 \in DOMAIN q
      BY <2>2, FirstFacts
    <3> QED
      BY <1>2, <3>1 DEF BackgroundClaims
  <2> QED
    BY <2>1, <2>2
<1>4. PICK d :
        d = IF First(queue) # First(q) \/ ~Ready(chat, stopping)
            THEN BackgroundDrained(First(q), Ready(chat, stopping), Open, Noted(q), attempt,
                                   None, None)
            ELSE [attempt |-> None, waiter |-> None]
  OBVIOUS
<1>5. background' = d.attempt /\ waiter' = d.waiter
  BY <1>4 DEF WriteQueue, Write
<1>6. d = [attempt |-> None, waiter |-> None]
  BY <1>3, <1>4 DEF BackgroundDrained
<1> QED
  BY <1>1, <1>2, <1>5, <1>6

LEMMA UntouchedStep ==
  ASSUME TypeInv, UnopenedInv, Next, UsedGrows, Unopened'
  PROVE  Untouched'
<1>1. Unopened
  BY DEF UsedGrows, Unopened
<1>2. Untouched /\ \A h \in Hooks : ~hooks[h].mounted
  BY <1>1 DEF UnopenedInv, Unopened
<1>3. ~Open /\ Mounted = {}
  BY <1>2 DEF Open, Mounted
<1>4. /\ attempt = None /\ background = None /\ waiter = None /\ turn = "none"
      /\ steers = <<>> /\ turns = <<>> /\ queue \in Seq(Record)
      /\ \A h \in Hooks : hooks[h].timer = None
  BY <1>2 DEF Untouched, TypeInv, TypeOK
<1>5. CASE Load
  <2>1. PICK q : q = [i \in DOMAIN queue |-> [queue[i] EXCEPT !.restored = FALSE]]
    OBVIOUS
  <2>2. /\ q \in Seq(Record) /\ DOMAIN q = DOMAIN queue
        /\ \A i \in DOMAIN q : /\ q[i].kind = queue[i].kind /\ q[i].editing = queue[i].editing
                               /\ q[i].released = queue[i].released /\ q[i].id = queue[i].id
    <3>1. PICK old : old = queue
      OBVIOUS
    <3>2. old \in Seq(Record) /\ q = [i \in DOMAIN old |-> [old[i] EXCEPT !.restored = FALSE]]
      BY <1>4, <2>1, <3>1
    <3>3. LoadedAs(old, q)
      BY <3>2, LoadedFacts, Zenon
    <3> QED
      BY <3>1, <3>3 DEF LoadedAs
  <2>3. WriteQueue(q) /\ UNCHANGED <<history, turn, other, steers, microtasks>>
    BY <1>5, <2>1 DEF Load
  <2>4. \A i \in DOMAIN q : /\ q[i].kind = "ready" /\ ~q[i].editing
                            /\ ~q[i].released /\ q[i].id \in exclusions
    BY <1>2, <2>2 DEF Untouched
  <2>5. /\ queue' = q /\ hooks' = hooks /\ attempt' = None /\ background' = None
        /\ waiter' = None /\ exclusions \subseteq exclusions'
    BY <1>3, <1>4, <2>2, <2>3, <2>4, UntouchedWrite
  <2> QED
    BY <1>2, <2>3, <2>4, <2>5 DEF Untouched, history
<1>6. CASE Accept \/ Defer \/ Stop
  BY <1>3, <1>6 DEF Accept, Defer, Stop
<1>7. CASE \E i \in DOMAIN queue : Edit(i)
  BY <1>2, <1>3, <1>7
     DEF Edit, Release, FailDeferred, BeginEditing, CancelEditing, Save, Dismiss, Untouched
<1>8. CASE \E h \in Hooks : View(h)
  <2>1. PICK h \in Hooks : View(h)
    BY <1>8
  <2>2. ~Mount(h)
    <3>1. SUFFICES ASSUME Mount(h) PROVE FALSE
      OBVIOUS
    <3>2. PICK hook : hook = [hooks[h] EXCEPT !.mounted = TRUE, !.used = TRUE, !.shown = chat]
      OBVIOUS
    <3>3. hooks \in [Hooks -> Hook] /\ hooks[h] \in Hook /\ chat \in {"idle", "busy"}
      BY DEF TypeInv, TypeOK
    <3>4. hook \in Hook /\ hook.used = TRUE
      BY <3>2, <3>3, HookFields DEF Hook
    <3>5. TryDrain(h, hook)
      BY <3>1, <3>2 DEF Mount
    <3> QED
      BY <3>3, <3>4, <3>5, TryUses DEF Unopened
  <2> QED
    BY <1>2, <1>4, <2>1, <2>2 DEF View, Unmount, Render, Retry, StartSteer
<1>9. CASE Foreground \/ BackgroundStep
  BY <1>4, <1>9 DEF Foreground, BackgroundStep, Compact, Compacted, Commit, Reject,
                    CommitBackground, RejectBackground, SettleBackground
<1>10. CASE Microtask
  <2>1. microtasks # <<>> => Head(microtasks) = "notify"
        /\ \A i \in DOMAIN Tail(microtasks) : Tail(microtasks)[i] = "notify"
    BY <1>2, TaskFacts DEF Untouched
  <2>2. Notify
    <3>1. \A h \in Hooks : ~Wake(h)
      BY <2>1, ComposerAssumption DEF Wake, Task, Tasks
    <3> QED
      BY <1>10, <2>1, <3>1 DEF Microtask, ParkHead, DrainAgain, Task
  <2>3. /\ UNCHANGED <<store, history, turn, attempt, background, exclusions, other, steers>>
        /\ microtasks # <<>>
    BY <2>2 DEF Notify, Task
  <2>4. CASE Leased(attempt, background)
    <3>1. microtasks' = Tail(microtasks) /\ UNCHANGED <<hooks, waiter>>
      BY <2>2, <2>4 DEF Notify
    <3> QED
      BY <1>2, <2>1, <2>3, <3>1 DEF Untouched, store, history
  <2>5. CASE ~Leased(attempt, background)
    <3>1. hooks' = [h \in Hooks |-> [hooks[h] EXCEPT !.waiting = None]] /\ waiter' = None
      BY <2>2, <2>5 DEF Notify
    <3>2. {h \in Hooks : hooks[h].waiting # None} = {}
      BY <1>2 DEF Untouched
    <3>3. PICK none : none = {h \in Hooks : hooks[h].waiting # None}
      OBVIOUS
    <3>4. IsFiniteSet(none) /\ none = {}
      BY <3>2, <3>3, FS_EmptySet
    <3>5. PICK wakes \in SetToSeqs(none) : microtasks' = wakes \o Tail(microtasks) \o <<>>
      BY <1>4, <2>2, <2>5, <3>3 DEF Notify
    <3>6. wakes \in Seq(none)
      BY <3>4, WakesFacts
    <3>7. wakes = <<>>
      BY <3>4, <3>6
    <3>8. Tail(microtasks) \in Seq(Hooks \cup Tasks)
      BY <2>3, TaskFacts
    <3>9. microtasks' = Tail(microtasks)
      BY <3>5, <3>7, <3>8, ConcatEmptySeq
    <3>10. \A h \in Hooks : hooks'[h].timer = None /\ hooks'[h].waiting = None
      <4>1. ASSUME NEW h \in Hooks PROVE hooks'[h].timer = None /\ hooks'[h].waiting = None
        <5>1. hooks'[h] = [hooks[h] EXCEPT !.waiting = None] /\ hooks[h] \in Hook
              /\ hooks[h].timer = None
          BY <1>4, <3>1 DEF TypeInv, TypeOK
        <5> QED
          BY <5>1, HookFields
      <4> QED
        BY <4>1
    <3> QED
      BY <1>2, <2>1, <2>3, <3>1, <3>9, <3>10 DEF Untouched, store, history
  <2> QED
    BY <2>4, <2>5
<1>11. CASE TurnEnds \/ Steered \/ SteerFails
  BY <1>4, <1>11 DEF TurnEnds, Steered, SteerFails
<1>12. CASE OtherAcquires
  BY <1>2, <1>12 DEF OtherAcquires, Untouched, store, history, drains
<1>13. CASE OtherReleases
  <2>1. microtasks' = <<"notify">> /\ UNCHANGED <<store, history, turn, drains, steers>>
    BY <1>13 DEF OtherReleases
  <2>2. \A i \in DOMAIN microtasks' : microtasks'[i] = "notify"
    BY <2>1
  <2> QED
    BY <1>2, <2>1, <2>2 DEF Untouched, store, history, drains
<1> QED
  BY <1>5, <1>6, <1>7, <1>8, <1>9, <1>10, <1>11, <1>12, <1>13 DEF Next

LEMMA InitUnopened == Init => UnopenedInv
<1> SUFFICES ASSUME Init PROVE UnopenedInv
  OBVIOUS
<1>1. \A h \in Hooks : hooks[h] = NewHook
  BY DEF Init
<1>2. \A h \in Hooks : /\ hooks[h].mounted = FALSE /\ hooks[h].timer = None
                       /\ hooks[h].waiting = None
  BY <1>1 DEF NewHook
<1>3. DOMAIN queue = 1 .. Restored /\ exclusions = 1 .. Restored
  BY DEF Init, Zenon
<1>4. ASSUME NEW i \in DOMAIN queue
      PROVE  /\ queue[i].kind = "ready" /\ ~queue[i].editing
             /\ ~queue[i].released /\ queue[i].id = i
  <2>1. queue = [j \in 1 .. Restored |-> NewRecord(j, "ready", TRUE)]
    BY DEF Init
  <2>2. queue[i] = NewRecord(i, "ready", TRUE)
    BY <1>3, <1>4, <2>1, Zenon
  <2> QED
    BY <2>2 DEF NewRecord
<1>5. microtasks = <<>> /\ DOMAIN microtasks = {}
  BY DEF Init
<1>6. /\ attempt = None /\ background = None /\ waiter = None /\ turn = "none"
      /\ steers = <<>> /\ turns = <<>>
  BY DEF Init
<1> QED
  BY <1>2, <1>3, <1>4, <1>5, <1>6 DEF UnopenedInv, Untouched

THEOREM UnopenedUntouched == Spec => []UnopenedInv
<1>1. TypeInv /\ UnopenedInv /\ [Next]_vars => UnopenedInv'
  <2> SUFFICES ASSUME TypeInv, UnopenedInv, [Next]_vars PROVE UnopenedInv'
    OBVIOUS
  <2>1. CASE Next
    <3>1. UsedGrows
      BY <2>1, StepUses
    <3>2. \A h \in Hooks : hooks'[h].mounted => hooks'[h].used
      BY <3>1 DEF UsedGrows, UnopenedInv
    <3>3. Unopened' => Untouched'
      BY <2>1, <3>1, UntouchedStep
    <3> QED
      BY <3>2, <3>3 DEF UnopenedInv
  <2>2. CASE UNCHANGED vars
    BY <2>2 DEF UnopenedInv, Unopened, Untouched, vars, store, history, drains
  <2> QED
    BY <2>1, <2>2
<1> QED
  BY <1>1, InitUnopened, QueueTyped, PTL DEF Spec

\* useBackgroundQueuedMessageDrain leaves alone the messages a previous run left
\* in the queue: none is sent before some view of the chat has been mounted,
\* even when a load of the session cleared the restored flag of each.
THEOREM RestoredWaits == Spec => []RestoredAwaitsUser
<1>1. UnopenedInv => RestoredAwaitsUser
  <2>1. UnopenedInv /\ Unopened => turns = <<>>
    BY DEF UnopenedInv, Untouched
  <2>2. turns = <<>> => DOMAIN turns = {}
    OBVIOUS
  <2> QED
    BY <2>1, <2>2 DEF RestoredAwaitsUser, Unopened
<1> QED
  BY <1>1, UnopenedUntouched, PTL

-----------------------------------------------------------------------------
(* Who will look at the head again *)

\* The tasks that are due.
Due == {microtasks[i] : i \in DOMAIN microtasks}

\* Attempt a is that of mount h; p was taken from record r, which may not be sent now.
By(h, a) == a # None /\ a.hook = h
IsHead(p, r) == r # None /\ p = PayloadOf(r)
Held(r) == r.editing \/ r.kind = "failed"

\* What the mount with hook k tried last is no later than the head r, and if it
\* is the head, then not one that still waits for its workspace.
LastOK(k, r, n) ==
  LET p == k.last.payload IN
  k.last # None =>
    /\ p.id <= n
    /\ r # None => \/ p.id < r.id
                   \/ p.id = r.id /\ p.rev < r.rev
                   \/ IsHead(p, r) /\ r.kind # "preparing"

\* What a mounted hook retries or, unless it will be rendered, waits to send, is
\* the head.  A head it tried in this idle cycle is being sent, will be retried,
\* is given up, or is held.
MountedOK(h, k, r, a) ==
  k.mounted =>
    /\ k.used
    /\ k.timer # None => IsHead(k.timer, r) /\ r.kind # "preparing"
    /\ k.waiting # None /\ ~k.stale => IsHead(k.waiting, r)
    /\ r # None /\ Tried(k, PayloadOf(r)) =>
         \/ By(h, a) /\ IsHead(a.payload, r)
         \/ k.timer = PayloadOf(r)
         \/ Exhausted(k, PayloadOf(r))
         \/ Held(r)

\* A hook that was unmounted retries, waits or sends, and never two of these.
AwayOK(h, k, a) ==
  /\ ~k.mounted /\ k.timer # None => k.waiting = None /\ ~By(h, a)
  /\ ~k.mounted /\ By(h, a) => k.waiting = None
  /\ ~k.used => k.last = None /\ k.waiting = None /\ k.timer = None /\ ~By(h, a)

HookOK(h, k, r, a, n) ==
  /\ k.waiting # None => ~Tried(k, k.waiting)
  /\ LastOK(k, r, n) /\ MountedOK(h, k, r, a) /\ AwayOK(h, k, a)

\* A hook that is woken although it is not mounted waited for the head.
DueOK(h, k, r, tasks) ==
  h \in tasks => /\ k.used
                 /\ ~k.mounted => k.timer = None /\ (k.waiting # None => IsHead(k.waiting, r))

Watches(k, p) == k.waiting = p \/ k.timer = p \/ Exhausted(k, p)

\* The mounted chat will look at a head it could send, or one of the hooks does,
\* or has given up.
ViewOK(h, table, r, c, s, a, tasks) ==
  LET p == PayloadOf(r) IN
  table[h].mounted /\ Ready(c, s) /\ ForegroundClaims(r) =>
     \/ table[h].stale \/ table[h].shown # c
     \/ Sending(h, a, p)
     \/ \E g \in Hooks : Watches(table[g], p)
     \/ h \in tasks
     \/ \E g \in Hooks \cap tasks : ~Tried(table[g], p)

\* Whoever waits for the lease waits for somebody to release it.
WaitInv ==
  waiter # None \/ (\E h \in Hooks : hooks[h].waiting # None) =>
     Leased(attempt, background) \/ "notify" \in Due
\* The background drain looks at a head it could send.
BackInv ==
  Ready(chat, stopping) /\ BackgroundClaims(First(queue), Open, exclusions) =>
     background # None \/ waiter # None \/ "resume" \in Due
\* Messages keep their order.
Ordered(q, n) ==
  /\ \A i, j \in DOMAIN q : i < j => q[i].id < q[j].id
  /\ \A i \in DOMAIN q : q[i].id <= n
OrderInv == Ordered(queue, accepted)
HooksInv == \A h \in Hooks : HookOK(h, hooks[h], First(queue), attempt, accepted)
DueInv == /\ \A h \in Hooks : DueOK(h, hooks[h], First(queue), Due)
          /\ attempt # None /\ Due # {} => IsHead(attempt.payload, First(queue))
ViewInv == \A h \in Hooks : ViewOK(h, hooks, First(queue), chat, stopping, attempt, Due)

\* How the head changes, when nobody only cancels an edit: it leaves, and one
\* accepted later is next; it is revised, which is a new send unless it is still
\* deferred; or it is the same message, and if it may not be sent now, then
\* because it could not be before, or it is edited, or parked.
HeadStep(old, new, n) ==
  new # None =>
    \/ old = None /\ new.id > n
    \/ old # None /\ new.id > old.id
    \/ /\ old # None /\ new.id = old.id /\ new.rev > old.rev
       /\ old.kind = "preparing" \/ NewSend(old, new)
    \/ /\ old # None /\ IsHead(PayloadOf(old), new)
       /\ old.kind # "preparing" => new.kind # "preparing" /\ (Held(old) => Held(new))

LEMMA HeadFacts ==
  ASSUME NEW p \in Payload, NEW r \in Record
  PROVE  /\ IsHead(p, r) <=> p.id = r.id /\ p.rev = r.rev
         /\ r.id \in Nat /\ r.rev \in Nat /\ p.id \in Nat /\ p.rev \in Nat
<1>1. p = [id |-> p.id, rev |-> p.rev] /\ p.id \in Nat /\ p.rev \in Nat
  BY DEF Payload, Messages
<1>2. r.id \in Nat /\ r.rev \in Nat /\ r # None
  BY PayloadFacts DEF Record, Messages
<1> QED
  BY <1>1, <1>2, PayloadFacts DEF IsHead, PayloadOf

LEMMA StepLast ==
  ASSUME NEW k \in Hook, NEW r \in Record \cup {None}, NEW new \in Record \cup {None},
         NEW n \in Nat, NEW m \in Nat, n <= m, HeadStep(r, new, n), LastOK(k, r, n)
  PROVE  LastOK(k, new, m)
<1>1. CASE k.last = None
  BY <1>1 DEF LastOK
<1>2. CASE k.last # None
  <2>1. PICK p : p = k.last.payload
    OBVIOUS
  <2>2. p \in Payload
    BY <1>2, <2>1, HookFields
  <2>3. /\ p.id \in Nat /\ p.rev \in Nat /\ p.id <= n
        /\ r # None => \/ p.id < r.id \/ (p.id = r.id /\ p.rev < r.rev)
                       \/ (IsHead(p, r) /\ r.kind # "preparing")
    BY <1>2, <2>1, <2>2 DEF LastOK, Payload, Messages
  <2>4. p.id <= m
    BY <2>3
  <2>5. CASE new = None
    BY <2>1, <2>4, <2>5 DEF LastOK
  <2>6. CASE new # None /\ r = None
    <3>1. new \in Record /\ new.id > n /\ new.id \in Nat
      BY <2>6 DEF HeadStep, Record, Messages
    <3>2. p.id < new.id
      BY <2>3, <3>1
    <3> QED
      BY <2>1, <2>4, <3>2 DEF LastOK
  <2>7. CASE new # None /\ r # None
    <3>1. /\ new \in Record /\ r \in Record /\ r.id \in Nat /\ r.rev \in Nat
          /\ new.id \in Nat /\ new.rev \in Nat
          /\ IsHead(p, r) <=> p.id = r.id /\ p.rev = r.rev
          /\ IsHead(p, new) <=> p.id = new.id /\ p.rev = new.rev
      BY <2>2, <2>7, HeadFacts
    <3>2. IsHead(PayloadOf(r), new) => new.id = r.id /\ new.rev = r.rev
      BY <2>7, <3>1, PayloadFacts DEF IsHead
    <3>3. \/ new.id > r.id
          \/ (new.id = r.id /\ new.rev > r.rev)
          \/ (new.id = r.id /\ new.rev = r.rev /\ (r.kind # "preparing" => new.kind # "preparing"))
      BY <2>7, <3>2 DEF HeadStep
    <3>4. \/ p.id < new.id \/ (p.id = new.id /\ p.rev < new.rev)
          \/ (IsHead(p, new) /\ new.kind # "preparing")
      BY <2>3, <2>7, <3>1, <3>3
    <3> QED
      BY <2>1, <2>4, <3>4 DEF LastOK
  <2> QED
    BY <2>5, <2>6, <2>7
<1> QED
  BY <1>1, <1>2

\* A hook of which nothing but the head it is compared with changes.
LEMMA StepAway ==
  ASSUME NEW h, NEW k \in Hook, ~k.mounted, NEW r \in Record \cup {None},
         NEW new \in Record \cup {None}, NEW a, NEW n \in Nat, NEW m \in Nat, n <= m,
         HeadStep(r, new, n), HookOK(h, k, r, a, n)
  PROVE  HookOK(h, k, new, a, m)
<1>1. LastOK(k, new, m)
  BY StepLast DEF HookOK
<1> QED
  BY <1>1 DEF HookOK, MountedOK

\* Another mount's drain leaves a hook as it is.
LEMMA OtherDrains ==
  ASSUME NEW h, NEW g, g # h, NEW k, NEW r, NEW a, NEW next, NEW n,
         next # a => a = None /\ next.hook = h, HookOK(g, k, r, a, n)
  PROVE  HookOK(g, k, r, next, n)
<1>1. By(g, next) => By(g, a) /\ next = a
  BY DEF By
<1>2. By(g, a) => next = a
  BY DEF By
<1> QED
  BY <1>1, <1>2 DEF HookOK, MountedOK, AwayOK

\* What a drain leaves of a hook that is mounted, woken or retrying.
DrainLeaves(h, hook, r, c, s, a, b, k, next, n) ==
  LET p == PayloadOf(r) IN
  /\ HookOK(h, k, r, next, n)
  /\ next # a => a = None /\ next.hook = h /\ IsHead(next.payload, r)
  /\ k.mounted = hook.mounted /\ k.used = hook.used /\ k.stale = hook.stale
  /\ k.shown = hook.shown /\ k.timer = hook.timer /\ k.rejections = hook.rejections
  /\ k.waiting # hook.waiting => /\ next = a /\ hook.waiting = None /\ Leased(a, b)
                                 /\ IsHead(k.waiting, r)
  /\ Ready(c, s) /\ ForegroundClaims(r) =>
       \/ k.waiting = p
       \/ next # None /\ next.payload = p
       \/ Exhausted(k, p) \/ Tried(hook, p)
       \/ Sending(h, a, p) /\ next = a
       \/ hook.waiting # None /\ k = hook
  /\ hook.mounted /\ Ready(c, s) /\ ForegroundClaims(r) =>
       k.stale \/ Sending(h, next, p) \/ Watches(k, p)

LEMMA DrainHook ==
  ASSUME NEW h \in Hooks, NEW hook \in Hook, NEW r \in Record \cup {None}, NEW c, NEW s,
         NEW a \in Attempt \cup {None}, NEW b, NEW k, NEW next, NEW n \in Nat,
         r # None => r.id <= n,
         HookOK(h, hook, r, a, n), hook.used,
         ~hook.mounted => hook.timer = None /\ (By(h, a) => IsHead(a.payload, r)),
         DrainedAs(h, hook, r, c, s, a, b, k, next)
  PROVE  DrainLeaves(h, hook, r, c, s, a, b, k, next, n)
<1>1. PICK p : p = PayloadOf(r)
  OBVIOUS
<1>2. /\ k.mounted = hook.mounted /\ k.used = hook.used /\ k.stale = hook.stale
      /\ k.shown = hook.shown /\ k.timer = hook.timer /\ k.rejections = hook.rejections
  <2>1. DrainKept(hook, k)
    BY DrainedKeeps, Zenon
  <2> QED
    BY <2>1 DEF DrainKept
<1>3. CASE ~Tries(h, hook, r, Ready(c, s), a)
  <2>1. k = hook /\ next = a
    BY <1>3 DEF DrainedAs
  <2>2. Ready(c, s) /\ ForegroundClaims(r) =>
          Exhausted(hook, p) \/ Tried(hook, p) \/ Sending(h, a, p) \/ hook.waiting # None
    BY <1>1, <1>3 DEF Tries
  <2>3. ForegroundClaims(r) => r # None /\ ~Held(r)
    BY DEF ForegroundClaims, Attemptable, Held
  <2>4. hook.mounted /\ Ready(c, s) /\ ForegroundClaims(r) =>
          hook.stale \/ Sending(h, a, p) \/ Watches(hook, p)
    BY <1>1, <2>2, <2>3 DEF HookOK, MountedOK, By, IsHead, Sending, Watches
  <2> QED
    BY <1>1, <1>2, <2>1, <2>2, <2>4 DEF DrainLeaves
<1>4. CASE Tries(h, hook, r, Ready(c, s), a)
  <2>1. /\ r \in Record /\ r # None /\ r.kind = "ready" /\ ~Held(r) /\ p \in Payload
        /\ ~Exhausted(hook, p) /\ ~Tried(hook, p) /\ ~Sending(h, a, p) /\ hook.waiting = None
        /\ IsHead(p, r) /\ p # None
    BY <1>1, <1>4, PayloadFacts DEF Tries, ForegroundClaims, Attemptable, Held, IsHead
  <2>2. ~hook.mounted => hook.timer = None /\ ~By(h, a)
    BY <1>1, <2>1 DEF Sending, IsHead, By
  <2>3. CASE Leased(a, b)
    <3>1. k = [hook EXCEPT !.waiting = p] /\ next = a
      BY <1>1, <1>4, <2>3 DEF DrainedAs
    <3>2. k.waiting = p /\ k.last = hook.last
      BY <3>1, HookFields
    <3>3. \A x : (Tried(k, x) <=> Tried(hook, x)) /\ (Exhausted(k, x) <=> Exhausted(hook, x))
      BY <1>2, <3>2 DEF Tried, Exhausted
    <3>4. LastOK(k, r, n)
      BY <3>2 DEF HookOK, LastOK
    <3>5. MountedOK(h, k, r, a)
      BY <1>2, <2>1, <3>2, <3>3 DEF HookOK, MountedOK
    <3>6. AwayOK(h, k, a)
      BY <1>2, <2>2 DEF AwayOK
    <3>7. HookOK(h, k, r, next, n)
      BY <2>1, <3>1, <3>2, <3>3, <3>4, <3>5, <3>6 DEF HookOK
    <3> QED
      BY <1>1, <1>2, <2>1, <2>3, <3>1, <3>2, <3>7 DEF DrainLeaves, Watches
  <2>4. CASE ~Leased(a, b)
    <3>1. PICK l : l = [payload |-> p, current |-> TRUE]
      OBVIOUS
    <3>2. /\ k = [hook EXCEPT !.last = l]
          /\ next = [hook |-> h, payload |-> p, pc |-> "preparing"]
      BY <1>1, <1>4, <2>4, <3>1 DEF DrainedAs
    <3>3. l.payload = p /\ k.waiting = None /\ k.last = l
      BY <2>1, <3>1, <3>2, HookFields
    <3>4. /\ next.hook = h /\ next.payload = p /\ next # None /\ a = None
      <4>1. next \in Attempt
        BY <2>1, <3>2 DEF Attempt
      <4> QED
        BY <2>4, <3>2, <4>1, ComposerAssumption DEF Leased
    <3>5. p.id <= n
      BY <2>1, HeadFacts
    <3>6. LastOK(k, r, n)
      BY <2>1, <3>3, <3>5 DEF LastOK
    <3>7. MountedOK(h, k, r, next)
      BY <1>2, <2>1, <3>3, <3>4 DEF HookOK, MountedOK, By
    <3>8. AwayOK(h, k, next)
      BY <1>2, <2>2, <3>3 DEF AwayOK
    <3>9. HookOK(h, k, r, next, n)
      BY <3>3, <3>6, <3>7, <3>8 DEF HookOK
    <3> QED
      BY <1>1, <1>2, <2>1, <3>3, <3>4, <3>9 DEF DrainLeaves, Sending
  <2> QED
    BY <2>3, <2>4
<1> QED
  BY <1>3, <1>4

\* What the subscriber leaves of the view's hook.
LEMMA SubscribeHook ==
  ASSUME NEW h, NEW t \in Hook, NEW r \in Record \cup {None}, NEW new \in Record \cup {None},
         NEW c, NEW s, NEW a, NEW n \in Nat, NEW m \in Nat, n <= m,
         HeadStep(r, new, n), t.mounted, HookOK(h, t, r, a, n), NEW base \in Hook,
         SubscribedAs(t, c, s, r, new, base)
  PROVE  HookOK(h, base, new, a, m)
<1>1. /\ base.mounted = t.mounted /\ base.used = t.used /\ base.waiting = t.waiting
      /\ base.timer \in {t.timer, None}
      /\ base.last # None => /\ t.last # None /\ base.last.payload = t.last.payload
                             /\ base.last.current => t.last.current
      /\ base.stale <=> t.stale \/ r # new
      /\ IdleEdge(c, s) /\ base.last # None => ~base.last.current
      /\ NewSend(r, new) => base.timer = None
      /\ ~NewSend(r, new) => base.rejections = t.rejections
      /\ ~IdleEdge(c, s) /\ ~NewSend(r, new) => base.timer = t.timer
  BY DEF SubscribedAs, Softened
<1>2. \A p : Tried(base, p) => Tried(t, p) /\ ~IdleEdge(c, s)
  BY <1>1 DEF Tried
<1>3. base.waiting # None => ~Tried(base, base.waiting)
  BY <1>1, <1>2 DEF HookOK
<1>4. LastOK(base, new, m)
  <2>1. LastOK(base, r, n)
    BY <1>1 DEF HookOK, LastOK
  <2> QED
    BY <2>1, StepLast
<1>5. base.timer # None => IsHead(base.timer, new) /\ new.kind # "preparing"
  <2>1. SUFFICES ASSUME base.timer # None
                 PROVE  IsHead(base.timer, new) /\ new.kind # "preparing"
    OBVIOUS
  <2>2. /\ base.timer = t.timer /\ ~NewSend(r, new) /\ t.timer \in Payload
        /\ IsHead(t.timer, r) /\ r.kind # "preparing"
    BY <1>1, <2>1, HookFields DEF HookOK, MountedOK
  <2>3. r # None /\ new # None /\ new.id = r.id /\ r \in Record /\ new \in Record
    BY <2>2 DEF NewSend, IsHead
  <2>4. r.id \in Nat
    BY <2>3, PayloadFacts DEF Record, Messages
  <2>5. IsHead(PayloadOf(r), new) /\ new.kind # "preparing"
    BY <2>2, <2>3, <2>4 DEF HeadStep
  <2> QED
    BY <2>2, <2>5 DEF IsHead
<1>6. base.waiting # None /\ ~base.stale => IsHead(base.waiting, new)
  BY <1>1 DEF HookOK, MountedOK
<1>7. ASSUME new # None, Tried(base, PayloadOf(new))
      PROVE  \/ By(h, a) /\ IsHead(a.payload, new)
             \/ base.timer = PayloadOf(new)
             \/ Exhausted(base, PayloadOf(new))
             \/ Held(new)
  <2>1. PICK p : p = PayloadOf(new)
    OBVIOUS
  <2>2. new \in Record /\ p \in Payload /\ p.id = new.id /\ p.rev = new.rev
    BY <1>7, <2>1, PayloadFacts
  <2>3. Tried(t, p) /\ ~IdleEdge(c, s) /\ t.last # None /\ t.last.payload = p
    BY <1>2, <1>7, <2>1 DEF Tried
  <2>4. /\ p.id \in Nat /\ p.rev \in Nat /\ p.id <= n
        /\ r # None => \/ p.id < r.id \/ (p.id = r.id /\ p.rev < r.rev)
                       \/ (IsHead(p, r) /\ r.kind # "preparing")
    BY <2>2, <2>3 DEF HookOK, LastOK, Payload, Messages
  <2>5. r # None
    BY <1>7, <2>2, <2>4 DEF HeadStep
  <2>6. /\ r \in Record /\ r.id \in Nat /\ r.rev \in Nat
        /\ IsHead(p, r) <=> p.id = r.id /\ p.rev = r.rev
        /\ IsHead(PayloadOf(r), new) => PayloadOf(r) = p
    BY <2>1, <2>2, <2>5, HeadFacts DEF IsHead
  <2>7. IsHead(PayloadOf(r), new) /\ (r.kind # "preparing" => (Held(r) => Held(new)))
    BY <1>7, <2>2, <2>4, <2>5, <2>6 DEF HeadStep
  <2>8. PayloadOf(r) = p /\ new.id = r.id /\ new.rev = r.rev /\ IsHead(p, r)
    BY <2>2, <2>5, <2>6, <2>7, PayloadFacts DEF IsHead
  <2>9. r.kind # "preparing"
    BY <2>4, <2>5, <2>6, <2>8
  <2>10. ~NewSend(r, new)
    BY <1>7, <2>8 DEF NewSend
  <2>11. base.timer = t.timer /\ base.rejections = t.rejections
    BY <1>1, <2>3, <2>10
  <2>12. (By(h, a) /\ IsHead(a.payload, r)) \/ t.timer = p \/ Exhausted(t, p) \/ Held(r)
    BY <2>3, <2>5, <2>8 DEF HookOK, MountedOK
  <2> QED
    BY <1>7, <2>1, <2>7, <2>8, <2>9, <2>11, <2>12 DEF IsHead, Exhausted
<1>8. MountedOK(h, base, new, a)
  BY <1>1, <1>5, <1>6, <1>7 DEF MountedOK, HookOK
<1>9. AwayOK(h, base, a)
  BY <1>1, <1>8 DEF AwayOK, MountedOK
<1> QED
  BY <1>3, <1>4, <1>8, <1>9 DEF HookOK

\* What a write of the store leaves of the hooks and of the attempt.
WroteHooks(q, c, s, table, a, b, d, m) ==
  LET r == First(q)
      p == PayloadOf(r)
  IN
  /\ \A h \in Hooks : HookOK(h, hooks'[h], r, attempt', m)
  /\ \A h \in Hooks : /\ hooks'[h].mounted = table[h].mounted
                      /\ hooks'[h].used = table[h].used
                      /\ ~table[h].mounted => hooks'[h] = table[h]
                      /\ hooks'[h].waiting # table[h].waiting => attempt' = a /\ Leased(a, b)
  /\ attempt' # a => a = None /\ IsHead(attempt'.payload, r) /\ Ready(c, s)
  /\ \A v \in Mounted :
       /\ First(queue) # r => hooks'[v].stale
       /\ IdleEdge(c, s) /\ v # d /\ Ready(c, s) /\ ForegroundClaims(r) =>
            hooks'[v].stale \/ Sending(v, attempt', p) \/ Watches(hooks'[v], p)
       /\ First(queue) = r /\ ~IdleEdge(c, s) =>
            /\ attempt' = a
            /\ table[v].stale => hooks'[v].stale
            /\ hooks'[v].shown = table[v].shown
            /\ \A x : /\ Watches(table[v], x) => Watches(hooks'[v], x)
                      /\ Tried(hooks'[v], x) => Tried(table[v], x)

\* The view's hook and the attempt.
ViewLeaves(v, q, c, s, t, a, b, d, k, next, m) ==
  LET r == First(q)
      p == PayloadOf(r)
  IN
  /\ HookOK(v, k, r, next, m)
  /\ k.mounted = t.mounted /\ k.used = t.used
  /\ k.waiting # t.waiting => next = a /\ Leased(a, b)
  /\ next # a => a = None /\ next.hook = v /\ IsHead(next.payload, r) /\ Ready(c, s)
  /\ First(queue) # r => k.stale
  /\ IdleEdge(c, s) /\ v # d /\ Ready(c, s) /\ ForegroundClaims(r) =>
       k.stale \/ Sending(v, next, p) \/ Watches(k, p)
  /\ First(queue) = r /\ ~IdleEdge(c, s) =>
       /\ next = a
       /\ t.stale => k.stale
       /\ k.shown = t.shown
       /\ \A x : (Watches(t, x) => Watches(k, x)) /\ (Tried(k, x) => Tried(t, x))

LEMMA WriteViewHook ==
  ASSUME TypeInv, NEW v \in Hooks, NEW q \in Seq(Record), NEW c, NEW s,
         NEW table \in [Hooks -> Hook], NEW a \in Attempt \cup {None}, NEW b, NEW d, NEW k, NEW next,
         NEW n \in Nat, NEW m \in Nat, n <= m, HeadStep(First(queue), First(q), n),
         First(q) # None => First(q).id <= m,
         table[v].mounted, HookOK(v, table[v], First(queue), a, n),
         ViewWrote(v, q, c, s, table, a, b, d, k, next)
  PROVE  ViewLeaves(v, q, c, s, table[v], a, b, d, k, next, m)
<1>1. PICK t, r, new : t = table[v] /\ r = First(queue) /\ new = First(q)
  OBVIOUS
<1>2. t \in Hook /\ r \in Record \cup {None} /\ new \in Record \cup {None}
  BY <1>1, QueueTypes, FirstFacts
<1>3. PICK base \in Hook :
        /\ SubscribedAs(t, c, s, r, new, base)
        /\ IF v # d /\ (IdleEdge(c, s) \/ HeadEdge(r, new))
           THEN DrainedAs(v, base, new, c, s, a, b, k, next)
           ELSE k = base /\ next = a
  BY <1>1 DEF ViewWrote
<1>4. HookOK(v, base, new, a, m)
  <2>1. HeadStep(r, new, n) /\ t.mounted /\ HookOK(v, t, r, a, n)
    BY <1>1
  <2> QED
    BY <1>2, <1>3, <2>1, SubscribeHook, Zenon
<1>5. /\ base.mounted = t.mounted /\ base.used = t.used /\ base.waiting = t.waiting
      /\ base.shown = t.shown
      /\ base.stale <=> t.stale \/ r # new
      /\ base.last # None => /\ t.last # None /\ base.last.payload = t.last.payload
                             /\ base.last.current => t.last.current
      /\ ~NewSend(r, new) => base.rejections = t.rejections
      /\ ~IdleEdge(c, s) /\ ~NewSend(r, new) => base.timer = t.timer
  BY <1>3 DEF SubscribedAs, Softened
<1>6. t.mounted /\ t.used /\ base.mounted /\ base.used
  BY <1>1, <1>5 DEF HookOK, MountedOK
<1>7. r = new => ~HeadEdge(r, new) /\ ~NewSend(r, new)
  <2>1. ASSUME r = new PROVE ~HeadEdge(r, new) /\ ~NewSend(r, new)
    <3>1. r.rev = new.rev /\ r.id = new.id /\ r.kind = new.kind /\ r.restored = new.restored
      BY <2>1
    <3> QED
      BY <2>1, <3>1 DEF HeadEdge, NewSend
  <2> QED
    BY <2>1
<1>8. r = new /\ ~IdleEdge(c, s) =>
        /\ k = base /\ next = a
        /\ \A x : (Watches(t, x) => Watches(base, x)) /\ (Tried(base, x) => Tried(t, x))
  BY <1>3, <1>5, <1>7 DEF Watches, Exhausted, Tried
<1>9. CASE v # d /\ (IdleEdge(c, s) \/ HeadEdge(r, new))
  <2>1. DrainedAs(v, base, new, c, s, a, b, k, next)
    BY <1>3, <1>9
  <2>2. DrainLeaves(v, base, new, c, s, a, b, k, next, m)
    <3>1. /\ new # None => new.id <= m
          /\ ~base.mounted => base.timer = None /\ (By(v, a) => IsHead(a.payload, new))
      BY <1>1, <1>6
    <3> QED
      BY <1>2, <1>4, <1>6, <2>1, <3>1, DrainHook, Zenon
  <2>3. /\ HookOK(v, k, new, next, m)
        /\ next # a => a = None /\ next.hook = v /\ IsHead(next.payload, new)
        /\ k.mounted = base.mounted /\ k.used = base.used /\ k.stale = base.stale
        /\ k.shown = base.shown
        /\ k.waiting # base.waiting => next = a /\ Leased(a, b)
        /\ Ready(c, s) /\ ForegroundClaims(new) =>
             k.stale \/ Sending(v, next, PayloadOf(new)) \/ Watches(k, PayloadOf(new))
    BY <1>6, <2>2 DEF DrainLeaves
  <2>4. next # a => Ready(c, s)
    BY <2>1 DEF DrainedAs, Tries
  <2>5. r # new => k.stale
    BY <1>5, <2>3
  <2> QED
    BY <1>1, <1>5, <1>8, <2>3, <2>4, <2>5 DEF ViewLeaves
<1>10. CASE ~(v # d /\ (IdleEdge(c, s) \/ HeadEdge(r, new)))
  <2>1. k = base /\ next = a
    BY <1>3, <1>10
  <2>2. ~(IdleEdge(c, s) /\ v # d)
    BY <1>10
  <2>3. r # new => k.stale
    BY <1>5, <2>1
  <2> QED
    BY <1>1, <1>4, <1>5, <1>8, <2>1, <2>2, <2>3 DEF ViewLeaves
<1> QED
  BY <1>9, <1>10

WrittenByView(q, c, s, table, a, b, d) ==
  \/ ~Open /\ hooks' = table /\ attempt' = a
  \/ \E v \in Mounted : \E k, next :
       /\ ViewWrote(v, q, c, s, table, a, b, d, k, next)
       /\ hooks' = [table EXCEPT ![v] = k] /\ attempt' = next

LEMMA ViewWritten ==
  ASSUME TypeInv, NEW q, NEW c, NEW s, NEW table \in [Hooks -> Hook], NEW a, NEW b, NEW d,
         Write(q, c, s, table, a, b, d)
  PROVE  WrittenByView(q, c, s, table, a, b, d)
<1>1. OneView
  BY DEF TypeInv
<1>2. \/ ~Open /\ hooks' = table /\ attempt' = a
      \/ \E v \in Mounted : \E k, next :
           /\ ViewWrote(v, q, c, s, table, a, b, d, k, next)
           /\ hooks' = [table EXCEPT ![v] = k] /\ attempt' = next
  BY <1>1, WriteView
<1> QED
  BY <1>2 DEF WrittenByView

LEMMA WriteHooks ==
  ASSUME TypeInv, NEW q \in Seq(Record), NEW c, NEW s, NEW table \in [Hooks -> Hook],
         NEW a \in Attempt \cup {None}, NEW b, NEW d, NEW n \in Nat, NEW m \in Nat, n <= m,
         HeadStep(First(queue), First(q), n), First(q) # None => First(q).id <= m,
         \A h \in Hooks : table[h].mounted = hooks[h].mounted,
         \A h \in Hooks : HookOK(h, table[h], First(queue), a, n),
         Write(q, c, s, table, a, b, d)
  PROVE  WroteHooks(q, c, s, table, a, b, d, m)
<1>1. PICK r, new : r = First(queue) /\ new = First(q)
  OBVIOUS
<1>2. r \in Record \cup {None} /\ new \in Record \cup {None} /\ HeadStep(r, new, n)
      /\ \A h \in Hooks : HookOK(h, table[h], r, a, n)
  BY <1>1, QueueTypes, FirstFacts
<1>3. ASSUME NEW g \in Hooks, ~table[g].mounted
      PROVE  HookOK(g, table[g], new, a, m)
  <2>1. PICK k : k = table[g]
    OBVIOUS
  <2>2. k \in Hook /\ ~k.mounted /\ HookOK(g, k, r, a, n)
    BY <1>2, <1>3, <2>1
  <2>3. HookOK(g, k, new, a, m)
    BY <1>2, <2>2, StepAway, Zenon
  <2> QED
    BY <2>1, <2>3
<1>4. \/ ~Open /\ hooks' = table /\ attempt' = a
      \/ \E v \in Mounted : \E k, next :
           /\ ViewWrote(v, q, c, s, table, a, b, d, k, next)
           /\ hooks' = [table EXCEPT ![v] = k] /\ attempt' = next
  <2>1. WrittenByView(q, c, s, table, a, b, d)
    BY ViewWritten, Zenon
  <2> QED
    BY <2>1 DEF WrittenByView
<1>5. CASE ~Open /\ hooks' = table /\ attempt' = a
  <2>1. Mounted = {} /\ \A h \in Hooks : ~table[h].mounted
    BY <1>5 DEF Open, Mounted
  <2>2. \A h \in Hooks : HookOK(h, hooks'[h], new, attempt', m)
    BY <1>3, <1>5, <2>1
  <2> QED
    BY <1>1, <1>5, <2>1, <2>2 DEF WroteHooks
<1>6. CASE \E v \in Mounted : \E k, next :
             /\ ViewWrote(v, q, c, s, table, a, b, d, k, next)
             /\ hooks' = [table EXCEPT ![v] = k] /\ attempt' = next
  <2>1. PICK v \in Mounted : \E k, next :
             /\ ViewWrote(v, q, c, s, table, a, b, d, k, next)
             /\ hooks' = [table EXCEPT ![v] = k] /\ attempt' = next
    BY <1>6
  <2>2. PICK k, next : /\ ViewWrote(v, q, c, s, table, a, b, d, k, next)
                       /\ hooks' = [table EXCEPT ![v] = k] /\ attempt' = next
    BY <2>1
  <2>3. v \in Hooks /\ table[v].mounted
    BY DEF Mounted
  <2>4. ViewLeaves(v, q, c, s, table[v], a, b, d, k, next, m)
    BY <2>2, <2>3, WriteViewHook
  <2>5. \A g \in Hooks : g # v => ~table[g].mounted
    BY <2>1 DEF TypeInv, OneView, Mounted
  <2>6. /\ hooks'[v] = k /\ \A g \in Hooks : g # v => hooks'[g] = table[g]
        /\ attempt' = next
    BY <2>2, <2>3
  <2>7. /\ HookOK(v, k, new, next, m)
        /\ k.mounted = table[v].mounted /\ k.used = table[v].used
        /\ k.waiting # table[v].waiting => next = a /\ Leased(a, b)
        /\ next # a => a = None /\ next.hook = v /\ IsHead(next.payload, new) /\ Ready(c, s)
    BY <1>1, <2>4 DEF ViewLeaves
  <2>8. ASSUME NEW g \in Hooks, g # v PROVE HookOK(g, table[g], new, next, m)
    <3>1. PICK old : old = table[g]
      OBVIOUS
    <3>2. HookOK(g, old, new, a, m)
      BY <1>3, <2>5, <2>8, <3>1
    <3>3. HookOK(g, old, new, next, m)
      BY <2>7, <2>8, <3>2, OtherDrains, Zenon
    <3> QED
      BY <3>1, <3>3
  <2>9. \A h \in Hooks : HookOK(h, hooks'[h], new, attempt', m)
    BY <2>6, <2>7, <2>8
  <2>10. \A h \in Hooks : /\ hooks'[h].mounted = table[h].mounted
                          /\ hooks'[h].used = table[h].used
                          /\ ~table[h].mounted => hooks'[h] = table[h]
                          /\ hooks'[h].waiting # table[h].waiting => attempt' = a /\ Leased(a, b)
    BY <2>3, <2>6, <2>7
  <2>11. \A w \in Mounted : w = v
    BY <2>1 DEF TypeInv, OneView
  <2> QED
    BY <1>1, <2>4, <2>6, <2>7, <2>9, <2>10, <2>11 DEF WroteHooks, ViewLeaves
<1> QED
  BY <1>4, <1>5, <1>6

\* A write that leaves queue q of the messages accepted, m by now.
QueueStep(q, m) ==
  /\ q \in Seq(Record) /\ Ordered(q, m) /\ m \in Nat /\ accepted <= m
  /\ HeadStep(First(queue), First(q), accepted)
  /\ First(q) # None => First(q).id <= m

LEMMA OrderFacts ==
  ASSUME TypeInv, OrderInv
  PROVE  /\ queue \in Seq(Record) /\ DOMAIN queue = 1 .. Len(queue) /\ Len(queue) \in Nat
         /\ \A i \in DOMAIN queue : /\ queue[i] \in Record /\ queue[i].id \in Nat
                                    /\ queue[i].id <= accepted
         /\ \A i, j \in DOMAIN queue : i < j => queue[i].id < queue[j].id
         /\ accepted \in Nat
<1>1. \A i \in DOMAIN queue : queue[i] \in Record /\ queue[i].id \in Nat
  BY QueueTypes, PayloadFacts DEF Record, Messages
<1>2. accepted \in Nat
  BY ComposerAssumption DEF TypeInv, TypeOK
<1> QED
  BY <1>1, <1>2, QueueTypes DEF OrderInv, Ordered

\* The step of the head follows from that of the first record.
LEMMA QueueStepFacts ==
  ASSUME NEW q \in Seq(Record), NEW m \in Nat, accepted <= m, Ordered(q, m),
         q # <<>> => HeadStep(First(queue), q[1], accepted)
  PROVE  QueueStep(q, m)
<1>1. First(q) # None => q # <<>> /\ First(q) = q[1] /\ 1 \in DOMAIN q
  BY FirstFacts
<1>2. First(q) # None => First(q).id <= m
  BY <1>1 DEF Ordered
<1>3. HeadStep(First(queue), First(q), accepted)
  <2>1. CASE First(q) = None
    BY <2>1 DEF HeadStep
  <2>2. CASE First(q) # None
    BY <1>1, <2>2
  <2> QED
    BY <2>1, <2>2
<1> QED
  BY <1>2, <1>3 DEF QueueStep

LEMMA SameHead ==
  ASSUME NEW r, NEW n
  PROVE  HeadStep(r, r, n)
  BY DEF HeadStep, IsHead

LEMMA SameStep ==
  ASSUME TypeInv, OrderInv
  PROVE  QueueStep(queue, accepted)
<1>1. queue # <<>> => First(queue) = queue[1]
  BY QueueTypes, FirstFacts
<1>2. queue # <<>> => HeadStep(First(queue), queue[1], accepted)
  BY <1>1, SameHead
<1> QED
  BY <1>2, OrderFacts, QueueStepFacts DEF OrderInv

LEMMA AppendStep ==
  ASSUME TypeInv, OrderInv, NEW r \in Record, r.id = accepted + 1
  PROVE  QueueStep(Append(queue, r), accepted + 1)
<1>1. PICK q : q = Append(queue, r)
  OBVIOUS
<1>2. /\ q \in Seq(Record) /\ DOMAIN q = 1 .. Len(queue) + 1
      /\ \A i \in 1 .. Len(queue) : q[i] = queue[i]
      /\ q[Len(queue) + 1] = r
  BY <1>1, OrderFacts, AppendFacts
<1>3. Ordered(q, accepted + 1)
  <2>1. \A i \in 1 .. Len(queue) : q[i].id <= accepted /\ q[i].id \in Nat
    BY <1>2, OrderFacts
  <2>2. \A i \in DOMAIN q : q[i].id <= accepted + 1
    BY <1>2, <2>1, OrderFacts
  <2>3. ASSUME NEW i \in DOMAIN q, NEW j \in DOMAIN q, i < j
        PROVE  q[i].id < q[j].id
    <3>1. i \in 1 .. Len(queue)
      BY <1>2, <2>3, OrderFacts
    <3>2. CASE j \in 1 .. Len(queue)
      BY <1>2, <2>3, <3>1, <3>2, OrderFacts
    <3>3. CASE j = Len(queue) + 1
      BY <1>2, <2>1, <3>1, <3>3, OrderFacts
    <3> QED
      BY <1>2, <3>2, <3>3, OrderFacts
  <2> QED
    BY <2>2, <2>3 DEF Ordered
<1>4. HeadStep(First(queue), q[1], accepted)
  <2>1. CASE queue = <<>>
    <3>1. First(queue) = None /\ q[1] = r /\ r.id > accepted
      BY <1>2, <2>1, OrderFacts DEF First
    <3> QED
      BY <3>1 DEF HeadStep
  <2>2. CASE queue # <<>>
    <3>1. First(queue) = queue[1] /\ q[1] = queue[1]
      BY <1>2, <2>2, OrderFacts, FirstFacts
    <3> QED
      BY <3>1, SameHead
  <2> QED
    BY <2>1, <2>2
<1>5. accepted + 1 \in Nat /\ accepted <= accepted + 1
  BY OrderFacts
<1>6. QueueStep(q, accepted + 1)
  BY <1>2, <1>3, <1>4, <1>5, QueueStepFacts, Zenon
<1> QED
  BY <1>1, <1>6

LEMMA RemoveStep ==
  ASSUME TypeInv, OrderInv, NEW i \in DOMAIN queue, NEW q \in Seq(Record),
         DOMAIN q = 1 .. Len(queue) - 1,
         \A j \in 1 .. Len(queue) - 1 : q[j] = IF j < i THEN queue[j] ELSE queue[j + 1]
  PROVE  /\ QueueStep(q, accepted)
         /\ i = 1 => First(q) # First(queue)
<1>1. PICK k : k = Len(queue)
  OBVIOUS
<1>2. k \in Nat /\ DOMAIN queue = 1 .. k /\ i \in 1 .. k
  BY <1>1, OrderFacts
<1>3. \A j \in DOMAIN q : /\ j \in 1 .. k /\ j + 1 \in 1 .. k
                          /\ \/ j < i /\ q[j] = queue[j]
                             \/ j >= i /\ q[j] = queue[j + 1]
  BY <1>1, <1>2
<1>4. Ordered(q, accepted)
  <2>1. \A j \in DOMAIN q : q[j].id <= accepted
    BY <1>2, <1>3, OrderFacts
  <2>2. ASSUME NEW j \in DOMAIN q, NEW l \in DOMAIN q, j < l
        PROVE  q[j].id < q[l].id
    <3>1. j \in Nat /\ l \in Nat
      BY <1>2, <1>3
    <3>2. \E x, y \in 1 .. k : x < y /\ q[j] = queue[x] /\ q[l] = queue[y]
      BY <1>2, <1>3, <2>2, <3>1
    <3> QED
      BY <1>2, <3>2, OrderFacts
  <2> QED
    BY <2>1, <2>2 DEF Ordered
<1>5. First(queue) = queue[1] /\ queue # <<>> /\ First(queue) # None
  BY <1>2, OrderFacts, FirstFacts
<1>6. ASSUME q # <<>>
      PROVE  /\ HeadStep(First(queue), q[1], accepted)
             /\ i = 1 => q[1].id > queue[1].id
  <2>1. 1 \in DOMAIN q
    BY <1>6, FirstFacts
  <2>2. CASE 1 < i
    BY <1>3, <1>5, <2>1, <2>2, SameHead
  <2>3. CASE i = 1
    <3>1. q[1] = queue[2] /\ 1 \in 1 .. k /\ 2 \in 1 .. k
      BY <1>3, <2>1, <2>3
    <3>2. q[1].id > queue[1].id
      BY <1>2, <3>1, OrderFacts
    <3> QED
      BY <1>5, <2>3, <3>2 DEF HeadStep
  <2> QED
    BY <1>2, <2>2, <2>3
<1>7. QueueStep(q, accepted)
  BY <1>4, <1>6, OrderFacts, QueueStepFacts
<1>8. ASSUME i = 1 PROVE First(q) # First(queue)
  <2>1. CASE q = <<>>
    BY <1>5, <2>1 DEF First
  <2>2. CASE q # <<>>
    <3>1. First(q) = q[1] /\ q[1].id > queue[1].id /\ queue[1].id \in Nat
      BY <1>2, <1>6, <1>8, <2>2, OrderFacts, FirstFacts
    <3>2. queue[1].id # q[1].id
      BY <3>1
    <3> QED
      BY <1>5, <3>1, <3>2
  <2> QED
    BY <2>1, <2>2
<1> QED
  BY <1>7, <1>8

LEMMA RemoveAtStep ==
  ASSUME TypeInv, OrderInv, NEW i \in DOMAIN queue
  PROVE  /\ QueueStep(RemoveAt(queue, i), accepted)
         /\ i = 1 => First(RemoveAt(queue, i)) # First(queue)
<1>1. PICK q : q = RemoveAt(queue, i)
  OBVIOUS
<1>2. /\ q \in Seq(Record) /\ DOMAIN q = 1 .. Len(queue) - 1
      /\ \A j \in 1 .. Len(queue) - 1 : q[j] = IF j < i THEN queue[j] ELSE queue[j + 1]
  BY <1>1, OrderFacts, RemoveAtFacts
<1> QED
  BY <1>1, <1>2, RemoveStep

LEMMA TailStep ==
  ASSUME TypeInv, OrderInv, queue # <<>>
  PROVE  QueueStep(Tail(queue), accepted)
<1>1. PICK q : q = Tail(queue)
  OBVIOUS
<1>2. /\ q \in Seq(Record) /\ DOMAIN q = 1 .. Len(queue) - 1 /\ 1 \in DOMAIN queue
      /\ \A j \in 1 .. Len(queue) - 1 : q[j] = queue[j + 1]
  BY <1>1, OrderFacts, TailFacts
<1>3. \A j \in 1 .. Len(queue) - 1 : ~(j < 1)
  BY OrderFacts
<1> QED
  BY <1>1, <1>2, <1>3, RemoveStep

\* A record that changes in its place.
RecordStep(old, new) ==
  /\ new.id = old.id
  /\ \/ new.rev > old.rev /\ (old.kind = "preparing" \/ NewSend(old, new))
     \/ /\ new.rev = old.rev
        /\ old.kind # "preparing" => new.kind # "preparing" /\ (Held(old) => Held(new))

LEMMA HeadChanges ==
  ASSUME NEW old \in Record, NEW new \in Record, NEW n, RecordStep(old, new)
  PROVE  HeadStep(old, new, n)
<1>1. new.rev = old.rev => IsHead(PayloadOf(old), new)
  <2>1. ASSUME new.rev = old.rev PROVE PayloadOf(old) = PayloadOf(new)
    BY <2>1 DEF RecordStep, PayloadOf
  <2> QED
    BY <2>1, PayloadFacts DEF IsHead
<1> QED
  BY <1>1, PayloadFacts DEF HeadStep, RecordStep

LEMMA ChangeStep ==
  ASSUME TypeInv, OrderInv, NEW q \in Seq(Record), DOMAIN q = DOMAIN queue,
         \A i \in DOMAIN queue : q[i] = queue[i] \/ RecordStep(queue[i], q[i])
  PROVE  QueueStep(q, accepted)
<1>1. \A i \in DOMAIN queue : q[i].id = queue[i].id
  BY DEF RecordStep
<1>2. Ordered(q, accepted)
  BY <1>1 DEF OrderInv, Ordered
<1>3. ASSUME q # <<>> PROVE HeadStep(First(queue), q[1], accepted)
  <2>1. 1 \in DOMAIN queue /\ q[1] \in Record
    BY <1>3, FirstFacts
  <2>2. First(queue) = queue[1] /\ queue[1] \in Record
    BY <2>1, OrderFacts, FirstFacts
  <2>3. CASE q[1] = queue[1]
    BY <2>2, <2>3, SameHead
  <2>4. CASE RecordStep(queue[1], q[1])
    BY <2>1, <2>2, <2>4, HeadChanges
  <2> QED
    BY <2>1, <2>3, <2>4
<1> QED
  BY <1>2, <1>3, OrderFacts, QueueStepFacts

LEMMA ReplaceStep ==
  ASSUME TypeInv, OrderInv, NEW i \in DOMAIN queue, NEW r \in Record, RecordStep(queue[i], r)
  PROVE  QueueStep([queue EXCEPT ![i] = r], accepted)
<1>1. PICK q : q = [queue EXCEPT ![i] = r]
  OBVIOUS
<1>2. q \in Seq(Record) /\ DOMAIN q = DOMAIN queue /\ q[i] = r
      /\ \A j \in DOMAIN queue : j # i => q[j] = queue[j]
  BY <1>1, OrderFacts
<1>3. \A j \in DOMAIN queue : q[j] = queue[j] \/ RecordStep(queue[j], q[j])
  BY <1>2
<1> QED
  BY <1>1, <1>2, <1>3, ChangeStep

Watching == WaitInv /\ BackInv /\ OrderInv /\ HooksInv /\ DueInv /\ ViewInv

\* An attempt that only goes on.
SameSender(old, new) ==
  /\ new = None <=> old = None
  /\ new # None => new.hook = old.hook /\ new.payload = old.payload

\* What a write is given, compared with what there was.
WriteFrom(q, c, s, table, a, b, d) ==
  /\ table \in [Hooks -> Hook] /\ a \in Attempt \cup {None}
  /\ b \in BackgroundAttempt \cup {None}
  /\ \A h \in Hooks : /\ table[h].mounted = hooks[h].mounted
                      /\ table[h].waiting = hooks[h].waiting
                      /\ HookOK(h, table[h], First(queue), a, accepted)
  /\ d # None => First(q) # First(queue)
  /\ Ready(c, s) /\ ~IdleEdge(c, s) => table = hooks /\ SameSender(attempt, a)
  /\ Leased(attempt, background) \/ "notify" \in Due => Leased(a, b) \/ "notify" \in Due'
  /\ background # None => b # None
  /\ Ready(c, s) /\ "resume" \in Due => "resume" \in Due'
  /\ Due \cap Hooks \subseteq Due'
  /\ other' = other

\* What it leaves.
WriteLeaves(q, c, s, table, a, b, d) ==
  /\ WroteHooks(q, c, s, table, a, b, d, accepted')
  /\ BackgroundKept(q, c, s, a, b)
  /\ queue' = q /\ chat' = c /\ stopping' = s
  /\ exclusions' = IF Open THEN exclusions ELSE Noted(q)

LEMMA WriteEnds ==
  ASSUME TypeInv, Watching, NEW q, NEW c, NEW s, NEW table, NEW a, NEW b, NEW d,
         QueueStep(q, accepted'), WriteFrom(q, c, s, table, a, b, d),
         Write(q, c, s, table, a, b, d)
  PROVE  WriteLeaves(q, c, s, table, a, b, d)
<1>1. PICK n, m : n = accepted /\ m = accepted'
  OBVIOUS
<1>2. /\ table \in [Hooks -> Hook] /\ a \in Attempt \cup {None}
      /\ b \in BackgroundAttempt \cup {None}
      /\ \A h \in Hooks : table[h].mounted = hooks[h].mounted
      /\ \A h \in Hooks : HookOK(h, table[h], First(queue), a, n)
  BY <1>1 DEF WriteFrom
<1>3. /\ q \in Seq(Record) /\ n \in Nat /\ m \in Nat /\ n <= m
      /\ HeadStep(First(queue), First(q), n) /\ (First(q) # None => First(q).id <= m)
  BY <1>1, OrderFacts DEF QueueStep, Watching
<1>4. WroteHooks(q, c, s, table, a, b, d, m)
  BY <1>2, <1>3, WriteHooks, Zenon
<1>5. queue' = q /\ chat' = c /\ stopping' = s
  BY DEF Write
<1>6. BackgroundWrote(q, c, s, a, b)
  <2>1. waiter \in Payload \cup {None}
    BY DEF TypeInv, TypeOK
  <2> QED
    BY <1>2, <2>1, WriteBackground, Zenon
<1>7. BackgroundKept(q, c, s, a, b)
  <2>1. waiter \in Payload \cup {None}
    BY DEF TypeInv, TypeOK
  <2> QED
    BY <1>2, <1>3, <1>6, <2>1, WriteKeepsBackground
<1>8. exclusions' = IF Open THEN exclusions ELSE Noted(q)
  BY <1>6 DEF BackgroundWrote
<1> QED
  BY <1>1, <1>4, <1>5, <1>7, <1>8 DEF WriteLeaves

LEMMA WriteWaits ==
  ASSUME TypeInv, Watching, NEW q, NEW c, NEW s, NEW table, NEW a, NEW b, NEW d,
         WriteFrom(q, c, s, table, a, b, d), WriteLeaves(q, c, s, table, a, b, d)
  PROVE  WaitInv'
<1>1. Leased(a, b) => Leased(attempt, background)'
  <2>1. /\ b # None => background' # None /\ background'.pc = b.pc
        /\ attempt' # a => a = None
    BY DEF WriteLeaves, BackgroundKept, WroteHooks
  <2>2. other' = other
    BY DEF WriteFrom
  <2> QED
    BY <2>1, <2>2 DEF Leased
<1>2. ASSUME waiter' # None PROVE Leased(a, b) \/ waiter # None
  BY <1>2 DEF WriteLeaves, BackgroundKept
<1>3. ASSUME NEW h \in Hooks, hooks'[h].waiting # None PROVE Leased(a, b) \/ hooks[h].waiting # None
  BY <1>3 DEF WriteLeaves, WroteHooks, WriteFrom
<1>4. waiter # None \/ (\E h \in Hooks : hooks[h].waiting # None) =>
        Leased(a, b) \/ "notify" \in Due'
  BY DEF Watching, WaitInv, WriteFrom
<1> QED
  BY <1>1, <1>2, <1>3, <1>4 DEF WaitInv

LEMMA WriteOpen ==
  ASSUME TypeInv, NEW q, NEW c, NEW s, NEW table, NEW a, NEW b, NEW d,
         WriteFrom(q, c, s, table, a, b, d), WriteLeaves(q, c, s, table, a, b, d)
  PROVE  Mounted' = Mounted /\ (Open' <=> Open)
<1>1. \A h \in Hooks : hooks'[h].mounted = hooks[h].mounted
  BY DEF WriteFrom, WriteLeaves, WroteHooks
<1> QED
  BY <1>1 DEF Mounted, Open

LEMMA WriteClaims ==
  ASSUME TypeInv, Watching, NEW q, NEW c, NEW s, NEW table, NEW a, NEW b, NEW d,
         WriteFrom(q, c, s, table, a, b, d), WriteLeaves(q, c, s, table, a, b, d)
  PROVE  BackInv'
<1>1. Open' <=> Open
  BY WriteOpen
<1>2. SUFFICES ASSUME Ready(c, s), BackgroundClaims(First(q), Open, exclusions')
               PROVE  background' # None \/ waiter' # None \/ "resume" \in Due'
  <2>1. queue' = q /\ chat' = c /\ stopping' = s
    BY DEF WriteLeaves
  <2> QED
    BY <1>1, <2>1 DEF BackInv, Ready, BackgroundClaims, First
<1>3. \/ background' # None \/ waiter' # None
      \/ First(queue) = First(q) /\ Ready(chat, stopping) /\ waiter' = waiter
  BY <1>2 DEF WriteLeaves, BackgroundKept
<1>4. ASSUME First(queue) = First(q), Ready(chat, stopping), waiter' = waiter
      PROVE  background' # None \/ waiter' # None \/ "resume" \in Due'
  <2>1. exclusions \subseteq exclusions'
    BY DEF WriteLeaves, Noted
  <2>2. BackgroundClaims(First(queue), Open, exclusions)
    BY <1>2, <1>4, <2>1 DEF BackgroundClaims
  <2>3. background # None \/ waiter # None \/ "resume" \in Due
    BY <1>4, <2>2 DEF Watching, BackInv
  <2>4. background # None => background' # None
    BY DEF WriteFrom, WriteLeaves, BackgroundKept
  <2>5. "resume" \in Due => "resume" \in Due'
    BY <1>2 DEF WriteFrom
  <2> QED
    BY <1>4, <2>3, <2>4, <2>5
<1> QED
  BY <1>3, <1>4

LEMMA WriteViews ==
  ASSUME TypeInv, Watching, NEW q, NEW c, NEW s, NEW table, NEW a, NEW b, NEW d,
         WriteFrom(q, c, s, table, a, b, d), WriteLeaves(q, c, s, table, a, b, d)
  PROVE  ViewInv'
<1>1. SUFFICES ASSUME NEW h \in Hooks
               PROVE  ViewOK(h, hooks', First(q), c, s, attempt', Due')
  <2>1. queue' = q /\ chat' = c /\ stopping' = s
    BY DEF WriteLeaves
  <2> QED
    BY <2>1 DEF ViewInv, ViewOK, Ready, ForegroundClaims, Attemptable, Sending, Watches, PayloadOf,
                Exhausted, Tried, First
<1>2. PICK p, r : p = PayloadOf(First(q)) /\ r = First(q)
  OBVIOUS
<1>3. SUFFICES ASSUME hooks'[h].mounted, Ready(c, s), ForegroundClaims(r)
               PROVE  \/ hooks'[h].stale \/ hooks'[h].shown # c
                      \/ Sending(h, attempt', p)
                      \/ \E g \in Hooks : Watches(hooks'[g], p)
                      \/ h \in Due'
                      \/ \E g \in Hooks \cap Due' : ~Tried(hooks'[g], p)
  BY <1>2 DEF ViewOK
<1>4. h \in Mounted
  BY <1>3, WriteOpen DEF Mounted
<1>5. CASE First(queue) # r
  BY <1>2, <1>4, <1>5 DEF WriteLeaves, WroteHooks
<1>6. CASE First(queue) = r /\ IdleEdge(c, s)
  <2>1. d = None
    BY <1>2, <1>6 DEF WriteFrom
  <2>2. h # d
    BY <2>1, ComposerAssumption
  <2> QED
    BY <1>2, <1>3, <1>4, <1>6, <2>2 DEF WriteLeaves, WroteHooks
<1>7. CASE First(queue) = r /\ ~IdleEdge(c, s)
  <2>1. table = hooks /\ SameSender(attempt, a)
    BY <1>3, <1>7 DEF WriteFrom
  <2>2. /\ attempt' = a
        /\ hooks[h].stale => hooks'[h].stale
        /\ hooks'[h].shown = hooks[h].shown
    BY <1>2, <1>4, <1>7, <2>1 DEF WriteLeaves, WroteHooks
  <2>3. \A g \in Hooks : /\ Watches(hooks[g], p) => Watches(hooks'[g], p)
                         /\ Tried(hooks'[g], p) => Tried(hooks[g], p)
    <3>1. ASSUME NEW g \in Hooks, ~hooks[g].mounted PROVE hooks'[g] = hooks[g]
      BY <2>1, <3>1 DEF WriteLeaves, WroteHooks
    <3>2. ASSUME NEW g \in Hooks, hooks[g].mounted
          PROVE  /\ Watches(hooks[g], p) => Watches(hooks'[g], p)
                 /\ Tried(hooks'[g], p) => Tried(hooks[g], p)
      <4>1. g \in Mounted
        BY <3>2 DEF Mounted
      <4> QED
        BY <1>2, <1>7, <2>1, <4>1 DEF WriteLeaves, WroteHooks
    <3>3. \A g \in Hooks : hooks[g].mounted \/ ~hooks[g].mounted
      BY DEF TypeInv, TypeOK, Hook
    <3> QED
      BY <3>1, <3>2, <3>3
  <2>4. Ready(chat, stopping) /\ c = chat
    <3>1. chat \in {"idle", "busy"} /\ stopping \in BOOLEAN
      BY DEF TypeInv, TypeOK
    <3> QED
      BY <1>3, <1>7, <3>1 DEF Ready, IdleEdge
  <2>5. hooks[h].mounted /\ ViewOK(h, hooks, r, chat, stopping, attempt, Due)
    BY <1>4, <1>7 DEF Watching, ViewInv, Mounted
  <2>6. \/ hooks[h].stale \/ hooks[h].shown # chat
        \/ Sending(h, attempt, p)
        \/ \E g \in Hooks : Watches(hooks[g], p)
        \/ h \in Due
        \/ \E g \in Hooks \cap Due : ~Tried(hooks[g], p)
    BY <1>2, <1>3, <2>4, <2>5 DEF ViewOK
  <2>7. \A g \in Hooks : g \in Due => g \in Due'
    BY DEF WriteFrom
  <2>8. Sending(h, attempt, p) => Sending(h, attempt', p)
    BY <2>1, <2>2 DEF SameSender, Sending
  <2> QED
    BY <2>2, <2>3, <2>4, <2>6, <2>7, <2>8
<1> QED
  BY <1>5, <1>6, <1>7

\* A write keeps all that is said of the drains, whatever it wakes.
LEMMA WriteWatches ==
  ASSUME TypeInv, Watching, NEW q, NEW c, NEW s, NEW table, NEW a, NEW b, NEW d,
         QueueStep(q, accepted'), WriteFrom(q, c, s, table, a, b, d),
         Write(q, c, s, table, a, b, d)
  PROVE  WaitInv' /\ BackInv' /\ OrderInv' /\ HooksInv' /\ ViewInv'
         /\ WriteLeaves(q, c, s, table, a, b, d)
<1>1. WriteLeaves(q, c, s, table, a, b, d)
  BY WriteEnds, Zenon
<1>2. WaitInv'
  BY <1>1, WriteWaits, Zenon
<1>3. BackInv'
  BY <1>1, WriteClaims, Zenon
<1>4. ViewInv'
  BY <1>1, WriteViews, Zenon
<1>5. OrderInv' /\ HooksInv'
  BY <1>1 DEF WriteLeaves, WroteHooks, QueueStep, OrderInv, HooksInv
<1> QED
  BY <1>1, <1>2, <1>3, <1>4, <1>5

LEMMA NothingDue ==
  /\ Quiet => Due = {}
  /\ Quiet /\ microtasks' = microtasks => Due' = {}
<1>1. ASSUME Quiet PROVE Due = {}
  <2>1. microtasks = <<>>
    BY <1>1 DEF Quiet
  <2>2. DOMAIN microtasks = {}
    BY <2>1
  <2> QED
    BY <2>2 DEF Due
<1>2. ASSUME Quiet, microtasks' = microtasks PROVE Due' = {}
  <2>1. microtasks' = <<>>
    BY <1>2 DEF Quiet
  <2>2. DOMAIN microtasks' = {}
    BY <2>1
  <2> QED
    BY <2>2 DEF Due
<1> QED
  BY <1>1, <1>2

LEMMA SenderGoesOn ==
  ASSUME NEW h, NEW k, NEW r, NEW old, NEW new, NEW n, SameSender(old, new),
         HookOK(h, k, r, old, n)
  PROVE  HookOK(h, k, r, new, n)
<1>1. /\ By(h, new) <=> By(h, old)
      /\ By(h, new) => new.payload = old.payload
  BY DEF SameSender, By
<1> QED
  BY <1>1 DEF HookOK, MountedOK, AwayOK

\* A write between two tasks, of which no mount's refs are cleared.
LEMMA QuietWrite ==
  ASSUME TypeInv, Watching, Quiet, microtasks' = microtasks, other' = other,
         NEW q, NEW c, NEW s, NEW a \in Attempt \cup {None},
         NEW b \in BackgroundAttempt \cup {None}, NEW d,
         QueueStep(q, accepted'), SameSender(attempt, a),
         Leased(attempt, background) => Leased(a, b),
         background # None => b # None, d # None => First(q) # First(queue),
         Write(q, c, s, hooks, a, b, d)
  PROVE  Watching'
<1>1. Due = {} /\ Due' = {}
  BY NothingDue
<1>2. hooks \in [Hooks -> Hook] /\ attempt \in Attempt \cup {None}
  BY DEF TypeInv, TypeOK
<1>3. \A h \in Hooks : HookOK(h, hooks[h], First(queue), a, accepted)
  BY <1>2, SenderGoesOn DEF Watching, HooksInv
<1>4. WriteFrom(q, c, s, hooks, a, b, d)
  BY <1>1, <1>2, <1>3 DEF WriteFrom
<1>5. PICK table : table = hooks
  OBVIOUS
<1>6. WriteFrom(q, c, s, table, a, b, d) /\ Write(q, c, s, table, a, b, d)
  BY <1>4, <1>5
<1>7. WaitInv' /\ BackInv' /\ OrderInv' /\ HooksInv' /\ ViewInv'
  BY <1>6, WriteWatches, Zenon
<1>8. DueInv'
  BY <1>1 DEF DueInv, DueOK
<1> QED
  BY <1>7, <1>8 DEF Watching

\* One of nobody's attempt.
LEMMA QueueWatched ==
  ASSUME TypeInv, Watching, Quiet, microtasks' = microtasks, other' = other,
         NEW q, QueueStep(q, accepted'), NEW d, d # None => First(q) # First(queue),
         Write(q, chat, stopping, hooks, attempt, background, d)
  PROVE  Watching'
<1>1. PICK c, s, a, b : c = chat /\ s = stopping /\ a = attempt /\ b = background
  OBVIOUS
<1>2. /\ a \in Attempt \cup {None} /\ b \in BackgroundAttempt \cup {None}
      /\ SameSender(attempt, a) /\ (Leased(attempt, background) => Leased(a, b))
      /\ background # None => b # None
      /\ Write(q, c, s, hooks, a, b, d)
  BY <1>1 DEF SameSender, TypeInv, TypeOK
<1> QED
  BY <1>2, QuietWrite, Zenon

LEMMA AcceptWatched ==
  ASSUME TypeInv, Watching, NEW kind \in {"ready", "preparing"}, accepted < MaxMessages, Quiet,
         accepted' = accepted + 1,
         WriteQueue(Append(queue, NewRecord(accepted + 1, kind, FALSE))),
         microtasks' = microtasks, other' = other
  PROVE  Watching'
<1>1. accepted \in Nat /\ accepted + 1 \in 1..MaxMessages /\ 0 \in 0..MaxEdits
  BY ComposerAssumption DEF TypeInv, TypeOK
<1>2. PICK r : r = NewRecord(accepted + 1, kind, FALSE)
  OBVIOUS
<1>3. r \in Record /\ r.id = accepted + 1
  BY <1>1, <1>2 DEF NewRecord, Record, Messages
<1>4. PICK q, d : q = Append(queue, r) /\ d = None
  OBVIOUS
<1>5. QueueStep(q, accepted')
  BY <1>3, <1>4, AppendStep DEF Watching
<1>6. Write(q, chat, stopping, hooks, attempt, background, d) /\ (d # None => First(q) # First(queue))
  BY <1>2, <1>4 DEF WriteQueue
<1> QED
  BY <1>5, <1>6, QueueWatched, Zenon

LEMMA ReplaceWatched ==
  ASSUME TypeInv, Watching, NEW i \in DOMAIN queue, NEW r \in Record, Quiet,
         RecordStep(queue[i], r), ReplaceRecord(i, r)
  PROVE  Watching'
<1>1. PICK q, d : q = [queue EXCEPT ![i] = r] /\ d = None
  OBVIOUS
<1>2. /\ accepted' = accepted /\ microtasks' = microtasks /\ other' = other
      /\ Write(q, chat, stopping, hooks, attempt, background, d)
  BY <1>1 DEF ReplaceRecord, WriteQueue, history
<1>3. QueueStep(q, accepted')
  BY <1>1, <1>2, ReplaceStep DEF Watching
<1>4. d # None => First(q) # First(queue)
  BY <1>1
<1> QED
  BY <1>2, <1>3, <1>4, QueueWatched, Zenon

LEMMA EditWatched ==
  ASSUME TypeInv, Watching, NEW i \in DOMAIN queue, Edit(i), ~CancelEditing(i)
  PROVE  Watching'
<1>1. PICK r : r = queue[i]
  OBVIOUS
<1>2. r \in Record /\ r.rev \in Nat
  BY <1>1, QueueTypes, PayloadFacts DEF Record
<1>3. CASE Release(i)
  <2>1. PICK e : e = Released(r)
    OBVIOUS
  <2>2. e \in Record /\ e.id = r.id /\ e.rev = r.rev /\ r.kind = "preparing"
    BY <1>1, <1>2, <1>3, <2>1, RecordTypes DEF Release
  <2>3. RecordStep(r, e)
    BY <2>2 DEF RecordStep
  <2>4. Quiet /\ ReplaceRecord(i, e)
    BY <1>1, <1>3, <2>1 DEF Release
  <2> QED
    BY <1>1, <2>2, <2>3, <2>4, ReplaceWatched
<1>4. CASE FailDeferred(i)
  <2>1. PICK e : e = [r EXCEPT !.kind = "failed"]
    OBVIOUS
  <2>2. e \in Record /\ e.id = r.id /\ e.rev = r.rev /\ r.kind = "preparing"
    BY <1>1, <1>2, <1>4, <2>1 DEF FailDeferred, Record
  <2>3. RecordStep(r, e)
    BY <2>2 DEF RecordStep
  <2>4. Quiet /\ ReplaceRecord(i, e)
    BY <1>1, <1>4, <2>1 DEF FailDeferred
  <2> QED
    BY <1>1, <2>2, <2>3, <2>4, ReplaceWatched
<1>5. CASE BeginEditing(i)
  <2>1. PICK e : e = [r EXCEPT !.editing = TRUE]
    OBVIOUS
  <2>2. e \in Record /\ e.id = r.id /\ e.rev = r.rev /\ e.kind = r.kind /\ e.editing
    BY <1>2, <2>1 DEF Record
  <2>3. RecordStep(r, e)
    BY <2>2 DEF RecordStep, Held
  <2>4. Quiet /\ ReplaceRecord(i, e)
    BY <1>1, <1>5, <2>1 DEF BeginEditing
  <2> QED
    BY <1>1, <2>2, <2>3, <2>4, ReplaceWatched
<1>6. CASE Save(i)
  <2>1. PICK e : e = [r EXCEPT !.rev = @ + 1, !.editing = FALSE]
    OBVIOUS
  <2>2. Quiet /\ r.editing /\ r.rev < MaxEdits
        /\ ReplaceRecord(i, IF e.kind = "failed" THEN Released(e) ELSE e)
    BY <1>1, <1>6, <2>1 DEF Save
  <2>3. /\ e \in Record /\ e.id = r.id /\ e.rev = r.rev + 1 /\ e.kind = r.kind /\ ~e.editing
    <3>1. e \in Record
      BY <1>2, <2>1, <2>2, RecordTypes
    <3>2. e.id = r.id /\ e.rev = r.rev + 1 /\ e.kind = r.kind /\ ~e.editing
      BY <1>2, <2>1 DEF Record
    <3> QED
      BY <3>1, <3>2
  <2>4. PICK f : f = IF e.kind = "failed" THEN Released(e) ELSE e
    OBVIOUS
  <2>5. /\ f \in Record /\ f.id = r.id /\ f.rev = r.rev + 1 /\ ~f.editing
        /\ r.kind # "preparing" => f.kind = "ready"
    <3>1. CASE e.kind = "failed"
      BY <2>3, <2>4, <3>1, RecordTypes
    <3>2. CASE e.kind # "failed"
      BY <2>3, <2>4, <3>2 DEF Record
    <3> QED
      BY <3>1, <3>2
  <2>6. r # None /\ f # None /\ f.rev > r.rev /\ f.rev # r.rev
    BY <1>2, <2>5, PayloadFacts
  <2>7. RecordStep(r, f)
    BY <2>2, <2>5, <2>6 DEF RecordStep, NewSend
  <2> QED
    BY <1>1, <2>2, <2>4, <2>5, <2>7, ReplaceWatched
<1>7. CASE Dismiss(i)
  <2>1. PICK h \in Mounted :
          Write(RemoveAt(queue, i), chat, stopping, hooks, attempt, background,
                Dismissing(h, queue[i].id))
    BY <1>7 DEF Dismiss
  <2>2. PICK q, d : q = RemoveAt(queue, i) /\ d = Dismissing(h, queue[i].id)
    OBVIOUS
  <2>3. Write(q, chat, stopping, hooks, attempt, background, d)
    BY <2>1, <2>2
  <2>4. /\ Quiet /\ accepted' = accepted /\ microtasks' = microtasks /\ other' = other
    BY <1>7 DEF Dismiss
  <2>5. QueueStep(q, accepted')
    BY <2>2, <2>4, RemoveAtStep DEF Watching
  <2>6. ASSUME d # None PROVE First(q) # First(queue)
    <3>1. queue # <<>> /\ Head(queue).id = queue[i].id
      BY <2>2, <2>6 DEF Dismissing
    <3>2. queue[1].id = queue[i].id /\ 1 \in DOMAIN queue
      BY <3>1, QueueTypes
    <3>3. i = 1
      BY <3>2, OrderFacts DEF Watching
    <3> QED
      BY <2>2, <3>3, RemoveAtStep DEF Watching
  <2> QED
    BY <2>3, <2>4, <2>5, <2>6, QueueWatched, Zenon
<1> QED
  BY <1>3, <1>4, <1>5, <1>6, <1>7 DEF Edit

LEMMA LoadWatched ==
  ASSUME TypeInv, Watching, Load
  PROVE  Watching'
<1>1. PICK q, d :
        q = [i \in DOMAIN queue |-> [queue[i] EXCEPT !.restored = FALSE]] /\ d = None
  OBVIOUS
<1>2. LoadedAs(queue, q)
  BY <1>1, QueueTypes, LoadedFacts
<1>3. \A i \in DOMAIN queue : RecordStep(queue[i], q[i])
  BY <1>2 DEF LoadedAs, RecordStep, Held
<1>4. q \in Seq(Record) /\ DOMAIN q = DOMAIN queue
  BY <1>2 DEF LoadedAs
<1>5. /\ Quiet /\ accepted' = accepted /\ microtasks' = microtasks /\ other' = other
      /\ Write(q, chat, stopping, hooks, attempt, background, d)
      /\ d # None => First(q) # First(queue)
  BY <1>1 DEF Load, WriteQueue, history
<1>6. QueueStep(q, accepted')
  BY <1>3, <1>4, <1>5, ChangeStep DEF Watching
<1> QED
  BY <1>5, <1>6, QueueWatched, Zenon

LEMMA SteeredWatched ==
  ASSUME TypeInv, Watching, Steered
  PROVE  Watching'
<1>1. PICK id : id = Head(steers).payload.id
  OBVIOUS
<1>2. PICK q, d : q = Without(queue, id) /\ d = Dismissing(Head(steers).hook, id)
  OBVIOUS
<1>3. /\ Quiet /\ accepted' = accepted /\ microtasks' = microtasks /\ other' = other
      /\ Write(q, chat, stopping, hooks, attempt, background, d)
  BY <1>1, <1>2 DEF Steered
<1>4. d # None => queue # <<>> /\ Head(queue).id = id
  BY <1>2 DEF Dismissing
<1>5. queue # <<>> => Head(queue) = queue[1] /\ 1 \in DOMAIN queue
  BY QueueTypes
<1>6. CASE q = queue /\ \A i \in DOMAIN queue : queue[i].id # id
  <2>1. QueueStep(q, accepted')
    BY <1>3, <1>6, SameStep DEF Watching
  <2>2. d = None
    BY <1>4, <1>5, <1>6
  <2> QED
    BY <1>3, <2>1, <2>2, QueueWatched
<1>7. CASE \E i \in DOMAIN queue : queue[i].id = id /\ q = RemoveAt(queue, i)
  <2>1. PICK i \in DOMAIN queue : queue[i].id = id /\ q = RemoveAt(queue, i)
    BY <1>7
  <2>2. QueueStep(q, accepted')
    BY <1>3, <2>1, RemoveAtStep DEF Watching
  <2>3. d # None => i = 1
    BY <1>4, <1>5, <2>1, OrderFacts DEF Watching
  <2>4. d # None => First(q) # First(queue)
    BY <2>1, <2>3, RemoveAtStep DEF Watching
  <2> QED
    BY <1>3, <2>2, <2>4, QueueWatched, Zenon
<1> QED
  BY <1>2, <1>6, <1>7, QueueTypes, WithoutFacts

LEMMA CompactWatched ==
  ASSUME TypeInv, Watching, Compact \/ Compacted
  PROVE  Watching'
<1>1. PICK c, pc : /\ pc \in {"compacting", "compacted"}
                   /\ Write(queue, c, stopping, hooks, [attempt EXCEPT !.pc = pc], background,
                            None)
  BY DEF Compact, Compacted
<1>2. attempt \in Attempt /\ attempt # None /\ background \in BackgroundAttempt \cup {None}
  BY DEF Compact, Compacted, TypeInv, TypeOK
<1>3. PICK a, b, s, q, d : /\ a = [attempt EXCEPT !.pc = pc] /\ b = background
                           /\ s = stopping /\ q = queue /\ d = None
  OBVIOUS
<1>4. a \in Attempt /\ a.hook = attempt.hook /\ a.payload = attempt.payload /\ a # None
  <2>1. a \in Attempt /\ a.hook = attempt.hook /\ a.payload = attempt.payload
    BY <1>1, <1>2, <1>3 DEF Attempt
  <2> QED
    BY <2>1, ComposerAssumption
<1>5. SameSender(attempt, a) /\ (Leased(attempt, background) => Leased(a, b))
  BY <1>2, <1>3, <1>4 DEF SameSender, Leased
<1>6. Quiet /\ microtasks' = microtasks /\ other' = other /\ accepted' = accepted
  BY DEF Compact, Compacted, history
<1>7. QueueStep(q, accepted')
  BY <1>3, <1>6, SameStep DEF Watching
<1>8. /\ a \in Attempt \cup {None} /\ b \in BackgroundAttempt \cup {None}
      /\ background # None => b # None
      /\ d # None => First(q) # First(queue)
      /\ Write(q, c, s, hooks, a, b, d)
  BY <1>1, <1>2, <1>3, <1>4
<1> QED
  BY <1>5, <1>6, <1>7, <1>8, QuietWrite, Zenon

LEMMA TurnEndsWatched ==
  ASSUME TypeInv, Watching, TurnEnds
  PROVE  Watching'
<1>1. PICK b : b = IF turn = "background" THEN [background EXCEPT !.pc = "settling"]
                   ELSE background
  OBVIOUS
<1>2. turn = "background" => background \in BackgroundAttempt /\ background.pc = "running"
  BY DEF TypeInv, TypeOK, LeaseInv, LeaseOK
<1>3. turn = "background" => b \in BackgroundAttempt /\ b # None /\ b.pc = "settling"
  BY <1>1, <1>2, ComposerAssumption DEF BackgroundAttempt
<1>4. b \in BackgroundAttempt \cup {None}
  BY <1>1, <1>3 DEF TypeInv, TypeOK
<1>5. PICK a, c, s, q, d : a = attempt /\ c = "idle" /\ s = FALSE /\ q = queue /\ d = None
  OBVIOUS
<1>6. SameSender(attempt, a) /\ (Leased(attempt, background) => Leased(a, b))
      /\ (background # None => b # None)
  BY <1>1, <1>3, <1>5 DEF SameSender, Leased
<1>7. Quiet /\ microtasks' = microtasks /\ other' = other /\ accepted' = accepted
  BY DEF TurnEnds, history
<1>8. QueueStep(q, accepted')
  BY <1>5, <1>7, SameStep DEF Watching
<1>9. /\ a \in Attempt \cup {None}
      /\ d # None => First(q) # First(queue)
      /\ Write(q, c, s, hooks, a, b, d)
  BY <1>1, <1>5 DEF TurnEnds, TypeInv, TypeOK
<1> QED
  BY <1>4, <1>6, <1>7, <1>8, <1>9, QuietWrite, Zenon

LEMMA StopWatched ==
  ASSUME TypeInv, Watching, Stop
  PROVE  Watching'
<1>1. PICK a, b, c, s, q, d : /\ a = attempt /\ b = background /\ c = "idle" /\ s = TRUE
                              /\ q = queue /\ d = None
  OBVIOUS
<1>2. Quiet /\ microtasks' = microtasks /\ other' = other /\ accepted' = accepted
  BY DEF Stop, history
<1>3. QueueStep(q, accepted')
  BY <1>1, <1>2, SameStep DEF Watching
<1>4. /\ a \in Attempt \cup {None} /\ b \in BackgroundAttempt \cup {None}
      /\ SameSender(attempt, a) /\ (Leased(attempt, background) => Leased(a, b))
      /\ background # None => b # None
      /\ d # None => First(q) # First(queue)
      /\ Write(q, c, s, hooks, a, b, d)
  BY <1>1 DEF Stop, WriteChat, SameSender, TypeInv, TypeOK
<1> QED
  BY <1>2, <1>3, <1>4, QuietWrite, Zenon

LEMMA CommitBackgroundWatched ==
  ASSUME TypeInv, Watching, CommitBackground
  PROVE  Watching'
<1>1. /\ background \in BackgroundAttempt /\ background.pc = "sending" /\ queue # <<>>
      /\ background # None /\ attempt \in Attempt \cup {None}
  BY DEF CommitBackground, TypeInv, TypeOK, MayCommit, Owned, First, Attemptable
<1>2. PICK q, c, s, a, b, d :
        /\ q = Tail(queue) /\ c = "busy" /\ s = stopping
        /\ a = attempt /\ b = [background EXCEPT !.pc = "running"] /\ d = None
  OBVIOUS
<1>3. b \in BackgroundAttempt /\ b.pc = "running" /\ b # None
  BY <1>1, <1>2, ComposerAssumption DEF BackgroundAttempt
<1>4. Quiet /\ microtasks' = microtasks /\ other' = other /\ accepted' = accepted
  BY DEF CommitBackground
<1>5. QueueStep(q, accepted')
  BY <1>1, <1>2, <1>4, TailStep DEF Watching
<1>6. /\ a \in Attempt \cup {None} /\ b \in BackgroundAttempt \cup {None}
      /\ SameSender(attempt, a) /\ (Leased(attempt, background) => Leased(a, b))
      /\ background # None => b # None
      /\ d # None => First(q) # First(queue)
  BY <1>1, <1>2, <1>3 DEF SameSender, Leased, Ready
<1>7. Write(q, c, s, hooks, a, b, d)
  BY <1>2 DEF CommitBackground
<1> QED
  BY <1>4, <1>5, <1>6, <1>7, QuietWrite, Zenon

\* The hook that forgets what it tried, once its attempt has become a turn.
LEMMA ClearedHooks ==
  ASSUME TypeInv, Watching, attempt # None, NEW table, table = Cleared(attempt.hook), NEW g \in Hooks
  PROVE  HookOK(g, table[g], First(queue), None, accepted)
<1>1. PICK h : h = attempt.hook
  OBVIOUS
<1>2. hooks \in [Hooks -> Hook] /\ h \in Hooks
  BY <1>1 DEF TypeInv, TypeOK, Attempt
<1>3. PICK r, n : r = First(queue) /\ n = accepted
  OBVIOUS
<1>4. HookOK(g, hooks[g], r, attempt, n)
  BY <1>3 DEF Watching, HooksInv
<1>5. ~By(g, None)
  BY DEF By
<1>6. CASE g = h
  <2>1. PICK k, old : k = table[h] /\ old = hooks[h]
    OBVIOUS
  <2>2. /\ k.last = None /\ k.mounted = old.mounted /\ k.used = old.used
        /\ k.waiting = old.waiting /\ k.timer = old.timer /\ k.stale = old.stale
    BY <1>1, <1>2, <2>1, ClearedFacts
  <2>3. HookOK(h, old, r, attempt, n)
    BY <1>4, <1>6, <2>1
  <2>4. \A p : ~Tried(k, p)
    BY <2>2 DEF Tried
  <2>5. LastOK(k, r, n)
    BY <2>2 DEF LastOK
  <2>6. MountedOK(h, k, r, None)
    BY <2>2, <2>3, <2>4 DEF HookOK, MountedOK
  <2>7. AwayOK(h, k, None)
    BY <1>5, <1>6, <2>2, <2>3 DEF HookOK, AwayOK
  <2> QED
    BY <1>3, <1>6, <2>1, <2>4, <2>5, <2>6, <2>7 DEF HookOK
<1>7. CASE g # h
  <2>1. table[g] = hooks[g]
    BY <1>1, <1>2, <1>7, ClearedFacts
  <2>2. ~By(g, attempt)
    BY <1>1, <1>7 DEF By
  <2>3. PICK k : k = hooks[g]
    OBVIOUS
  <2>4. HookOK(g, k, r, None, n)
    BY <1>4, <1>5, <2>2, <2>3 DEF HookOK, MountedOK, AwayOK
  <2> QED
    BY <1>3, <2>1, <2>3, <2>4
<1> QED
  BY <1>6, <1>7

LEMMA CommitWatched ==
  ASSUME TypeInv, Watching, Commit
  PROVE  Watching'
<1>1. /\ attempt \in Attempt /\ queue # <<>> /\ Quiet /\ attempt # None
      /\ background \in BackgroundAttempt \cup {None} /\ hooks \in [Hooks -> Hook]
  BY DEF Commit, TypeInv, TypeOK, MayCommit, Owned, First, Attemptable
<1>2. PICK q, table, c, s, a, b, d :
        /\ q = Tail(queue) /\ table = Cleared(attempt.hook) /\ c = "busy" /\ s = stopping
        /\ a = None /\ b = background /\ d = None
  OBVIOUS
<1>3. attempt.hook \in Hooks
  BY <1>1 DEF Attempt
<1>4. /\ table \in [Hooks -> Hook]
      /\ \A g \in Hooks : table[g].mounted = hooks[g].mounted /\ table[g].waiting = hooks[g].waiting
  BY <1>1, <1>2, <1>3, ClearedFacts
<1>5. \A g \in Hooks : HookOK(g, table[g], First(queue), a, accepted)
  BY <1>1, <1>2, ClearedHooks
<1>6. Write(q, c, s, table, a, b, d)
  BY <1>2 DEF Commit, Cleared
<1>7. /\ accepted' = accepted /\ other' = other /\ microtasks' = <<"notify">>
  BY DEF Commit
<1>8. Due = {} /\ Due' = {"notify"}
  <2>1. DOMAIN microtasks' = {1} /\ microtasks'[1] = "notify"
    BY <1>7
  <2> QED
    BY <1>1, <2>1, NothingDue DEF Due
<1>9. QueueStep(q, accepted')
  BY <1>1, <1>2, <1>7, TailStep DEF Watching
<1>10. ~Ready(c, s)
  BY <1>2 DEF Ready
<1>11. WriteFrom(q, c, s, table, a, b, d)
  BY <1>1, <1>2, <1>4, <1>5, <1>7, <1>8, <1>10 DEF WriteFrom
<1>12. /\ WaitInv' /\ BackInv' /\ OrderInv' /\ HooksInv' /\ ViewInv'
       /\ WriteLeaves(q, c, s, table, a, b, d)
  BY <1>6, <1>9, <1>11, WriteWatches, Zenon
<1>13. attempt' = None
  BY <1>2, <1>10, <1>12 DEF WriteLeaves, WroteHooks
<1>14. DueInv'
  <2>1. "notify" \notin Hooks
    BY ComposerAssumption DEF Tasks
  <2>2. \A h \in Hooks : h \notin Due'
    BY <1>8, <2>1
  <2> QED
    BY <1>13, <2>2 DEF DueInv, DueOK
<1> QED
  BY <1>12, <1>14 DEF Watching

\* Tasks that are due after the first has run.
LEMMA DueAfter ==
  ASSUME TypeInv, microtasks # <<>>
  PROVE  /\ Due # {} /\ Head(microtasks) \in Due
         /\ \A t \in Due : t # Head(microtasks) => \E i \in DOMAIN Tail(microtasks) : Tail(microtasks)[i] = t
         /\ \A i \in DOMAIN Tail(microtasks) : Tail(microtasks)[i] \in Due
<1>1. PICK rest, n : rest = Tail(microtasks) /\ n = Len(microtasks)
  OBVIOUS
<1>2. /\ n \in Nat /\ DOMAIN microtasks = 1 .. n /\ Head(microtasks) = microtasks[1]
      /\ 1 \in 1 .. n /\ DOMAIN rest = 1 .. n - 1
      /\ \A i \in DOMAIN rest : i + 1 \in 1 .. n /\ rest[i] = microtasks[i + 1]
  BY <1>1, TaskFacts
<1>3. ASSUME NEW t \in Due, t # Head(microtasks) PROVE \E i \in DOMAIN rest : rest[i] = t
  <2>1. PICK j \in 1 .. n : microtasks[j] = t
    BY <1>2, <1>3 DEF Due
  <2>2. j # 1
    BY <1>2, <1>3, <2>1
  <2>3. j - 1 \in 1 .. n - 1 /\ (j - 1) + 1 = j
    BY <1>2, <2>1, <2>2
  <2> QED
    BY <1>2, <2>1, <2>3
<1>4. Head(microtasks) \in Due /\ \A i \in DOMAIN rest : rest[i] \in Due
  BY <1>2 DEF Due
<1> QED
  BY <1>1, <1>3, <1>4

LEMMA TailDue ==
  ASSUME TypeInv, microtasks # <<>>, microtasks' = Tail(microtasks)
  PROVE  /\ Due # {} /\ Head(microtasks) \in Due /\ Due' \subseteq Due
         /\ \A t \in Due : t # Head(microtasks) => t \in Due'
  BY DueAfter DEF Due

LEMMA MoreDue ==
  ASSUME TypeInv, microtasks # <<>>, NEW t \in Hooks \cup Tasks,
         microtasks' = Tail(microtasks) \o <<t>>
  PROVE  /\ Due # {} /\ Head(microtasks) \in Due /\ Due' \subseteq Due \cup {t}
         /\ \A u \in Due : u # Head(microtasks) => u \in Due'
<1>1. PICK rest : rest = Tail(microtasks)
  OBVIOUS
<1>2. rest \in Seq(Hooks \cup Tasks) /\ microtasks' = rest \o <<t>>
  BY <1>1, TaskFacts
<1>3. /\ DOMAIN microtasks' = 1 .. Len(rest) + 1 /\ DOMAIN rest = 1 .. Len(rest) /\ Len(rest) \in Nat
      /\ \A i \in 1 .. Len(rest) : microtasks'[i] = rest[i]
      /\ microtasks'[Len(rest) + 1] = t
  BY <1>2, TasksJoin
<1>4. \A i \in DOMAIN rest : rest[i] \in Due'
  <2>1. ASSUME NEW i \in DOMAIN rest PROVE rest[i] \in Due'
    <3>1. i \in DOMAIN microtasks' /\ microtasks'[i] = rest[i]
      BY <1>3
    <3> QED
      BY <3>1 DEF Due
  <2> QED
    BY <2>1
<1>5. Due' \subseteq Due \cup {t}
  <2>1. ASSUME NEW i \in DOMAIN microtasks' PROVE microtasks'[i] \in Due \cup {t}
    <3>1. CASE i \in DOMAIN rest
      BY <1>1, <1>3, <3>1, DueAfter
    <3>2. CASE i = Len(rest) + 1
      BY <1>3, <3>2
    <3> QED
      BY <1>3, <3>1, <3>2
  <2> QED
    BY <2>1 DEF Due
<1> QED
  BY <1>1, <1>4, <1>5, DueAfter

LEMMA ParkHeadWatched ==
  ASSUME TypeInv, Watching, ParkHead
  PROVE  Watching'
<1>1. /\ background \in BackgroundAttempt /\ background # None /\ microtasks # <<>>
      /\ Head(microtasks) = "parkHead" /\ background.pc = "failing"
  <2>1. microtasks # <<>> /\ Head(microtasks) = "parkHead" /\ background # None
    BY DEF ParkHead, Task
  <2>2. background.pc = "failing"
    BY <2>1, TaskFacts DEF TypeInv, TaskInv, TaskOK
  <2> QED
    BY <2>1, <2>2 DEF TypeInv, TypeOK
<1>2. PICK b : b = [background EXCEPT !.pc = "done"]
  OBVIOUS
<1>3. /\ b \in BackgroundAttempt /\ b # None /\ b.pc = "done"
  BY <1>1, <1>2, ComposerAssumption DEF BackgroundAttempt
<1>4. /\ Due # {} /\ Due' \subseteq Due \cup {"drainAgain"}
      /\ \A u \in Due : u # "parkHead" => u \in Due'
  BY <1>1, MoreDue DEF ParkHead, Tasks
<1>5. \A h \in Hooks : h # "parkHead" /\ h # "drainAgain"
  BY ComposerAssumption DEF Tasks
<1>6. \A h \in Hooks : h \in Due <=> h \in Due'
  BY <1>4, <1>5
<1>7. Leased(attempt, background) => Leased(attempt, b)
  BY <1>1 DEF Leased
<1>8. /\ other' = other /\ accepted' = accepted
  BY DEF ParkHead, history
<1>9. /\ hooks \in [Hooks -> Hook] /\ attempt \in Attempt \cup {None}
  BY DEF TypeInv, TypeOK
<1>10. CASE background.same /\ queue # <<>>
  <2>1. PICK q, c, s, table, a, d :
          /\ q = [queue EXCEPT ![1] = Parked(@)] /\ c = chat /\ s = stopping /\ table = hooks
          /\ a = attempt /\ d = None
    OBVIOUS
  <2>2. Head(queue) = queue[1] /\ 1 \in DOMAIN queue /\ queue[1] \in Record
        /\ First(queue) = queue[1] /\ queue \in Seq(Record)
    BY <1>10, QueueTypes, FirstFacts
  <2>3. PICK r : r = Parked(queue[1])
    OBVIOUS
  <2>4. r \in Record /\ r.id = queue[1].id /\ r.rev = queue[1].rev /\ r.kind = "failed"
    BY <2>2, <2>3, RecordTypes
  <2>5. q = [queue EXCEPT ![1] = r] /\ q[1] = r /\ q # <<>> /\ q \in Seq(Record)
    <3>1. q = [queue EXCEPT ![1] = r]
      BY <2>1, <2>2, <2>3
    <3>2. q \in Seq(Record)
      BY <2>2, <2>4, <3>1, ExceptSeq
    <3>3. q[1] = r /\ 1 \in DOMAIN q
      BY <2>2, <3>1
    <3> QED
      BY <3>1, <3>2, <3>3
  <2>6. First(q) = r
    BY <2>5, FirstFacts
  <2>7. QueueStep(q, accepted')
    <3>1. RecordStep(queue[1], r)
      BY <2>4 DEF RecordStep, Held
    <3> QED
      BY <1>8, <2>2, <2>4, <2>5, <3>1, ReplaceStep DEF Watching
  <2>8. Write(q, c, s, table, a, b, d)
    BY <1>2, <1>10, <2>1 DEF ParkHead
  <2>9. WriteFrom(q, c, s, table, a, b, d)
    <3>1. \A h \in Hooks : HookOK(h, table[h], First(queue), a, accepted)
      BY <2>1 DEF Watching, HooksInv
    <3> QED
      BY <1>3, <1>4, <1>6, <1>7, <1>8, <1>9, <2>1, <3>1 DEF WriteFrom, SameSender
  <2>10. /\ WaitInv' /\ BackInv' /\ OrderInv' /\ HooksInv' /\ ViewInv'
         /\ WriteLeaves(q, c, s, table, a, b, d)
    BY <2>7, <2>8, <2>9, WriteWatches, Zenon
  <2>11. \A p : IsHead(p, First(queue)) => IsHead(p, r)
    <3>1. PayloadOf(r) = PayloadOf(queue[1]) /\ r # None
      BY <2>4, PayloadFacts DEF PayloadOf
    <3> QED
      BY <2>2, <3>1 DEF IsHead
  <2>12. queue' = q /\ First(queue') = r
    BY <2>6, <2>10 DEF WriteLeaves
  <2>13. \A h \in Hooks : DueOK(h, hooks'[h], r, Due')
    <3>1. ASSUME NEW h \in Hooks, h \in Due' PROVE DueOK(h, hooks'[h], r, Due')
      <4>1. DueOK(h, hooks[h], First(queue), Due) /\ h \in Due
        BY <1>6, <3>1 DEF Watching, DueInv
      <4>2. /\ hooks'[h].mounted = hooks[h].mounted /\ hooks'[h].used = hooks[h].used
            /\ ~hooks[h].mounted => hooks'[h] = hooks[h]
        BY <2>1, <2>10 DEF WriteLeaves, WroteHooks
      <4> QED
        BY <2>11, <4>1, <4>2 DEF DueOK
    <3> QED
      BY <3>1 DEF DueOK
  <2>14. attempt' # None => IsHead(attempt'.payload, r)
    <3>1. attempt' # attempt => IsHead(attempt'.payload, r)
      BY <2>1, <2>6, <2>10 DEF WriteLeaves, WroteHooks
    <3>2. attempt # None => IsHead(attempt.payload, First(queue))
      BY <1>4 DEF Watching, DueInv
    <3> QED
      BY <2>11, <3>1, <3>2
  <2>15. DueInv'
    BY <2>12, <2>13, <2>14 DEF DueInv
  <2> QED
    BY <2>10, <2>15 DEF Watching
<1>11. CASE ~(background.same /\ queue # <<>>)
  <2>1. /\ background' = b /\ queue' = queue /\ chat' = chat /\ stopping' = stopping
        /\ hooks' = hooks /\ attempt' = attempt /\ waiter' = waiter /\ exclusions' = exclusions
    BY <1>2, <1>11 DEF ParkHead, store
  <2>2. WaitInv'
    <3>1. Leased(attempt, background) => Leased(attempt, background)'
      BY <1>7, <1>8, <2>1 DEF Leased
    <3>2. "notify" \in Due => "notify" \in Due'
      BY <1>4
    <3> QED
      BY <2>1, <3>1, <3>2 DEF Watching, WaitInv
  <2>3. BackInv'
    BY <1>3, <2>1 DEF BackInv
  <2>4. OrderInv' /\ HooksInv'
    BY <1>8, <2>1 DEF Watching, OrderInv, HooksInv
  <2>5. DueInv'
    BY <1>4, <1>6, <2>1 DEF Watching, DueInv, DueOK
  <2>6. ViewInv'
    <3>1. \A h \in Hooks : ViewOK(h, hooks, First(queue), chat, stopping, attempt, Due')
      BY <1>6 DEF Watching, ViewInv, ViewOK
    <3> QED
      BY <2>1, <3>1 DEF ViewInv
  <2> QED
    BY <2>2, <2>3, <2>4, <2>5, <2>6 DEF Watching
<1> QED
  BY <1>10, <1>11

\* A drain outside a store write, of mount h with refs hook.
TryLeaves(h, hook) ==
  /\ DrainLeaves(h, hook, First(queue), chat, stopping, attempt, background, hooks'[h], attempt',
                 accepted)
  /\ \A g \in Hooks : g # h => hooks'[g] = hooks[g]
  /\ \A g \in Hooks : HookOK(g, hooks'[g], First(queue), attempt', accepted)

LEMMA TryHooks ==
  ASSUME TypeInv, Watching, NEW h \in Hooks, NEW hook \in Hook,
         HookOK(h, hook, First(queue), attempt, accepted), hook.used,
         ~hook.mounted => /\ hook.timer = None
                          /\ By(h, attempt) => IsHead(attempt.payload, First(queue)),
         TryDrain(h, hook)
  PROVE  TryLeaves(h, hook)
<1>1. hooks \in [Hooks -> Hook] /\ attempt \in Attempt \cup {None} /\ queue \in Seq(Record)
  BY DEF TypeInv, TypeOK
<1>2. PICK k, next :
        /\ DrainedAs(h, hook, First(queue), chat, stopping, attempt, background, k, next)
        /\ hooks' = [hooks EXCEPT ![h] = k] /\ attempt' = next
  BY <1>1, TryDrainFacts
<1>3. PICK r, c, s, a, b, n : /\ r = First(queue) /\ c = chat /\ s = stopping /\ a = attempt
                              /\ b = background /\ n = accepted
  OBVIOUS
<1>4. /\ r \in Record \cup {None} /\ a \in Attempt \cup {None} /\ n \in Nat
      /\ r # None => r.id <= n
  <2>1. First(queue) # None => First(queue).id <= accepted
    <3>1. First(queue) # None => First(queue) = queue[1] /\ 1 \in DOMAIN queue
      BY <1>1, FirstFacts
    <3> QED
      BY <3>1, OrderFacts DEF Watching
  <2> QED
    BY <1>1, <1>3, <2>1, QueueTypes, OrderFacts DEF Watching
<1>5. /\ HookOK(h, hook, r, a, n)
      /\ ~hook.mounted => hook.timer = None /\ (By(h, a) => IsHead(a.payload, r))
      /\ DrainedAs(h, hook, r, c, s, a, b, k, next)
  BY <1>2, <1>3
<1>6. DrainLeaves(h, hook, r, c, s, a, b, k, next, n)
  BY <1>4, <1>5, DrainHook, Zenon
<1>7. hooks'[h] = k /\ \A g \in Hooks : g # h => hooks'[g] = hooks[g]
  BY <1>1, <1>2
<1>8. HookOK(h, k, r, next, n) /\ (next # a => a = None /\ next.hook = h)
  BY <1>6 DEF DrainLeaves
<1>9. ASSUME NEW g \in Hooks, g # h PROVE HookOK(g, hooks'[g], r, next, n)
  <2>1. PICK old : old = hooks[g]
    OBVIOUS
  <2>2. HookOK(g, old, r, a, n)
    BY <1>3, <2>1 DEF Watching, HooksInv
  <2>3. HookOK(g, old, r, next, n)
    BY <1>8, <1>9, <2>2, OtherDrains, Zenon
  <2> QED
    BY <1>7, <1>9, <2>1, <2>3
<1> QED
  BY <1>2, <1>3, <1>6, <1>7, <1>8, <1>9 DEF TryLeaves

LEMMA TryKeeps ==
  ASSUME TypeInv, Watching, NEW h \in Hooks, NEW hook, TryLeaves(h, hook),
         hook.mounted = hooks[h].mounted, hook.waiting \in {hooks[h].waiting, None},
         "notify" \in Due => "notify" \in Due', "resume" \in Due => "resume" \in Due',
         UNCHANGED <<store, accepted, background, waiter, exclusions, other>>
  PROVE  /\ WaitInv' /\ BackInv' /\ OrderInv' /\ HooksInv'
         /\ \A g \in Hooks : hooks'[g].mounted = hooks[g].mounted
<1>1. PICK k, next : k = hooks'[h] /\ next = attempt'
  OBVIOUS
<1>2. /\ k.mounted = hook.mounted
      /\ k.waiting # hook.waiting => Leased(attempt, background)
      /\ next # attempt => attempt = None
  BY <1>1 DEF TryLeaves, DrainLeaves
<1>3. \A g \in Hooks : hooks'[g].mounted = hooks[g].mounted
  BY <1>1, <1>2 DEF TryLeaves
<1>4. Leased(attempt, background) => Leased(attempt, background)'
  BY <1>1, <1>2 DEF Leased
<1>5. WaitInv'
  <2>1. ASSUME NEW g \in Hooks, hooks'[g].waiting # None
        PROVE  Leased(attempt, background) \/ hooks[g].waiting # None
    BY <1>1, <1>2, <2>1 DEF TryLeaves
  <2> QED
    BY <1>4, <2>1 DEF Watching, WaitInv
<1>6. BackInv'
  <2>1. Open' <=> Open
    BY <1>3 DEF Open, Mounted
  <2>2. queue' = queue /\ chat' = chat /\ stopping' = stopping
    BY DEF store
  <2> QED
    BY <2>1, <2>2 DEF Watching, BackInv, BackgroundClaims, Ready
<1>7. OrderInv' /\ HooksInv'
  <2>1. queue' = queue
    BY DEF store
  <2> QED
    BY <2>1 DEF Watching, OrderInv, HooksInv, TryLeaves
<1> QED
  BY <1>3, <1>5, <1>6, <1>7

\* A mounted chat that has just tried leaves a head it could send to somebody.
LEMMA TryViewed ==
  ASSUME TypeInv, NEW h \in Hooks, NEW hook, TryLeaves(h, hook),
         hook.mounted, \A g \in Hooks : g # h => ~hooks[g].mounted,
         UNCHANGED store
  PROVE  ViewInv'
<1>1. queue' = queue /\ chat' = chat /\ stopping' = stopping
  BY DEF store
<1>2. PICK p, r : p = PayloadOf(First(queue)) /\ r = First(queue)
  OBVIOUS
<1>3. Ready(chat, stopping) /\ ForegroundClaims(r) =>
        hooks'[h].stale \/ Sending(h, attempt', p) \/ Watches(hooks'[h], p)
  BY <1>2 DEF TryLeaves, DrainLeaves
<1>4. ViewOK(h, hooks', r, chat, stopping, attempt', Due')
  BY <1>2, <1>3 DEF ViewOK
<1>5. ASSUME NEW g \in Hooks, g # h PROVE ViewOK(g, hooks', r, chat, stopping, attempt', Due')
  BY <1>5 DEF ViewOK, TryLeaves
<1> QED
  BY <1>1, <1>2, <1>4, <1>5 DEF ViewInv

LEMMA ViewAlone ==
  ASSUME TypeInv, NEW h \in Hooks, hooks[h].mounted
  PROVE  \A g \in Hooks : g # h => ~hooks[g].mounted
  BY DEF TypeInv, OneView, Mounted


\* The refs of a chat that is rendered.
LEMMA RenderedHook ==
  ASSUME TypeInv, Watching, NEW h \in Hooks, hooks[h].mounted, NEW hook, hook = Rendered(hooks[h])
  PROVE  /\ hook \in Hook /\ HookOK(h, hook, First(queue), attempt, accepted)
         /\ hook.used /\ hook.mounted /\ hook.waiting \in {hooks[h].waiting, None}
<1>1. PICK old, r, a, n : old = hooks[h] /\ r = First(queue) /\ a = attempt /\ n = accepted
  OBVIOUS
<1>2. /\ old \in Hook /\ queue \in Seq(Record) /\ chat \in {"idle", "busy"} /\ old.mounted
      /\ HookOK(h, old, r, a, n)
  BY <1>1 DEF TypeInv, TypeOK, Watching, HooksInv
<1>3. PICK base : base = IF old.stale THEN Rekeyed(old) ELSE old
  OBVIOUS
<1>4. /\ hook \in Hook /\ hook.stale = FALSE /\ hook.shown = chat
      /\ hook.mounted = old.mounted /\ hook.used = old.used
      /\ hook.last = base.last /\ hook.waiting = base.waiting /\ hook.timer = base.timer
      /\ hook.rejections = base.rejections
  BY <1>1, <1>2, <1>3, RenderedFacts
<1>5. /\ hook.waiting \in {old.waiting, None}
      /\ hook.waiting # None => IsHead(hook.waiting, r)
      /\ hook.timer \in {old.timer, None}
      /\ hook.last \in {old.last, None}
      /\ hook.last # None => hook.rejections = old.rejections /\ hook.timer = old.timer
  <2>1. CASE old.stale
    <3>1. base = Rekeyed(old)
      BY <1>3, <2>1
    <3>2. /\ base.timer \in {old.timer, None}
          /\ base.waiting = IF queue # <<>> /\ old.waiting = PayloadOf(Head(queue))
                            THEN old.waiting ELSE None
          /\ base.last \in {old.last, None}
          /\ base.last # None => base.rejections = old.rejections /\ base.timer = old.timer
      BY <1>2, <3>1, RekeyedFacts
    <3>3. queue # <<>> => Head(queue) = r /\ r # None
      BY <1>1, <1>2, FirstFacts
    <3> QED
      BY <1>4, <3>2, <3>3 DEF IsHead
  <2>2. CASE ~old.stale
    <3>1. base = old
      BY <1>3, <2>2
    <3> QED
      BY <1>2, <1>4, <2>2, <3>1 DEF HookOK, MountedOK
  <2> QED
    BY <1>2, <2>1, <2>2, HookFields
<1>6. \A p : Tried(hook, p) => Tried(old, p) /\ hook.last # None
  BY <1>5 DEF Tried
<1>7. hook.waiting # None => ~Tried(hook, hook.waiting)
  BY <1>2, <1>5, <1>6 DEF HookOK
<1>8. LastOK(hook, r, n)
  BY <1>2, <1>5 DEF HookOK, LastOK
<1>9. MountedOK(h, hook, r, a)
  BY <1>2, <1>4, <1>5, <1>6 DEF HookOK, MountedOK, Exhausted
<1>10. AwayOK(h, hook, a) /\ hook.used
  BY <1>2, <1>4 DEF HookOK, MountedOK, AwayOK
<1> QED
  BY <1>1, <1>2, <1>4, <1>5, <1>7, <1>8, <1>9, <1>10 DEF HookOK

LEMMA RenderWatched ==
  ASSUME TypeInv, Watching, NEW h \in Hooks, Render(h)
  PROVE  Watching'
<1>1. PICK hook : hook = Rendered(hooks[h])
  OBVIOUS
<1>2. /\ hooks[h].mounted /\ Quiet /\ TryDrain(h, hook) /\ microtasks' = microtasks
      /\ UNCHANGED <<store, accepted, background, waiter, exclusions, other>>
  BY <1>1 DEF Render, Rendered, history
<1>3. /\ hook \in Hook /\ HookOK(h, hook, First(queue), attempt, accepted)
      /\ hook.used /\ hook.mounted /\ hook.waiting \in {hooks[h].waiting, None}
  BY <1>1, <1>2, RenderedHook
<1>4. TryLeaves(h, hook)
  BY <1>2, <1>3, TryHooks, Zenon
<1>5. Due = {} /\ Due' = {}
  BY <1>2, NothingDue
<1>6. WaitInv' /\ BackInv' /\ OrderInv' /\ HooksInv'
  BY <1>2, <1>3, <1>4, <1>5, TryKeeps
<1>7. ViewInv'
  BY <1>2, <1>3, <1>4, ViewAlone, TryViewed
<1>8. DueInv'
  BY <1>5 DEF DueInv, DueOK
<1> QED
  BY <1>6, <1>7, <1>8 DEF Watching

\* What the background drain leaves outside a store write, of attempt b.
LEMMA BackgroundLeaves ==
  ASSUME TypeInv, Watching, NEW b \in BackgroundAttempt \cup {None}, NEW open, NEW excluded,
         b = background \/ (b = None /\ ~BackgroundHolds(background)),
         DrainBackground(open, excluded, attempt, b, waiter),
         attempt' # attempt => attempt = None, UNCHANGED <<store, other>>,
         Open' <=> open, exclusions' = excluded
  PROVE  /\ BackInv'
         /\ Leased(attempt, background) => Leased(attempt, background)'
         /\ waiter' # None => waiter # None \/ Leased(attempt, background)
<1>1. PICK r, c, s, a, w, k, next :
        /\ r = First(queue) /\ c = chat /\ s = stopping /\ a = attempt /\ w = waiter
        /\ k = background' /\ next = waiter'
  OBVIOUS
<1>2. BackgroundSound(r, c, s, open, excluded, a, b, w, k, next)
  BY <1>1, DrainBackgroundTyped
<1>3. /\ next # w => Leased(a, b)
      /\ k # b => b = None
      /\ BackgroundClaims(r, open, excluded) /\ Ready(c, s) => k # None \/ next # None
  BY <1>2 DEF BackgroundSound
<1>4. BackInv'
  <2>1. queue' = queue /\ chat' = chat /\ stopping' = stopping
    BY DEF store
  <2> QED
    BY <1>1, <1>3, <2>1 DEF BackInv, BackgroundClaims, Ready
<1>5. Leased(a, b) <=> Leased(attempt, background)
  BY <1>1 DEF Leased, BackgroundHolds
<1>6. Leased(attempt, background) => Leased(attempt, background)'
  BY <1>1, <1>3, <1>5 DEF Leased
<1> QED
  BY <1>1, <1>3, <1>4, <1>5, <1>6

LEMMA MountWatched ==
  ASSUME TypeInv, Watching, NEW h \in Hooks, Mount(h)
  PROVE  Watching'
<1>1. PICK old : old = hooks[h]
  OBVIOUS
<1>2. PICK hook : hook = [old EXCEPT !.mounted = TRUE, !.used = TRUE, !.shown = chat]
  OBVIOUS
<1>3. old \in Hook /\ chat \in {"idle", "busy"} /\ background \in BackgroundAttempt \cup {None}
  BY <1>1 DEF TypeInv, TypeOK
<1>4. /\ hook \in Hook /\ hook.mounted = TRUE /\ hook.used = TRUE /\ hook.last = old.last
      /\ hook.waiting = old.waiting /\ hook.timer = old.timer
  BY <1>2, <1>3, HookFields DEF Hook
<1>5. /\ TryDrain(h, hook) /\ Quiet /\ ~Open /\ ~old.used
      /\ DrainBackground(TRUE, {}, attempt, background, waiter)
      /\ exclusions' = {} /\ UNCHANGED <<store, accepted, other, microtasks>>
  BY <1>1, <1>2 DEF Mount, history
<1>6. old.last = None /\ old.waiting = None /\ old.timer = None
  BY <1>1, <1>5 DEF Watching, HooksInv, HookOK, AwayOK
<1>7. HookOK(h, hook, First(queue), attempt, accepted)
  BY <1>4, <1>6 DEF HookOK, LastOK, MountedOK, AwayOK, Tried
<1>8. TryLeaves(h, hook)
  BY <1>4, <1>5, <1>7, TryHooks, Zenon
<1>9. Due = {} /\ Due' = {}
  BY <1>5, NothingDue
<1>10. \A g \in Hooks : ~hooks[g].mounted
  BY <1>5 DEF Open, Mounted
<1>11. hooks'[h].mounted /\ Open'
  BY <1>4, <1>8 DEF TryLeaves, DrainLeaves, Open, Mounted
<1>12. PICK k, next : k = hooks'[h] /\ next = attempt'
  OBVIOUS
<1>13. /\ k.waiting # hook.waiting => Leased(attempt, background)
       /\ next # attempt => attempt = None
  BY <1>8, <1>12 DEF TryLeaves, DrainLeaves
<1>14. /\ BackInv'
       /\ Leased(attempt, background) => Leased(attempt, background)'
       /\ waiter' # None => waiter # None \/ Leased(attempt, background)
  <2>1. PICK open, excluded : open = TRUE /\ excluded = {}
    OBVIOUS
  <2>2. DrainBackground(open, excluded, attempt, background, waiter) /\ (Open' <=> open)
        /\ exclusions' = excluded
    BY <1>5, <1>11, <2>1
  <2> QED
    BY <1>3, <1>5, <1>12, <1>13, <2>2, BackgroundLeaves
<1>15. WaitInv'
  <2>1. ASSUME NEW g \in Hooks, hooks'[g].waiting # None
        PROVE  Leased(attempt, background) \/ hooks[g].waiting # None
    BY <1>4, <1>1, <1>8, <1>12, <1>13, <2>1 DEF TryLeaves
  <2> QED
    BY <1>9, <1>14, <2>1 DEF Watching, WaitInv
<1>16. OrderInv' /\ HooksInv'
  BY <1>5, <1>8 DEF Watching, OrderInv, HooksInv, TryLeaves, store
<1>17. ViewInv'
  BY <1>4, <1>5, <1>8, <1>10, TryViewed
<1>18. DueInv'
  BY <1>9 DEF DueInv, DueOK
<1> QED
  BY <1>14, <1>15, <1>16, <1>17, <1>18 DEF Watching

LEMMA UnmountWatched ==
  ASSUME TypeInv, Watching, NEW h \in Hooks, Unmount(h)
  PROVE  Watching'
<1>1. PICK old, r, a, n : old = hooks[h] /\ r = First(queue) /\ a = attempt /\ n = accepted
  OBVIOUS
<1>2. PICK hook : hook = [old EXCEPT !.mounted = FALSE, !.waiting = None,
                                     !.timer = None, !.stale = FALSE]
  OBVIOUS
<1>3. old \in Hook /\ background \in BackgroundAttempt \cup {None} /\ hooks \in [Hooks -> Hook]
  BY <1>1 DEF TypeInv, TypeOK
<1>4. /\ hook \in Hook /\ hook.mounted = FALSE /\ hook.used = old.used /\ hook.last = old.last
      /\ hook.waiting = None /\ hook.timer = None
  BY <1>2, <1>3, HookFields DEF Hook
<1>5. /\ hooks' = [hooks EXCEPT ![h] = hook] /\ attempt' = attempt /\ Quiet /\ old.mounted
      /\ DrainBackground(FALSE, Noted(queue), attempt, background, waiter)
      /\ exclusions' = Noted(queue) /\ UNCHANGED <<store, accepted, other, microtasks>>
  BY <1>1, <1>2 DEF Unmount, history
<1>6. HookOK(h, old, r, a, n)
  BY <1>1 DEF Watching, HooksInv
<1>7. old.used
  BY <1>5, <1>6 DEF HookOK, MountedOK
<1>8. HookOK(h, hook, r, a, n)
  BY <1>4, <1>6, <1>7 DEF HookOK, LastOK, MountedOK, AwayOK
<1>9. hooks'[h] = hook /\ \A g \in Hooks : g # h => hooks'[g] = hooks[g]
  BY <1>3, <1>5
<1>10. Due = {} /\ Due' = {}
  BY <1>5, NothingDue
<1>11. \A g \in Hooks : ~hooks'[g].mounted
  BY <1>1, <1>4, <1>5, <1>9, ViewAlone
<1>12. ~Open'
  BY <1>11 DEF Open, Mounted
<1>13. /\ BackInv'
       /\ Leased(attempt, background) => Leased(attempt, background)'
       /\ waiter' # None => waiter # None \/ Leased(attempt, background)
  <2>1. PICK open, excluded : open = FALSE /\ excluded = Noted(queue)
    OBVIOUS
  <2>2. DrainBackground(open, excluded, attempt, background, waiter) /\ (Open' <=> open)
        /\ exclusions' = excluded
    BY <1>5, <1>12, <2>1
  <2> QED
    BY <1>3, <1>5, <2>2, BackgroundLeaves
<1>14. WaitInv'
  <2>1. ASSUME NEW g \in Hooks, hooks'[g].waiting # None
        PROVE  hooks[g].waiting # None
    BY <1>4, <1>9, <2>1
  <2> QED
    BY <1>10, <1>13, <2>1 DEF Watching, WaitInv
<1>15. HooksInv'
  <2>1. queue' = queue /\ accepted' = accepted
    BY <1>5 DEF store
  <2> QED
    BY <1>1, <1>5, <1>8, <1>9, <2>1 DEF Watching, HooksInv
<1>16. OrderInv'
  BY <1>5 DEF Watching, OrderInv, store
<1>17. ViewInv'
  BY <1>11 DEF ViewInv, ViewOK
<1>18. DueInv'
  BY <1>10 DEF DueInv, DueOK
<1> QED
  BY <1>13, <1>14, <1>15, <1>16, <1>17, <1>18 DEF Watching

\* A retry that finds another head, or a session that is busy, sets one ref.
LEMMA RetriesNot ==
  ASSUME TypeInv, Watching, NEW h \in Hooks, NEW k \in Hook, Quiet,
         hooks' = [hooks EXCEPT ![h] = k],
         UNCHANGED <<store, accepted, attempt, background, waiter, exclusions, other, microtasks>>,
         k.mounted = hooks[h].mounted, k.waiting = hooks[h].waiting,
         HookOK(h, k, First(queue), attempt, accepted),
         Ready(chat, stopping) /\ ForegroundClaims(First(queue)) =>
           /\ k.stale = hooks[h].stale /\ k.shown = hooks[h].shown
           /\ Watches(hooks[h], PayloadOf(First(queue))) => Watches(k, PayloadOf(First(queue)))
  PROVE  Watching'
<1>1. hooks \in [Hooks -> Hook]
  BY DEF TypeInv, TypeOK
<1>2. hooks'[h] = k /\ \A g \in Hooks : g # h => hooks'[g] = hooks[g]
  BY <1>1
<1>3. Due = {} /\ Due' = {}
  BY NothingDue
<1>4. queue' = queue /\ chat' = chat /\ stopping' = stopping
  BY DEF store
<1>5. \A g \in Hooks : hooks'[g].mounted = hooks[g].mounted /\ hooks'[g].waiting = hooks[g].waiting
  BY <1>2
<1>6. WaitInv'
  <2>1. Leased(attempt, background)' <=> Leased(attempt, background)
    BY DEF Leased
  <2> QED
    BY <1>3, <1>5, <2>1 DEF Watching, WaitInv
<1>7. BackInv'
  <2>1. Open' <=> Open
    BY <1>5 DEF Open, Mounted
  <2> QED
    BY <1>3, <1>4, <2>1 DEF Watching, BackInv, BackgroundClaims, Ready
<1>8. OrderInv' /\ HooksInv'
  BY <1>2, <1>4 DEF Watching, OrderInv, HooksInv
<1>9. DueInv'
  BY <1>3 DEF DueInv, DueOK
<1>10. ViewInv'
  <2>1. PICK p, r : p = PayloadOf(First(queue)) /\ r = First(queue)
    OBVIOUS
  <2>2. ASSUME NEW g \in Hooks PROVE ViewOK(g, hooks', r, chat, stopping, attempt, Due')
    <3>1. SUFFICES ASSUME hooks[g].mounted, Ready(chat, stopping), ForegroundClaims(r)
                   PROVE  \/ hooks'[g].stale \/ hooks'[g].shown # chat
                          \/ Sending(g, attempt, p)
                          \/ \E f \in Hooks : Watches(hooks'[f], p)
      BY <1>5, <2>1 DEF ViewOK
    <3>2. \/ hooks[g].stale \/ hooks[g].shown # chat
          \/ Sending(g, attempt, p)
          \/ \E f \in Hooks : Watches(hooks[f], p)
      BY <1>3, <2>1, <3>1 DEF Watching, ViewInv, ViewOK
    <3>3. \A f \in Hooks : Watches(hooks[f], p) => Watches(hooks'[f], p)
      BY <1>2, <2>1, <3>1
    <3>4. hooks'[g].stale = hooks[g].stale /\ hooks'[g].shown = hooks[g].shown
      BY <1>2, <2>1, <3>1
    <3> QED
      BY <3>2, <3>3, <3>4
  <2> QED
    BY <1>4, <2>1, <2>2 DEF ViewInv
<1> QED
  BY <1>6, <1>7, <1>8, <1>9, <1>10 DEF Watching

LEMMA RetryWatched ==
  ASSUME TypeInv, Watching, NEW h \in Hooks, Retry(h)
  PROVE  Watching'
<1>1. PICK old, r, a, n : old = hooks[h] /\ r = First(queue) /\ a = attempt /\ n = accepted
  OBVIOUS
<1>2. PICK fired : fired = [old EXCEPT !.timer = None]
  OBVIOUS
<1>3. PICK blank : blank = [old EXCEPT !.last = None]
  OBVIOUS
<1>4. PICK cycled : cycled = NextCycle(fired)
  OBVIOUS
<1>5. /\ old \in Hook /\ r \in Record \cup {None} /\ HookOK(h, old, r, a, n)
      /\ hooks \in [Hooks -> Hook]
  BY <1>1, QueueTypes DEF TypeInv, TypeOK, Watching, HooksInv
<1>6. /\ fired \in Hook /\ fired.mounted = old.mounted /\ fired.used = old.used
      /\ fired.last = old.last /\ fired.waiting = old.waiting /\ fired.timer = None
      /\ fired.rejections = old.rejections /\ fired.stale = old.stale /\ fired.shown = old.shown
  BY <1>2, <1>5, HookFields DEF Hook
<1>7. /\ blank \in Hook /\ blank.mounted = old.mounted /\ blank.used = old.used
      /\ blank.last = None /\ blank.waiting = old.waiting /\ blank.timer = old.timer
      /\ blank.stale = old.stale /\ blank.shown = old.shown
  BY <1>3, <1>5, HookFields DEF Hook
<1>8. /\ Quiet /\ old.timer # None
      /\ UNCHANGED <<store, accepted, background, waiter, exclusions, other, microtasks>>
  BY <1>1 DEF Retry, history
<1>9. old.used /\ (~old.mounted => old.waiting = None /\ ~By(h, a))
  BY <1>5, <1>8 DEF HookOK, AwayOK
<1>10. CASE ~(r # None /\ r.kind = "ready" /\ PayloadOf(r) = old.timer)
  <2>1. hooks' = [hooks EXCEPT ![h] = fired] /\ attempt' = attempt
    BY <1>1, <1>2, <1>10 DEF Retry
  <2>2. \A p : Tried(fired, p) => Tried(old, p)
    BY <1>6 DEF Tried
  <2>3. ASSUME old.mounted PROVE r # None /\ r.kind = "failed" /\ PayloadOf(r) = old.timer
    <3>1. IsHead(old.timer, r) /\ r.kind # "preparing"
      BY <1>5, <1>8, <2>3 DEF HookOK, MountedOK
    <3>2. r # None /\ r \in Record
      BY <1>5, <3>1 DEF IsHead
    <3> QED
      BY <1>10, <3>1, <3>2 DEF IsHead, Record
  <2>4. HookOK(h, fired, r, a, n)
    <3>1. MountedOK(h, fired, r, a)
      BY <1>5, <1>6, <1>9, <2>3 DEF HookOK, MountedOK, Held
    <3>2. LastOK(fired, r, n)
      BY <1>5, <1>6 DEF HookOK, LastOK
    <3>3. AwayOK(h, fired, a)
      BY <1>6, <1>9, <1>5 DEF HookOK, AwayOK
    <3>4. fired.waiting # None => ~Tried(fired, fired.waiting)
      BY <1>5, <1>6, <2>2 DEF HookOK
    <3> QED
      BY <3>1, <3>2, <3>3, <3>4 DEF HookOK
  <2>5. ForegroundClaims(r) /\ Watches(old, PayloadOf(r)) => Watches(fired, PayloadOf(r))
    BY <1>6, <1>10 DEF ForegroundClaims, Attemptable, Watches, Exhausted
  <2> QED
    BY <1>1, <1>6, <1>8, <2>1, <2>4, <2>5, RetriesNot
<1>11. CASE /\ r # None /\ r.kind = "ready" /\ PayloadOf(r) = old.timer
            /\ ~Ready(chat, stopping)
  <2>1. hooks' = [hooks EXCEPT ![h] = blank] /\ attempt' = attempt
    <3>1. hooks' = [hooks EXCEPT ![h].last = None] /\ attempt' = attempt
      BY <1>1, <1>11 DEF Retry
    <3> QED
      BY <1>1, <1>3, <3>1
  <2>2. \A p : ~Tried(blank, p)
    BY <1>7 DEF Tried
  <2>3. HookOK(h, blank, r, a, n)
    <3>1. MountedOK(h, blank, r, a)
      BY <1>5, <1>7, <2>2 DEF HookOK, MountedOK
    <3>2. LastOK(blank, r, n)
      BY <1>7 DEF LastOK
    <3>3. AwayOK(h, blank, a)
      BY <1>7, <1>9, <1>5 DEF HookOK, AwayOK
    <3> QED
      BY <2>2, <3>1, <3>2, <3>3 DEF HookOK
  <2> QED
    BY <1>1, <1>7, <1>8, <1>11, <2>1, <2>3, RetriesNot
<1>12. CASE /\ r # None /\ r.kind = "ready" /\ PayloadOf(r) = old.timer
            /\ Ready(chat, stopping)
  <2>1. TryDrain(h, cycled)
    BY <1>1, <1>2, <1>4, <1>12 DEF Retry
  <2>2. /\ cycled \in Hook /\ cycled.mounted = old.mounted /\ cycled.used = old.used
        /\ cycled.waiting = old.waiting /\ cycled.timer = None
        /\ cycled.rejections = old.rejections /\ cycled.stale = old.stale
        /\ cycled.shown = old.shown
        /\ cycled.last # None => /\ old.last # None /\ ~cycled.last.current
                                 /\ cycled.last.payload = old.last.payload
    <3>1. /\ Softened(fired, cycled) /\ cycled.timer = fired.timer /\ cycled.stale = fired.stale
          /\ cycled.rejections = fired.rejections
          /\ cycled.last # None => ~cycled.last.current
      BY <1>4, <1>6, CycleSoftens
    <3> QED
      BY <1>6, <3>1 DEF Softened
  <2>3. \A p : ~Tried(cycled, p)
    BY <2>2 DEF Tried
  <2>4. HookOK(h, cycled, r, a, n)
    <3>1. MountedOK(h, cycled, r, a)
      BY <1>5, <2>2, <2>3 DEF HookOK, MountedOK
    <3>2. LastOK(cycled, r, n)
      BY <1>5, <2>2 DEF HookOK, LastOK
    <3>3. AwayOK(h, cycled, a)
      BY <1>9, <2>2 DEF AwayOK
    <3> QED
      BY <2>3, <3>1, <3>2, <3>3 DEF HookOK
  <2>5. TryLeaves(h, cycled)
    <3>1. /\ HookOK(h, cycled, First(queue), attempt, accepted) /\ cycled.used
          /\ ~cycled.mounted => /\ cycled.timer = None
                                /\ By(h, attempt) => IsHead(attempt.payload, First(queue))
      BY <1>1, <1>9, <2>2, <2>4
    <3> QED
      BY <2>1, <2>2, <3>1, TryHooks, Zenon
  <2>6. Due = {} /\ Due' = {}
    BY <1>8, NothingDue
  <2>7. WaitInv' /\ BackInv' /\ OrderInv' /\ HooksInv'
        /\ \A g \in Hooks : hooks'[g].mounted = hooks[g].mounted
    BY <1>1, <1>8, <2>2, <2>5, <2>6, TryKeeps
  <2>8. DueInv'
    BY <2>6 DEF DueInv, DueOK
  <2>9. ViewInv'
    <3>1. CASE old.mounted
      <4>1. \A g \in Hooks : g # h => ~hooks[g].mounted
        BY <1>1, <3>1, ViewAlone
      <4> QED
        BY <1>8, <2>2, <2>5, <3>1, <4>1, TryViewed
    <3>2. CASE ~old.mounted
      <4>1. PICK p : p = PayloadOf(r)
        OBVIOUS
      <4>2. PICK k, next : k = hooks'[h] /\ next = attempt'
        OBVIOUS
      <4>3. DrainLeaves(h, cycled, r, chat, stopping, a, background, k, next, n)
        BY <1>1, <2>5, <4>2 DEF TryLeaves
      <4>4. ForegroundClaims(r) => Watches(k, p) \/ (next # None /\ next.payload = p)
        <5>1. Sending(h, a, p) /\ next = a => next # None /\ next.payload = p
          BY <1>9, <3>2 DEF Sending, By
        <5>2. cycled.waiting = None
          BY <1>9, <2>2, <3>2
        <5> QED
          BY <1>12, <2>3, <4>1, <4>3, <5>1, <5>2 DEF DrainLeaves, Watches
      <4>5. next # a => a = None
        BY <4>3 DEF DrainLeaves
      <4>6. ASSUME NEW g \in Hooks PROVE ViewOK(g, hooks', r, chat, stopping, next, Due')
        <5>1. SUFFICES ASSUME hooks[g].mounted, ForegroundClaims(r)
                       PROVE  \/ hooks'[g].stale \/ hooks'[g].shown # chat
                              \/ Sending(g, next, p)
                              \/ \E f \in Hooks : Watches(hooks'[f], p)
          BY <2>7, <4>1 DEF ViewOK
        <5> QED
          BY <4>2, <4>4, <5>1 DEF Sending
      <4>7. queue' = queue /\ chat' = chat /\ stopping' = stopping
        BY <1>8 DEF store
      <4> QED
        BY <1>1, <4>2, <4>6, <4>7 DEF ViewInv
    <3> QED
      BY <1>5, <3>1, <3>2 DEF Hook
  <2> QED
    BY <2>7, <2>8, <2>9 DEF Watching
<1> QED
  BY <1>10, <1>11, <1>12

LEMMA WakeWatched ==
  ASSUME TypeInv, Watching, NEW h \in Hooks, Wake(h)
  PROVE  Watching'
<1>1. PICK hook, r, a, n : hook = hooks[h] /\ r = First(queue) /\ a = attempt /\ n = accepted
  OBVIOUS
<1>2. /\ hook \in Hook /\ r \in Record \cup {None} /\ HookOK(h, hook, r, a, n)
      /\ hooks \in [Hooks -> Hook]
  BY <1>1, QueueTypes DEF TypeInv, TypeOK, Watching, HooksInv
<1>3. /\ microtasks # <<>> /\ Head(microtasks) = h /\ microtasks' = Tail(microtasks)
      /\ TryDrain(h, hook)
      /\ UNCHANGED <<store, accepted, background, waiter, exclusions, other>>
  BY <1>1 DEF Wake, Task, history
<1>4. /\ h \in Due /\ Due' \subseteq Due /\ \A t \in Due : t # h => t \in Due'
  BY <1>3, TailDue
<1>5. h # "notify" /\ h # "resume"
  BY ComposerAssumption DEF Tasks
<1>6. /\ hook.used
      /\ ~hook.mounted => hook.timer = None /\ (hook.waiting # None => IsHead(hook.waiting, r))
  BY <1>1, <1>4 DEF Watching, DueInv, DueOK
<1>7. a # None => IsHead(a.payload, r)
  BY <1>1, <1>4 DEF Watching, DueInv
<1>8. TryLeaves(h, hook)
  <2>1. /\ HookOK(h, hook, First(queue), attempt, accepted)
        /\ ~hook.mounted => /\ hook.timer = None
                            /\ By(h, attempt) => IsHead(attempt.payload, First(queue))
    BY <1>1, <1>2, <1>6, <1>7 DEF By
  <2> QED
    BY <1>2, <1>3, <1>6, <2>1, TryHooks, Zenon
<1>9. PICK k, next : k = hooks'[h] /\ next = attempt'
  OBVIOUS
<1>10. DrainLeaves(h, hook, r, chat, stopping, a, background, k, next, n)
  BY <1>1, <1>8, <1>9 DEF TryLeaves
<1>11. WaitInv' /\ BackInv' /\ OrderInv' /\ HooksInv'
       /\ \A g \in Hooks : hooks'[g].mounted = hooks[g].mounted
  BY <1>1, <1>3, <1>4, <1>5, <1>8, TryKeeps
<1>12. queue' = queue /\ chat' = chat /\ stopping' = stopping
  BY <1>3 DEF store
<1>13. \A g \in Hooks : g # h => hooks'[g] = hooks[g]
  BY <1>8 DEF TryLeaves
<1>14. /\ next # a => a = None /\ IsHead(next.payload, r)
       /\ k.mounted = hook.mounted /\ k.used = hook.used /\ k.timer = hook.timer
       /\ k.rejections = hook.rejections
       /\ k.waiting # hook.waiting => hook.waiting = None /\ IsHead(k.waiting, r)
       /\ Ready(chat, stopping) /\ ForegroundClaims(r) =>
            \/ k.waiting = PayloadOf(r)
            \/ next # None /\ next.payload = PayloadOf(r)
            \/ Exhausted(k, PayloadOf(r)) \/ Tried(hook, PayloadOf(r))
            \/ Sending(h, a, PayloadOf(r)) /\ next = a
            \/ hook.waiting # None /\ k = hook
  BY <1>10 DEF DrainLeaves
<1>15. DueInv'
  <2>1. ASSUME NEW g \in Hooks PROVE DueOK(g, hooks'[g], r, Due')
    <3>1. CASE g = h
      BY <1>6, <1>9, <1>14, <3>1 DEF DueOK
    <3>2. CASE g # h
      BY <1>1, <1>4, <1>13, <3>2 DEF Watching, DueInv, DueOK
    <3> QED
      BY <3>1, <3>2
  <2>2. next # None => IsHead(next.payload, r)
    BY <1>7, <1>14
  <2> QED
    BY <1>1, <1>9, <1>12, <2>1, <2>2 DEF DueInv
<1>16. ViewInv'
  <2>1. CASE hook.mounted
    <3>1. \A g \in Hooks : g # h => ~hooks[g].mounted
      BY <1>1, <2>1, ViewAlone
    <3> QED
      BY <1>3, <1>8, <2>1, <3>1, TryViewed
  <2>2. CASE ~hook.mounted
    <3>1. PICK p : p = PayloadOf(r)
      OBVIOUS
    <3>2. ASSUME NEW g \in Hooks PROVE ViewOK(g, hooks', r, chat, stopping, next, Due')
      <4>1. SUFFICES ASSUME hooks[g].mounted, Ready(chat, stopping), ForegroundClaims(r)
                     PROVE  \/ hooks'[g].stale \/ hooks'[g].shown # chat
                            \/ Sending(g, next, p)
                            \/ \E f \in Hooks : Watches(hooks'[f], p)
                            \/ g \in Due'
                            \/ \E f \in Hooks \cap Due' : ~Tried(hooks'[f], p)
        BY <1>11, <3>1 DEF ViewOK
      <4>2. g # h /\ hooks'[g] = hooks[g]
        BY <1>1, <1>13, <2>2, <4>1
      <4>3. \/ hooks[g].stale \/ hooks[g].shown # chat
            \/ Sending(g, a, p)
            \/ \E f \in Hooks : Watches(hooks[f], p)
            \/ g \in Due
            \/ \E f \in Hooks \cap Due : ~Tried(hooks[f], p)
        BY <1>1, <3>1, <4>1 DEF Watching, ViewInv, ViewOK
      <4>4. Sending(g, a, p) => Sending(g, next, p)
        BY <1>14 DEF Sending
      <4>5. Watches(hook, p) => Watches(k, p)
        <5>1. p # None
          BY <1>2, <3>1, <4>1, PayloadFacts DEF ForegroundClaims, Attemptable
        <5> QED
          BY <1>14, <5>1 DEF Watches, Exhausted
      <4>6. \A f \in Hooks : Watches(hooks[f], p) => Watches(hooks'[f], p)
        BY <1>1, <1>9, <1>13, <4>5
      <4>7. ASSUME ~Tried(hook, p) PROVE Watches(k, p) \/ Sending(g, next, p)
        <5>1. next # None /\ next.payload = p => Sending(g, next, p)
          BY DEF Sending
        <5>2. Sending(h, a, p) => a # None /\ a.payload = p
          <6>1. Sending(h, a, p) => a # None
            BY DEF Sending
          <6> QED
            BY <1>7, <3>1, <6>1 DEF IsHead
        <5>3. ~hook.mounted /\ hook.waiting # None => hook.waiting = p
          BY <1>6, <3>1 DEF IsHead
        <5> QED
          BY <1>14, <2>2, <3>1, <4>1, <4>7, <5>1, <5>2, <5>3 DEF Watches
      <4>8. CASE \E f \in Hooks \cap Due : ~Tried(hooks[f], p)
        <5>1. PICK f \in Hooks \cap Due : ~Tried(hooks[f], p)
          BY <4>8
        <5>2. CASE f = h
          BY <1>1, <1>9, <4>7, <5>1, <5>2
        <5>3. CASE f # h
          BY <1>4, <1>13, <5>1, <5>3
        <5> QED
          BY <5>2, <5>3
      <4>9. g \in Due => g \in Due'
        BY <1>4, <4>2
      <4> QED
        BY <4>2, <4>3, <4>4, <4>6, <4>8, <4>9
    <3> QED
      BY <1>1, <1>9, <1>12, <3>2 DEF ViewInv
  <2> QED
    BY <1>2, <2>1, <2>2 DEF Hook
<1> QED
  BY <1>11, <1>15, <1>16 DEF Watching

\* The refs of the mount whose attempt, for the head p, was rejected.
LEMMA RejectedHook ==
  ASSUME NEW old \in Hook, NEW p \in Payload, ~Exhausted(old, p), NEW k, k = RejectedBy(old, p)
  PROVE  /\ k.mounted = old.mounted /\ k.used = old.used /\ k.last = old.last
         /\ k.waiting = old.waiting /\ k.stale = old.stale /\ k.shown = old.shown
         /\ Exhausted(k, p) => k.timer = None
         /\ ~Exhausted(k, p) => k.timer = IF old.timer = None THEN p ELSE old.timer
<1>1. PICK n : n = Rejections(old, p)
  OBVIOUS
<1>2. PICK t : t = IF n.count >= MaxRejections THEN None
                   ELSE IF old.timer = None THEN p ELSE old.timer
  OBVIOUS
<1>3. k = [old EXCEPT !.rejections = n, !.timer = t]
  BY <1>1, <1>2 DEF RejectedBy
<1>4. /\ k.mounted = old.mounted /\ k.used = old.used /\ k.last = old.last
      /\ k.waiting = old.waiting /\ k.stale = old.stale /\ k.shown = old.shown
      /\ k.rejections = n /\ k.timer = t
  BY <1>3, HookFields
<1>5. n.payload = p /\ n.count \in 1..MaxRejections
  <2>1. CASE old.rejections # None /\ old.rejections.payload = p
    <3>1. old.rejections \in Rejection
      BY <2>1, HookFields
    <3>2. old.rejections.count \in 1..MaxRejections /\ MaxRejections \in Nat
      BY <3>1, ComposerAssumption DEF Rejection
    <3>3. old.rejections.count + 1 \in 1..MaxRejections
      BY <2>1, <3>2 DEF Exhausted
    <3>4. n = [payload |-> p, count |-> old.rejections.count + 1]
      BY <1>1, <2>1 DEF Rejections
    <3> QED
      BY <3>3, <3>4
  <2>2. CASE ~(old.rejections # None /\ old.rejections.payload = p)
    <3>1. n = [payload |-> p, count |-> 1] /\ 1 \in 1..MaxRejections
      BY <1>1, <2>2, ComposerAssumption DEF Rejections
    <3> QED
      BY <3>1
  <2> QED
    BY <2>1, <2>2
<1>6. n # None
  <2>1. n \in Rejection
    <3>1. n = [payload |-> p, count |-> n.count]
      BY <1>1 DEF Rejections
    <3> QED
      BY <1>5, <3>1 DEF Rejection
  <2> QED
    BY <2>1, ComposerAssumption
<1>7. Exhausted(k, p) <=> n.count >= MaxRejections
  BY <1>4, <1>5, <1>6 DEF Exhausted
<1> QED
  BY <1>2, <1>4, <1>7

\* Who is due after a rejection.
LEMMA RejectedDue ==
  ASSUME NEW h \in Hooks,
         microtasks' = <<"notify">> \/ microtasks' = <<"notify">> \o TriesNext(h)
  PROVE  /\ "notify" \in Due' /\ Due' \subseteq {"notify", h}
         /\ (microtasks' = <<"notify">> => Due' = {"notify"})
         /\ (microtasks' = <<"notify">> \o TriesNext(h) /\ Attemptable(First(queue)) => h \in Due')
<1>1. PICK start : start = <<"notify">>
  OBVIOUS
<1>2. start \in Seq(Hooks \cup Tasks) /\ Len(start) = 1 /\ start[1] = "notify"
      /\ DOMAIN start = {1}
  BY <1>1 DEF Tasks
<1>3. ASSUME microtasks' = start PROVE Due' = {"notify"}
  <2>1. DOMAIN microtasks' = {1} /\ microtasks'[1] = "notify"
    BY <1>2, <1>3
  <2> QED
    BY <2>1 DEF Due
<1>4. ASSUME microtasks' = start \o <<h>> PROVE Due' = {"notify", h}
  <2>1. PICK both : both = start \o <<h>>
    OBVIOUS
  <2>a. h \in Hooks \cup Tasks
    OBVIOUS
  <2>2. /\ DOMAIN both = 1 .. Len(start) + 1
        /\ \A i \in 1 .. Len(start) : both[i] = start[i]
        /\ both[Len(start) + 1] = h
    BY <1>2, <2>1, <2>a, TasksJoin
  <2>3. 1 \in 1 .. Len(start)
    BY <1>2
  <2>4. DOMAIN both = {1, 2} /\ both[1] = "notify" /\ both[2] = h
    BY <1>2, <2>2, <2>3
  <2>5. microtasks' = both
    BY <1>4, <2>1
  <2> QED
    BY <2>4, <2>5 DEF Due
<1>5. CASE Attemptable(First(queue))
  <2>1. TriesNext(h) = <<h>>
    BY <1>5 DEF TriesNext
  <2>2. microtasks' = start \/ microtasks' = start \o <<h>>
    BY <1>1, <2>1
  <2>3. microtasks' = start \o TriesNext(h) => h \in Due'
    BY <1>4, <2>1
  <2> QED
    BY <1>1, <1>3, <1>4, <2>2, <2>3
<1>6. CASE ~Attemptable(First(queue))
  <2>1. TriesNext(h) = <<>>
    BY <1>6 DEF TriesNext
  <2>2. microtasks' = start
    BY <1>1, <1>2, <2>1, ConcatEmptySeq
  <2> QED
    BY <1>1, <1>3, <1>6, <2>2
<1> QED
  BY <1>5, <1>6

\* What a rejection does to the hooks.
RejectLeaves(h, p, r) ==
  /\ \A g \in Hooks : HookOK(g, hooks'[g], r, None, accepted)
  /\ \A g \in Hooks : /\ hooks'[g].mounted = hooks[g].mounted
                      /\ hooks'[g].waiting = hooks[g].waiting
                      /\ hooks'[g].stale = hooks[g].stale /\ hooks'[g].shown = hooks[g].shown
                      /\ \A x : Watches(hooks[g], x) =>
                           Watches(hooks'[g], x) \/ (g = h /\ Owned(p) /\ Watches(hooks'[h], p))
  /\ Owned(p) => Watches(hooks'[h], p) /\ p = PayloadOf(r)
  /\ ~Owned(p) => hooks' = hooks

LEMMA RejectHooks ==
  ASSUME TypeInv, Watching, attempt # None, NEW h, h = attempt.hook, NEW p, p = attempt.payload,
         IF Owned(p) THEN hooks' = [hooks EXCEPT ![h] = RejectedBy(@, p)] ELSE hooks' = hooks
  PROVE  RejectLeaves(h, p, First(queue))
<1>1. PICK r, a, n : r = First(queue) /\ a = attempt /\ n = accepted
  OBVIOUS
<1>2. /\ h \in Hooks /\ p \in Payload /\ ~Exhausted(hooks[h], p) /\ hooks \in [Hooks -> Hook]
      /\ By(h, a) /\ r \in Record \cup {None}
  BY <1>1, QueueTypes DEF TypeInv, TypeOK, LeaseInv, LeaseOK, Attempt, By
<1>3. PICK old : old = hooks[h]
  OBVIOUS
<1>4. old \in Hook /\ HookOK(h, old, r, a, n) /\ ~Exhausted(old, p)
  BY <1>1, <1>2, <1>3 DEF Watching, HooksInv
<1>5. ~By(h, None)
  BY DEF By
<1>6. /\ old.used
      /\ ~old.mounted => old.timer = None /\ old.waiting = None
  BY <1>2, <1>4 DEF HookOK, AwayOK
<1>7. ASSUME NEW g \in Hooks, g # h PROVE HookOK(g, hooks[g], r, None, n)
  <2>1. ~By(g, a) /\ ~By(g, None)
    BY <1>1, <1>7 DEF By
  <2>2. PICK k : k = hooks[g]
    OBVIOUS
  <2>3. HookOK(g, k, r, a, n)
    BY <1>1, <2>2 DEF Watching, HooksInv
  <2>4. HookOK(g, k, r, None, n)
    BY <2>1, <2>3 DEF HookOK, MountedOK, AwayOK
  <2> QED
    BY <2>2, <2>4
<1>8. CASE Owned(p)
  <2>1. PICK k : k = RejectedBy(old, p)
    OBVIOUS
  <2>2. hooks'[h] = k /\ \A g \in Hooks : g # h => hooks'[g] = hooks[g]
    BY <1>2, <1>3, <1>8, <2>1
  <2>3. /\ k.mounted = old.mounted /\ k.used = old.used /\ k.last = old.last
        /\ k.waiting = old.waiting /\ k.stale = old.stale /\ k.shown = old.shown
        /\ Exhausted(k, p) => k.timer = None
        /\ ~Exhausted(k, p) => k.timer = IF old.timer = None THEN p ELSE old.timer
    BY <1>2, <1>4, <2>1, RejectedHook
  <2>4. p = PayloadOf(r) /\ r # None /\ r.kind = "ready" /\ IsHead(p, r)
    BY <1>1, <1>8 DEF Owned, Attemptable, IsHead
  <2>5. old.timer # None => old.timer = p
    BY <1>4, <1>6, <2>4 DEF HookOK, MountedOK, IsHead
  <2>6. (Exhausted(k, p) /\ k.timer = None) \/ k.timer = p
    BY <2>3, <2>5
  <2>7. \A x : Tried(k, x) <=> Tried(old, x)
    BY <2>3 DEF Tried
  <2>8. HookOK(h, k, r, None, n)
    <3>1. MountedOK(h, k, r, None)
      BY <1>4, <1>6, <2>3, <2>4, <2>6 DEF HookOK, MountedOK
    <3>2. LastOK(k, r, n)
      BY <1>4, <2>3 DEF HookOK, LastOK
    <3>3. AwayOK(h, k, None)
      BY <1>5, <1>6, <2>3 DEF AwayOK
    <3> QED
      BY <1>4, <2>3, <2>7, <3>1, <3>2, <3>3 DEF HookOK
  <2>9. Watches(k, p)
    BY <2>6 DEF Watches
  <2> QED
    BY <1>1, <1>3, <1>7, <1>8, <2>2, <2>3, <2>4, <2>8, <2>9 DEF RejectLeaves
<1>9. CASE ~Owned(p)
  <2>1. hooks' = hooks
    BY <1>9
  <2>2. ASSUME old.mounted, r # None, Tried(old, PayloadOf(r)), IsHead(p, r) PROVE Held(r)
    <3>1. r \in Record /\ r.id \in Nat /\ r.rev \in Nat
          /\ PayloadOf(r).id = r.id /\ PayloadOf(r).rev = r.rev
      BY <1>2, <2>2, PayloadFacts, HeadFacts DEF Tried
    <3>2. old.last # None /\ old.last.payload = PayloadOf(r)
      BY <2>2 DEF Tried
    <3>3. r.kind # "preparing"
      BY <1>4, <2>2, <3>1, <3>2 DEF HookOK, LastOK
    <3>4. ~Attemptable(r)
      BY <1>1, <1>9, <2>2 DEF Owned, IsHead
    <3> QED
      BY <2>2, <3>1, <3>3, <3>4 DEF Attemptable, Held, Record
  <2>3. HookOK(h, old, r, None, n)
    <3>1. By(h, a) /\ IsHead(a.payload, r) => IsHead(p, r)
      BY <1>1
    <3>2. MountedOK(h, old, r, None)
      BY <1>4, <2>2, <3>1 DEF HookOK, MountedOK
    <3>3. AwayOK(h, old, None)
      BY <1>5, <1>6 DEF AwayOK
    <3> QED
      BY <1>4, <3>2, <3>3 DEF HookOK
  <2> QED
    BY <1>1, <1>3, <1>7, <1>9, <2>1, <2>3 DEF RejectLeaves
<1> QED
  BY <1>8, <1>9

LEMMA RejectWatched ==
  ASSUME TypeInv, Watching, Reject
  PROVE  Watching'
<1>1. PICK h, p, r : h = attempt.hook /\ p = attempt.payload /\ r = First(queue)
  OBVIOUS
<1>2. /\ Quiet /\ attempt # None /\ attempt' = None
      /\ UNCHANGED <<store, accepted, background, waiter, exclusions, other>>
      /\ IF Owned(p) THEN hooks' = [hooks EXCEPT ![h] = RejectedBy(@, p)] ELSE hooks' = hooks
      /\ IF Owned(p) THEN microtasks' = <<"notify">> ELSE microtasks' = <<"notify">> \o TriesNext(h)
  BY <1>1 DEF Reject, history
<1>3. h \in Hooks
  BY <1>1, <1>2 DEF TypeInv, TypeOK, Attempt
<1>4. RejectLeaves(h, p, r)
  BY <1>1, <1>2, RejectHooks
<1>5. /\ "notify" \in Due' /\ Due' \subseteq {"notify", h}
      /\ Owned(p) => Due' = {"notify"}
      /\ ~Owned(p) /\ Attemptable(r) => h \in Due'
  BY <1>1, <1>2, <1>3, RejectedDue
<1>6. \A g \in Hooks : g # "notify"
  BY ComposerAssumption DEF Tasks
<1>7. Due = {}
  BY <1>2, NothingDue
<1>8. queue' = queue /\ chat' = chat /\ stopping' = stopping
  BY <1>2 DEF store
<1>9. WaitInv'
  BY <1>5 DEF WaitInv
<1>10. BackInv'
  <2>1. Open' <=> Open
    BY <1>4 DEF Open, Mounted, RejectLeaves
  <2> QED
    BY <1>2, <1>7, <1>8, <2>1 DEF Watching, BackInv, BackgroundClaims, Ready
<1>11. OrderInv' /\ HooksInv'
  BY <1>1, <1>2, <1>4, <1>8 DEF Watching, OrderInv, HooksInv, RejectLeaves
<1>12. DueInv'
  <2>1. ASSUME NEW g \in Hooks, g \in Due' PROVE DueOK(g, hooks'[g], r, Due')
    <3>1. g = h /\ ~Owned(p)
      BY <1>5, <1>6, <2>1
    <3>2. hooks' = hooks /\ By(h, attempt)
      BY <1>1, <1>2, <1>4, <3>1 DEF RejectLeaves, By
    <3>3. AwayOK(h, hooks[h], attempt)
      BY <1>3 DEF Watching, HooksInv, HookOK
    <3> QED
      BY <3>1, <3>2, <3>3 DEF AwayOK, DueOK
  <2> QED
    BY <1>1, <1>2, <1>8, <2>1 DEF DueInv, DueOK
<1>13. ViewInv'
  <2>1. PICK x : x = PayloadOf(r)
    OBVIOUS
  <2>2. ASSUME NEW g \in Hooks PROVE ViewOK(g, hooks', r, chat, stopping, None, Due')
    <3>1. SUFFICES ASSUME hooks'[g].mounted, Ready(chat, stopping), ForegroundClaims(r)
                   PROVE  \/ hooks'[g].stale \/ hooks'[g].shown # chat
                          \/ \E f \in Hooks : Watches(hooks'[f], x)
                          \/ g \in Due'
      BY <2>1 DEF ViewOK
    <3>2. /\ hooks[g].mounted /\ hooks[g].stale = hooks'[g].stale
          /\ hooks[g].shown = hooks'[g].shown
      BY <1>4, <3>1 DEF RejectLeaves
    <3>3. \/ hooks[g].stale \/ hooks[g].shown # chat
          \/ Sending(g, attempt, x)
          \/ \E f \in Hooks : Watches(hooks[f], x)
      BY <1>1, <1>7, <2>1, <3>1, <3>2 DEF Watching, ViewInv, ViewOK
    <3>4. CASE Owned(p)
      BY <1>3, <1>4, <2>1, <3>4 DEF RejectLeaves
    <3>5. CASE ~Owned(p)
      <4>1. hooks' = hooks
        BY <1>4, <3>5 DEF RejectLeaves
      <4>2. Attemptable(r) /\ p # x
        BY <1>1, <2>1, <3>1, <3>5 DEF ForegroundClaims, Owned
      <4>3. Sending(g, attempt, x) => g = h
        BY <1>1, <4>2 DEF Sending
      <4> QED
        BY <1>5, <3>2, <3>3, <3>5, <4>1, <4>2, <4>3
    <3> QED
      BY <3>4, <3>5
  <2> QED
    BY <1>1, <1>2, <1>8, <2>2 DEF ViewInv
<1> QED
  BY <1>9, <1>10, <1>11, <1>12, <1>13 DEF Watching

\* Who is due once everyone who waits for the lease was told of its release.
LEMMA NotifiedDue ==
  ASSUME TypeInv, microtasks # <<>>, NEW wakes, NEW last, NotifiedAs(wakes, last)
  PROVE  /\ \A h \in Hooks : h \in Due' => h \in Due \/ hooks[h].waiting # None
         /\ \A t \in Due : t # Head(microtasks) => t \in Due'
         /\ \A h \in Hooks : hooks[h].waiting # None => h \in Due'
         /\ waiter # None => "resume" \in Due'
<1>1. PICK rest : rest = Tail(microtasks)
  OBVIOUS
<1>2. rest \in Seq(Hooks \cup Tasks)
  BY <1>1, TaskFacts DEF TypeInv, TypeOK, TaskInv
<1>3. /\ wakes \in Seq(Hooks \cup Tasks) /\ last \in Seq(Hooks \cup Tasks)
      /\ microtasks' = wakes \o rest \o last
  BY <1>1 DEF NotifiedAs, Tasks
<1>4. /\ Len(wakes) \in Nat /\ Len(rest) \in Nat /\ Len(last) \in Nat
      /\ DOMAIN microtasks' = 1 .. Len(wakes) + Len(rest) + Len(last)
      /\ DOMAIN wakes = 1 .. Len(wakes) /\ DOMAIN rest = 1 .. Len(rest)
      /\ DOMAIN last = 1 .. Len(last)
      /\ \A i \in 1 .. Len(wakes) : microtasks'[i] = wakes[i]
      /\ \A i \in 1 .. Len(rest) : microtasks'[Len(wakes) + i] = rest[i]
      /\ \A i \in 1 .. Len(last) : microtasks'[Len(wakes) + Len(rest) + i] = last[i]
  BY <1>2, <1>3, TasksAround
<1>5. /\ \A t \in Due : t # Head(microtasks) => \E i \in DOMAIN rest : rest[i] = t
      /\ \A i \in DOMAIN rest : rest[i] \in Due
  BY <1>1, DueAfter
<1>6. ASSUME NEW h \in Hooks, h \in Due' PROVE h \in Due \/ hooks[h].waiting # None
  <2>1. PICK i \in DOMAIN microtasks' : microtasks'[i] = h
    BY <1>6 DEF Due
  <2>2. CASE i \in 1 .. Len(wakes)
    BY <1>4, <2>1, <2>2 DEF NotifiedAs
  <2>3. CASE i > Len(wakes) /\ i <= Len(wakes) + Len(rest)
    <3>1. PICK j : j = i - Len(wakes)
      OBVIOUS
    <3>2. j \in 1 .. Len(rest) /\ i = Len(wakes) + j
      BY <1>4, <2>1, <2>3, <3>1
    <3> QED
      BY <1>4, <1>5, <2>1, <3>2
  <2>4. CASE i > Len(wakes) + Len(rest)
    <3>1. PICK j : j = i - (Len(wakes) + Len(rest))
      OBVIOUS
    <3>2. j \in 1 .. Len(last) /\ i = Len(wakes) + Len(rest) + j
      BY <1>4, <2>1, <2>4, <3>1
    <3>3. last[j] = "resume"
      BY <1>4, <3>2 DEF NotifiedAs
    <3> QED
      BY <1>4, <2>1, <3>2, <3>3, ComposerAssumption DEF Tasks
  <2> QED
    BY <1>4, <2>1, <2>2, <2>3, <2>4
<1>7. ASSUME NEW t \in Due, t # Head(microtasks) PROVE t \in Due'
  <2>1. PICK i \in DOMAIN rest : rest[i] = t
    BY <1>5, <1>7
  <2>2. Len(wakes) + i \in DOMAIN microtasks' /\ microtasks'[Len(wakes) + i] = t
    BY <1>4, <2>1
  <2> QED
    BY <2>2 DEF Due
<1>8. ASSUME NEW h \in Hooks, hooks[h].waiting # None PROVE h \in Due'
  <2>1. PICK i \in DOMAIN wakes : wakes[i] = h
    BY <1>8 DEF NotifiedAs
  <2>2. i \in DOMAIN microtasks' /\ microtasks'[i] = h
    BY <1>4, <2>1
  <2> QED
    BY <2>2 DEF Due
<1>9. ASSUME waiter # None PROVE "resume" \in Due'
  <2>1. last = <<"resume">>
    BY <1>9 DEF NotifiedAs
  <2>2. Len(last) = 1 /\ last[1] = "resume"
    BY <2>1
  <2>3. PICK i : i = Len(wakes) + Len(rest) + 1
    OBVIOUS
  <2>4. i \in DOMAIN microtasks' /\ microtasks'[i] = "resume"
    BY <1>4, <2>2, <2>3
  <2> QED
    BY <2>4 DEF Due
<1> QED
  BY <1>6, <1>7, <1>8, <1>9

LEMMA NotifyWatched ==
  ASSUME TypeInv, Watching, Notify
  PROVE  Watching'
<1>1. /\ microtasks # <<>> /\ Head(microtasks) = "notify" /\ hooks \in [Hooks -> Hook]
      /\ UNCHANGED <<store, accepted, attempt, background, exclusions, other>>
  BY DEF Notify, Task, TypeInv, TypeOK, history
<1>2. queue' = queue /\ chat' = chat /\ stopping' = stopping
  BY <1>1 DEF store
<1>3. \A h \in Hooks : h # "notify"
  BY ComposerAssumption DEF Tasks
<1>4. PICK r, n : r = First(queue) /\ n = accepted
  OBVIOUS
<1>5. CASE Leased(attempt, background)
  <2>1. microtasks' = Tail(microtasks) /\ UNCHANGED <<hooks, waiter>>
    BY <1>5 DEF Notify
  <2>2. Due # {} /\ Due' \subseteq Due /\ \A t \in Due : t # "notify" => t \in Due'
    BY <1>1, <2>1, TailDue
  <2>3. WaitInv'
    BY <1>1, <1>5 DEF WaitInv, Leased
  <2>4. BackInv'
    BY <1>1, <1>2, <2>1, <2>2
       DEF Watching, BackInv, BackgroundClaims, Ready, First, Open, Mounted
  <2>5. OrderInv' /\ HooksInv'
    BY <1>1, <1>2, <2>1 DEF Watching, OrderInv, HooksInv
  <2>6. DueInv'
    BY <1>1, <1>2, <2>1, <2>2 DEF Watching, DueInv, DueOK
  <2>7. ViewInv'
    <3>1. ASSUME NEW h \in Hooks PROVE ViewOK(h, hooks, r, chat, stopping, attempt, Due')
      BY <1>3, <1>4, <2>2 DEF Watching, ViewInv, ViewOK
    <3> QED
      BY <1>1, <1>2, <1>4, <2>1, <3>1 DEF ViewInv
  <2> QED
    BY <2>3, <2>4, <2>5, <2>6, <2>7 DEF Watching
<1>6. CASE ~Leased(attempt, background)
  <2>1. hooks' = [h \in Hooks |-> [hooks[h] EXCEPT !.waiting = None]] /\ waiter' = None
    BY <1>6 DEF Notify
  <2>2. attempt = None
    BY <1>6 DEF Leased
  <2>3. PICK wakes, last : NotifiedAs(wakes, last)
    BY <1>6, NotifyWakes
  <2>4. /\ \A h \in Hooks : h \in Due' => h \in Due \/ hooks[h].waiting # None
        /\ \A t \in Due : t # "notify" => t \in Due'
        /\ \A h \in Hooks : hooks[h].waiting # None => h \in Due'
        /\ waiter # None => "resume" \in Due'
    BY <1>1, <2>3, NotifiedDue
  <2>5. ASSUME NEW h \in Hooks
        PROVE  /\ hooks'[h].mounted = hooks[h].mounted /\ hooks'[h].used = hooks[h].used
               /\ hooks'[h].last = hooks[h].last /\ hooks'[h].timer = hooks[h].timer
               /\ hooks'[h].rejections = hooks[h].rejections
               /\ hooks'[h].stale = hooks[h].stale /\ hooks'[h].shown = hooks[h].shown
               /\ hooks'[h].waiting = None
    <3>1. PICK w : w = None
      OBVIOUS
    <3>2. hooks'[h] = [hooks[h] EXCEPT !.waiting = w] /\ hooks[h] \in Hook
      BY <1>1, <2>1, <3>1
    <3> QED
      BY <3>1, <3>2, HookFields
  <2>6. WaitInv'
    BY <2>1, <2>5 DEF WaitInv
  <2>7. BackInv'
    <3>1. Open' <=> Open
      BY <2>5 DEF Open, Mounted
    <3> QED
      BY <1>1, <1>2, <2>4, <3>1 DEF Watching, BackInv, BackgroundClaims, Ready, First
  <2>8. HooksInv'
    <3>1. ASSUME NEW h \in Hooks PROVE HookOK(h, hooks'[h], r, attempt, n)
      <4>1. PICK old, k : old = hooks[h] /\ k = hooks'[h]
        OBVIOUS
      <4>2. HookOK(h, old, r, attempt, n)
        BY <1>4, <4>1 DEF Watching, HooksInv
      <4>3. /\ k.mounted = old.mounted /\ k.used = old.used /\ k.last = old.last
            /\ k.timer = old.timer /\ k.rejections = old.rejections
            /\ k.stale = old.stale /\ k.waiting = None
        BY <2>5, <4>1
      <4>4. \A x : (Tried(k, x) <=> Tried(old, x)) /\ (Exhausted(k, x) <=> Exhausted(old, x))
        BY <4>3 DEF Tried, Exhausted
      <4>5. LastOK(k, r, n) /\ MountedOK(h, k, r, attempt)
        BY <4>2, <4>3, <4>4 DEF HookOK, LastOK, MountedOK
      <4> QED
        BY <4>1, <4>2, <4>3, <4>5 DEF HookOK, AwayOK
    <3> QED
      BY <1>1, <1>2, <1>4, <3>1 DEF HooksInv
  <2>9. DueInv'
    <3>1. ASSUME NEW h \in Hooks, h \in Due'
          PROVE  /\ hooks'[h].used
                 /\ ~hooks'[h].mounted => hooks'[h].timer = None /\ hooks'[h].waiting = None
      <4>1. CASE h \in Due
        BY <2>5, <4>1 DEF Watching, DueInv, DueOK
      <4>2. CASE hooks[h].waiting # None
        BY <2>5, <4>2 DEF Watching, HooksInv, HookOK, AwayOK
      <4> QED
        BY <2>4, <3>1, <4>1, <4>2
    <3> QED
      BY <1>1, <1>2, <2>2, <3>1 DEF DueInv, DueOK
  <2>10. ViewInv'
    <3>1. PICK p : p = PayloadOf(r)
      OBVIOUS
    <3>2. ASSUME NEW h \in Hooks PROVE ViewOK(h, hooks', r, chat, stopping, attempt, Due')
      <4>1. SUFFICES ASSUME hooks[h].mounted, Ready(chat, stopping), ForegroundClaims(r)
                     PROVE  \/ hooks'[h].stale \/ hooks'[h].shown # chat
                            \/ \E f \in Hooks : Watches(hooks'[f], p)
                            \/ h \in Due'
                            \/ \E f \in Hooks \cap Due' : ~Tried(hooks'[f], p)
        BY <2>5, <3>1 DEF ViewOK
      <4>2. \/ hooks[h].stale \/ hooks[h].shown # chat
            \/ \E f \in Hooks : Watches(hooks[f], p)
            \/ h \in Due
            \/ \E f \in Hooks \cap Due : ~Tried(hooks[f], p)
        BY <1>4, <2>2, <3>1, <4>1 DEF Watching, ViewInv, ViewOK, Sending
      <4>3. p # None
        BY <1>4, <3>1, <4>1, QueueTypes, PayloadFacts DEF ForegroundClaims, Attemptable
      <4>4. \A f \in Hooks : Tried(hooks'[f], p) <=> Tried(hooks[f], p)
        BY <2>5 DEF Tried
      <4>5. CASE \E f \in Hooks : Watches(hooks[f], p)
        <5>1. PICK f \in Hooks : Watches(hooks[f], p)
          BY <4>5
        <5>2. CASE hooks[f].waiting = p
          <6>1. f \in Due'
            BY <2>4, <4>3, <5>2
          <6>2. ~Tried(hooks[f], p)
            BY <4>3, <5>2 DEF Watching, HooksInv, HookOK
          <6> QED
            BY <4>4, <6>1, <6>2
        <5>3. CASE hooks[f].waiting # p
          BY <2>5, <5>1, <5>3 DEF Watches, Exhausted
        <5> QED
          BY <5>2, <5>3
      <4>6. CASE \E f \in Hooks \cap Due : ~Tried(hooks[f], p)
        BY <1>3, <2>4, <4>4, <4>6
      <4>7. CASE h \in Due
        BY <1>3, <2>4, <4>7
      <4> QED
        BY <2>5, <4>2, <4>5, <4>6, <4>7
    <3> QED
      BY <1>1, <1>2, <1>4, <3>2 DEF ViewInv
  <2> QED
    BY <1>1, <1>2, <2>6, <2>7, <2>8, <2>9, <2>10 DEF Watching, OrderInv
<1> QED
  BY <1>5, <1>6

LEMMA DrainAgainWatched ==
  ASSUME TypeInv, Watching, DrainAgain
  PROVE  Watching'
<1>1. PICK b : b = IF Task("drainAgain") THEN None ELSE background
  OBVIOUS
<1>2. /\ microtasks # <<>> /\ Head(microtasks) \in {"drainAgain", "resume"}
      /\ background \in BackgroundAttempt \cup {None}
      /\ DrainBackground(Open, exclusions, attempt, b, waiter)
      /\ microtasks' = Tail(microtasks)
      /\ UNCHANGED <<store, accepted, hooks, attempt, exclusions, other>>
  BY <1>1 DEF DrainAgain, Task, TypeInv, TypeOK, history
<1>3. b \in BackgroundAttempt \cup {None}
      /\ (b = background \/ (b = None /\ ~BackgroundHolds(background)))
  <2>1. CASE Task("drainAgain")
    <3>1. background # None /\ background.pc = "done"
      BY <2>1, TaskFacts DEF Task, TypeInv, TaskInv, TaskOK, Ends
    <3> QED
      BY <1>1, <2>1, <3>1 DEF BackgroundHolds
  <2>2. CASE ~Task("drainAgain")
    BY <1>1, <1>2, <2>2
  <2> QED
    BY <2>1, <2>2
<1>4. /\ BackInv'
      /\ Leased(attempt, background) => Leased(attempt, background)'
      /\ waiter' # None => waiter # None \/ Leased(attempt, background)
  <2>1. PICK open, excluded, next : open = Open /\ excluded = exclusions /\ next = attempt'
    OBVIOUS
  <2>2. DrainBackground(open, excluded, attempt, b, waiter) /\ (Open' <=> open)
        /\ exclusions' = excluded
    BY <1>2, <2>1 DEF Open, Mounted
  <2> QED
    BY <1>2, <1>3, <2>2, BackgroundLeaves
<1>5. Due # {} /\ Due' \subseteq Due /\ \A t \in Due : t # Head(microtasks) => t \in Due'
  BY <1>2, TailDue
<1>6. \A h \in Hooks : h # "drainAgain" /\ h # "resume"
  BY ComposerAssumption DEF Tasks
<1>7. queue' = queue /\ chat' = chat /\ stopping' = stopping
  BY <1>2 DEF store
<1>8. "notify" \in Due => "notify" \in Due'
  BY <1>2, <1>5
<1>9. \A h \in Hooks : h \in Due => h \in Due'
  BY <1>2, <1>5, <1>6
<1>10. WaitInv'
  BY <1>2, <1>4, <1>8 DEF Watching, WaitInv
<1>11. OrderInv' /\ HooksInv'
  BY <1>2, <1>7 DEF Watching, OrderInv, HooksInv
<1>12. DueInv'
  BY <1>2, <1>5, <1>7 DEF Watching, DueInv, DueOK
<1>13. ViewInv'
  <2>1. PICK r : r = First(queue)
    OBVIOUS
  <2>2. ASSUME NEW h \in Hooks PROVE ViewOK(h, hooks, r, chat, stopping, attempt, Due')
    BY <1>9, <2>1 DEF Watching, ViewInv, ViewOK
  <2> QED
    BY <1>2, <1>7, <2>1, <2>2 DEF ViewInv
<1> QED
  BY <1>4, <1>10, <1>11, <1>12, <1>13 DEF Watching

\* Nothing but who holds the lease changes between two tasks.
LEMMA LeaseWatched ==
  ASSUME TypeInv, Watching, Quiet, UNCHANGED <<store, accepted, hooks, attempt, waiter, exclusions>>,
         background # None => background' # None,
         \/ microtasks' = microtasks /\ (Leased(attempt, background) => Leased(attempt, background)')
         \/ attempt = None /\ "notify" \in Due' /\ \A h \in Hooks : h \notin Due'
  PROVE  Watching'
<1>1. queue' = queue /\ chat' = chat /\ stopping' = stopping /\ Due = {}
  BY NothingDue DEF store
<1>2. \/ Due' = {} /\ (Leased(attempt, background) => Leased(attempt, background)')
      \/ attempt = None /\ "notify" \in Due' /\ \A h \in Hooks : h \notin Due'
  BY NothingDue
<1>3. WaitInv'
  BY <1>1, <1>2 DEF Watching, WaitInv
<1>4. BackInv'
  BY <1>1 DEF Watching, BackInv, BackgroundClaims, Ready, First, Open, Mounted
<1>5. OrderInv' /\ HooksInv'
  BY <1>1 DEF Watching, OrderInv, HooksInv
<1>6. DueInv'
  <2>1. \A h \in Hooks : h \notin Due'
    BY <1>2
  <2>2. attempt = None \/ Due' = {}
    BY <1>2
  <2> QED
    BY <2>1, <2>2 DEF DueInv, DueOK
<1>7. ViewInv'
  <2>1. PICK r : r = First(queue)
    OBVIOUS
  <2>2. ASSUME NEW h \in Hooks PROVE ViewOK(h, hooks, r, chat, stopping, attempt, Due')
    BY <1>1, <2>1 DEF Watching, ViewInv, ViewOK
  <2> QED
    BY <1>1, <2>1, <2>2 DEF ViewInv
<1> QED
  BY <1>3, <1>4, <1>5, <1>6, <1>7 DEF Watching

LEMMA BackgroundEndsWatched ==
  ASSUME TypeInv, Watching, RejectBackground \/ SettleBackground
  PROVE  Watching'
<1>1. /\ Quiet /\ background # None /\ background.pc \in {"sending", "settling"}
      /\ UNCHANGED <<store, accepted, hooks, attempt, waiter, exclusions>>
  BY DEF RejectBackground, SettleBackground, history
<1>2. attempt = None
  BY <1>1 DEF TypeInv, LeaseInv, LeaseOK, BackgroundHolds
<1>3. background' # None
  <2>1. PICK pc \in {"failing", "done"} : background' = [background EXCEPT !.pc = pc]
    BY DEF RejectBackground, SettleBackground
  <2>2. background \in BackgroundAttempt
    BY <1>1 DEF TypeInv, TypeOK
  <2>3. background' \in BackgroundAttempt
    BY <2>1, <2>2 DEF BackgroundAttempt
  <2> QED
    BY <2>3, ComposerAssumption
<1>4. PICK t \in Tasks : microtasks' = <<"notify", t>>
  BY DEF RejectBackground, SettleBackground, Tasks
<1>5. DOMAIN microtasks' = {1, 2} /\ microtasks'[1] = "notify" /\ microtasks'[2] = t
  BY <1>4
<1>6. Due' = {"notify", t}
  BY <1>5 DEF Due
<1>7. "notify" \in Due' /\ \A h \in Hooks : h \notin Due'
  BY <1>6, ComposerAssumption DEF Tasks
<1> QED
  BY <1>1, <1>2, <1>3, <1>7, LeaseWatched

LEMMA OtherWatched ==
  ASSUME TypeInv, Watching,
         \/ OtherAcquires \/ OtherReleases \/ SteerFails
         \/ \E h \in Hooks : StartSteer(h)
  PROVE  Watching'
<1>1. /\ Quiet /\ UNCHANGED <<store, accepted, hooks, attempt, waiter, exclusions>>
      /\ background' = background
  BY DEF OtherAcquires, OtherReleases, SteerFails, StartSteer, history, drains
<1>2. CASE OtherReleases
  <2>1. attempt = None
    BY <1>2 DEF OtherReleases, TypeInv, LeaseInv, LeaseOK
  <2>2. microtasks' = <<"notify">>
    BY <1>2 DEF OtherReleases
  <2>3. DOMAIN microtasks' = {1} /\ microtasks'[1] = "notify"
    BY <2>2
  <2>4. Due' = {"notify"}
    BY <2>3 DEF Due
  <2>5. "notify" \in Due' /\ \A h \in Hooks : h \notin Due'
    BY <2>4, ComposerAssumption DEF Tasks
  <2> QED
    BY <1>1, <2>1, <2>5, LeaseWatched
<1>3. CASE ~OtherReleases
  <2>1. microtasks' = microtasks /\ (other' = other \/ other' = TRUE)
    BY <1>3 DEF OtherAcquires, SteerFails, StartSteer
  <2>2. Leased(attempt, background) => Leased(attempt, background)'
    <3>1. CASE other' = other
      BY <1>1, <3>1 DEF Leased
    <3>2. CASE other' = TRUE
      BY <3>2 DEF Leased
    <3> QED
      BY <2>1, <3>1, <3>2
  <2> QED
    BY <1>1, <2>1, <2>2, LeaseWatched
<1> QED
  BY <1>2, <1>3

LEMMA StuttersWatched ==
  ASSUME Watching, UNCHANGED vars
  PROVE  Watching'
<1>1. /\ UNCHANGED <<queue, chat, stopping, accepted, hooks, attempt, background>>
      /\ UNCHANGED <<waiter, exclusions, other, microtasks>>
  BY DEF vars, store, history, drains
<1>2. WaitInv' /\ BackInv' /\ OrderInv'
  BY <1>1 DEF Watching, WaitInv, BackInv, OrderInv, Leased, Due, Open, Mounted
<1>3. HooksInv' /\ DueInv' /\ ViewInv'
  BY <1>1 DEF Watching, HooksInv, DueInv, ViewInv, Due
<1> QED
  BY <1>2, <1>3 DEF Watching

LEMMA InitWatched ==
  ASSUME Init
  PROVE  Watching
<1>1. /\ queue = [i \in 1..Restored |-> NewRecord(i, "ready", TRUE)]
      /\ accepted = Restored /\ Restored \in Nat
      /\ hooks = [h \in Hooks |-> NewHook]
      /\ attempt = None /\ background = None /\ waiter = None /\ microtasks = <<>>
  BY ComposerAssumption DEF Init
<1>2. /\ DOMAIN queue = 1..Restored
      /\ \A i \in DOMAIN queue : queue[i].id = i /\ queue[i].restored = TRUE /\ queue[i].released = FALSE
  BY <1>1 DEF NewRecord
<1>3. \A h \in Hooks : /\ hooks[h].mounted = FALSE /\ hooks[h].used = FALSE
                       /\ hooks[h].last = None /\ hooks[h].waiting = None
                       /\ hooks[h].timer = None
  BY <1>1 DEF NewHook
<1>4. Due = {}
  BY <1>1, NothingDue DEF Quiet
<1>5. WaitInv
  BY <1>1, <1>3 DEF WaitInv
<1>6. BackInv
  <2>1. TypeInv
    BY InitTyped
  <2>2. First(queue) # None => First(queue) = queue[1] /\ 1 \in DOMAIN queue
    <3>1. PICK q : q = queue
      OBVIOUS
    <3>2. q \in Seq(Record)
      BY <2>1, <3>1 DEF TypeInv, TypeOK
    <3> QED
      BY <3>1, <3>2, FirstFacts
  <2>3. PICK r : r = First(queue)
    OBVIOUS
  <2>4. r # None => ~r.released /\ r.restored
    BY <1>2, <2>2, <2>3
  <2>5. ~BackgroundClaims(r, Open, exclusions)
    BY <2>4 DEF BackgroundClaims, Attemptable
  <2> QED
    BY <2>3, <2>5 DEF BackInv
<1>7. OrderInv
  <2>1. PICK q, n : q = queue /\ n = accepted
    OBVIOUS
  <2>2. n \in Nat /\ DOMAIN q = 1..n /\ \A i \in DOMAIN q : q[i].id = i
    BY <1>1, <1>2, <2>1
  <2>3. Ordered(q, n)
    BY <2>2 DEF Ordered
  <2> QED
    BY <2>1, <2>3 DEF OrderInv
<1>8. HooksInv
  <2>1. ASSUME NEW h \in Hooks PROVE HookOK(h, hooks[h], First(queue), attempt, accepted)
    BY <1>1, <1>3 DEF HookOK, LastOK, MountedOK, AwayOK, By
  <2> QED
    BY <2>1 DEF HooksInv
<1>9. DueInv /\ ViewInv
  BY <1>3, <1>4 DEF DueInv, DueOK, ViewInv, ViewOK
<1> QED
  BY <1>5, <1>6, <1>7, <1>8, <1>9 DEF Watching

LEMMA StepWatched ==
  ASSUME "cancel" \notin Environment, TypeInv, Watching, Next
  PROVE  Watching'
<1>1. CASE Accept \/ Defer
  <2>1. /\ Quiet /\ accepted < MaxMessages /\ accepted' = accepted + 1
        /\ UNCHANGED <<other, microtasks>>
    BY <1>1 DEF Accept, Defer
  <2>2. \E kind \in {"ready", "preparing"} :
          WriteQueue(Append(queue, NewRecord(accepted + 1, kind, FALSE)))
    BY <1>1 DEF Accept, Defer
  <2> QED
    BY <2>1, <2>2, AcceptWatched
<1>2. CASE Load
  BY <1>2, LoadWatched
<1>3. CASE \E i \in DOMAIN queue : Edit(i)
  <2>1. PICK i \in DOMAIN queue : Edit(i)
    BY <1>3
  <2>2. ~CancelEditing(i)
    BY DEF CancelEditing
  <2> QED
    BY <2>1, <2>2, EditWatched
<1>4. CASE \E h \in Hooks : View(h)
  BY <1>4, MountWatched, UnmountWatched, RenderWatched, RetryWatched, OtherWatched DEF View
<1>5. CASE Foreground
  BY <1>5, CompactWatched, CommitWatched, RejectWatched DEF Foreground
<1>6. CASE BackgroundStep
  BY <1>6, CommitBackgroundWatched, BackgroundEndsWatched DEF BackgroundStep
<1>7. CASE Microtask
  BY <1>7, NotifyWatched, WakeWatched, ParkHeadWatched, DrainAgainWatched DEF Microtask
<1>8. CASE TurnEnds \/ Stop
  BY <1>8, TurnEndsWatched, StopWatched
<1>9. CASE OtherAcquires \/ OtherReleases \/ SteerFails
  BY <1>9, OtherWatched
<1>10. CASE Steered
  BY <1>10, SteeredWatched
<1> QED
  BY <1>1, <1>2, <1>3, <1>4, <1>5, <1>6, <1>7, <1>8, <1>9, <1>10 DEF Next

LEMMA WatchedHead ==
  ASSUME TypeInv, Watching
  PROVE  NeverStranded
<1>1. PICK r, p : r = First(queue) /\ p = PayloadOf(r)
  OBVIOUS
<1>2. SUFFICES ASSUME Quiet, Ready(chat, stopping), Attemptable(r), ~AwaitsUser(r)
               PROVE  WillBeTried(r)
  BY <1>1 DEF NeverStranded
<1>3. Due = {}
  BY <1>2, NothingDue
<1>4. r # None /\ p # None
  BY <1>1, <1>2, QueueTypes, PayloadFacts DEF Attemptable, TypeInv, TypeOK
<1>5. waiter # None \/ (\E h \in Hooks : hooks[h].waiting # None) =>
        attempt # None \/ background # None \/ other
  BY <1>3 DEF Watching, WaitInv, Leased
<1>6. ~r.restored /\ (Open \/ r.released \/ r.id \notin exclusions)
      /\ \A h \in Hooks : ~Exhausted(hooks[h], p)
  BY <1>1, <1>2 DEF AwaitsUser
<1>7. CASE BackgroundClaims(r, Open, exclusions)
  <2>1. background # None \/ waiter # None
    BY <1>1, <1>2, <1>3, <1>7 DEF Watching, BackInv
  <2> QED
    BY <1>5, <2>1 DEF WillBeTried
<1>8. CASE ~BackgroundClaims(r, Open, exclusions)
  <2>1. Open /\ ForegroundClaims(r)
    BY <1>2, <1>6, <1>8 DEF BackgroundClaims, ForegroundClaims
  <2>2. PICK h \in Hooks : hooks[h].mounted
    BY <2>1 DEF Open, Mounted
  <2>3. \/ hooks[h].stale \/ hooks[h].shown # chat
        \/ Sending(h, attempt, p)
        \/ \E g \in Hooks : Watches(hooks[g], p)
    BY <1>1, <1>2, <1>3, <2>1, <2>2 DEF Watching, ViewInv, ViewOK
  <2>4. CASE hooks[h].stale \/ hooks[h].shown # chat
    BY <2>2, <2>4 DEF WillBeTried, Mounted
  <2>5. CASE Sending(h, attempt, p)
    BY <2>5 DEF WillBeTried, Sending
  <2>6. CASE \E g \in Hooks : Watches(hooks[g], p)
    <3>1. PICK g \in Hooks : hooks[g].waiting = p \/ hooks[g].timer = p
      BY <1>6, <2>6 DEF Watches
    <3> QED
      BY <1>1, <1>4, <1>5, <3>1 DEF WillBeTried
  <2> QED
    BY <2>3, <2>4, <2>5, <2>6
<1> QED
  BY <1>7, <1>8

\* "When a chat's session becomes ready, that chat's queue MUST resume": as long
\* as nobody cancels an edit, an attemptable head is never left to nobody in a
\* ready session, whatever the subscribers of the store, the effects of the
\* view, the retry timers and the waiters for the lease run into.
THEOREM QueueResumes ==
  ASSUME "cancel" \notin Environment
  PROVE  Spec => []NeverStranded
<1>1. TypeInv /\ Watching /\ [Next]_vars => Watching'
  BY StepWatched, StuttersWatched
<1>2. TypeInv /\ Watching => NeverStranded
  BY WatchedHead
<1> QED
  BY <1>1, <1>2, InitWatched, QueueTyped, PTL DEF Spec
=============================================================================

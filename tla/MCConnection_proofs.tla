------------------------- MODULE MCConnection_proofs -------------------------
(***************************************************************************)
(* What the renderer's connection and the calls that go through it promise, *)
(* for any number of sessions, calls, models and connections: no transport  *)
(* outlives its connection, and what the renderer believes of a session is  *)
(* what the backend has.                                                    *)
(***************************************************************************)
EXTENDS MCConnection, TLAPS

----------------------------------------------------------------------------
(* The inductive invariant of the connection *)

\* An initialisation that is still wanted is the one the renderer waits for, whose
\* stream and endpoint are the active ones once it has them; without one there is
\* nothing to clean up.
InitInv ==
  \A i \in Acp!Inits :
    /\ init[i].generation <= epoch
    /\ init[i].pc \in {"idle", "resolving"} => init[i].stream = "none" /\ init[i].endpoint = "none"
    /\ init[i].generation = epoch /\ init[i].pc \notin {"idle", "failed"} => promise = i
PromiseInv ==
  /\ promise = 0 => active = 0 /\ client = 0
  /\ promise # 0 => /\ init[promise].generation = epoch
                    /\ init[promise].pc # "idle"
                    /\ active = 0 <=> init[promise].pc = "resolving"
  /\ active \in {0, promise} /\ disposer = active
  /\ client # 0 => client = promise /\ init[client].pc = "ready"
ConnInv == InitInv /\ PromiseInv /\ Acp!TransportsOwned
----------------------------------------------------------------------------
(* The inductive invariant of the calls *)

Runs(q) == call[q].pc \in {"connecting", "sent"}
Upcoming(q) == Acp!NextStep(q, call[q].stage, prepared[call[q].session])

\* The call that runs is the head of its session's queue, and one that waits is in it.
SerialInv ==
  \A q \in Calls :
    /\ call[q].pc = "queued" => q \in Range(mutations[call[q].session])
    /\ Runs(q) => /\ mutations[call[q].session] # <<>>
                  /\ Head(mutations[call[q].session]) = q

\* What a call sends, or has sent, follows from what is prepared now: nobody else
\* changes that while the call runs.
WireOf(q) ==
  /\ call[q].pc \in {"idle", "queued", "connecting"} => wire[q].phase = "none"
  /\ Runs(q) => Upcoming(q) \notin {"done", "refused"}
  /\ call[q].pc = "sent" => wire[q].phase \in {"sent", "served"} /\ wire[q].step = Upcoming(q)
WireInv == \A q \in Calls : WireOf(q)

\* What the renderer believes, e, agrees with what the backend has, g.
Agrees(e, g) ==
  e.known => /\ e.dir = g.dir
             /\ e.selected => /\ e.provider = g.provider
                              /\ e.model # "none" => e.model = g.model

\* The two agree until a request is served, and again once its answer is read.
TruthAt(s) ==
  /\ prepared[s].selected => prepared[s].known
  /\ s \notin overtaken /\ (\A q \in Calls : call[q].session = s /\ Runs(q) => wire[q].phase # "served")
       => Agrees(prepared[s], goose[s])
TruthOf(q) ==
  Runs(q) /\ call[q].session \notin overtaken =>
    /\ call[q].stage = "loaded" => goose[call[q].session].dir = call[q].want.dir
    /\ wire[q].phase = "served" =>
         /\ Agrees(Acp!Learnt(q, prepared[call[q].session]), goose[call[q].session])
         /\ wire[q].step = "load" /\ wire[q].ok => goose[call[q].session].dir = call[q].want.dir
TruthInv == (\A s \in Sessions : TruthAt(s)) /\ (\A q \in Calls : TruthOf(q))

CallInv == SerialInv /\ WireInv /\ TruthInv
----------------------------------------------------------------------------
(* The connection *)

LEMMA InitsFacts ==
  /\ Acp!Inits \subseteq Nat /\ 0 \notin Acp!Inits
  /\ \A i, j \in Acp!Inits : i = j \/ i # j
  BY ConnectionAssumption DEF Acp!Inits

\* Only the streams and endpoints of one initialisation are cleaned up, once each.
LEMMA CleanedFacts ==
  ASSUME NEW inits \in [Acp!Inits -> Acp!Initialisation], NEW i \in Acp!Inits \cup {0}
  PROVE  /\ Acp!Cleaned(inits, i) \in [Acp!Inits -> Acp!Initialisation]
         /\ \A j \in Acp!Inits :
              /\ Acp!Cleaned(inits, i)[j].pc = inits[j].pc
              /\ Acp!Cleaned(inits, i)[j].generation = inits[j].generation
              /\ j # i => Acp!Cleaned(inits, i)[j] = inits[j]
              /\ Acp!Cleaned(inits, i)[j].stream = "open" => inits[j].stream = "open" /\ j # i
              /\ Acp!Cleaned(inits, i)[j].endpoint = "held" => inits[j].endpoint = "held" /\ j # i
              /\ inits[j].stream \in {"none", "closed"}
                   => Acp!Cleaned(inits, i)[j].stream = inits[j].stream
              /\ inits[j].endpoint = "none" => Acp!Cleaned(inits, i)[j].endpoint = "none"
  <1>1. CASE i = 0
    BY <1>1, InitsFacts DEF Acp!Cleaned
  <1>2. CASE i # 0
    <2> DEFINE o == inits[i]
               stream == IF o.stream = "open" THEN "aborted" ELSE o.stream
               endpoint == IF o.endpoint = "held" THEN "disposed" ELSE o.endpoint
               n == [o EXCEPT !.stream = stream, !.endpoint = endpoint]
    <2>1. o \in Acp!Initialisation /\ i \in Acp!Inits
      BY <1>2
    <2>2. Acp!Cleaned(inits, i) = [inits EXCEPT ![i] = n]
      BY <1>2, <2>1 DEF Acp!Cleaned, Acp!Initialisation
    <2>3. /\ n \in Acp!Initialisation /\ n.pc = o.pc /\ n.generation = o.generation
          /\ n.stream = stream /\ n.endpoint = endpoint
      BY <2>1 DEF Acp!Initialisation
    <2>4. /\ stream # "open" /\ endpoint # "held"
          /\ o.stream \in {"none", "closed"} => stream = o.stream
          /\ o.endpoint = "none" => endpoint = "none"
      OBVIOUS
    <2>5. o = inits[i]
      OBVIOUS
    <2> HIDE DEF o, n, stream, endpoint
    <2>6. Acp!Cleaned(inits, i) \in [Acp!Inits -> Acp!Initialisation]
      BY <2>1, <2>2, <2>3
    <2>7. /\ Acp!Cleaned(inits, i)[i] = n
          /\ \A j \in Acp!Inits : j # i => Acp!Cleaned(inits, i)[j] = inits[j]
      BY <2>1, <2>2
    <2> QED
      BY <2>3, <2>4, <2>5, <2>6, <2>7
  <1> QED
    BY <1>1, <1>2

\* A generation that ends leaves no stream open and no endpoint held but a closed one's.
LEMMA AdvancedKeeps ==
  ASSUME Acp!TypeOK, ConnInv, NEW inits \in [Acp!Inits -> Acp!Initialisation], Acp!Advanced(inits),
         \A i \in Acp!Inits :
           /\ inits[i].generation = init[i].generation
           /\ inits[i].pc \in {"idle", "resolving"} => inits[i].stream = "none" /\ inits[i].endpoint = "none"
           /\ inits[i].stream # "open"
           /\ inits[i].endpoint = "held" => inits[i].stream = "closed"
  PROVE  /\ ConnInv'
         /\ epoch' \in Nat /\ client' = 0 /\ promise' = 0 /\ active' = 0 /\ disposer' = 0
         /\ init' \in [Acp!Inits -> Acp!Initialisation]
  <1>1. /\ epoch' = epoch + 1 /\ epoch \in Nat /\ init' = inits
        /\ client' = 0 /\ promise' = 0 /\ active' = 0 /\ disposer' = 0
    BY DEF Acp!Advanced, Acp!TypeOK
  <1>2. ASSUME NEW i \in Acp!Inits PROVE init'[i].generation < epoch' /\ init[i].generation \in Nat
    BY <1>1 DEF ConnInv, InitInv, Acp!TypeOK, Acp!Initialisation
  <1>3. InitInv'
    BY <1>1, <1>2 DEF InitInv
  <1>4. PromiseInv'
    BY <1>1 DEF PromiseInv
  <1>5. Acp!TransportsOwned'
    BY <1>1 DEF Acp!TransportsOwned
  <1> QED
    BY <1>1, <1>3, <1>4, <1>5 DEF ConnInv

\* The types of the connection's own variables.
ConnType ==
  /\ epoch \in Nat
  /\ client \in Acp!Inits \cup {0} /\ promise \in Acp!Inits \cup {0}
  /\ active \in Acp!Inits \cup {0} /\ disposer \in Acp!Inits \cup {0}
  /\ init \in [Acp!Inits -> Acp!Initialisation]

\* The active stream is the only one that is open, and its endpoint the only one that
\* is held behind an open stream.
LEMMA InvalidatedKeeps ==
  ASSUME Acp!TypeOK, ConnInv, Acp!Invalidated
  PROVE  ConnInv' /\ ConnType'
  <1> DEFINE one == Acp!Cleaned(init, active)
             inits == Acp!Cleaned(one, disposer)
  <1>1. one \in [Acp!Inits -> Acp!Initialisation]
    BY CleanedFacts DEF Acp!TypeOK
  <1>2. inits \in [Acp!Inits -> Acp!Initialisation]
    BY <1>1, CleanedFacts DEF Acp!TypeOK
  <1>3. \A j \in Acp!Inits :
          /\ one[j].pc = init[j].pc /\ one[j].generation = init[j].generation
          /\ one[j].stream = "open" => init[j].stream = "open" /\ j # active
          /\ one[j].endpoint = "held" => init[j].endpoint = "held"
          /\ init[j].stream \in {"none", "closed"} => one[j].stream = init[j].stream
          /\ init[j].endpoint = "none" => one[j].endpoint = "none"
    BY CleanedFacts DEF Acp!TypeOK
  <1>4. \A j \in Acp!Inits :
          /\ inits[j].pc = one[j].pc /\ inits[j].generation = one[j].generation
          /\ inits[j].stream = "open" => one[j].stream = "open"
          /\ inits[j].endpoint = "held" => one[j].endpoint = "held" /\ j # disposer
          /\ one[j].stream \in {"none", "closed"} => inits[j].stream = one[j].stream
          /\ one[j].endpoint = "none" => inits[j].endpoint = "none"
    BY <1>1, CleanedFacts DEF Acp!TypeOK
  <1>5. Acp!Advanced(inits)
    BY DEF Acp!Invalidated
  <1> HIDE DEF one, inits
  <1>6. ASSUME NEW j \in Acp!Inits
        PROVE  /\ inits[j].generation = init[j].generation
               /\ inits[j].pc \in {"idle", "resolving"} => inits[j].stream = "none" /\ inits[j].endpoint = "none"
               /\ inits[j].stream # "open"
               /\ inits[j].endpoint = "held" => inits[j].stream = "closed"
    BY <1>3, <1>4 DEF ConnInv, InitInv, Acp!TransportsOwned
  <1> QED
    BY <1>2, <1>5, <1>6, AdvancedKeeps DEF ConnType

\* One initialisation moves on in a generation that stays.
LEMMA RowMoves ==
  ASSUME Acp!TypeOK, ConnInv, NEW i \in Acp!Inits, NEW n \in Acp!Initialisation,
         init' = [init EXCEPT ![i] = n], UNCHANGED <<epoch, client, promise, active, disposer>>,
         n.generation = init[i].generation, init[i].pc \notin {"idle", "resolving"},
         \/ n.pc = init[i].pc
         \/ n.pc = "failed" /\ init[i].generation # epoch
         \/ init[i].pc = "handshake" /\ n.pc = "initialized",
         n.stream = "open" => init[i].stream = "open",
         n.endpoint = "held" =>
           init[i].endpoint = "held" /\ (init[i].stream = "closed" => n.stream = "closed")
  PROVE  ConnInv' /\ ConnType'
  <1>1. /\ init'[i] = n /\ \A j \in Acp!Inits : j # i => init'[j] = init[j]
        /\ init' \in [Acp!Inits -> Acp!Initialisation]
    BY DEF Acp!TypeOK
  <1>2. ConnType'
    BY <1>1 DEF ConnType, Acp!TypeOK
  <1>3. InitInv'
    BY <1>1 DEF ConnInv, InitInv
  <1>4. PromiseInv'
    <2>1. n.pc \notin {"idle", "resolving"}
      OBVIOUS
    <2>2. client = i => n.pc = "ready"
      BY InitsFacts DEF ConnInv, PromiseInv
    <2>3. promise \in Acp!Inits \cup {0} /\ client \in Acp!Inits \cup {0}
      BY DEF Acp!TypeOK
    <2> QED
      BY <1>1, <2>1, <2>2, <2>3, InitsFacts DEF ConnInv, PromiseInv
  <1>5. Acp!TransportsOwned'
    <2>1. client \in Acp!Inits \cup {0} /\ (client # 0 => init'[client].generation = init[client].generation)
      BY <1>1 DEF Acp!TypeOK
    <2> QED
      BY <1>1, <2>1 DEF ConnInv, Acp!TransportsOwned
  <1> QED
    BY <1>2, <1>3, <1>4, <1>5 DEF ConnInv


\* An initialisation of a generation that is gone fails before it has a stream.
LEMMA LateRow ==
  ASSUME Acp!TypeOK, ConnInv, NEW i \in Acp!Inits, NEW n \in Acp!Initialisation,
         init' = [init EXCEPT ![i] = n], UNCHANGED <<epoch, client, promise, active, disposer>>,
         init[i].pc = "resolving", init[i].generation # epoch, n.generation = init[i].generation,
         n.pc = "failed", n.stream = init[i].stream, n.endpoint # "held"
  PROVE  ConnInv' /\ ConnType'
  <1>1. /\ init'[i] = n /\ \A j \in Acp!Inits : j # i => init'[j] = init[j]
        /\ init' \in [Acp!Inits -> Acp!Initialisation]
    BY DEF Acp!TypeOK
  <1>2. ConnType'
    BY <1>1 DEF ConnType, Acp!TypeOK
  <1>3. InitInv'
    BY <1>1 DEF ConnInv, InitInv
  <1>4. promise # i /\ client # i
    BY InitsFacts DEF ConnInv, PromiseInv
  <1>5. promise \in Acp!Inits \cup {0} /\ client \in Acp!Inits \cup {0}
    BY DEF Acp!TypeOK
  <1>6. PromiseInv'
    BY <1>1, <1>4, <1>5, InitsFacts DEF ConnInv, PromiseInv
  <1>7. Acp!TransportsOwned'
    BY <1>1, <1>4, <1>5 DEF ConnInv, Acp!TransportsOwned, InitInv
  <1> QED
    BY <1>2, <1>3, <1>6, <1>7 DEF ConnInv

LEMMA ResolvedConn ==
  ASSUME Acp!TypeOK, ConnInv, NEW i \in Acp!Inits, Acp!Resolved(i)
  PROVE  ConnInv' /\ ConnType'
  <1> DEFINE n == [init[i] EXCEPT !.pc = "handshake", !.stream = "open", !.endpoint = "held"]
  <1>1. /\ n \in Acp!Initialisation /\ n.pc = "handshake" /\ n.stream = "open" /\ n.endpoint = "held"
        /\ n.generation = epoch
    BY DEF Acp!Resolved, Acp!TypeOK, Acp!Initialisation
  <1>2. init' = [init EXCEPT ![i] = n]
    BY DEF Acp!Resolved, Acp!TypeOK, Acp!Initialisation
  <1>3. /\ init[i].pc = "resolving" /\ init[i].generation = epoch
        /\ active' = i /\ disposer' = i /\ UNCHANGED <<epoch, client, promise>>
    BY DEF Acp!Resolved
  <1> HIDE DEF n
  <1>4. /\ init'[i] = n /\ \A j \in Acp!Inits : j # i => init'[j] = init[j]
        /\ init' \in [Acp!Inits -> Acp!Initialisation]
    BY <1>1, <1>2 DEF Acp!TypeOK
  <1>5. promise = i /\ active = 0 /\ disposer = 0 /\ client = 0
    BY <1>3, InitsFacts DEF ConnInv, InitInv, PromiseInv
  <1>6. InitInv'
    BY <1>1, <1>3, <1>4, <1>5, InitsFacts DEF ConnInv, InitInv
  <1>7. PromiseInv'
    BY <1>1, <1>3, <1>4, <1>5, InitsFacts DEF PromiseInv
  <1>8. Acp!TransportsOwned'
    BY <1>3, <1>4, <1>5, InitsFacts DEF ConnInv, Acp!TransportsOwned
  <1> QED
    BY <1>3, <1>4, <1>6, <1>7, <1>8 DEF ConnInv, ConnType, Acp!TypeOK

LEMMA ResolvedLateConn ==
  ASSUME Acp!TypeOK, ConnInv, NEW i \in Acp!Inits, Acp!ResolvedLate(i)
  PROVE  ConnInv' /\ ConnType'
  <1> DEFINE n == [init[i] EXCEPT !.pc = "failed", !.endpoint = "disposed"]
  <1>1. /\ n \in Acp!Initialisation /\ n.pc = "failed" /\ n.stream = init[i].stream
        /\ n.endpoint # "held" /\ n.generation = init[i].generation
    BY DEF Acp!TypeOK, Acp!Initialisation
  <1>2. init' = [init EXCEPT ![i] = n]
    BY DEF Acp!ResolvedLate, Acp!TypeOK, Acp!Initialisation
  <1> HIDE DEF n
  <1> QED
    BY <1>1, <1>2, LateRow DEF Acp!ResolvedLate

LEMMA InitFailsFacts ==
  ASSUME NEW inits \in [Acp!Inits -> Acp!Initialisation], NEW i \in Acp!Inits
  PROVE  \E n \in Acp!Initialisation :
           /\ Acp!InitFails(i, inits) = [inits EXCEPT ![i] = n]
           /\ Acp!InitFails(i, inits) \in [Acp!Inits -> Acp!Initialisation]
           /\ Acp!InitFails(i, inits)[i] = n
           /\ n.pc = "failed" /\ n.generation = inits[i].generation
           /\ n.stream = inits[i].stream /\ n.endpoint = inits[i].endpoint
  <1> DEFINE n == [inits[i] EXCEPT !.pc = "failed"]
  <1>1. /\ n \in Acp!Initialisation /\ n.pc = "failed" /\ n.stream = inits[i].stream
        /\ n.endpoint = inits[i].endpoint /\ n.generation = inits[i].generation
    BY DEF Acp!Initialisation
  <1>2. Acp!InitFails(i, inits) = [inits EXCEPT ![i] = n]
    BY DEF Acp!InitFails, Acp!Initialisation
  <1> HIDE DEF n
  <1> QED
    BY <1>1, <1>2

LEMMA ResolveFailsConn ==
  ASSUME Acp!TypeOK, ConnInv, NEW i \in Acp!Inits, Acp!ResolveFails(i)
  PROVE  ConnInv' /\ ConnType'
  <1>1. PICK n \in Acp!Initialisation :
           /\ Acp!InitFails(i, init) = [init EXCEPT ![i] = n]
           /\ Acp!InitFails(i, init) \in [Acp!Inits -> Acp!Initialisation]
           /\ Acp!InitFails(i, init)[i] = n
           /\ n.pc = "failed" /\ n.generation = init[i].generation
           /\ n.stream = init[i].stream /\ n.endpoint = init[i].endpoint
    BY InitFailsFacts DEF Acp!TypeOK
  <1>2. init[i].pc = "resolving"
    BY DEF Acp!ResolveFails
  <1>3. CASE promise = i
    <2>1. active = 0 /\ disposer = 0
      BY <1>2, <1>3, InitsFacts DEF ConnInv, PromiseInv
    <2>2. Acp!Advanced(Acp!InitFails(i, init))
      BY <1>3 DEF Acp!ResolveFails
    <2>3. \A j \in Acp!Inits : j # i => Acp!InitFails(i, init)[j] = init[j]
      BY <1>1 DEF Acp!TypeOK
    <2>4. ASSUME NEW j \in Acp!Inits
          PROVE  /\ init[j].pc \in {"idle", "resolving"} => init[j].stream = "none" /\ init[j].endpoint = "none"
                 /\ init[j].stream # "open"
                 /\ init[j].endpoint = "held" => init[j].stream = "closed"
      BY <2>1, InitsFacts DEF ConnInv, InitInv, Acp!TransportsOwned
    <2> QED
      BY <1>1, <2>2, <2>3, <2>4, AdvancedKeeps DEF ConnType
  <1>4. CASE promise # i
    <2>1. init' = [init EXCEPT ![i] = n] /\ UNCHANGED <<epoch, client, promise, active, disposer>>
      BY <1>1, <1>4 DEF Acp!ResolveFails
    <2>2. init[i].generation # epoch /\ n.endpoint # "held"
      BY <1>1, <1>2, <1>4 DEF ConnInv, InitInv
    <2> QED
      BY <1>1, <1>2, <2>1, <2>2, LateRow
  <1> QED
    BY <1>3, <1>4

\* A handshake that ends badly cleans up what its initialisation had.
LEMMA HandshakeRow ==
  ASSUME Acp!TypeOK, NEW i \in Acp!Inits
  PROVE  \E n \in Acp!Initialisation :
           /\ Acp!InitFails(i, Acp!Cleaned(init, i)) = [init EXCEPT ![i] = n]
           /\ Acp!InitFails(i, Acp!Cleaned(init, i)) \in [Acp!Inits -> Acp!Initialisation]
           /\ n.pc = "failed" /\ n.generation = init[i].generation
           /\ n.stream # "open" /\ n.endpoint # "held"
  <1> DEFINE o == Acp!Cleaned(init, i)
  <1>1. /\ o \in [Acp!Inits -> Acp!Initialisation]
        /\ \A j \in Acp!Inits : j # i => o[j] = init[j]
        /\ o[i].stream # "open" /\ o[i].endpoint # "held" /\ o[i].generation = init[i].generation
    BY CleanedFacts DEF Acp!TypeOK
  <1> HIDE DEF o
  <1>2. PICK n \in Acp!Initialisation :
           /\ Acp!InitFails(i, o) = [o EXCEPT ![i] = n]
           /\ Acp!InitFails(i, o) \in [Acp!Inits -> Acp!Initialisation]
           /\ n.pc = "failed" /\ n.generation = o[i].generation
           /\ n.stream = o[i].stream /\ n.endpoint = o[i].endpoint
    BY <1>1, InitFailsFacts
  <1>3. [o EXCEPT ![i] = n] = [init EXCEPT ![i] = n]
    BY <1>1 DEF Acp!TypeOK
  <1> QED
    BY <1>1, <1>2, <1>3 DEF o

LEMMA HandshakeAnsweredConn ==
  ASSUME Acp!TypeOK, ConnInv, NEW i \in Acp!Inits, Acp!HandshakeAnswered(i)
  PROVE  ConnInv' /\ ConnType'
  <1>1. /\ init[i].pc = "handshake" /\ init[i].stream = "open"
        /\ UNCHANGED <<epoch, client, promise, active, disposer>>
    BY DEF Acp!HandshakeAnswered
  <1>2. CASE Acp!InitCurrent(i)
    <2> DEFINE n == [init[i] EXCEPT !.pc = "initialized"]
    <2>1. /\ n \in Acp!Initialisation /\ n.pc = "initialized" /\ n.generation = init[i].generation
          /\ n.stream = init[i].stream /\ n.endpoint = init[i].endpoint
      BY DEF Acp!TypeOK, Acp!Initialisation
    <2>2. init' = [init EXCEPT ![i] = n]
      BY <1>2 DEF Acp!HandshakeAnswered, Acp!TypeOK, Acp!Initialisation
    <2> HIDE DEF n
    <2> QED
      BY <1>1, <2>1, <2>2, RowMoves
  <1>3. CASE ~Acp!InitCurrent(i)
    <2>1. PICK n \in Acp!Initialisation :
           /\ Acp!InitFails(i, Acp!Cleaned(init, i)) = [init EXCEPT ![i] = n]
           /\ n.pc = "failed" /\ n.generation = init[i].generation
           /\ n.stream # "open" /\ n.endpoint # "held"
      BY HandshakeRow
    <2>2. init' = [init EXCEPT ![i] = n] /\ init[i].generation # epoch
      BY <1>3, <2>1 DEF Acp!HandshakeAnswered, Acp!InitCurrent
    <2> QED
      BY <1>1, <2>1, <2>2, RowMoves
  <1> QED
    BY <1>2, <1>3

LEMMA HandshakeFailsConn ==
  ASSUME Acp!TypeOK, ConnInv, NEW i \in Acp!Inits, Acp!HandshakeFails(i)
  PROVE  ConnInv' /\ ConnType'
  <1>1. PICK n \in Acp!Initialisation :
           /\ Acp!InitFails(i, Acp!Cleaned(init, i)) = [init EXCEPT ![i] = n]
           /\ Acp!InitFails(i, Acp!Cleaned(init, i)) \in [Acp!Inits -> Acp!Initialisation]
           /\ n.pc = "failed" /\ n.generation = init[i].generation
           /\ n.stream # "open" /\ n.endpoint # "held"
    BY HandshakeRow
  <1>2. init[i].pc = "handshake"
    BY DEF Acp!HandshakeFails
  <1>3. CASE init[i].generation = epoch
    <2>1. Acp!Advanced(Acp!InitFails(i, Acp!Cleaned(init, i)))
      BY <1>3 DEF Acp!HandshakeFails
    <2>2. active \in {0, i} /\ disposer \in {0, i}
      BY <1>2, <1>3 DEF ConnInv, InitInv, PromiseInv
    <2>3. \A j \in Acp!Inits : j # i => Acp!InitFails(i, Acp!Cleaned(init, i))[j] = init[j]
      BY <1>1 DEF Acp!TypeOK
    <2>4. Acp!InitFails(i, Acp!Cleaned(init, i))[i] = n
      BY <1>1 DEF Acp!TypeOK
    <2>5. ASSUME NEW j \in Acp!Inits, j # i
          PROVE  /\ init[j].pc \in {"idle", "resolving"} => init[j].stream = "none" /\ init[j].endpoint = "none"
                 /\ init[j].stream # "open"
                 /\ init[j].endpoint = "held" => init[j].stream = "closed"
      BY <2>2, <2>5, InitsFacts DEF ConnInv, InitInv, Acp!TransportsOwned
    <2> QED
      BY <1>1, <2>1, <2>3, <2>4, <2>5, AdvancedKeeps DEF ConnType
  <1>4. CASE init[i].generation # epoch
    <2>1. init' = [init EXCEPT ![i] = n] /\ UNCHANGED <<epoch, client, promise, active, disposer>>
      BY <1>1, <1>4 DEF Acp!HandshakeFails
    <2> QED
      BY <1>1, <1>2, <1>4, <2>1, RowMoves
  <1> QED
    BY <1>3, <1>4

LEMMA CachedConn ==
  ASSUME Acp!TypeOK, ConnInv, NEW i \in Acp!Inits, Acp!Cached(i)
  PROVE  ConnInv' /\ ConnType'
  <1>1. init[i].pc = "initialized" /\ UNCHANGED <<epoch, promise, active, disposer>>
    BY DEF Acp!Cached
  <1>2. CASE Acp!InitCurrent(i)
    <2> DEFINE n == [init[i] EXCEPT !.pc = "ready"]
    <2>1. /\ n \in Acp!Initialisation /\ n.pc = "ready" /\ n.generation = init[i].generation
          /\ n.stream = init[i].stream /\ n.endpoint = init[i].endpoint
      BY DEF Acp!TypeOK, Acp!Initialisation
    <2>2. init' = [init EXCEPT ![i] = n] /\ client' = i /\ init[i].generation = epoch
      BY <1>2 DEF Acp!Cached, Acp!InitCurrent, Acp!TypeOK, Acp!Initialisation
    <2> HIDE DEF n
    <2>3. /\ init'[i] = n /\ \A j \in Acp!Inits : j # i => init'[j] = init[j]
          /\ init' \in [Acp!Inits -> Acp!Initialisation]
      BY <2>1, <2>2 DEF Acp!TypeOK
    <2>4. promise = i /\ active = i /\ disposer = i
      BY <1>1, <2>2, InitsFacts DEF ConnInv, InitInv, PromiseInv
    <2>5. InitInv'
      BY <1>1, <2>1, <2>3, <2>4 DEF ConnInv, InitInv
    <2>6. PromiseInv'
      BY <1>1, <2>1, <2>2, <2>3, <2>4, InitsFacts DEF PromiseInv
    <2>7. Acp!TransportsOwned'
      BY <1>1, <2>1, <2>2, <2>3, <2>4 DEF ConnInv, Acp!TransportsOwned
    <2> QED
      BY <1>1, <2>2, <2>3, <2>5, <2>6, <2>7 DEF ConnInv, ConnType, Acp!TypeOK
  <1>3. CASE ~Acp!InitCurrent(i)
    <2>1. PICK n \in Acp!Initialisation :
           /\ Acp!InitFails(i, init) = [init EXCEPT ![i] = n]
           /\ n.pc = "failed" /\ n.generation = init[i].generation
           /\ n.stream = init[i].stream /\ n.endpoint = init[i].endpoint
      BY InitFailsFacts DEF Acp!TypeOK
    <2>2. init' = [init EXCEPT ![i] = n] /\ init[i].generation # epoch /\ client' = client
      BY <1>3, <2>1 DEF Acp!Cached, Acp!InitCurrent
    <2> QED
      BY <1>1, <2>1, <2>2, RowMoves
  <1> QED
    BY <1>2, <1>3

LEMMA PeerClosesConn ==
  ASSUME Acp!TypeOK, ConnInv, NEW i \in Acp!Inits, Acp!PeerCloses(i)
  PROVE  ConnInv' /\ ConnType'
  <1> DEFINE n == [init[i] EXCEPT !.stream = "closed"]
  <1>1. /\ n \in Acp!Initialisation /\ n.pc = init[i].pc /\ n.generation = init[i].generation
        /\ n.stream = "closed" /\ n.endpoint = init[i].endpoint
    BY DEF Acp!TypeOK, Acp!Initialisation
  <1>2. init' = [init EXCEPT ![i] = n] /\ UNCHANGED <<epoch, client, promise, active, disposer>>
    BY DEF Acp!PeerCloses, Acp!TypeOK, Acp!Initialisation
  <1>3. init[i].pc \notin {"idle", "resolving"}
    BY DEF Acp!PeerCloses, ConnInv, InitInv
  <1> HIDE DEF n
  <1> QED
    BY <1>1, <1>2, <1>3, RowMoves

LEMMA ClosedNoticedConn ==
  ASSUME Acp!TypeOK, ConnInv, NEW i \in Acp!Inits, Acp!ClosedNoticed(i)
  PROVE  ConnInv' /\ ConnType'
  <1>1. active = i /\ disposer = i /\ init[i].stream = "closed" /\ Acp!Advanced(init)
    BY DEF Acp!ClosedNoticed, ConnInv, PromiseInv
  <1>2. ASSUME NEW j \in Acp!Inits
        PROVE  /\ init[j].pc \in {"idle", "resolving"} => init[j].stream = "none" /\ init[j].endpoint = "none"
               /\ init[j].stream # "open"
               /\ init[j].endpoint = "held" => init[j].stream = "closed"
    BY <1>1 DEF ConnInv, InitInv, Acp!TransportsOwned
  <1>3. init \in [Acp!Inits -> Acp!Initialisation]
    BY DEF Acp!TypeOK
  <1> QED
    BY <1>1, <1>2, <1>3, AdvancedKeeps DEF ConnType

\* The first call of a generation makes the initialisation the others wait for.
LEMMA StartsConn ==
  ASSUME Acp!TypeOK, ConnInv, promise = 0, NEW i \in Acp!Inits, init[i].pc = "idle",
         init' = [init EXCEPT ![i].pc = "resolving", ![i].generation = epoch],
         promise' = i, UNCHANGED <<epoch, client, active, disposer>>
  PROVE  ConnInv' /\ ConnType'
  <1> DEFINE n == [init[i] EXCEPT !.pc = "resolving", !.generation = epoch]
  <1>1. /\ n \in Acp!Initialisation /\ n.pc = "resolving" /\ n.generation = epoch
        /\ n.stream = init[i].stream /\ n.endpoint = init[i].endpoint
    BY DEF Acp!TypeOK, Acp!Initialisation
  <1>2. init' = [init EXCEPT ![i] = n]
    BY DEF Acp!TypeOK, Acp!Initialisation
  <1> HIDE DEF n
  <1>3. /\ init'[i] = n /\ \A j \in Acp!Inits : j # i => init'[j] = init[j]
        /\ init' \in [Acp!Inits -> Acp!Initialisation]
    BY <1>1, <1>2 DEF Acp!TypeOK
  <1>4. active = 0 /\ disposer = 0 /\ client = 0 /\ epoch \in Nat
    BY DEF ConnInv, PromiseInv, Acp!TypeOK
  <1>5. InitInv'
    BY <1>1, <1>3, <1>4, InitsFacts DEF ConnInv, InitInv
  <1>6. PromiseInv'
    BY <1>1, <1>3, <1>4, InitsFacts DEF PromiseInv
  <1>7. Acp!TransportsOwned'
    BY <1>1, <1>3, <1>4 DEF ConnInv, Acp!TransportsOwned
  <1> QED
    BY <1>3, <1>4, <1>5, <1>6, <1>7 DEF ConnInv, ConnType, Acp!TypeOK
----------------------------------------------------------------------------
(* The calls *)

LEMMA CallFacts ==
  ASSUME Acp!TypeOK, NEW q \in Calls
  PROVE  /\ call[q] \in Acp!Call /\ call[q].session \in Sessions /\ call[q].want \in Preparations
         /\ call[q].model \in Models /\ wire[q] \in Acp!Wire
         /\ mutations[call[q].session] \in Seq(Calls)
         /\ prepared[call[q].session] \in Acp!Entry /\ goose[call[q].session] \in Acp!Entry
  BY DEF Acp!TypeOK, Acp!Call

\* What a call sends next depends on what it is, on its stage and on its session's entry.
LEMMA NextStepKeeps ==
  ASSUME Acp!TypeOK, NEW q \in Calls, NEW stage, NEW e,
         call'[q].kind = call[q].kind, call'[q].want = call[q].want, call'[q].model = call[q].model,
         call'[q].stage = stage, prepared'[call'[q].session] = e
  PROVE  Upcoming(q)' = Acp!NextStep(q, stage, e)
  <1>1. call[q].kind \in Acp!Kinds
    BY CallFacts DEF Acp!Call, Acp!Kinds
  <1>2. CASE call[q].kind = "load"
    BY <1>2 DEF Upcoming, Acp!NextStep
  <1>3. CASE call[q].kind = "model"
    BY <1>3 DEF Upcoming, Acp!NextStep, Acp!ModelStep
  <1>4. CASE call[q].kind = "prompt"
    BY <1>4 DEF Upcoming, Acp!NextStep
  <1>5. CASE call[q].kind \in {"prepare", "configure"}
    <2>1. Upcoming(q)' = Acp!Prepares(q, stage, e)' /\ Acp!NextStep(q, stage, e) = Acp!Prepares(q, stage, e)
      BY <1>5 DEF Upcoming, Acp!NextStep
    <2>2. Acp!After(q, e)' = Acp!After(q, e)
      BY DEF Acp!After, Acp!ModelStep
    <2> QED
      BY <2>1, <2>2 DEF Acp!Prepares
  <1> QED
    BY <1>1, <1>2, <1>3, <1>4, <1>5 DEF Acp!Kinds

LEMMA QueueFacts ==
  ASSUME NEW S, NEW s \in Seq(S), NEW e \in S
  PROVE  /\ Append(s, e) \in Seq(S) /\ Append(s, e) # <<>>
         /\ Range(Append(s, e)) = Range(s) \cup {e}
         /\ s # <<>> => /\ Head(Append(s, e)) = Head(s)
                        /\ Tail(s) \in Seq(S)
                        /\ \A i \in Range(s) : i = Head(s) \/ i \in Range(Tail(s))
         /\ \A i \in Range(s) : i \in S /\ s # <<>>
  <1>1. /\ Append(s, e) \in Seq(S) /\ Append(s, e) # <<>>
        /\ Len(Append(s, e)) = Len(s) + 1 /\ Len(s) \in Nat
        /\ DOMAIN s = 1 .. Len(s) /\ DOMAIN Append(s, e) = 1 .. Len(s) + 1
        /\ \A i \in 1 .. Len(s) : Append(s, e)[i] = s[i]
        /\ Append(s, e)[Len(s) + 1] = e
    OBVIOUS
  <1>2. Range(Append(s, e)) = Range(s) \cup {e}
    <2>1. ASSUME NEW x \in Range(Append(s, e)) PROVE x \in Range(s) \cup {e}
      BY <1>1 DEF Range
    <2>2. ASSUME NEW x \in Range(s) PROVE x \in Range(Append(s, e))
      <3>1. PICK i \in 1 .. Len(s) : s[i] = x
        BY <1>1 DEF Range
      <3>2. Append(s, e)[i] = x /\ i \in DOMAIN Append(s, e)
        BY <1>1, <3>1
      <3> QED
        BY <3>2 DEF Range
    <2>3. e \in Range(Append(s, e))
      <3>1. Len(s) + 1 \in DOMAIN Append(s, e)
        BY <1>1
      <3> QED
        BY <1>1, <3>1 DEF Range
    <2> QED
      BY <2>1, <2>2, <2>3
  <1>3. ASSUME s # <<>>
        PROVE  /\ Head(Append(s, e)) = Head(s) /\ Tail(s) \in Seq(S)
               /\ Head(s) = s[1] /\ DOMAIN Tail(s) = 1 .. Len(s) - 1
               /\ \A i \in 1 .. Len(s) - 1 : Tail(s)[i] = s[i + 1]
    BY <1>3
  <1>4. ASSUME s # <<>>, NEW x \in Range(s), x # Head(s) PROVE x \in Range(Tail(s))
    <2>1. PICK i \in 1 .. Len(s) : s[i] = x
      BY <1>1 DEF Range
    <2>2. i - 1 \in DOMAIN Tail(s) /\ Tail(s)[i - 1] = x
      BY <1>1, <1>3, <1>4, <2>1
    <2> QED
      BY <2>2 DEF Range
  <1>5. \A i \in Range(s) : i \in S /\ s # <<>>
    BY <1>1 DEF Range
  <1> QED
    BY <1>1, <1>2, <1>3, <1>4, <1>5

\* One call of a session runs at a time.
LEMMA RunsAlone ==
  ASSUME SerialInv, NEW q \in Calls, NEW r \in Calls, call[q].session = call[r].session,
         \/ Runs(q)
         \/ call[q].pc = "queued" /\ Acp!Foremost(q),
         Runs(r)
  PROVE  q = r
  BY DEF SerialInv, Acp!Foremost

\* The call that ends is the one its session's queue waits for.
LEMMA EndedSerial ==
  ASSUME Acp!TypeOK, SerialInv, NEW q \in Calls, Runs(q) \/ (call[q].pc = "queued" /\ Acp!Foremost(q)),
         Acp!Ended(q)
  PROVE  /\ SerialInv'
         /\ mutations' \in [Sessions -> Seq(Calls)] /\ call' \in [Calls -> Acp!Call]
         /\ call'[q].pc = "done" /\ call'[q].session = call[q].session
         /\ \A r \in Calls : r # q => call'[r] = call[r]
  <1> DEFINE n == [call[q] EXCEPT !.pc = "done"]
             s == call[q].session
  <1>1. n \in Acp!Call /\ n.pc = "done" /\ n.session = call[q].session
    BY CallFacts DEF Acp!Call
  <1>2. call' = [call EXCEPT ![q] = n] /\ mutations' = [mutations EXCEPT ![s] = Tail(mutations[s])]
    BY DEF Acp!Ended, Acp!Dequeued, Acp!TypeOK, Acp!Call
  <1>3. s \in Sessions /\ mutations[s] \in Seq(Calls)
    BY CallFacts
  <1>4. mutations[s] # <<>> /\ Head(mutations[s]) = q
    <2>1. q \in Range(mutations[s]) \/ mutations[s] # <<>>
      BY DEF SerialInv
    <2> QED
      BY <1>3, <2>1, QueueFacts DEF SerialInv, Acp!Foremost
  <1>5. s = call[q].session
    OBVIOUS
  <1> HIDE DEF n, s
  <1>6. call'[q] = n /\ (\A r \in Calls : r # q => call'[r] = call[r]) /\ call' \in [Calls -> Acp!Call]
    BY <1>1, <1>2 DEF Acp!TypeOK
  <1>7. /\ mutations'[s] = Tail(mutations[s]) /\ \A i \in Sessions : i # s => mutations'[i] = mutations[i]
        /\ mutations' \in [Sessions -> Seq(Calls)]
    BY <1>2, <1>3, <1>4, QueueFacts DEF Acp!TypeOK
  <1>8. ASSUME NEW r \in Calls
        PROVE  /\ call'[r].pc = "queued" => r \in Range(mutations'[call'[r].session])
               /\ Runs(r)' => /\ mutations'[call'[r].session] # <<>>
                              /\ Head(mutations'[call'[r].session]) = r
    <2>1. CASE r = q
      BY <1>1, <1>6, <2>1 DEF Runs
    <2>2. CASE r # q /\ call[r].session # s
      BY <1>6, <1>7, <2>2, CallFacts DEF SerialInv, Runs
    <2>3. CASE r # q /\ call[r].session = s
      <3>1. ~Runs(r)
        BY <1>5, <2>3, RunsAlone
      <3>2. call[r].pc = "queued" => r \in Range(Tail(mutations[s]))
        BY <1>3, <1>4, <2>3, QueueFacts DEF SerialInv
      <3> QED
        BY <1>6, <1>7, <2>3, <3>1, <3>2 DEF Runs
    <2> QED
      BY <2>1, <2>2, <2>3
  <1>9. SerialInv'
    BY <1>8 DEF SerialInv
  <1> QED
    BY <1>1, <1>5, <1>6, <1>7, <1>9

\* A call whose turn it is, or that runs, goes on: its place in the queue stays.
LEMMA StaysSerial ==
  ASSUME Acp!TypeOK, SerialInv, NEW q \in Calls, Runs(q) \/ (call[q].pc = "queued" /\ Acp!Foremost(q)),
         NEW n \in Acp!Call, call' = [call EXCEPT ![q] = n], n.session = call[q].session,
         n.pc \in {"connecting", "sent"}, mutations' = mutations
  PROVE  SerialInv' /\ call' \in [Calls -> Acp!Call]
  <1>1. call'[q] = n /\ (\A r \in Calls : r # q => call'[r] = call[r]) /\ call' \in [Calls -> Acp!Call]
    BY DEF Acp!TypeOK
  <1>2. mutations[n.session] # <<>> /\ Head(mutations[n.session]) = q
    <2>1. mutations[n.session] \in Seq(Calls)
      BY CallFacts
    <2> QED
      BY <2>1, QueueFacts DEF SerialInv, Acp!Foremost
  <1>3. ASSUME NEW r \in Calls
        PROVE  /\ call'[r].pc = "queued" => r \in Range(mutations'[call'[r].session])
               /\ Runs(r)' => /\ mutations'[call'[r].session] # <<>>
                              /\ Head(mutations'[call'[r].session]) = r
    <2>1. CASE r = q
      BY <1>1, <1>2, <2>1 DEF Runs
    <2>2. CASE r # q
      BY <1>1, <2>2 DEF SerialInv, Runs
    <2> QED
      BY <2>1, <2>2
  <1> QED
    BY <1>1, <1>3 DEF SerialInv

\* What a step of one call does not touch keeps the other calls' part of the invariant.
LEMMA OthersKeep ==
  ASSUME Acp!TypeOK, CallInv, NEW q \in Calls, NEW s \in Sessions,
         \A r \in Calls : r # q => call'[r] = call[r] /\ wire'[r] = wire[r],
         \A i \in Sessions : i # s => prepared'[i] = prepared[i] /\ goose'[i] = goose[i],
         overtaken \subseteq overtaken',
         Runs(q) => call[q].session = s, Runs(q)' => call'[q].session = s,
         \/ prepared'[s] = prepared[s] /\ goose'[s] = goose[s]
         \/ prepared'[s] = prepared[s] /\ s \in overtaken'
         \/ \A r \in Calls : r # q => ~(Runs(r) /\ call[r].session = s),
         WireOf(q)', TruthOf(q)', TruthAt(s)'
  PROVE  WireInv' /\ TruthInv'
  <1>1. ASSUME NEW i \in Sessions, i # s PROVE TruthAt(i)'
    <2>1. \A r \in Calls : (call'[r].session = i /\ Runs(r)') <=> (call[r].session = i /\ Runs(r))
      BY <1>1 DEF Runs
    <2>2. \A r \in Calls : call[r].session = i /\ Runs(r) => wire'[r] = wire[r]
      BY <1>1
    <2> QED
      BY <1>1, <2>1, <2>2 DEF CallInv, TruthInv, TruthAt, Agrees
  <1>2. ASSUME NEW r \in Calls, r # q,
               prepared'[call[r].session] = prepared[call[r].session]
        PROVE  WireOf(r)'
    <2>1. Upcoming(r)' = Upcoming(r)
      BY <1>2, NextStepKeeps DEF Upcoming
    <2> QED
      BY <1>2, <2>1 DEF CallInv, WireInv, WireOf, Runs
  <1>3. ASSUME NEW r \in Calls, r # q,
               prepared'[call[r].session] = prepared[call[r].session],
               goose'[call[r].session] = goose[call[r].session]
        PROVE  TruthOf(r)'
    <2>1. Acp!Learnt(r, prepared[call[r].session])' = Acp!Learnt(r, prepared[call[r].session])
      BY <1>3 DEF Acp!Learnt, Acp!Unselected
    <2> QED
      BY <1>3, <2>1 DEF CallInv, TruthInv, TruthOf, Runs, Agrees
  <1>4. ASSUME NEW r \in Calls, r # q PROVE WireOf(r)' /\ TruthOf(r)'
    <2>1. CASE call[r].session # s
      BY <1>2, <1>3, <1>4, <2>1, CallFacts
    <2>2. CASE call[r].session = s /\ prepared'[s] = prepared[s] /\ goose'[s] = goose[s]
      BY <1>2, <1>3, <1>4, <2>2
    <2>3. CASE call[r].session = s /\ prepared'[s] = prepared[s] /\ s \in overtaken'
      <3>1. TruthOf(r)'
        BY <1>4, <2>3 DEF TruthOf
      <3> QED
        BY <1>2, <1>4, <2>3, <3>1
    <2>4. CASE call[r].session = s /\ ~Runs(r)
      <3>1. ~Runs(r)' /\ call'[r].pc # "sent" /\ call'[r] = call[r] /\ wire'[r] = wire[r]
        BY <1>4, <2>4 DEF Runs
      <3> QED
        BY <1>4, <3>1 DEF CallInv, WireInv, WireOf, TruthOf
    <2> QED
      BY <1>4, <2>1, <2>2, <2>3, <2>4
  <1> QED
    BY <1>1, <1>4 DEF WireInv, TruthInv

\* Without a step of the connection its invariant and its types stay.
LEMMA ConnStutters ==
  ASSUME Acp!TypeOK, ConnInv, UNCHANGED Acp!connection
  PROVE  ConnInv' /\ ConnType'
  BY DEF Acp!TypeOK, ConnInv, InitInv, PromiseInv, Acp!TransportsOwned, ConnType, Acp!connection

\* A call that goes on ends, or asks for the client that there is or that it makes.
LEMMA GoesFacts ==
  ASSUME Acp!TypeOK, ConnInv, SerialInv, NEW q \in Calls,
         Runs(q) \/ (call[q].pc = "queued" /\ Acp!Foremost(q)),
         NEW stage \in {"start", "loaded", "prepared"}, NEW e, NEW generation \in Nat,
         Acp!Goes(q, stage, e, generation)
  PROVE  /\ ConnInv' /\ ConnType' /\ SerialInv'
         /\ mutations' \in [Sessions -> Seq(Calls)] /\ call' \in [Calls -> Acp!Call]
         /\ \A r \in Calls : r # q => call'[r] = call[r]
         /\ call'[q].session = call[q].session
         /\ \/ call'[q].pc = "done"
            \/ /\ call'[q].pc = "connecting" /\ call'[q].stage = stage /\ call'[q].kind = call[q].kind
               /\ call'[q].want = call[q].want /\ call'[q].model = call[q].model
               /\ Acp!NextStep(q, stage, e) \notin {"done", "refused"}
  <1>1. CASE Acp!NextStep(q, stage, e) \in {"done", "refused"}
    <2>1. Acp!Ended(q) /\ UNCHANGED Acp!connection
      BY <1>1 DEF Acp!Goes
    <2> QED
      BY <2>1, EndedSerial, ConnStutters
  <1>2. ASSUME NEW i \in Acp!Inits, Acp!NextStep(q, stage, e) \notin {"done", "refused"},
               call' = [call EXCEPT ![q] = [[call[q] EXCEPT !.pc = "connecting", !.stage = stage,
                                                            !.generation = generation] EXCEPT !.on = i]],
               mutations' = mutations, ConnInv' /\ ConnType'
        PROVE  /\ ConnInv' /\ ConnType' /\ SerialInv'
               /\ mutations' \in [Sessions -> Seq(Calls)] /\ call' \in [Calls -> Acp!Call]
               /\ \A r \in Calls : r # q => call'[r] = call[r]
               /\ call'[q].session = call[q].session
               /\ call'[q].pc = "connecting" /\ call'[q].stage = stage /\ call'[q].kind = call[q].kind
               /\ call'[q].want = call[q].want /\ call'[q].model = call[q].model
               /\ Acp!NextStep(q, stage, e) \notin {"done", "refused"}
    <2> DEFINE n == [[call[q] EXCEPT !.pc = "connecting", !.stage = stage, !.generation = generation]
                       EXCEPT !.on = i]
    <2>1. /\ n \in Acp!Call /\ n.pc = "connecting" /\ n.stage = stage /\ n.kind = call[q].kind
          /\ n.want = call[q].want /\ n.model = call[q].model /\ n.session = call[q].session
      BY CallFacts DEF Acp!Call
    <2>2. call' = [call EXCEPT ![q] = n]
      BY <1>2
    <2> HIDE DEF n
    <2>3. SerialInv' /\ call' \in [Calls -> Acp!Call]
      BY <1>2, <2>1, <2>2, StaysSerial
    <2>4. call'[q] = n /\ \A r \in Calls : r # q => call'[r] = call[r]
      BY <2>2 DEF Acp!TypeOK
    <2> QED
      BY <1>2, <2>1, <2>3, <2>4 DEF Acp!TypeOK
  <1>3. CASE Acp!NextStep(q, stage, e) \notin {"done", "refused"} /\ promise # 0
    <2>1. promise \in Acp!Inits
      BY <1>3 DEF Acp!TypeOK
    <2>2. UNCHANGED Acp!connection /\ mutations' = mutations
      BY <1>3 DEF Acp!Goes
    <2>3. ConnInv' /\ ConnType'
      BY <2>2, ConnStutters
    <2>4. call' = [call EXCEPT ![q] = [[call[q] EXCEPT !.pc = "connecting", !.stage = stage,
                                                       !.generation = generation] EXCEPT !.on = promise]]
      BY <1>3 DEF Acp!Goes
    <2> QED
      BY <1>2, <1>3, <2>1, <2>2, <2>3, <2>4
  <1>4. CASE Acp!NextStep(q, stage, e) \notin {"done", "refused"} /\ promise = 0
    <2>1. PICK i \in Acp!Inits :
            /\ init[i].pc = "idle"
            /\ init' = [init EXCEPT ![i].pc = "resolving", ![i].generation = epoch]
            /\ promise' = i
            /\ call' = [call EXCEPT ![q] = [[call[q] EXCEPT !.pc = "connecting", !.stage = stage,
                                                            !.generation = generation] EXCEPT !.on = i]]
            /\ UNCHANGED <<epoch, client, active, disposer, mutations>>
      BY <1>4 DEF Acp!Goes
    <2>2. ConnInv' /\ ConnType'
      BY <1>4, <2>1, StartsConn
    <2> QED
      BY <1>2, <1>4, <2>1, <2>2
  <1> QED
    BY <1>1, <1>3, <1>4

\* The connection and its calls together.
Inv == Acp!TypeOK /\ ConnInv /\ CallInv

\* What a step of one call has to show.
Frame(q, s) ==
  /\ \A r \in Calls : r # q => call'[r] = call[r] /\ wire'[r] = wire[r]
  /\ \A i \in Sessions : i # s => prepared'[i] = prepared[i] /\ goose'[i] = goose[i]
  /\ overtaken \subseteq overtaken'
  /\ Runs(q) => call[q].session = s
  /\ Runs(q)' => call'[q].session = s
  /\ \/ prepared'[s] = prepared[s] /\ goose'[s] = goose[s]
     \/ prepared'[s] = prepared[s] /\ s \in overtaken'
     \/ \A r \in Calls : r # q => ~(Runs(r) /\ call[r].session = s)
CallTypes ==
  /\ mutations \in [Sessions -> Seq(Calls)] /\ call \in [Calls -> Acp!Call]
  /\ wire \in [Calls -> Acp!Wire] /\ prepared \in [Sessions -> Acp!Entry]
  /\ goose \in [Sessions -> Acp!Entry] /\ overtaken \subseteq Sessions

LEMMA CallMoves ==
  ASSUME Inv, NEW q \in Calls, NEW s \in Sessions, Frame(q, s),
         ConnInv', ConnType', CallTypes', SerialInv', WireOf(q)', TruthOf(q)', TruthAt(s)'
  PROVE  Inv'
  <1>1. Acp!TypeOK'
    BY DEF Acp!TypeOK, ConnType, CallTypes
  <1>2. WireInv' /\ TruthInv'
    BY OthersKeep DEF Inv, Frame
  <1> QED
    BY <1>1, <1>2 DEF Inv, CallInv

\* Where nothing changes but which calls run, and no answer is lost by that, the two agree.
LEMMA TruthKeeps ==
  ASSUME Inv, NEW s \in Sessions, prepared'[s] = prepared[s], goose'[s] = goose[s],
         overtaken \subseteq overtaken',
         \A r \in Calls : call[r].session = s /\ Runs(r) =>
           \/ wire[r].phase # "served"
           \/ call'[r].session = s /\ Runs(r)' /\ wire'[r].phase = "served"
  PROVE  TruthAt(s)'
  <1>1. TruthAt(s)
    BY DEF Inv, CallInv, TruthInv
  <1>2. Agrees(prepared[s], goose[s])' <=> Agrees(prepared[s], goose[s])
    BY DEF Agrees
  <1>3. prepared'[s].selected => prepared'[s].known
    BY <1>1 DEF TruthAt
  <1>4. ASSUME s \notin overtaken',
               \A r \in Calls : call'[r].session = s /\ Runs(r)' => wire'[r].phase # "served"
        PROVE  \A r \in Calls : call[r].session = s /\ Runs(r) => wire[r].phase # "served"
    BY <1>4
  <1> QED
    BY <1>1, <1>2, <1>3, <1>4 DEF TruthAt

LEMMA RequestKeeps ==
  ASSUME Inv, NEW q \in Calls, NEW s \in Sessions, NEW kind \in Acp!Kinds, NEW want \in Preparations,
         NEW model \in Models, Acp!Request(q, s, kind, want, model)
  PROVE  Inv'
  <1> USE DEF Inv
  <1> DEFINE n == [call[q] EXCEPT !.pc = "queued", !.session = s, !.kind = kind, !.want = want, !.model = model]
  <1>1. n \in Acp!Call /\ n.pc = "queued" /\ n.session = s
    BY CallFacts DEF Acp!Call, Acp!Kinds
  <1>2. call' = [call EXCEPT ![q] = n] /\ call[q].pc = "idle"
    BY DEF Acp!Request, Acp!TypeOK, Acp!Call
  <1> HIDE DEF n
  <1>3. call'[q] = n /\ (\A r \in Calls : r # q => call'[r] = call[r]) /\ call' \in [Calls -> Acp!Call]
    BY <1>1, <1>2 DEF Acp!TypeOK
  <1>4. /\ mutations' = [mutations EXCEPT ![s] = Append(mutations[s], q)]
        /\ UNCHANGED <<Acp!connection, prepared, wire, goose, overtaken>>
    BY DEF Acp!Request
  <1>5. /\ mutations'[s] = Append(mutations[s], q) /\ \A i \in Sessions : i # s => mutations'[i] = mutations[i]
        /\ mutations[s] \in Seq(Calls) /\ mutations' \in [Sessions -> Seq(Calls)]
    BY <1>4, QueueFacts DEF Acp!TypeOK
  <1>0. /\ mutations'[s] # <<>> /\ Range(mutations'[s]) = Range(mutations[s]) \cup {q}
        /\ mutations[s] # <<>> => Head(mutations'[s]) = Head(mutations[s])
    BY <1>5, QueueFacts
  <1>6. ASSUME NEW r \in Calls
        PROVE  /\ call'[r].pc = "queued" => r \in Range(mutations'[call'[r].session])
               /\ Runs(r)' => /\ mutations'[call'[r].session] # <<>>
                              /\ Head(mutations'[call'[r].session]) = r
    <2>1. CASE r = q
      BY <1>0, <1>1, <1>3, <2>1 DEF Runs
    <2>2. CASE r # q /\ call[r].session # s
      BY <1>3, <1>5, <2>2, CallFacts DEF CallInv, SerialInv, Runs
    <2>3. CASE r # q /\ call[r].session = s
      BY <1>0, <1>3, <2>3 DEF CallInv, SerialInv, Runs
    <2> QED
      BY <2>1, <2>2, <2>3
  <1>7. SerialInv'
    BY <1>6 DEF SerialInv
  <1>8. ~Runs(q) /\ ~Runs(q)' /\ call'[q].pc # "sent" /\ wire[q].phase = "none"
    BY <1>1, <1>2, <1>3 DEF Runs, CallInv, WireInv, WireOf
  <1>9. WireOf(q)' /\ TruthOf(q)'
    BY <1>4, <1>8 DEF WireOf, TruthOf
  <1>10. TruthAt(s)'
    <2>1. \A r \in Calls : call[r].session = s /\ Runs(r) =>
            call'[r].session = s /\ Runs(r)' /\ wire'[r] = wire[r]
      BY <1>3, <1>4, <1>8 DEF Runs
    <2> HIDE DEF Inv
    <2> QED
      BY <1>4, <2>1, TruthKeeps
  <1>11. ConnInv' /\ ConnType'
    BY <1>4, ConnStutters
  <1>12. CallTypes'
    BY <1>3, <1>4, <1>5 DEF CallTypes, Acp!TypeOK
  <1>13. Frame(q, s)
    BY <1>3, <1>4, <1>8 DEF Frame
  <1> HIDE DEF Inv
  <1> QED
    BY <1>7, <1>9, <1>10, <1>11, <1>12, <1>13, CallMoves

LEMMA BeginKeeps ==
  ASSUME Inv, NEW q \in Calls, Acp!Begin(q)
  PROVE  Inv'
  <1>0. PICK s \in Sessions : s = call[q].session
    BY CallFacts DEF Inv
  <1> USE <1>0
  <1>1. /\ call[q].pc = "queued" /\ Acp!Foremost(q)
        /\ Acp!Goes(q, "start", prepared[s], epoch)
        /\ UNCHANGED <<prepared, wire, goose, overtaken>>
    BY DEF Acp!Begin
  <1>2. epoch \in Nat
    BY DEF Inv, Acp!TypeOK
  <1>3. /\ ConnInv' /\ ConnType' /\ SerialInv'
        /\ mutations' \in [Sessions -> Seq(Calls)] /\ call' \in [Calls -> Acp!Call]
        /\ \A r \in Calls : r # q => call'[r] = call[r]
        /\ call'[q].session = s
        /\ \/ call'[q].pc = "done"
           \/ /\ call'[q].pc = "connecting" /\ call'[q].stage = "start" /\ call'[q].kind = call[q].kind
              /\ call'[q].want = call[q].want /\ call'[q].model = call[q].model
              /\ Acp!NextStep(q, "start", prepared[s]) \notin {"done", "refused"}
    BY <1>1, <1>2, GoesFacts DEF Inv, CallInv
  <1>4. s \in Sessions /\ ~Runs(q) /\ wire[q].phase = "none"
    BY <1>1, CallFacts DEF Inv, Runs, CallInv, WireInv, WireOf
  <1>5. \A r \in Calls : ~(Runs(r) /\ call[r].session = s)
    BY <1>1, <1>4, RunsAlone DEF Inv, CallInv
  <1>7. WireOf(q)'
    <2>1. CASE call'[q].pc = "done"
      BY <2>1 DEF WireOf, Runs
    <2>2. CASE call'[q].pc = "connecting"
      <3>1. Upcoming(q)' = Acp!NextStep(q, "start", prepared[s])
        BY <1>1, <1>3, <2>2, NextStepKeeps DEF Inv
      <3> QED
        BY <1>1, <1>3, <1>4, <2>2, <3>1 DEF WireOf
    <2> QED
      BY <1>3, <2>1, <2>2
  <1>8. TruthOf(q)'
    BY <1>1, <1>3, <1>4 DEF TruthOf, Runs
  <1>9. TruthAt(s)'
    BY <1>1, <1>4, <1>5, TruthKeeps
  <1>10. CallTypes'
    BY <1>1, <1>3 DEF CallTypes, Inv, Acp!TypeOK
  <1>11. Frame(q, s)
    BY <1>1, <1>3, <1>4 DEF Frame
  <1> QED
    BY <1>3, <1>4, <1>7, <1>8, <1>9, <1>10, <1>11, CallMoves

\* What a call may send: nothing else is a step of the wire.
LEMMA StepFacts ==
  ASSUME Acp!TypeOK, NEW q \in Calls, NEW stage, NEW e
  PROVE  Acp!NextStep(q, stage, e) \in {"done", "refused", "dir", "load", "provider", "model", "prompt"}
  BY CallFacts DEF Acp!Call, Acp!Kinds, Acp!NextStep, Acp!Prepares, Acp!After, Acp!ModelStep

LEMMA SendKeeps ==
  ASSUME Inv, NEW q \in Calls, Acp!Send(q)
  PROVE  Inv'
  <1>0. PICK s \in Sessions : s = call[q].session
    BY CallFacts DEF Inv
  <1> USE <1>0
  <1> DEFINE n == [call[q] EXCEPT !.pc = "sent"]
             w == [phase |-> "sent", step |-> Upcoming(q), ok |-> FALSE, model |-> call[q].model]
  <1>1. /\ call[q].pc = "connecting" /\ wire' = [wire EXCEPT ![q] = w]
        /\ UNCHANGED <<Acp!connection, mutations, prepared, goose, overtaken>>
    BY DEF Acp!Send, Upcoming
  <1>2. n \in Acp!Call /\ n.pc = "sent" /\ n.session = s /\ n.kind = call[q].kind /\ n.want = call[q].want
        /\ n.model = call[q].model /\ n.stage = call[q].stage
    BY CallFacts DEF Inv, Acp!Call
  <1>3. call' = [call EXCEPT ![q] = n]
    BY DEF Acp!Send, Inv, Acp!TypeOK, Acp!Call
  <1>4. s \in Sessions /\ Runs(q) /\ wire[q].phase = "none" /\ Upcoming(q) \notin {"done", "refused"}
    BY <1>1, CallFacts DEF Inv, Runs, CallInv, WireInv, WireOf
  <1>5. w \in Acp!Wire /\ w.phase = "sent" /\ w.step = Upcoming(q)
    BY <1>4, StepFacts, CallFacts DEF Inv, Upcoming, Acp!Wire, Acp!Acknowledged
  <1> HIDE DEF n, w
  <1>7. SerialInv' /\ call' \in [Calls -> Acp!Call]
    BY <1>1, <1>2, <1>3, <1>4, StaysSerial DEF Inv, CallInv
  <1>8. /\ call'[q] = n /\ wire'[q] = w /\ wire' \in [Calls -> Acp!Wire]
        /\ \A r \in Calls : r # q => call'[r] = call[r] /\ wire'[r] = wire[r]
    BY <1>1, <1>3, <1>5 DEF Inv, Acp!TypeOK
  <1>9. Upcoming(q)' = Upcoming(q)
    <2>1. /\ call'[q].kind = call[q].kind /\ call'[q].want = call[q].want /\ call'[q].stage = call[q].stage
          /\ call'[q].model = call[q].model /\ prepared'[call'[q].session] = prepared[call[q].session]
      BY <1>1, <1>2, <1>8
    <2> QED
      BY <2>1, NextStepKeeps DEF Inv, Upcoming
  <1>10. WireOf(q)'
    BY <1>2, <1>4, <1>5, <1>8, <1>9 DEF WireOf
  <1>11. TruthOf(q)'
    BY <1>1, <1>2, <1>4, <1>5, <1>8 DEF TruthOf, Inv, CallInv, TruthInv
  <1>12. TruthAt(s)'
    <2>1. \A r \in Calls : call[r].session = s /\ Runs(r) =>
            \/ wire[r].phase # "served"
            \/ call'[r].session = s /\ Runs(r)' /\ wire'[r].phase = "served"
      BY <1>4, <1>8 DEF Runs
    <2> QED
      BY <1>1, <1>4, <2>1, TruthKeeps
  <1>13. ConnInv' /\ ConnType'
    BY <1>1, ConnStutters DEF Inv
  <1>14. CallTypes'
    BY <1>1, <1>7, <1>8 DEF CallTypes, Inv, Acp!TypeOK
  <1>15. Frame(q, s)
    BY <1>1, <1>2, <1>8 DEF Frame
  <1> QED
    BY <1>4, <1>7, <1>10, <1>11, <1>12, <1>13, <1>14, <1>15, CallMoves

LEMMA ForgottenFacts ==
  ASSUME Acp!TypeOK, NEW q \in Calls
  PROVE  /\ Acp!Forgotten(q) \in [Sessions -> Acp!Entry]
         /\ ~Acp!Forgotten(q)[call[q].session].known /\ ~Acp!Forgotten(q)[call[q].session].selected
         /\ \A i \in Sessions : i # call[q].session => Acp!Forgotten(q)[i] = prepared[i]
  <1> DEFINE s == call[q].session
             n == [prepared[s] EXCEPT !.known = FALSE, !.selected = FALSE, !.model = "none"]
  <1>1. n \in Acp!Entry /\ n.known = FALSE /\ n.selected = FALSE
    BY CallFacts DEF Acp!Entry, Acp!Acknowledged
  <1>2. Acp!Forgotten(q) = [prepared EXCEPT ![s] = n]
    BY CallFacts DEF Acp!Forgotten, Acp!TypeOK, Acp!Entry
  <1>3. s = call[q].session /\ s \in Sessions
    BY CallFacts
  <1> HIDE DEF s, n
  <1> QED
    BY <1>1, <1>2, <1>3 DEF Acp!TypeOK

\* A call that ends no longer runs; the session it forgets, or that agrees without
\* it, agrees.
LEMMA EndedKeeps ==
  ASSUME Inv, NEW q \in Calls, Runs(q), Acp!Ended(q), ConnInv', ConnType', wire' = wire, goose' = goose,
         \/ prepared' = Acp!Forgotten(q)
         \/ /\ prepared' = prepared
            /\ call[q].session \notin overtaken' => Agrees(prepared[call[q].session], goose[call[q].session]),
         overtaken \subseteq overtaken', overtaken' \subseteq Sessions
  PROVE  Inv'
  <1>0. PICK s \in Sessions : s = call[q].session
    BY CallFacts DEF Inv
  <1> USE <1>0
  <1>1. /\ SerialInv'
        /\ mutations' \in [Sessions -> Seq(Calls)] /\ call' \in [Calls -> Acp!Call]
        /\ call'[q].pc = "done" /\ call'[q].session = s
        /\ \A r \in Calls : r # q => call'[r] = call[r]
    BY EndedSerial DEF Inv, CallInv
  <1>2. s \in Sessions /\ \A r \in Calls : r # q => ~(Runs(r) /\ call[r].session = s)
    BY RunsAlone, CallFacts DEF Inv, CallInv
  <1>3. /\ prepared' \in [Sessions -> Acp!Entry]
        /\ \A i \in Sessions : i # s => prepared'[i] = prepared[i]
        /\ (~prepared'[s].known /\ ~prepared'[s].selected) \/ prepared'[s] = prepared[s]
    BY ForgottenFacts DEF Inv, Acp!TypeOK
  <1>5. ~Runs(q)'
    BY <1>1 DEF Runs
  <1>6. WireOf(q)' /\ TruthOf(q)'
    BY <1>1, <1>5 DEF WireOf, TruthOf
  <1>7. TruthAt(s)'
    <2>1. CASE prepared' = Acp!Forgotten(q)
      <3>1. ~prepared'[s].known /\ ~prepared'[s].selected
        BY <2>1, ForgottenFacts DEF Inv
      <3> QED
        BY <3>1 DEF TruthAt, Agrees
    <2>2. CASE prepared' = prepared /\ (s \notin overtaken' => Agrees(prepared[s], goose[s]))
      <3>1. TruthAt(s)
        BY <1>2 DEF Inv, CallInv, TruthInv
      <3>2. Agrees(prepared[s], goose[s])' <=> Agrees(prepared[s], goose[s])
        BY <2>2 DEF Agrees
      <3> QED
        BY <2>2, <3>1, <3>2 DEF TruthAt
    <2> QED
      BY <2>1, <2>2
  <1>8. CallTypes'
    BY <1>1, <1>3 DEF CallTypes, Inv, Acp!TypeOK
  <1>9. Frame(q, s)
    BY <1>1, <1>2, <1>3 DEF Frame
  <1> QED
    BY <1>1, <1>2, <1>6, <1>7, <1>8, <1>9, CallMoves

LEMMA TimedOutKeeps ==
  ASSUME Inv, NEW q \in Calls, Acp!TimedOut(q)
  PROVE  Inv'
  <1>1. /\ Runs(q) /\ Acp!Ended(q) /\ prepared' = Acp!Forgotten(q)
        /\ UNCHANGED <<wire, goose, overtaken>>
    BY DEF Acp!TimedOut, Runs
  <1>2. ConnInv' /\ ConnType'
    <2>1. CASE call[q].generation = epoch
      BY <2>1, InvalidatedKeeps DEF Inv, Acp!TimedOut
    <2>2. CASE call[q].generation # epoch
      BY <2>2, ConnStutters DEF Inv, Acp!TimedOut
    <2> QED
      BY <2>1, <2>2
  <1>3. overtaken' \subseteq Sessions
    BY <1>1 DEF Inv, Acp!TypeOK
  <1> QED
    BY <1>1, <1>2, <1>3, EndedKeeps

\* A prompt sends nothing else, and its answer says nothing of the selection.
LEMMA PromptLearns ==
  ASSUME Inv, NEW q \in Calls, call[q].kind = "prompt", call[q].pc = "sent", NEW e
  PROVE  wire[q].step = "prompt" /\ Acp!Learnt(q, e) = e
  <1>1. wire[q].step = Upcoming(q) /\ Upcoming(q) \notin {"done", "refused"}
    BY DEF Inv, CallInv, WireInv, WireOf, Runs
  <1>2. Upcoming(q) \in {"prompt", "refused"}
    BY DEF Upcoming, Acp!NextStep
  <1>3. wire[q].step = "prompt"
    BY <1>1, <1>2
  <1> QED
    BY <1>3 DEF Acp!Learnt

LEMMA LostKeeps ==
  ASSUME Inv, NEW q \in Calls, Acp!Lost(q)
  PROVE  Inv'
  <1>0. PICK s \in Sessions : s = call[q].session
    BY CallFacts DEF Inv
  <1> USE <1>0
  <1>1. Runs(q) /\ Acp!Ended(q) /\ UNCHANGED <<Acp!connection, wire, goose>>
    BY DEF Acp!Lost, Runs
  <1>2. ConnInv' /\ ConnType'
    BY <1>1, ConnStutters DEF Inv
  <1>3. overtaken \subseteq overtaken' /\ overtaken' \subseteq Sessions
    BY CallFacts DEF Inv, Acp!Lost, Acp!TypeOK
  <1>4. CASE Acp!Bounded(q)
    BY <1>1, <1>2, <1>3, <1>4, EndedKeeps DEF Acp!Lost
  <1>5. CASE ~Acp!Bounded(q)
    <2>1. prepared' = prepared
      BY <1>5 DEF Acp!Lost
    <2>2. ASSUME s \notin overtaken', wire[q].phase # "served"
          PROVE  Agrees(prepared[s], goose[s])
      <3>1. \A r \in Calls : call[r].session = s /\ Runs(r) => wire[r].phase # "served"
        BY <1>1, <2>2, RunsAlone DEF Inv, CallInv
      <3> QED
        BY <1>3, <2>2, <3>1, CallFacts DEF Inv, CallInv, TruthInv, TruthAt
    <2>3. ASSUME s \notin overtaken', wire[q].phase = "served"
          PROVE  Agrees(prepared[s], goose[s])
      <3>1. call[q].kind = "prompt"
        BY <1>5, <2>3 DEF Acp!Lost, Acp!Bounded
      <3>2. call[q].pc = "sent"
        BY <1>1, <2>3 DEF Runs, Inv, CallInv, WireInv, WireOf
      <3>3. Agrees(Acp!Learnt(q, prepared[s]), goose[s])
        BY <1>1, <1>3, <2>3 DEF Inv, CallInv, TruthInv, TruthOf
      <3>4. Acp!Learnt(q, prepared[s]) = prepared[s]
        BY <3>1, <3>2, PromptLearns
      <3> QED
        BY <3>3, <3>4
    <2>4. s \notin overtaken' => Agrees(prepared[s], goose[s])
      BY <2>2, <2>3
    <2> QED
      BY <1>1, <1>2, <1>3, <2>1, <2>4, EndedKeeps
  <1> QED
    BY <1>4, <1>5

LEMMA NoWireFacts == Acp!NoWire \in Acp!Wire /\ Acp!NoWire.phase = "none"
  BY DEF Acp!NoWire, Acp!Wire, Acp!Acknowledged

LEMMA DropKeeps ==
  ASSUME Inv, NEW q \in Calls, Acp!Drop(q)
  PROVE  Inv'
  <1>0. PICK s \in Sessions : s = call[q].session
    BY CallFacts DEF Inv
  <1> USE <1>0
  <1>1. /\ call[q].pc = "done" /\ wire' = [wire EXCEPT ![q] = Acp!NoWire]
        /\ UNCHANGED <<Acp!connection, mutations, prepared, call, goose, overtaken>>
    BY DEF Acp!Drop
  <1>2. /\ wire' \in [Calls -> Acp!Wire] /\ \A r \in Calls : r # q => wire'[r] = wire[r]
    BY <1>1, NoWireFacts DEF Inv, Acp!TypeOK
  <1>3. s \in Sessions /\ ~Runs(q) /\ ~Runs(q)' /\ SerialInv'
    BY <1>1, CallFacts DEF Inv, Runs, CallInv, SerialInv
  <1>4. WireOf(q)' /\ TruthOf(q)'
    BY <1>1, <1>3 DEF WireOf, TruthOf
  <1>5. TruthAt(s)'
    <2>1. \A r \in Calls : call[r].session = s /\ Runs(r) =>
            call'[r].session = s /\ Runs(r)' /\ wire'[r] = wire[r]
      BY <1>1, <1>2, <1>3 DEF Runs
    <2> QED
      BY <1>1, <1>3, <2>1, TruthKeeps
  <1>6. ConnInv' /\ ConnType'
    BY <1>1, ConnStutters DEF Inv
  <1>7. CallTypes'
    BY <1>1, <1>2 DEF CallTypes, Inv, Acp!TypeOK
  <1>8. Frame(q, s)
    BY <1>1, <1>2, <1>3 DEF Frame
  <1> QED
    BY <1>3, <1>4, <1>5, <1>6, <1>7, <1>8, CallMoves

\* What a request of a session that is prepared rests on.
LEMMA StepMeans ==
  ASSUME Inv, NEW q \in Calls, call[q].pc = "sent", NEW e, e = prepared[call[q].session]
  PROVE  /\ wire[q].step = "dir" => e.known
         /\ wire[q].step = "load" => call[q].kind = "load" \/ ~e.known
         /\ wire[q].step = "provider" =>
              call[q].stage = "loaded" \/ (e.known /\ e.dir = call[q].want.dir)
         /\ wire[q].step = "model" => e.selected
         /\ wire[q].step \in {"dir", "load", "provider", "model", "prompt"}
  <1>1. wire[q].step = Acp!NextStep(q, call[q].stage, e) /\ wire[q].step \notin {"done", "refused"}
    BY DEF Inv, CallInv, WireInv, WireOf, Runs, Upcoming
  <1>2. /\ call[q].kind \in Acp!Kinds /\ call[q].stage \in {"start", "loaded", "prepared"}
        /\ wire[q].step \in {"dir", "load", "provider", "model", "prompt"}
    BY <1>1, CallFacts, StepFacts DEF Inv, Acp!Call, Acp!Kinds
  <1>3. CASE call[q].kind = "load"
    BY <1>1, <1>2, <1>3 DEF Acp!NextStep
  <1>4. CASE call[q].kind = "model"
    BY <1>1, <1>2, <1>4 DEF Acp!NextStep, Acp!ModelStep
  <1>5. CASE call[q].kind = "prompt"
    BY <1>1, <1>2, <1>5 DEF Acp!NextStep
  <1>6. CASE call[q].kind \in {"prepare", "configure"}
    BY <1>1, <1>2, <1>6 DEF Acp!NextStep, Acp!Prepares, Acp!After, Acp!ModelStep
  <1> QED
    BY <1>2, <1>3, <1>4, <1>5, <1>6 DEF Acp!Kinds

\* What a request leaves in the backend.
LEMMA EffectFacts ==
  ASSUME Acp!TypeOK, NEW q \in Calls, NEW model \in Acp!Acknowledged, NEW s \in Sessions,
         s = call[q].session, NEW g, g = Acp!Effect(q, model)
  PROVE  /\ g \in [Sessions -> Acp!Entry]
         /\ \A i \in Sessions : i # s => g[i] = goose[i]
         /\ wire[q].step \in {"dir", "load"} =>
              /\ g[s].dir = call[q].want.dir
              /\ g[s].provider = goose[s].provider /\ g[s].model = goose[s].model
         /\ wire[q].step = "provider" =>
              /\ g[s].dir = goose[s].dir
              /\ g[s].provider = call[q].want.provider /\ g[s].model = model
         /\ wire[q].step = "model" =>
              /\ g[s].dir = goose[s].dir
              /\ g[s].provider = goose[s].provider /\ g[s].model = model
         /\ wire[q].step \notin {"dir", "load", "provider", "model"} => g = goose
  <1> DEFINE want == call[q].want
             n1 == [goose[s] EXCEPT !.dir = want.dir]
             n2 == [goose[s] EXCEPT !.provider = want.provider, !.model = model]
             n3 == [goose[s] EXCEPT !.model = model]
  <1>1. want.dir \in Acp!Dirs /\ want.provider \in Acp!Providers /\ goose[s] \in Acp!Entry
    BY CallFacts DEF Acp!Dirs, Acp!Providers
  <1>2. /\ n1 \in Acp!Entry /\ n1.dir = want.dir
        /\ n1.provider = goose[s].provider /\ n1.model = goose[s].model
    BY <1>1 DEF Acp!Entry
  <1>3. n2 \in Acp!Entry /\ n2.dir = goose[s].dir /\ n2.provider = want.provider /\ n2.model = model
    BY <1>1 DEF Acp!Entry
  <1>4. n3 \in Acp!Entry /\ n3.dir = goose[s].dir /\ n3.provider = goose[s].provider /\ n3.model = model
    BY <1>1 DEF Acp!Entry
  <1>5. wire[q].step \in {"dir", "load"} => g = [goose EXCEPT ![s] = n1]
    BY DEF Acp!Effect, Acp!TypeOK, Acp!Entry
  <1>6. wire[q].step = "provider" => g = [goose EXCEPT ![s] = n2]
    BY DEF Acp!Effect, Acp!TypeOK, Acp!Entry
  <1>7. wire[q].step = "model" => g = [goose EXCEPT ![s] = n3]
    BY DEF Acp!Effect, Acp!TypeOK, Acp!Entry
  <1>8. wire[q].step \notin {"dir", "load", "provider", "model"} => g = goose
    BY DEF Acp!Effect
  <1>9. want = call[q].want /\ goose \in [Sessions -> Acp!Entry]
    BY DEF Acp!TypeOK
  <1> HIDE DEF want, n1, n2, n3
  <1>10. CASE wire[q].step \in {"dir", "load"}
    BY <1>2, <1>5, <1>9, <1>10
  <1>11. CASE wire[q].step = "provider"
    BY <1>3, <1>6, <1>9, <1>11
  <1>12. CASE wire[q].step = "model"
    BY <1>4, <1>7, <1>9, <1>12
  <1>13. CASE wire[q].step \notin {"dir", "load", "provider", "model"}
    BY <1>8, <1>9, <1>13
  <1> QED
    BY <1>10, <1>11, <1>12, <1>13

\* The heart of the matter: a request that is served while its call runs leaves the
\* backend as the call will believe it to be.
LEMMA ServedAgrees ==
  ASSUME Inv, NEW q \in Calls, NEW s \in Sessions, s = call[q].session, call[q].pc = "sent",
         wire[q].phase = "sent", s \notin overtaken, NEW ok \in BOOLEAN, NEW model \in Acp!Acknowledged,
         call' = call, prepared' = prepared,
         wire'[q].step = wire[q].step, wire'[q].ok = ok, wire'[q].model = model,
         \/ goose' = Acp!Effect(q, model) /\ (ok \/ wire[q].step = "provider")
         \/ goose' = goose /\ ~ok
  PROVE  /\ call[q].stage = "loaded" => goose'[s].dir = call[q].want.dir
         /\ Agrees(Acp!Learnt(q, prepared[s]), goose[s])'
         /\ wire'[q].step = "load" /\ wire'[q].ok => goose'[s].dir = call[q].want.dir
  <1> DEFINE e == prepared[s]
             g == goose[s]
             h == goose'[s]
             l == Acp!Learnt(q, prepared[s])'
             want == call[q].want
             step == wire[q].step
  <1>1. Runs(q)
    BY DEF Runs
  <1>2. \A r \in Calls : call[r].session = s /\ Runs(r) => wire[r].phase # "served"
    BY <1>1, RunsAlone DEF Inv, CallInv
  <1>3. Agrees(e, g) /\ (e.selected => e.known)
    BY <1>2 DEF Inv, CallInv, TruthInv, TruthAt
  <1>4. call[q].stage = "loaded" => g.dir = want.dir
    BY <1>1 DEF Inv, CallInv, TruthInv, TruthOf
  <1>5. /\ step = "dir" => e.known
        /\ step = "load" => call[q].kind = "load" \/ ~e.known
        /\ step = "provider" => call[q].stage = "loaded" \/ (e.known /\ e.dir = want.dir)
        /\ step = "model" => e.selected
        /\ step \in {"dir", "load", "provider", "model", "prompt"}
    BY StepMeans
  <1>6. \/ /\ ok \/ step = "provider"
           /\ step \in {"dir", "load"} => h.dir = want.dir /\ h.provider = g.provider /\ h.model = g.model
           /\ step = "provider" => h.dir = g.dir /\ h.provider = want.provider /\ h.model = model
           /\ step = "model" => h.dir = g.dir /\ h.provider = g.provider /\ h.model = model
           /\ step = "prompt" => h = g
        \/ h = g /\ ~ok
    BY EffectFacts DEF Inv
  <1>7. e \in Acp!Entry /\ h \in Acp!Entry
    <2>1. Acp!Effect(q, model) \in [Sessions -> Acp!Entry]
      BY EffectFacts DEF Inv
    <2> QED
      BY <2>1 DEF Inv, Acp!TypeOK
  <1>8. /\ step = "dir" /\ ok => l = [e EXCEPT !.dir = want.dir]
        /\ step = "provider" /\ ok => l = [known |-> TRUE, dir |-> want.dir, selected |-> TRUE,
                                           provider |-> want.provider, model |-> model]
        /\ step = "provider" /\ ~ok /\ e.known => l = [e EXCEPT !.selected = FALSE, !.model = "none"]
        /\ step = "provider" /\ ~ok /\ ~e.known => l = e
        /\ step = "model" /\ ok => l = [e EXCEPT !.model = model]
        /\ step = "model" /\ ~ok => l = [e EXCEPT !.model = "none"]
        /\ step = "load" /\ ok /\ call[q].kind = "load" => l = [h EXCEPT !.known = TRUE]
        /\ step = "load" /\ ~(ok /\ call[q].kind = "load") => l = e
        /\ step = "dir" /\ ~ok => l = e
        /\ step = "prompt" => l = e
    BY DEF Acp!Learnt, Acp!Unselected
  <1> HIDE DEF e, g, h, l, want, step
  <1>9. call[q].stage = "loaded" => h.dir = want.dir
    BY <1>4, <1>5, <1>6
  <1>10. Agrees(l, h)
    <2>1. CASE step = "dir"
      <3>1. CASE ok
        <4>1. l.known = e.known /\ l.dir = want.dir /\ l.selected = e.selected
              /\ l.provider = e.provider /\ l.model = e.model
          BY <1>7, <1>8, <2>1, <3>1 DEF Acp!Entry
        <4> QED
          BY <1>3, <1>5, <1>6, <2>1, <3>1, <4>1 DEF Agrees
      <3>2. CASE ~ok
        BY <1>3, <1>6, <1>8, <2>1, <3>2
      <3> QED
        BY <3>1, <3>2
    <2>2. CASE step = "load"
      <3>1. CASE ok /\ call[q].kind = "load"
        <4>1. l.dir = h.dir /\ l.provider = h.provider /\ l.model = h.model
          BY <1>7, <1>8, <2>2, <3>1 DEF Acp!Entry
        <4> QED
          BY <4>1 DEF Agrees
      <3>2. CASE ~ok
        BY <1>3, <1>6, <1>8, <2>2, <3>2
      <3>3. CASE ok /\ call[q].kind # "load"
        BY <1>5, <1>8, <2>2, <3>3 DEF Agrees
      <3> QED
        BY <3>1, <3>2, <3>3
    <2>3. CASE step = "provider"
      <3>1. g.dir = want.dir \/ (e.known /\ e.dir = g.dir)
        BY <1>3, <1>4, <1>5, <2>3 DEF Agrees
      <3>2. CASE ok
        <4>1. h.dir = want.dir
          BY <1>3, <1>4, <1>5, <1>6, <2>3, <3>2 DEF Agrees
        <4>2. l.dir = want.dir /\ l.provider = want.provider /\ l.model = model
          BY <1>8, <2>3, <3>2
        <4> QED
          BY <1>6, <2>3, <3>2, <4>1, <4>2 DEF Agrees
      <3>3. CASE ~ok /\ e.known
        <4>1. l.dir = e.dir /\ l.selected = FALSE
          BY <1>7, <1>8, <2>3, <3>3 DEF Acp!Entry
        <4> QED
          BY <1>3, <1>6, <2>3, <3>3, <4>1 DEF Agrees
      <3>4. CASE ~ok /\ ~e.known
        BY <1>8, <2>3, <3>4 DEF Agrees
      <3> QED
        BY <3>2, <3>3, <3>4
    <2>4. CASE step = "model"
      <3>1. CASE ok
        <4>1. l.known = e.known /\ l.dir = e.dir /\ l.selected = e.selected
              /\ l.provider = e.provider /\ l.model = model
          BY <1>7, <1>8, <2>4, <3>1 DEF Acp!Entry
        <4> QED
          BY <1>3, <1>6, <2>4, <3>1, <4>1 DEF Agrees
      <3>2. CASE ~ok
        <4>1. l.known = e.known /\ l.dir = e.dir /\ l.selected = e.selected
              /\ l.provider = e.provider /\ l.model = "none"
          BY <1>7, <1>8, <2>4, <3>2 DEF Acp!Entry, Acp!Acknowledged
        <4> QED
          BY <1>3, <1>6, <2>4, <3>2, <4>1 DEF Agrees
      <3> QED
        BY <3>1, <3>2
    <2>5. CASE step = "prompt"
      BY <1>3, <1>6, <1>8, <2>5
    <2> QED
      BY <1>5, <2>1, <2>2, <2>3, <2>4, <2>5
  <1>11. step = "load" /\ ok => h.dir = want.dir
    BY <1>6
  <1>12. Agrees(Acp!Learnt(q, prepared[s]), goose[s])'
    BY <1>10 DEF Agrees, l, h
  <1> QED
    BY <1>9, <1>11, <1>12 DEF h, want, step

LEMMA ServeKeeps ==
  ASSUME Inv, NEW q \in Calls, NEW ok \in BOOLEAN, Acp!Serve(q, ok)
  PROVE  Inv'
  <1>0. PICK s \in Sessions : s = call[q].session
    BY CallFacts DEF Inv
  <1> USE <1>0
  <1>1. PICK model \in Acp!Answers(q) :
          /\ wire[q].phase = "sent"
          /\ wire' = [wire EXCEPT ![q].phase = "served", ![q].ok = ok, ![q].model = model]
          /\ \/ goose' = Acp!Effect(q, model) /\ (ok \/ wire[q].step = "provider")
             \/ goose' = goose /\ ~ok
          /\ overtaken' = IF call[q].pc = "done" /\ (prepared[s].known \/ Acp!Running(s))
                            THEN overtaken \cup {s} ELSE overtaken
          /\ UNCHANGED <<Acp!connection, mutations, prepared, call>>
    BY DEF Acp!Serve
  <1>2. model \in Acp!Acknowledged
    BY CallFacts DEF Inv, Acp!Answers, Acp!Acknowledged
  <1>3. call[q].pc \in {"sent", "done"}
    BY <1>1, CallFacts DEF Inv, CallInv, WireInv, WireOf, Acp!Call
  <1> DEFINE w == [wire[q] EXCEPT !.phase = "served", !.ok = ok, !.model = model]
  <1>4. w \in Acp!Wire /\ w.phase = "served" /\ w.ok = ok /\ w.model = model /\ w.step = wire[q].step
    BY <1>2, CallFacts DEF Inv, Acp!Wire
  <1>5. wire' = [wire EXCEPT ![q] = w]
    BY <1>1 DEF Inv, Acp!TypeOK, Acp!Wire
  <1> HIDE DEF w
  <1>6. /\ wire'[q] = w /\ wire' \in [Calls -> Acp!Wire]
        /\ \A r \in Calls : r # q => wire'[r] = wire[r]
    BY <1>4, <1>5 DEF Inv, Acp!TypeOK
  <1>7. Acp!Effect(q, model) \in [Sessions -> Acp!Entry]
        /\ \A i \in Sessions : i # s => Acp!Effect(q, model)[i] = goose[i]
    BY <1>2, EffectFacts DEF Inv
  <1>8. goose' \in [Sessions -> Acp!Entry] /\ \A i \in Sessions : i # s => goose'[i] = goose[i]
    BY <1>1, <1>7 DEF Inv, Acp!TypeOK
  <1>9. CallTypes'
    BY <1>1, <1>6, <1>8 DEF CallTypes, Inv, Acp!TypeOK
  <1>10. ConnInv' /\ ConnType' /\ SerialInv'
    BY <1>1, ConnStutters DEF Inv, CallInv, SerialInv, Runs
  <1>11. \A r \in Calls : Runs(r)' <=> Runs(r)
    BY <1>1 DEF Runs
  <1>12. Upcoming(q)' = Upcoming(q)
    BY <1>1, NextStepKeeps DEF Inv, Upcoming
  <1>13. WireOf(q)'
    BY <1>1, <1>3, <1>4, <1>6, <1>11, <1>12 DEF WireOf, Inv, CallInv, WireInv
  <1>14. CASE call[q].pc = "sent"
    <2>1. Runs(q) /\ overtaken' = overtaken
      BY <1>1, <1>14 DEF Runs
    <2>2. Frame(q, s)
      BY <1>1, <1>6, <1>8, <2>1, RunsAlone DEF Frame, Inv, CallInv
    <2>3. TruthAt(s)'
      <3>1. call'[q].session = s /\ Runs(q)' /\ wire'[q].phase = "served"
        BY <1>1, <1>4, <1>6, <1>11, <2>1
      <3>2. prepared'[s].selected => prepared'[s].known
        BY <1>1 DEF Inv, CallInv, TruthInv, TruthAt
      <3> QED
        BY <3>1, <3>2 DEF TruthAt
    <2>4. TruthOf(q)'
      <3>1. SUFFICES ASSUME s \notin overtaken
                     PROVE  /\ call[q].stage = "loaded" => goose'[s].dir = call[q].want.dir
                            /\ Agrees(Acp!Learnt(q, prepared[s]), goose[s])'
                            /\ wire'[q].step = "load" /\ wire'[q].ok => goose'[s].dir = call[q].want.dir
        <4>1. Agrees(Acp!Learnt(q, prepared[call[q].session]), goose[call[q].session])'
                <=> Agrees(Acp!Learnt(q, prepared[s]), goose[s])'
          BY <1>1 DEF Agrees
        <4> QED
          BY <1>1, <2>1, <4>1 DEF TruthOf
      <3>2. wire'[q].step = wire[q].step /\ wire'[q].ok = ok /\ wire'[q].model = model
        BY <1>4, <1>6
      <3> QED
        BY <1>1, <1>2, <1>14, <3>1, <3>2, ServedAgrees
    <2> QED
      BY <1>9, <1>10, <1>13, <2>2, <2>3, <2>4, CallMoves
  <1>15. CASE call[q].pc = "done"
    <2>1. ~Runs(q) /\ overtaken \subseteq overtaken'
      BY <1>1, <1>15 DEF Runs
    <2>2. TruthOf(q)'
      BY <1>11, <2>1 DEF TruthOf
    <2>3. prepared'[s].selected => prepared'[s].known
      BY <1>1 DEF Inv, CallInv, TruthInv, TruthAt
    <2>4. CASE prepared[s].known \/ Acp!Running(s)
      <3>1. s \in overtaken'
        BY <1>1, <1>15, <2>4
      <3>2. Frame(q, s)
        BY <1>1, <1>6, <1>8, <1>11, <2>1, <3>1 DEF Frame
      <3>3. TruthAt(s)'
        BY <2>3, <3>1 DEF TruthAt
      <3> QED
        BY <1>9, <1>10, <1>13, <2>2, <3>2, <3>3, CallMoves
    <2>5. CASE ~prepared[s].known /\ ~Acp!Running(s)
      <3>1. \A r \in Calls : ~(Runs(r) /\ call[r].session = s)
        BY <2>5 DEF Acp!Running, Runs
      <3>2. Frame(q, s)
        BY <1>1, <1>6, <1>8, <1>11, <2>1, <3>1 DEF Frame
      <3>3. TruthAt(s)'
        BY <1>1, <2>3, <2>5 DEF TruthAt, Agrees
      <3> QED
        BY <1>9, <1>10, <1>13, <2>2, <3>2, <3>3, CallMoves
    <2> QED
      BY <2>4, <2>5
  <1> QED
    BY <1>3, <1>14, <1>15

\* What an answer teaches is an entry, and a session that is selected is known.
LEMMA LearntFacts ==
  ASSUME Acp!TypeOK, NEW q \in Calls, NEW e \in Acp!Entry, e.selected => e.known
  PROVE  Acp!Learnt(q, e) \in Acp!Entry /\ (Acp!Learnt(q, e).selected => Acp!Learnt(q, e).known)
  <1> DEFINE want == call[q].want
             n == goose[call[q].session]
  <1>1. /\ want.dir \in Acp!Dirs /\ want.provider \in Acp!Providers /\ wire[q].model \in Acp!Acknowledged
        /\ wire[q] \in Acp!Wire /\ n \in Acp!Entry /\ "none" \in Acp!Acknowledged
    BY CallFacts DEF Acp!Dirs, Acp!Providers, Acp!Wire, Acp!Acknowledged
  <1>2. /\ [e EXCEPT !.dir = want.dir] \in Acp!Entry
        /\ [e EXCEPT !.dir = want.dir].selected = e.selected
        /\ [e EXCEPT !.dir = want.dir].known = e.known
    BY <1>1 DEF Acp!Entry
  <1>3. /\ [known |-> TRUE, dir |-> want.dir, selected |-> TRUE, provider |-> want.provider,
            model |-> wire[q].model] \in Acp!Entry
        /\ [known |-> TRUE, dir |-> want.dir, selected |-> TRUE, provider |-> want.provider,
            model |-> wire[q].model].known = TRUE
    BY <1>1 DEF Acp!Entry
  <1>4. /\ Acp!Unselected(e) \in Acp!Entry /\ Acp!Unselected(e).selected = FALSE
    BY <1>1 DEF Acp!Entry, Acp!Unselected
  <1>5. ASSUME NEW m \in Acp!Acknowledged
        PROVE  /\ [e EXCEPT !.model = m] \in Acp!Entry
               /\ [e EXCEPT !.model = m].selected = e.selected
               /\ [e EXCEPT !.model = m].known = e.known
    BY <1>1 DEF Acp!Entry
  <1>6. [n EXCEPT !.known = TRUE] \in Acp!Entry /\ [n EXCEPT !.known = TRUE].known = TRUE
    BY <1>1 DEF Acp!Entry
  <1>7. \/ Acp!Learnt(q, e) = [e EXCEPT !.dir = want.dir]
        \/ Acp!Learnt(q, e) = [known |-> TRUE, dir |-> want.dir, selected |-> TRUE,
                               provider |-> want.provider, model |-> wire[q].model]
        \/ Acp!Learnt(q, e) = Acp!Unselected(e)
        \/ Acp!Learnt(q, e) = [e EXCEPT !.model = wire[q].model]
        \/ Acp!Learnt(q, e) = [e EXCEPT !.model = "none"]
        \/ Acp!Learnt(q, e) = [n EXCEPT !.known = TRUE]
        \/ Acp!Learnt(q, e) = e
    BY DEF Acp!Learnt
  <1> HIDE DEF n, want
  <1>8. CASE Acp!Learnt(q, e) = Acp!Unselected(e)
    BY <1>4, <1>8
  <1>9. CASE Acp!Learnt(q, e) \in {[e EXCEPT !.model = wire[q].model], [e EXCEPT !.model = "none"]}
    BY <1>1, <1>5, <1>9
  <1> QED
    BY <1>2, <1>3, <1>6, <1>7, <1>8, <1>9

LEMMA ReadKeeps ==
  ASSUME Inv, NEW q \in Calls, Acp!Read(q)
  PROVE  Inv'
  <1>0. PICK s \in Sessions : s = call[q].session
    BY CallFacts DEF Inv
  <1> USE <1>0
  <1> DEFINE e == Acp!Learnt(q, prepared[s])
  <1>1. /\ call[q].pc = "sent" /\ wire[q].phase = "served"
        /\ prepared' = [prepared EXCEPT ![s] = e]
        /\ wire' = [wire EXCEPT ![q] = Acp!NoWire]
        /\ UNCHANGED <<goose, overtaken>>
    BY DEF Acp!Read
  <1>2. \/ /\ Acp!Satisfied(q) /\ Acp!Goes(q, Acp!StageAfter(q), e, call[q].generation)
        \/ Acp!Ended(q) /\ UNCHANGED Acp!connection
    BY DEF Acp!Read
  <1>4. e \in Acp!Entry /\ (e.selected => e.known)
    <2>1. prepared[s] \in Acp!Entry /\ (prepared[s].selected => prepared[s].known)
      BY CallFacts DEF Inv, CallInv, TruthInv, TruthAt
    <2> QED
      BY <2>1, LearntFacts DEF Inv
  <1>5. s \notin overtaken => Agrees(e, goose[s])
    BY <1>1 DEF Runs, Inv, CallInv, TruthInv, TruthOf
  <1>6. s \notin overtaken /\ wire[q].ok /\ Acp!StageAfter(q) = "loaded" => goose[s].dir = call[q].want.dir
    BY <1>1 DEF Runs, Inv, CallInv, TruthInv, TruthOf, Acp!StageAfter
  <1>7. Acp!StageAfter(q) \in {"start", "loaded", "prepared"} /\ call[q].generation \in Nat
    BY CallFacts DEF Inv, Acp!StageAfter, Acp!Call
  <1> HIDE DEF e
  <1>8. /\ prepared'[s] = e /\ prepared' \in [Sessions -> Acp!Entry]
        /\ \A i \in Sessions : i # s => prepared'[i] = prepared[i]
        /\ wire'[q].phase = "none" /\ wire' \in [Calls -> Acp!Wire]
        /\ \A r \in Calls : r # q => wire'[r] = wire[r]
    BY <1>1, <1>4, NoWireFacts DEF Inv, Acp!TypeOK
  <1>9. Runs(q)
    BY <1>1 DEF Runs
  <1>10. /\ ConnInv' /\ ConnType' /\ SerialInv'
         /\ mutations' \in [Sessions -> Seq(Calls)] /\ call' \in [Calls -> Acp!Call]
         /\ \A r \in Calls : r # q => call'[r] = call[r]
         /\ call'[q].session = s
         /\ \/ call'[q].pc = "done"
            \/ /\ call'[q].pc = "connecting" /\ call'[q].stage = Acp!StageAfter(q)
               /\ call'[q].kind = call[q].kind
               /\ call'[q].want = call[q].want /\ call'[q].model = call[q].model
               /\ Acp!NextStep(q, Acp!StageAfter(q), e) \notin {"done", "refused"}
               /\ wire[q].ok
    <2>1. CASE Acp!Satisfied(q) /\ Acp!Goes(q, Acp!StageAfter(q), e, call[q].generation)
      <3>1. wire[q].ok
        BY <2>1 DEF Acp!Satisfied
      <3> QED
        BY <1>7, <1>9, <2>1, <3>1, GoesFacts DEF Inv, CallInv
    <2>2. CASE Acp!Ended(q) /\ UNCHANGED Acp!connection
      <3>1. ConnInv' /\ ConnType'
        BY <2>2, ConnStutters DEF Inv
      <3> QED
        BY <1>9, <2>2, <3>1, EndedSerial DEF Inv, CallInv
    <2> QED
      BY <1>2, <2>1, <2>2
  <1>11. WireOf(q)'
    <2>1. CASE call'[q].pc = "done"
      BY <2>1 DEF WireOf, Runs
    <2>2. CASE call'[q].pc = "connecting"
      <3>1. Upcoming(q)' = Acp!NextStep(q, Acp!StageAfter(q), e)
        <4>1. /\ call'[q].kind = call[q].kind /\ call'[q].want = call[q].want
              /\ call'[q].stage = Acp!StageAfter(q) /\ call'[q].model = call[q].model
              /\ prepared'[call'[q].session] = e
          BY <1>8, <1>10, <2>2
        <4> QED
          BY <4>1, NextStepKeeps DEF Inv
      <3> QED
        BY <1>8, <1>10, <2>2, <3>1 DEF WireOf
    <2> QED
      BY <1>10, <2>1, <2>2
  <1>12. TruthOf(q)'
    <2>1. CASE call'[q].pc = "done"
      BY <2>1 DEF TruthOf, Runs
    <2>2. CASE call'[q].pc = "connecting"
      BY <1>1, <1>6, <1>8, <1>10, <2>2 DEF TruthOf
    <2> QED
      BY <1>10, <2>1, <2>2
  <1>13. TruthAt(s)'
    <2>1. Agrees(e, goose[s]) => Agrees(prepared[s], goose[s])'
      BY <1>1, <1>8 DEF Agrees
    <2> QED
      BY <1>1, <1>4, <1>5, <1>8, <2>1 DEF TruthAt
  <1>14. CallTypes'
    BY <1>1, <1>8, <1>10 DEF CallTypes, Inv, Acp!TypeOK
  <1>15. Frame(q, s)
    BY <1>1, <1>8, <1>9, <1>10, RunsAlone DEF Frame, Inv, CallInv
  <1> QED
    BY <1>10, <1>11, <1>12, <1>13, <1>14, <1>15, CallMoves

LEMMA InitKeeps ==
  ASSUME Acp!Init
  PROVE  Inv
  <1> DEFINE known == [known |-> TRUE, dir |-> Acp!Started.dir, selected |-> TRUE,
                       provider |-> Acp!Started.provider, model |-> "std"]
             fresh == [known |-> FALSE, dir |-> Acp!Started.dir, selected |-> FALSE,
                       provider |-> Acp!Started.provider, model |-> "none"]
             idle == [pc |-> "idle", session |-> CHOOSE s \in Sessions : TRUE, kind |-> "load",
                      want |-> Acp!Started, model |-> CHOOSE m \in Models : TRUE,
                      generation |-> 0, on |-> 0, stage |-> "start"]
  <1>1. /\ Acp!Started \in Preparations /\ (CHOOSE s \in Sessions : TRUE) \in Sessions
        /\ (CHOOSE m \in Models : TRUE) \in Models
    BY ConnectionAssumption DEF Acp!Started, Preparations
  <1>2. known \in Acp!Entry /\ fresh \in Acp!Entry
    <2>1. Acp!Started.dir \in Acp!Dirs /\ Acp!Started.provider \in Acp!Providers
      BY <1>1 DEF Acp!Dirs, Acp!Providers
    <2>2. "std" \in Acp!Acknowledged /\ "none" \in Acp!Acknowledged
      BY DEF Acp!Acknowledged
    <2> QED
      BY <2>1, <2>2 DEF Acp!Entry
  <1>3. idle \in Acp!Call /\ idle.pc = "idle"
    BY <1>1 DEF Acp!Call, Acp!Kinds
  <1>4. /\ known.dir = fresh.dir /\ known.provider = fresh.provider /\ known.selected = TRUE
        /\ known.known = TRUE /\ fresh.known = FALSE /\ fresh.selected = FALSE
    OBVIOUS
  <1>5. /\ epoch = 0 /\ client = 0 /\ promise = 0 /\ active = 0 /\ disposer = 0
        /\ init = [i \in Acp!Inits |-> Acp!NoInit]
        /\ mutations = [s \in Sessions |-> <<>>]
        /\ goose = [s \in Sessions |-> known]
        /\ prepared \in [Sessions -> {goose[CHOOSE s \in Sessions : TRUE], fresh}]
        /\ call = [q \in Calls |-> idle]
        /\ wire = [q \in Calls |-> Acp!NoWire]
        /\ overtaken = {}
    BY DEF Acp!Init
  <1> HIDE DEF known, fresh, idle
  <1>6. Acp!NoInit \in Acp!Initialisation /\ Acp!NoInit.pc = "idle" /\ Acp!NoInit.generation = 0
        /\ Acp!NoInit.stream = "none" /\ Acp!NoInit.endpoint = "none"
    BY DEF Acp!NoInit, Acp!Initialisation
  <1>7. /\ \A i \in Acp!Inits : init[i] = Acp!NoInit
        /\ init \in [Acp!Inits -> Acp!Initialisation]
    BY <1>5, <1>6
  <1>8. \A s \in Sessions : goose[s] = known /\ prepared[s] \in {known, fresh}
    BY <1>1, <1>5
  <1>9. Acp!TypeOK
    <2>1. prepared \in [Sessions -> Acp!Entry] /\ goose \in [Sessions -> Acp!Entry]
      BY <1>2, <1>5, <1>8
    <2> QED
      BY <1>3, <1>5, <1>7, <2>1, NoWireFacts DEF Acp!TypeOK
  <1>10. ConnInv
    BY <1>5, <1>6, <1>7 DEF ConnInv, InitInv, PromiseInv, Acp!TransportsOwned
  <1>11. \A q \in Calls : call[q].pc = "idle" /\ wire[q].phase = "none" /\ ~Runs(q)
    BY <1>3, <1>5, NoWireFacts DEF Runs
  <1>12. CallInv
    BY <1>4, <1>8, <1>11 DEF CallInv, SerialInv, WireInv, WireOf, TruthInv, TruthOf, TruthAt, Agrees
  <1> QED
    BY <1>9, <1>10, <1>12 DEF Inv

\* A step of the connection alone leaves the calls as they are.
LEMMA ConnectionKeeps ==
  ASSUME Inv, ConnInv', ConnType', UNCHANGED <<mutations, prepared, call, wire, goose, overtaken>>
  PROVE  Inv'
  <1>1. Acp!TypeOK'
    BY DEF Inv, Acp!TypeOK, ConnType
  <1>2. \A r \in Calls : (Runs(r)' <=> Runs(r)) /\ Upcoming(r)' = Upcoming(r)
    BY NextStepKeeps DEF Inv, Runs, Upcoming
  <1>3. \A r \in Calls : Acp!Learnt(r, prepared[call[r].session])' = Acp!Learnt(r, prepared[call[r].session])
    BY DEF Acp!Learnt, Acp!Unselected
  <1>4. SerialInv'
    BY <1>2 DEF Inv, CallInv, SerialInv
  <1>5. WireInv'
    BY <1>2 DEF Inv, CallInv, WireInv, WireOf
  <1>6. TruthInv'
    BY <1>2, <1>3 DEF Inv, CallInv, TruthInv, TruthAt, TruthOf, Agrees
  <1> QED
    BY <1>1, <1>4, <1>5, <1>6 DEF Inv, CallInv

LEMMA NextKeeps ==
  ASSUME Inv, Acp!Next
  PROVE  Inv'
  <1>1. ASSUME NEW i \in Acp!Inits,
               \/ Acp!Resolved(i) \/ Acp!ResolvedLate(i) \/ Acp!ResolveFails(i) \/ Acp!HandshakeAnswered(i)
               \/ Acp!HandshakeFails(i) \/ Acp!Cached(i) \/ Acp!PeerCloses(i) \/ Acp!ClosedNoticed(i)
        PROVE  Inv'
    <2>1. UNCHANGED <<mutations, prepared, call, wire, goose, overtaken>>
      BY <1>1 DEF Acp!Resolved, Acp!ResolvedLate, Acp!ResolveFails, Acp!HandshakeAnswered,
                  Acp!HandshakeFails, Acp!Cached, Acp!PeerCloses, Acp!ClosedNoticed
    <2>2. ConnInv' /\ ConnType'
      BY <1>1, ResolvedConn, ResolvedLateConn, ResolveFailsConn, HandshakeAnsweredConn, HandshakeFailsConn,
         CachedConn, PeerClosesConn, ClosedNoticedConn DEF Inv
    <2> QED
      BY <2>1, <2>2, ConnectionKeeps
  <1>2. CASE Acp!Invalidate
    BY <1>2, InvalidatedKeeps, ConnectionKeeps DEF Inv, Acp!Invalidate
  <1>3. ASSUME NEW q \in Calls, NEW s \in Sessions, NEW kind \in Acp!Kinds, NEW want \in Preparations,
               NEW model \in Models, Acp!Request(q, s, kind, want, model)
        PROVE  Inv'
    BY <1>3, RequestKeeps
  <1>4. ASSUME NEW q \in Calls,
               Acp!Begin(q) \/ Acp!Send(q) \/ Acp!Lost(q) \/ Acp!TimedOut(q) \/ Acp!Drop(q) \/ Acp!Read(q)
        PROVE  Inv'
    BY <1>4, BeginKeeps, SendKeeps, LostKeeps, TimedOutKeeps, DropKeeps, ReadKeeps
  <1>5. ASSUME NEW q \in Calls, NEW ok \in BOOLEAN, Acp!Serve(q, ok) PROVE Inv'
    BY <1>5, ServeKeeps
  <1> QED
    BY <1>1, <1>2, <1>3, <1>4, <1>5 DEF Acp!Next

LEMMA Stutters ==
  ASSUME Inv, UNCHANGED acp
  PROVE  Inv'
  <1>1. ConnInv' /\ ConnType' /\ UNCHANGED <<mutations, prepared, call, wire, goose, overtaken>>
    BY ConnStutters DEF acp, Acp!connection, Inv
  <1> QED
    BY <1>1, ConnectionKeeps

\* The backend of a session that runs nothing but a prompt is as the session is believed to be.
LEMMA InvIsTruthful ==
  ASSUME Inv
  PROVE  SelectionTruthful
  <1> SUFFICES ASSUME NEW s \in Sessions, prepared[s].known, Acp!Settled(s), s \notin overtaken
               PROVE  Agrees(prepared[s], goose[s])
    BY DEF SelectionTruthful, Acp!SelectionTruthful, Agrees
  <1>1. CASE \A q \in Calls : call[q].session = s /\ Runs(q) => wire[q].phase # "served"
    BY <1>1 DEF Inv, CallInv, TruthInv, TruthAt
  <1>2. ASSUME NEW q \in Calls, call[q].session = s, Runs(q), wire[q].phase = "served"
        PROVE  Agrees(prepared[s], goose[s])
    <2>1. call[q].kind = "prompt" /\ call[q].pc = "sent"
      BY <1>2 DEF Acp!Settled, Runs, Inv, CallInv, WireInv, WireOf
    <2>2. Agrees(Acp!Learnt(q, prepared[s]), goose[s])
      BY <1>2 DEF Inv, CallInv, TruthInv, TruthOf
    <2>3. Acp!Learnt(q, prepared[s]) = prepared[s]
      BY <2>1, PromptLearns
    <2> QED
      BY <2>2, <2>3
  <1> QED
    BY <1>1, <1>2

LEMMA ConnectionInvariant == ConnectionSpec => []Inv
  <1>1. ConnectionInit => Inv
    BY InitKeeps DEF ConnectionInit
  <1>2. Inv /\ [ConnectionNext]_connectionVars => Inv'
    <2> SUFFICES ASSUME Inv, [ConnectionNext]_connectionVars PROVE Inv'
      OBVIOUS
    <2>1. CASE UNCHANGED acp
      BY <2>1, Stutters
    <2>2. CASE Acp!Next
      BY <2>2, NextKeeps
    <2>3. UNCHANGED connectionVars => UNCHANGED acp
      BY DEF connectionVars
    <2>4. ConnectionNext => Acp!Next \/ UNCHANGED acp
      BY DEF ConnectionNext, Acp!Next, Coordinates, Connects
    <2> QED
      BY <2>1, <2>2, <2>3, <2>4
  <1> QED
    BY <1>1, <1>2, PTL DEF ConnectionSpec

----------------------------------------------------------------------------
(* What the connection and its calls promise *)

\* What the renderer believes a session is prepared for is what the backend has, between
\* its calls and while it is prompted, however calls of several sessions time out, lose
\* their transport or fail half-way.
THEOREM BelievesTheBackend == ConnectionSpec => []SelectionTruthful
  BY ConnectionInvariant, InvIsTruthful, PTL

\* An open stream or a held endpoint always has an owner that will clean it up, and the
\* cached client is never one of a generation that is gone.
THEOREM TransportsHaveOwners == ConnectionSpec => []TransportsOwned
  <1>1. Inv => TransportsOwned
    BY DEF Inv, ConnInv, TransportsOwned
  <1> QED
    BY <1>1, ConnectionInvariant, PTL

\* The same two facts of the connection on its own, with every model, every preparation
\* and whatever happens to a session after a request has overtaken it.
THEOREM ConnectionAlone == Acp!Spec => [](SelectionTruthful /\ TransportsOwned)
  <1>1. Acp!Init => Inv
    BY InitKeeps
  <1>2. Inv /\ [Acp!Next]_(Acp!vars) => Inv'
    <2>1. UNCHANGED Acp!vars => UNCHANGED acp
      BY DEF Acp!vars, acp
    <2> QED
      BY <2>1, Stutters, NextKeeps
  <1>3. Inv => SelectionTruthful /\ TransportsOwned
    BY InvIsTruthful DEF Inv, ConnInv, TransportsOwned
  <1> QED
    BY <1>1, <1>2, <1>3, PTL DEF Acp!Spec

\* What the coordinator does next to the connection is what it does on its own, so that
\* what is proved of it holds of both together.
THEOREM CoordinatorAlone == ConnectionSpec => Spec
  <1>1. ConnectionInit => Init
    BY DEF ConnectionInit
  <1>2. [ConnectionNext]_connectionVars => [Next]_vars
    <2>1. ConnectionNext => Next \/ UNCHANGED vars
      BY DEF ConnectionNext, Coordinates, Connects, Next, Observe
    <2>2. UNCHANGED connectionVars => UNCHANGED vars
      BY DEF connectionVars
    <2> QED
      BY <2>1, <2>2
  <1> QED
    BY <1>1, <1>2, PTL DEF ConnectionSpec, Spec
=============================================================================

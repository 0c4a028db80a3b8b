----------------------- MODULE SessionTarget_proofs -----------------------
(* Proofs about SessionTarget, for any number of targets, requests and      *)
(* attempts and any admitted environment: that it is type correct, that the *)
(* session store shows the leased target while a dispatch holds the lease,  *)
(* and, in the second half, what its actor keeps, answers and publishes.    *)
EXTENDS SessionTarget, TLAPS

IInv == TypeOK /\ GateInv /\ PickInv /\ RouteInv /\ LeaseTargetPublished
-----------------------------------------------------------------------------
(* Typing of the operators the actions are built from *)

LEMMA RetiredType ==
  ASSUME NEW o \in Operation, NEW pc \in {"finished", "done"},
         NEW outcome \in Outcomes, NEW t \in MaybeTarget
  PROVE  /\ Retired(o, pc, outcome, t) \in Operation
         /\ Retired(o, pc, outcome, t).pc = pc
         /\ Retired(o, pc, outcome, t).token = o.token
         /\ ~Retired(o, pc, outcome, t).needs
         /\ Retired(o, pc, outcome, t).effective = t
         /\ o.outcome = None => Retired(o, pc, outcome, t).outcome = outcome
         /\ o.outcome # None => Retired(o, pc, outcome, t).outcome = o.outcome
  <1>1. Settle(o, outcome).outcome = (IF o.outcome = None THEN outcome ELSE o.outcome)
    BY DEF Settle, Operation
  <1>2. Settle(o, outcome).outcome \in Outcomes \cup {None}
    BY <1>1 DEF Operation
  <1>3. NewOperation \in Operation
    BY DEF NewOperation, Operation, MaybeTarget, MaybeRequest
  <1>4. /\ Retired(o, pc, outcome, t).pc = pc
        /\ Retired(o, pc, outcome, t).token = o.token
        /\ Retired(o, pc, outcome, t).needs = FALSE
        /\ Retired(o, pc, outcome, t).effective = t
        /\ Retired(o, pc, outcome, t).outcome = Settle(o, outcome).outcome
    BY DEF Retired, NewOperation
  <1>5. Retired(o, pc, outcome, t) \in Operation
    <2> DEFINE n == NewOperation
               last == Settle(o, outcome).outcome
    <2>1. o.token \in Attempts \cup {None} /\ o.claimed \in BOOLEAN
      BY DEF Operation
    <2>2. last \in Outcomes \cup {None}
      BY <1>2
    <2>3. n \in Operation
      BY <1>3
    <2> HIDE DEF n, last
    <2>4. [n EXCEPT !.pc = pc, !.token = o.token, !.claimed = o.claimed,
                    !.effective = t, !.outcome = last] \in Operation
      BY <2>1, <2>2, <2>3 DEF Operation
    <2> QED
      BY <2>4 DEF Retired, n, last
  <1> QED
    BY <1>1, <1>4, <1>5

LEMMA PcType ==
  ASSUME NEW o \in Operation, NEW x \in {"done", "resolving", "blocked", "unrequested"}
  PROVE  /\ [o EXCEPT !.pc = x] \in Operation
         /\ [o EXCEPT !.pc = x].pc = x
         /\ [o EXCEPT !.pc = x].token = o.token
         /\ [o EXCEPT !.pc = x].target = o.target
         /\ [o EXCEPT !.pc = x].effective = o.effective
         /\ [o EXCEPT !.pc = x].outcome = o.outcome
         /\ [o EXCEPT !.pc = x].needs <=> o.needs
         /\ [o EXCEPT !.pc = x].exact <=> o.exact
  <1>1. /\ [o EXCEPT !.pc = x] \in Operation
        /\ [o EXCEPT !.pc = x].pc = x
        /\ [o EXCEPT !.pc = x].token = o.token
        /\ [o EXCEPT !.pc = x].target = o.target
        /\ [o EXCEPT !.pc = x].effective = o.effective
        /\ [o EXCEPT !.pc = x].outcome = o.outcome
    BY DEF Operation
  <1>2. /\ [o EXCEPT !.pc = x].needs = o.needs
        /\ [o EXCEPT !.pc = x].exact = o.exact
    BY DEF Operation
  <1> QED
    BY <1>1, <1>2

LEMMA NewOperationType ==
  /\ NewOperation \in Operation
  /\ NewOperation.token = None /\ NewOperation.outcome = None /\ NewOperation.needs = FALSE
  BY DEF NewOperation, Operation, Outcomes, MaybeTarget, MaybeRequest

LEMMA WithTargetType ==
  ASSUME NEW s \in StoreState, NEW t \in MaybeTarget, NEW source \in {"ui", "acp"}
  PROVE  WithTarget(s, t, source) \in StoreState /\ WithTarget(s, t, source).target = t
  BY DEF WithTarget, StoreState, MaybeTarget

LEMMA WithReasoningType ==
  ASSUME NEW s \in StoreState, NEW r \in MaybeTarget
  PROVE  WithReasoning(s, r) \in StoreState /\ WithReasoning(s, r).target = s.target
  BY DEF WithReasoning, StoreState, MaybeTarget

LEMMA SyncType ==
  ASSUME sync \in Sync, NEW id \in MaybeRequest, NEW t \in MaybeTarget
  PROVE  /\ Selected(id, t) \in Sync /\ Resolved(id, t) \in Sync
         /\ Acknowledged(id, t) \in Sync /\ Superseded(id) \in Sync
         /\ Rejected(id) \in Sync /\ SettledOrUnresolved(t) \in Sync
         /\ Settled(t) \in Sync
  <1> USE DEF Sync, Settled, Unresolved, SettledOrUnresolved, MaybeRequest, MaybeTarget
  <1>1. Unresolved \in Sync /\ Settled(t) \in Sync
    OBVIOUS
  <1>2. SettledOrUnresolved(sync.base) \in Sync
    OBVIOUS
  <1> QED
    BY <1>1, <1>2 DEF Selected, Resolved, Acknowledged, Superseded, Rejected

\* A write through the subscriber leaves the leased target published.
LEMMA PublishLease ==
  ASSUME TypeOK, NEW s \in StoreState, NEW r \in MaybeTarget, Publish(s, r)
  PROVE  /\ store' \in StoreState
         /\ deferredMutation' \in StoreState \cup {None}
         /\ lease # None => Matches(store'.target, lease.target)
  <1>1. lease # None => LeaseStore \in StoreState /\ LeaseStore.target = lease.target
    BY DEF TypeOK, Lease, LeaseStore, StoreState, MaybeTarget
  <1>2. Divergent(s) => lease # None
    BY DEF Divergent, AgreesWithLease
  <1>3. lease # None /\ ~Divergent(s) => Matches(s.target, lease.target)
    BY DEF Divergent, AgreesWithLease
  <1>4. lease # None => Matches(lease.target, lease.target)
    BY DEF Matches
  <1>5. deferredMutation' \in StoreState \cup {None}
    BY DEF Publish, Deferral, TypeOK
  <1>6. CASE Divergent(s)
    BY <1>1, <1>2, <1>4, <1>5, <1>6, WithReasoningType DEF Publish
  <1>7. CASE ~Divergent(s)
    BY <1>3, <1>5, <1>7, WithReasoningType DEF Publish
  <1> QED
    BY <1>6, <1>7

LEMMA EnqueueType ==
  ASSUME TypeOK, NEW r \in Requests, NEW o \in Operation, NEW s \in StoreState,
         Enqueue(r, o, s, ops)
  PROVE  /\ sync' \in Sync /\ latest' = r
         /\ current' = (IF current = None THEN r ELSE current)
         /\ ops' \in [Requests -> Operation]
  <1>1. o.id \in MaybeRequest /\ o.target \in MaybeTarget /\ s.target \in MaybeTarget
    BY DEF Operation, StoreState
  <1>2. sync' \in Sync
    BY <1>1, SyncType DEF TypeOK, Enqueue
  <1>3. ASSUME NEW x \in {"resolving", "queued"}
        PROVE  [o EXCEPT !.pc = x, !.selectionAt = selection, !.targetAt = s.target] \in Operation
    BY <1>1 DEF Operation, TypeOK
  <1>4. \A q \in Requests : Retired(ops[q], "done", "superseded", None) \in Operation
    BY RetiredType DEF TypeOK, Outcomes, MaybeTarget
  <1>5. ops' \in [Requests -> Operation]
    BY <1>3, <1>4 DEF Enqueue, TypeOK
  <1> QED
    BY <1>2, <1>5 DEF Enqueue
-----------------------------------------------------------------------------
(* What a step may change without disturbing the routed operation *)

\* The routing attempts keep their rows, and the lease stays as long as the
\* session does.
LEMMA RouteFrame ==
  ASSUME RouteInv, live' => live, lease' = lease \/ (lease' = None /\ ~live'),
         \A a \in Attempts : attempts'[a].pc = "routing" => attempts'[a] = attempts[a],
         \A a \in Attempts, r \in Requests :
           Holds(a) /\ lease.target \in Concrete /\ RouteOperationInv(a, r) /\ lease' = lease
             => RouteOperationInv(a, r)'
  PROVE  RouteInv'
  <1> SUFFICES ASSUME NEW a \in Attempts, attempts'[a].pc = "routing"
               PROVE  /\ live' => Holds(a)'
                      /\ Holds(a)' =>
                           /\ lease'.target \in Concrete
                           /\ attempts'[a].previous \in Targets
                           /\ \E r \in Requests : attempts'[a].req = r /\ RouteOperationInv(a, r)'
    BY DEF RouteInv
  <1>1. attempts'[a] = attempts[a]
    OBVIOUS
  <1>2. live' => Holds(a)'
    BY <1>1 DEF RouteInv, Holds
  <1>3. CASE Holds(a)'
    <2>1. lease' = lease /\ Holds(a)
      BY <1>3 DEF Holds
    <2>2. /\ lease.target \in Concrete /\ attempts[a].previous \in Targets
          /\ \E r \in Requests : attempts[a].req = r /\ RouteOperationInv(a, r)
      BY <1>1, <2>1 DEF RouteInv
    <2>3. PICK r \in Requests : attempts[a].req = r /\ RouteOperationInv(a, r)
      BY <2>2
    <2>4. RouteOperationInv(a, r)'
      BY <2>1, <2>2, <2>3
    <2> QED
      BY <1>1, <1>2, <2>1, <2>2, <2>3, <2>4
  <1> QED
    BY <1>2, <1>3

LEMMA RouteUnchanged ==
  ASSUME NEW a \in Attempts, NEW r \in Requests, RouteOperationInv(a, r),
         lease' = lease, ops'[r] = ops[r],
         latest' = r /\ current' # r => latest = r /\ current # r
  PROVE  RouteOperationInv(a, r)'
  BY DEF RouteOperationInv, Executing

\* An operation that ends keeps its token and, when it commits, the leased model.
LEMMA RouteRetired ==
  ASSUME TypeOK, NEW a \in Attempts, NEW r \in Requests, RouteOperationInv(a, r),
         lease' = lease, latest' = latest, current' = current,
         ops[r].pc \in {"resolving", "applying"},
         NEW outcome \in Outcomes, NEW t \in MaybeTarget,
         ops'[r] = Retired(ops[r], "finished", outcome, t),
         outcome = "committed" /\ ops[r].outcome = None => t = lease.target
  PROVE  RouteOperationInv(a, r)'
  <1>1. ops[r] \in Operation
    BY DEF TypeOK
  <1>2. /\ ops'[r].pc = "finished" /\ ops'[r].token = ops[r].token
        /\ ~ops'[r].needs /\ ops'[r].effective = t
        /\ ops[r].outcome = None => ops'[r].outcome = outcome
        /\ ops[r].outcome # None => ops'[r].outcome = ops[r].outcome
    BY <1>1, RetiredType
  <1>3. ~(latest = r /\ current # r)
    BY DEF RouteOperationInv
  <1>4. ops[r].outcome # "committed"
    BY DEF RouteOperationInv
  <1> QED
    BY <1>2, <1>3, <1>4, TargetAssumption DEF RouteOperationInv, Executing, Outcomes

LEMMA RouteEnqueue ==
  ASSUME TypeOK, NEW a \in Attempts, NEW q \in Requests, RouteOperationInv(a, q),
         NEW r \in Requests, NEW o, NEW s, Enqueue(r, o, s, ops), q # r, lease' = lease
  PROVE  RouteOperationInv(a, q)'
  <1>1. ops[q] \in Operation /\ latest' = r
    BY DEF TypeOK, Enqueue
  <1>2. CASE q = latest /\ q # current
    <2>1. ops'[q] = Retired(ops[q], "done", "superseded", None)
      BY <1>2 DEF Enqueue
    <2>2. ops[q].outcome = None
      BY <1>2 DEF RouteOperationInv
    <2>3. /\ ops'[q].pc = "done" /\ ops'[q].token = ops[q].token
          /\ ~ops'[q].needs /\ ops'[q].outcome = "superseded"
      BY <1>1, <2>1, <2>2, RetiredType DEF Outcomes, MaybeTarget
    <2> QED
      BY <1>1, <2>3, TargetAssumption DEF RouteOperationInv, Outcomes
  <1>3. CASE ~(q = latest /\ q # current)
    <2>1. ops'[q] = ops[q]
      BY <1>3 DEF Enqueue
    <2> QED
      BY <1>1, <2>1, RouteUnchanged
  <1> QED
    BY <1>2, <1>3
-----------------------------------------------------------------------------
(* What leaves the other invariants alone *)

LEMMA RangeSeq ==
  ASSUME NEW s \in Seq(Requests)
  PROVE  /\ Range(s) \subseteq Requests
         /\ \A r \in Requests : Range(Append(s, r)) = Range(s) \cup {r}
         /\ \A t \in Seq(Requests) : Range(s \o t) \subseteq Range(s) \cup Range(t)
         /\ s # <<>> => Head(s) \in Range(s) /\ Range(Tail(s)) \subseteq Range(s)
  <1> USE DEF Range
  <1>1. Range(s) \subseteq Requests
    OBVIOUS
  <1>2. ASSUME NEW r \in Requests
        PROVE  Range(Append(s, r)) = Range(s) \cup {r}
    <2>1. /\ Append(s, r) \in Seq(Requests) /\ Len(Append(s, r)) = Len(s) + 1
          /\ \A i \in 1..Len(s) : Append(s, r)[i] = s[i]
          /\ Append(s, r)[Len(s) + 1] = r
      OBVIOUS
    <2> QED
      BY <2>1
  <1>3. ASSUME NEW t \in Seq(Requests)
        PROVE  Range(s \o t) \subseteq Range(s) \cup Range(t)
    <2>1. /\ s \o t \in Seq(Requests) /\ Len(s \o t) = Len(s) + Len(t)
          /\ \A i \in 1..(Len(s) + Len(t)) :
               (s \o t)[i] = IF i <= Len(s) THEN s[i] ELSE t[i - Len(s)]
      OBVIOUS
    <2> QED
      BY <2>1
  <1>4. s # <<>> => Head(s) \in Range(s) /\ Range(Tail(s)) \subseteq Range(s)
    OBVIOUS
  <1> QED
    BY <1>1, <1>2, <1>3, <1>4

\* When the gate opens, its requests become microtasks.
LEMMA GateEmptied ==
  ASSUME TypeOK, gate' = <<>>, woken' = woken \o gate
  PROVE  /\ gate' \in Seq(Requests) /\ woken' \in Seq(Requests)
         /\ Range(gate') \cup Range(woken') \subseteq Range(gate) \cup Range(woken)
  <1>1. gate \in Seq(Requests) /\ woken \in Seq(Requests)
    BY DEF TypeOK
  <1>2. Range(<<>>) = {}
    BY DEF Range
  <1>3. Range(woken \o gate) \subseteq Range(woken) \cup Range(gate)
    BY <1>1, RangeSeq
  <1> QED
    BY <1>1, <1>2, <1>3

\* An operation keeps its place in the queue's invariants when its token stays.
LEMMA GateFrame ==
  ASSUME TypeOK, GateInv, Range(gate') \cup Range(woken') \subseteq Range(gate) \cup Range(woken),
         \A r \in Requests : ops[r].pc # "free" /\ ops[r].token = None
                            => ops'[r].pc # "free" /\ ops'[r].token = None
  PROVE  GateInv'
  <1>1. Range(gate) \cup Range(woken) \subseteq Requests
    BY RangeSeq DEF TypeOK, Range
  <1> QED
    BY <1>1 DEF GateInv

LEMMA LeaseFrame ==
  ASSUME LeaseTargetPublished, live' => live, store' = store, lease' \in {lease, None}
  PROVE  LeaseTargetPublished'
  BY DEF LeaseTargetPublished, Matches

\* An operation that ends while the requests at the gate stay where they are.
LEMMA EndStep ==
  ASSUME IInv, NEW r \in Requests, ops[r].pc \in {"resolving", "applying"},
         NEW outcome \in Outcomes, NEW t \in MaybeTarget,
         ops' = [ops EXCEPT ![r] = Retired(@, "finished", outcome, t)],
         \A a \in Attempts : /\ Holds(a) /\ lease.target \in Concrete
                             /\ RouteOperationInv(a, r)
                             /\ outcome = "committed" /\ ops[r].outcome = None
                            => t = lease.target,
         UNCHANGED <<live, latest, current, lease, tasks, attempts>>
  PROVE  ops' \in [Requests -> Operation] /\ GateInv' /\ PickInv' /\ RouteInv'
  <1> USE DEF IInv
  <1>1. ops[r] \in Operation
    BY DEF TypeOK
  <1>2. /\ ops'[r] = Retired(ops[r], "finished", outcome, t)
        /\ \A q \in Requests : q # r => ops'[q] = ops[q]
    BY DEF TypeOK
  <1>3. Retired(ops[r], "finished", outcome, t) \in Operation
    BY <1>1, RetiredType
  <1>4. ops' \in [Requests -> Operation]
    BY <1>3 DEF TypeOK
  <1>5. ops'[r].pc = "finished" /\ ops'[r].token = ops[r].token
    BY <1>1, <1>2, RetiredType
  <1>6. GateInv'
    BY <1>2, <1>5, GateFrame DEF tasks
  <1>7. PickInv'
    BY <1>2, <1>5 DEF PickInv
  <1>8. ASSUME NEW a \in Attempts, NEW q \in Requests, Holds(a), lease.target \in Concrete,
               RouteOperationInv(a, q)
        PROVE  RouteOperationInv(a, q)'
    <2>1. CASE q = r
      BY <1>2, <1>8, <2>1, RouteRetired
    <2>2. CASE q # r
      BY <1>2, <1>8, <2>2, RouteUnchanged
    <2> QED
      BY <2>1, <2>2
  <1>9. RouteInv'
    BY <1>8, RouteFrame
  <1> QED
    BY <1>4, <1>6, <1>7, <1>9
-----------------------------------------------------------------------------
(* The execution of an operation *)

LEMMA SupersedeStep ==
  ASSUME IInv, NEW r \in Requests, ops[r].pc \in {"resolving", "applying"}, Supersede(r),
         Continue, backend' \in MaybeTarget
  PROVE  IInv'
  <1> USE DEF IInv
  <1>1. ops' = [ops EXCEPT ![r] = Retired(@, "finished", "superseded", None)]
    BY DEF Supersede, Finish
  <1>2. ops' \in [Requests -> Operation] /\ GateInv' /\ PickInv' /\ RouteInv'
    BY <1>1, EndStep DEF Continue, Outcomes, MaybeTarget
  <1>3. sync' \in Sync
    <2>1. ops[r].id \in MaybeRequest
      BY DEF TypeOK, Operation
    <2> QED
      BY <2>1, SyncType DEF Supersede, TypeOK, MaybeTarget
  <1>4. TypeOK'
    BY <1>2, <1>3 DEF Supersede, Continue, tasks, intents, TypeOK
  <1>5. LeaseTargetPublished'
    BY LeaseFrame DEF Supersede, Continue
  <1> QED
    BY <1>2, <1>4, <1>5

LEMMA ThrowStep ==
  ASSUME IInv, NEW r \in Requests, ops[r].pc \in {"resolving", "applying"}, Throw(r),
         Continue, backend' \in MaybeTarget
  PROVE  IInv'
  <1> USE DEF IInv
  <1>1. CASE ~CurrentOperation(r)
    BY <1>1, SupersedeStep DEF Throw
  <1>2. CASE CurrentOperation(r)
    <2>1. ops' = [ops EXCEPT ![r] = Retired(@, "finished", "failed", None)]
      BY <1>2 DEF Throw, Finish
    <2>2. ops' \in [Requests -> Operation] /\ GateInv' /\ PickInv' /\ RouteInv'
      BY <2>1, EndStep DEF Continue, Outcomes, MaybeTarget
    <2>3. sync' \in Sync
      <3>1. ops[r].id \in MaybeRequest
        BY DEF TypeOK, Operation
      <3> QED
        BY <1>2, <3>1, SyncType DEF Throw, TypeOK, MaybeTarget
    <2>4. TypeOK'
      BY <1>2, <2>2, <2>3 DEF Throw, Continue, tasks, intents, TypeOK
    <2>5. LeaseTargetPublished'
      BY <1>2, LeaseFrame DEF Throw, Continue
    <2> QED
      BY <2>2, <2>4, <2>5
  <1> QED
    BY <1>1, <1>2

\* A routed operation that resolved applies exactly the leased model.
LEMMA ResolveAppliesStep ==
  ASSUME IInv, NEW r \in Requests, NEW e \in Targets, ops[r].pc = "resolving",
         ~(ops[r].exact /\ e # ops[r].target),
         sync' = Resolved(ops[r].id, e),
         ops' = [ops EXCEPT ![r].pc = "applying", ![r].effective = e],
         UNCHANGED <<store, deferredMutation, backend>>, Continue
  PROVE  IInv'
  <1> USE DEF IInv
  <1>1. ops[r] \in Operation /\ ops[r].id \in MaybeRequest
    BY DEF TypeOK, Operation
  <1>2. /\ ops'[r] = [ops[r] EXCEPT !.pc = "applying", !.effective = e]
        /\ \A q \in Requests : q # r => ops'[q] = ops[q]
    BY DEF TypeOK
  <1>3. ops' \in [Requests -> Operation]
    <2>1. [ops[r] EXCEPT !.pc = "applying", !.effective = e] \in Operation
      BY <1>1 DEF Operation, MaybeTarget
    <2> QED
      BY <1>2, <2>1 DEF TypeOK
  <1>4. sync' \in Sync
    BY <1>1, SyncType DEF TypeOK, MaybeTarget
  <1>5. TypeOK'
    BY <1>3, <1>4 DEF Continue, tasks, intents, TypeOK
  <1>6. /\ ops'[r].pc = "applying" /\ ops'[r].token = ops[r].token
        /\ ops'[r].effective = e /\ ops'[r].target = ops[r].target
        /\ ops'[r].outcome = ops[r].outcome
        /\ ops'[r].needs <=> ops[r].needs
        /\ ops'[r].exact <=> ops[r].exact
    <2> DEFINE o == ops[r]
               n == [o EXCEPT !.pc = "applying", !.effective = e]
    <2>1. o \in Operation
      BY <1>1
    <2>2. n = ops'[r]
      BY <1>2
    <2> HIDE DEF o
    <2>3. /\ n.pc = "applying" /\ n.token = o.token
          /\ n.effective = e /\ n.target = o.target
          /\ n.outcome = o.outcome
      BY <2>1 DEF Operation
    <2>4. n.needs = o.needs /\ n.exact = o.exact
      BY <2>1 DEF Operation
    <2> HIDE DEF n
    <2> QED
      BY <2>2, <2>3, <2>4 DEF o
  <1>7. GateInv'
    BY <1>2, <1>6, GateFrame DEF Continue, tasks
  <1>8. PickInv'
    <2> SUFFICES ASSUME NEW q \in Requests, ops'[q].pc = "locating"
                 PROVE  ops'[q].token = None
      BY DEF PickInv
    <2>1. q # r
      BY <1>6
    <2>2. ops'[q] = ops[q]
      BY <1>2, <2>1
    <2> QED
      BY <2>2 DEF PickInv
  <1>9. ASSUME NEW a \in Attempts, NEW q \in Requests, Holds(a), lease.target \in Concrete,
               RouteOperationInv(a, q)
        PROVE  RouteOperationInv(a, q)'
    <2>1. CASE q = r
      BY <1>6, <1>9, <2>1 DEF RouteOperationInv, Executing, Continue
    <2>2. CASE q # r
      BY <1>2, <1>9, <2>2, RouteUnchanged DEF Continue
    <2> QED
      BY <2>1, <2>2
  <1>10. RouteInv'
    BY <1>9, RouteFrame DEF Continue
  <1>11. LeaseTargetPublished'
    BY LeaseFrame DEF Continue
  <1> QED
    BY <1>5, <1>7, <1>8, <1>10, <1>11

LEMMA ResolveStep ==
  ASSUME IInv, NEW r \in Requests, NEW e \in Targets, Resolve(r, e)
  PROVE  IInv'
  <1> USE DEF IInv
  <1>1. ops[r].pc = "resolving" /\ Continue /\ UNCHANGED backend /\ backend' \in MaybeTarget
    BY DEF Resolve, TypeOK
  <1>2. CASE Supersede(r)
    BY <1>1, <1>2, SupersedeStep
  <1>3. CASE Throw(r)
    BY <1>1, <1>3, ThrowStep
  <1>4. CASE /\ ~(ops[r].exact /\ e # ops[r].target)
             /\ sync' = Resolved(ops[r].id, e)
             /\ ops' = [ops EXCEPT ![r].pc = "applying", ![r].effective = e]
             /\ UNCHANGED <<store, deferredMutation>>
    BY <1>1, <1>4, ResolveAppliesStep
  <1>5. CASE /\ ops[r].needs
             /\ sync' = Acknowledged(ops[r].id, e)
             /\ Commit(r, e)
             /\ UNCHANGED <<store, deferredMutation>>
    <2>1. ops' \in [Requests -> Operation] /\ GateInv' /\ PickInv' /\ RouteInv'
      <3>1. \A a \in Attempts : ~RouteOperationInv(a, r)
        BY <1>5 DEF RouteOperationInv
      <3> QED
        BY <1>1, <1>5, <3>1, EndStep DEF Commit, Continue, Outcomes, MaybeTarget
    <2>2. sync' \in Sync
      <3>1. ops[r].id \in MaybeRequest
        BY DEF TypeOK, Operation
      <3> QED
        BY <1>5, <3>1, SyncType DEF TypeOK, MaybeTarget
    <2>3. TypeOK'
      BY <1>1, <1>5, <2>1, <2>2 DEF Continue, tasks, intents, TypeOK
    <2>4. LeaseTargetPublished'
      BY <1>1, <1>5, LeaseFrame DEF Continue
    <2> QED
      BY <2>1, <2>3, <2>4
  <1> QED
    BY <1>2, <1>3, <1>4, <1>5 DEF Resolve

LEMMA ResolveFailsStep ==
  ASSUME IInv, NEW r \in Requests, ResolveFails(r)
  PROVE  IInv'
  BY ThrowStep DEF ResolveFails, IInv, TypeOK

LEMMA AnswerFailsStep ==
  ASSUME IInv, NEW r \in Requests, AnswerFails(r)
  PROVE  IInv'
  <1>1. backend' \in MaybeTarget
    BY DEF IInv, TypeOK, AnswerFails, Operation
  <1> QED
    BY <1>1, ThrowStep DEF AnswerFails

\* An acknowledged target is the one asked for, unless that was a boundary.
LEMMA AnswerStep ==
  ASSUME IInv, NEW r \in Requests, NEW t \in Targets, NEW m \in MaybeTarget, Answer(r, t, m)
  PROVE  IInv'
  <1> USE DEF IInv
  <1>1. /\ ops[r].pc = "applying" /\ Continue /\ t \in Materialized(ops[r].effective)
        /\ backend' = t /\ backend' \in MaybeTarget
    BY DEF Answer, MaybeTarget
  <1>2. CASE Supersede(r)
    BY <1>1, <1>2, SupersedeStep
  <1>3. CASE /\ sync' = Acknowledged(ops[r].id, t)
             /\ Commit(r, t)
             /\ IF live
                THEN Publish(IF store.target = t THEN store ELSE WithTarget(store, t, "ui"), m)
                ELSE UNCHANGED <<store, deferredMutation>>
    <2>1. ops' \in [Requests -> Operation] /\ GateInv' /\ PickInv' /\ RouteInv'
      <3>1. ASSUME NEW a \in Attempts, lease.target \in Concrete, RouteOperationInv(a, r),
                   ops[r].outcome = None
            PROVE  t = lease.target
        BY <1>1, <3>1 DEF RouteOperationInv, Materialized, Concrete
      <3> QED
        BY <1>1, <1>3, <3>1, EndStep DEF Commit, Continue, Outcomes, MaybeTarget
    <2>2. sync' \in Sync
      <3>1. ops[r].id \in MaybeRequest
        BY DEF TypeOK, Operation
      <3> QED
        BY <1>3, <3>1, SyncType DEF TypeOK, MaybeTarget
    <2>3. /\ store' \in StoreState /\ deferredMutation' \in StoreState \cup {None}
          /\ live /\ lease # None => Matches(store'.target, lease.target)
      <3>1. CASE live
        <4> DEFINE s == IF store.target = t THEN store ELSE WithTarget(store, t, "ui")
        <4>1. s \in StoreState
          BY WithTargetType DEF TypeOK, MaybeTarget
        <4>2. Publish(s, m)
          BY <1>3, <3>1
        <4> HIDE DEF s
        <4> QED
          BY <4>1, <4>2, PublishLease
      <3>2. CASE ~live
        BY <1>3, <3>2 DEF TypeOK
      <3> QED
        BY <3>1, <3>2
    <2>4. TypeOK'
      BY <1>1, <2>1, <2>2, <2>3 DEF Continue, tasks, intents, TypeOK
    <2>5. LeaseTargetPublished'
      BY <1>1, <2>3 DEF LeaseTargetPublished, Matches, Continue
    <2> QED
      BY <2>1, <2>4, <2>5
  <1> QED
    BY <1>2, <1>3 DEF Answer

LEMMA DrainStep ==
  ASSUME IInv, NEW r \in Requests, Drain(r)
  PROVE  IInv'
  <1> USE DEF IInv
  <1> DEFINE next == IF latest = r THEN None ELSE latest
  <1>1. next \in MaybeRequest /\ ops[r].pc = "finished"
    BY DEF TypeOK, MaybeRequest, Drain
  <1>2. \A q \in Requests :
          \/ ops'[q] = ops[q]
          \/ q = r /\ ops'[q] = [ops[q] EXCEPT !.pc = "done"]
          \/ current = r /\ q = next /\ q # r /\ ops'[q] = [ops[q] EXCEPT !.pc = "resolving"]
    BY DEF Drain, TypeOK
  <1> HIDE DEF next
  <1>12. ASSUME NEW q \in Requests
         PROVE  /\ ops'[q] \in Operation /\ ops'[q].token = ops[q].token
                /\ ops[q].pc # "free" => ops'[q].pc # "free"
                /\ ops'[q].pc = "locating" => ops'[q] = ops[q]
    <2>1. ops[q] \in Operation
      BY DEF TypeOK
    <2>2. CASE ops'[q] = [ops[q] EXCEPT !.pc = "done"]
      BY <2>1, <2>2 DEF Operation
    <2>3. CASE ops'[q] = [ops[q] EXCEPT !.pc = "resolving"]
      BY <2>1, <2>3 DEF Operation
    <2> QED
      BY <1>2, <2>1, <2>2, <2>3
  <1>3. ops' \in [Requests -> Operation]
    <2>1. \A q \in Requests : ops'[q] \in Operation
      BY <1>12
    <2>2. ops' = [q \in Requests |-> ops'[q]]
      BY DEF Drain, TypeOK
    <2> QED
      BY <2>1, <2>2
  <1>4. /\ attempts' \in [Attempts -> Attempt]
        /\ \A a \in Attempts : attempts'[a].pc = "routing" => attempts'[a] = attempts[a]
    <2>1. attempts' = Notified(attempts) \/ attempts' = attempts
      BY DEF Drain
    <2>2. ASSUME NEW a \in Attempts
          PROVE  [attempts[a] EXCEPT !.pc = "woken"] \in Attempt
      BY DEF TypeOK, Attempt
    <2> QED
      BY <2>1, <2>2 DEF Notified, TypeOK, Attempt
  <1>5. TypeOK'
    BY <1>1, <1>3, <1>4 DEF Drain, TypeOK, intents, tasks, next
  <1>6. \A q \in Requests : ops'[q].token = ops[q].token /\ (ops[q].pc # "free" => ops'[q].pc # "free")
    BY <1>12
  <1>7. GateInv'
    BY <1>6, GateFrame DEF Drain, tasks
  <1>8. PickInv'
    BY <1>12 DEF PickInv
  <1>9. ASSUME NEW a \in Attempts, NEW q \in Requests, RouteOperationInv(a, q)
        PROVE  RouteOperationInv(a, q)'
    <2>1. /\ lease' = lease
          /\ latest' = q /\ current' # q => latest = q /\ current # q /\ current # r
      BY DEF Drain
    <2>2. CASE ops'[q] = ops[q]
      BY <1>9, <2>1, <2>2, RouteUnchanged
    <2>3. CASE q = r /\ ops'[q] = [ops[q] EXCEPT !.pc = "done"]
      BY <1>1, <1>9, <2>1, <2>3, PcType DEF RouteOperationInv, Executing, TypeOK
    <2>4. CASE current = r /\ q = next /\ q # r /\ ops'[q] = [ops[q] EXCEPT !.pc = "resolving"]
      <3>1. latest = q /\ current # q
        BY <1>9, <2>4, TargetAssumption DEF next
      <3>2. ops[q].outcome = None
        BY <1>9, <3>1 DEF RouteOperationInv
      <3> QED
        BY <1>9, <2>1, <2>4, <3>2, PcType, TargetAssumption DEF RouteOperationInv, Executing, TypeOK, Outcomes
    <2> QED
      BY <1>2, <2>2, <2>3, <2>4
  <1>10. RouteInv'
    BY <1>4, <1>9, RouteFrame DEF Drain
  <1>11. LeaseTargetPublished'
    BY LeaseFrame DEF Drain
  <1> QED
    BY <1>5, <1>7, <1>8, <1>10, <1>11

\* A transition that is enqueued: of the operations, only the new one and a
\* superseded one change, and neither was made by a router that still waits.
LEMMA EnqueueStep ==
  ASSUME TypeOK, PickInv, NEW r \in Requests, NEW o \in Operation, NEW s \in StoreState,
         Enqueue(r, o, s, ops), ops[r].pc # "free" => o.token = None
  PROVE  /\ sync' \in Sync /\ latest' = r /\ current' \in MaybeRequest
         /\ ops' \in [Requests -> Operation]
         /\ PickInv'
         /\ \A q \in Requests : ops[q].pc # "free" /\ ops[q].token = None
                              => ops'[q].pc # "free" /\ ops'[q].token = None
  <1>1. /\ sync' \in Sync /\ latest' = r /\ current' \in MaybeRequest
        /\ ops' \in [Requests -> Operation]
    BY EnqueueType DEF TypeOK, MaybeRequest
  <1>2. ASSUME NEW q \in Requests
        PROVE  /\ ops[q].pc # "free" /\ ops[q].token = None
                    => ops'[q].pc # "free" /\ ops'[q].token = None
               /\ ops'[q].pc = "locating" => ops'[q].token = None
    <2>1. CASE q = r
      <3>1. ops'[r] = [o EXCEPT !.pc = IF current = None THEN "resolving" ELSE "queued",
                                !.selectionAt = selection, !.targetAt = s.target]
        BY DEF Enqueue
      <3>2. ops'[r].pc \in {"resolving", "queued"} /\ ops'[r].token = o.token
        BY <3>1 DEF Operation
      <3> QED
        BY <2>1, <3>2
    <2>2. CASE q # r /\ q = latest /\ q # current
      <3>1. ops[q] \in Operation /\ ops'[q] = Retired(ops[q], "done", "superseded", None)
        BY <2>2 DEF Enqueue, TypeOK
      <3>2. ops'[q].pc = "done" /\ ops'[q].token = ops[q].token
        BY <3>1, RetiredType DEF Outcomes, MaybeTarget
      <3> QED
        BY <3>2
    <2>3. CASE q # r /\ ~(q = latest /\ q # current)
      <3>1. ops'[q] = ops[q]
        BY <2>3 DEF Enqueue
      <3> QED
        BY <3>1 DEF PickInv
    <2> QED
      BY <2>1, <2>2, <2>3
  <1>3. PickInv'
    BY <1>2 DEF PickInv
  <1> QED
    BY <1>1, <1>2, <1>3

\* The first request of a woken queue is nobody's routed operation.
LEMMA RunWokenStep ==
  ASSUME IInv, RunWoken
  PROVE  IInv'
  <1> USE DEF IInv
  <1> DEFINE r == Head(woken)
  <1>1. /\ r \in Requests /\ woken' = Tail(woken) /\ woken' \in Seq(Requests)
        /\ ops[r] \in Operation /\ ops[r].token = None
        /\ Range(woken') \subseteq Range(woken)
    <2>1. woken # <<>> /\ woken \in Seq(Requests) /\ woken' = Tail(woken)
      BY DEF RunWoken, TypeOK
    <2>2. r \in Requests
      BY <2>1
    <2>3. r \in Range(woken) /\ Range(woken') \subseteq Range(woken)
      BY <2>1, <2>2, RangeSeq
    <2> QED
      BY <2>1, <2>2, <2>3 DEF GateInv, TypeOK
  <1>2. /\ Enqueue(r, ops[r], store, ops)
        /\ UNCHANGED <<live, store, intents, deferredMutation, lease, gate, notifying,
                       attempts, backend>>
    BY DEF RunWoken
  <1> HIDE DEF r
  <1>3. store \in StoreState
    BY DEF TypeOK
  <1>4. /\ sync' \in Sync /\ latest' = r /\ current' \in MaybeRequest
        /\ ops' \in [Requests -> Operation]
        /\ PickInv'
        /\ \A q \in Requests : ops[q].pc # "free" /\ ops[q].token = None
                             => ops'[q].pc # "free" /\ ops'[q].token = None
    BY <1>1, <1>2, <1>3, EnqueueStep
  <1>5. TypeOK'
    BY <1>1, <1>2, <1>4 DEF TypeOK, intents, MaybeRequest
  <1>6. GateInv'
    BY <1>1, <1>2, <1>4, GateFrame
  <1>7. RouteInv'
    <2>1. ASSUME NEW a \in Attempts, NEW q \in Requests, RouteOperationInv(a, q)
          PROVE  RouteOperationInv(a, q)'
      <3>1. q # r
        BY <1>1, <2>1, TargetAssumption DEF RouteOperationInv
      <3> QED
        BY <1>1, <1>2, <2>1, <3>1, RouteEnqueue
    <2> QED
      BY <1>2, <2>1, RouteFrame
  <1>8. LeaseTargetPublished'
    BY <1>2, LeaseFrame
  <1> QED
    BY <1>4, <1>5, <1>6, <1>7, <1>8
-----------------------------------------------------------------------------
(* The steps of a dispatch attempt *)

\* A step that only moves an attempt, and not into a route.
LEMMA AttemptStep ==
  ASSUME IInv, attempts' \in [Attempts -> Attempt],
         \A a \in Attempts : attempts'[a].pc = "routing" => attempts'[a] = attempts[a],
         notifying' \in BOOLEAN,
         UNCHANGED <<live, store, actor, intents, deferredMutation, lease, gate, woken, ops, backend>>
  PROVE  IInv'
  <1> USE DEF IInv
  <1>1. TypeOK'
    BY DEF TypeOK, actor, intents
  <1>2. GateInv'
    BY GateFrame DEF GateInv
  <1>3. PickInv'
    BY DEF PickInv
  <1>4. \A a \in Attempts, q \in Requests : RouteOperationInv(a, q) => RouteOperationInv(a, q)'
    BY RouteUnchanged DEF actor
  <1>5. RouteInv'
    BY <1>4, RouteFrame
  <1>6. LeaseTargetPublished'
    BY LeaseFrame
  <1> QED
    BY <1>1, <1>2, <1>3, <1>5, <1>6

LEMMA AttemptMovesStep ==
  ASSUME IInv, NEW a \in Attempts,
         NEW x \in {"idle", "waiting", "prepared", "prompting", "ended", "done"},
         attempts' = [attempts EXCEPT ![a].pc = x],
         UNCHANGED <<live, store, actor, intents, deferredMutation, lease, tasks, ops, backend>>
  PROVE  IInv'
  <1>1. [attempts[a] EXCEPT !.pc = x] \in Attempt /\ [attempts[a] EXCEPT !.pc = x].pc = x
    BY DEF IInv, TypeOK, Attempt
  <1>2. /\ attempts' \in [Attempts -> Attempt]
        /\ \A b \in Attempts : attempts'[b].pc = "routing" => attempts'[b] = attempts[b]
    BY <1>1 DEF IInv, TypeOK
  <1>3. notifying' \in BOOLEAN
    BY DEF IInv, TypeOK, tasks
  <1> QED
    BY <1>2, <1>3, AttemptStep DEF tasks

\* The lease is taken on the published target.
LEMMA AcquireStep ==
  ASSUME IInv, NEW a \in Attempts, Acquire(a)
  PROVE  IInv'
  <1> USE DEF IInv
  <1>1. UNCHANGED <<live, store, actor, intents, deferredMutation, tasks, ops, backend>>
    BY DEF Acquire
  <1>2. CASE /\ UNCHANGED lease
             /\ \E x \in {"waiting", "done", "idle"} : attempts' = [attempts EXCEPT ![a].pc = x]
    BY <1>1, <1>2, AttemptMovesStep
  <1>3. CASE /\ lease = None /\ live /\ store.target # None
             /\ lease' = [holder |-> a, target |-> store.target, source |-> store.source,
                          reasoning |-> store.reasoning]
             /\ attempts' = [attempts EXCEPT ![a].pc = "leased"]
    <2>1. lease' \in Lease
      BY <1>3 DEF TypeOK, StoreState, Lease, MaybeTarget
    <2>2. [attempts[a] EXCEPT !.pc = "leased"] \in Attempt /\ attempts'[a].pc = "leased"
      BY <1>3 DEF TypeOK, Attempt
    <2>3. TypeOK'
      BY <1>1, <1>3, <2>1, <2>2 DEF TypeOK, actor, intents, tasks
    <2>4. GateInv' /\ PickInv'
      BY <1>1, GateFrame DEF GateInv, PickInv, tasks
    <2>5. RouteInv'
      <3>1. \A b \in Attempts : attempts'[b].pc # "routing"
        <4>1. \A b \in Attempts : attempts[b].pc = "routing" => ~live
          BY <1>1, <1>3 DEF RouteInv, Holds
        <4> QED
          BY <1>1, <1>3, <2>2, <4>1 DEF TypeOK
      <3> QED
        BY <3>1 DEF RouteInv
    <2>6. LeaseTargetPublished'
      BY <1>1, <1>3 DEF LeaseTargetPublished, Matches
    <2> QED
      BY <2>3, <2>4, <2>5, <2>6
  <1> QED
    BY <1>2, <1>3 DEF Acquire

LEMMA PrepareStep ==
  ASSUME IInv, NEW a \in Attempts, Prepare(a)
  PROVE  IInv'
  <1> USE DEF IInv
  <1>1. lease \in Lease /\ lease.target \in MaybeTarget
    BY DEF Prepare, Holds, TypeOK, Lease, MaybeTarget
  <1>2. PICK r \in Requests :
          /\ Free(r)
          /\ Enqueue(r, [NewOperation EXCEPT !.id = r, !.target = lease.target, !.token = a],
                     store, ops)
          /\ attempts' = [attempts EXCEPT ![a].pc = "preparing", ![a].req = r]
    BY DEF Prepare
  <1> DEFINE o == [NewOperation EXCEPT !.id = r, !.target = lease.target, !.token = a]
  <1>3. o \in Operation
    BY <1>1, NewOperationType DEF Operation, MaybeRequest
  <1> HIDE DEF o
  <1>4. /\ Enqueue(r, o, store, ops) /\ ops[r].pc = "free" /\ store \in StoreState
        /\ UNCHANGED <<live, store, intents, deferredMutation, lease, tasks, backend>>
    BY <1>2 DEF Prepare, Free, TypeOK, o
  <1>5. /\ sync' \in Sync /\ latest' = r /\ current' \in MaybeRequest
        /\ ops' \in [Requests -> Operation]
        /\ PickInv'
        /\ \A q \in Requests : ops[q].pc # "free" /\ ops[q].token = None
                             => ops'[q].pc # "free" /\ ops'[q].token = None
    BY <1>3, <1>4, EnqueueStep
  <1>6. /\ attempts' \in [Attempts -> Attempt]
        /\ \A b \in Attempts : attempts'[b].pc = "routing" => attempts'[b] = attempts[b]
    <2>1. /\ [attempts[a] EXCEPT !.pc = "preparing", !.req = r] \in Attempt
          /\ attempts'[a] = [attempts[a] EXCEPT !.pc = "preparing", !.req = r]
          /\ attempts'[a].pc = "preparing"
      BY <1>2 DEF TypeOK, Attempt, MaybeRequest
    <2> QED
      BY <1>2, <2>1 DEF TypeOK
  <1>7. TypeOK'
    BY <1>4, <1>5, <1>6 DEF TypeOK, intents, tasks, MaybeRequest
  <1>8. GateInv'
    BY <1>4, <1>5, GateFrame DEF tasks
  <1>9. RouteInv'
    <2>1. ASSUME NEW b \in Attempts, NEW q \in Requests, RouteOperationInv(b, q)
          PROVE  RouteOperationInv(b, q)'
      <3>1. q # r
        BY <1>4, <2>1 DEF RouteOperationInv, Executing
      <3> QED
        BY <1>4, <2>1, <3>1, RouteEnqueue
    <2> QED
      BY <1>4, <1>6, <2>1, RouteFrame
  <1>10. LeaseTargetPublished'
    BY <1>4, LeaseFrame
  <1> QED
    BY <1>5, <1>7, <1>8, <1>9, <1>10

LEMMA PreparedStep ==
  ASSUME IInv, NEW a \in Attempts, Prepared(a)
  PROVE  IInv'
  BY AttemptMovesStep DEF Prepared

LEMMA PromptStep ==
  ASSUME IInv, NEW a \in Attempts, Prompt(a)
  PROVE  IInv'
  BY AttemptMovesStep DEF Prompt

LEMMA EndAttemptStep ==
  ASSUME IInv, NEW a \in Attempts, EndAttempt(a)
  PROVE  IInv'
  BY AttemptMovesStep DEF EndAttempt

LEMMA CancelWaitStep ==
  ASSUME IInv, NEW a \in Attempts, CancelWait(a)
  PROVE  IInv'
  BY AttemptMovesStep DEF CancelWait

LEMMA NotifyStep ==
  ASSUME IInv, Notify
  PROVE  IInv'
  <1>1. /\ attempts' \in [Attempts -> Attempt]
        /\ \A a \in Attempts : attempts'[a].pc = "routing" => attempts'[a] = attempts[a]
    <2>1. attempts' = Notified(attempts) \/ attempts' = attempts
      BY DEF Notify
    <2>2. ASSUME NEW a \in Attempts
          PROVE  [attempts[a] EXCEPT !.pc = "woken"] \in Attempt
      BY DEF IInv, TypeOK, Attempt
    <2> QED
      BY <2>1, <2>2 DEF Notified, IInv, TypeOK, Attempt
  <1>2. notifying' \in BOOLEAN
    BY DEF Notify
  <1> QED
    BY <1>1, <1>2, AttemptStep DEF Notify, tasks

\* A router replaces the leased target and the published one together, and asks
\* for exactly the model it published.
LEMMA RouteStep ==
  ASSUME IInv, NEW a \in Attempts, NEW t \in Targets, Route(a, t)
  PROVE  IInv'
  <1> USE DEF IInv
  <1>1. /\ lease # None /\ lease \in Lease /\ lease.holder = a /\ t \in Concrete
        /\ UNCHANGED <<live, intents, tasks, backend>>
    BY DEF Route, Holds, TypeOK
  <1>2. CASE attempts' = [attempts EXCEPT ![a].pc = "ended"]
             /\ UNCHANGED <<store, actor, deferredMutation, lease, ops>>
    BY <1>1, <1>2, AttemptMovesStep
  <1>3. CASE /\ lease' = [lease EXCEPT !.target = t, !.reasoning = None]
             /\ deferredMutation' = None
             /\ store' = WithTarget(store, t, "ui")
             /\ \E r \in Requests :
                  /\ Free(r)
                  /\ Enqueue(r, RouteRequest(r, a, t), WithTarget(store, t, "ui"), ops)
                  /\ attempts' = [attempts EXCEPT ![a] =
                       [pc |-> "routing", req |-> r, previous |-> lease.target,
                        previousReasoning |-> lease.reasoning]]
    <2>1. PICK r \in Requests :
            /\ Free(r)
            /\ Enqueue(r, RouteRequest(r, a, t), WithTarget(store, t, "ui"), ops)
            /\ attempts' = [attempts EXCEPT ![a] =
                 [pc |-> "routing", req |-> r, previous |-> lease.target,
                  previousReasoning |-> lease.reasoning]]
      BY <1>3
    <2> DEFINE o == RouteRequest(r, a, t)
               published == WithTarget(store, t, "ui")
    <2>2. o \in Operation /\ o.token = a /\ o.target = t
      BY NewOperationType DEF RouteRequest, Operation, MaybeRequest, MaybeTarget
    <2>3. ~o.needs /\ o.exact /\ o.outcome = None
      BY DEF RouteRequest, NewOperation
    <2>4. published \in StoreState /\ published.target = t
      BY WithTargetType DEF TypeOK, MaybeTarget
    <2>5. /\ lease' \in Lease /\ lease'.target = t /\ lease'.holder = a
      BY <1>1, <1>3 DEF Lease, MaybeTarget
    <2> HIDE DEF o, published
    <2>6. Enqueue(r, o, published, ops) /\ ops[r].pc = "free" /\ store' = published
      BY <1>3, <2>1 DEF Free, o, published
    <2>7. /\ sync' \in Sync /\ latest' = r /\ current' \in MaybeRequest
          /\ ops' \in [Requests -> Operation]
          /\ PickInv'
          /\ \A q \in Requests : ops[q].pc # "free" /\ ops[q].token = None
                               => ops'[q].pc # "free" /\ ops'[q].token = None
      BY <2>2, <2>4, <2>6, EnqueueStep
    <2>8. /\ attempts' \in [Attempts -> Attempt]
          /\ attempts'[a].previous \in Targets /\ attempts'[a].req = r
          /\ \A b \in Attempts : b # a => attempts'[b] = attempts[b]
      BY <1>1, <2>1 DEF TypeOK, Attempt, MaybeRequest, MaybeTarget, Lease
    <2>9. TypeOK'
      BY <1>1, <1>3, <2>4, <2>5, <2>6, <2>7, <2>8 DEF TypeOK, intents, tasks, MaybeRequest
    <2>10. GateInv'
      BY <1>1, <2>7, GateFrame DEF tasks
    <2>11. RouteOperationInv(a, r)'
      <3>1. ops'[r] = [o EXCEPT !.pc = IF current = None THEN "resolving" ELSE "queued",
                                !.selectionAt = selection, !.targetAt = published.target]
        BY <2>6 DEF Enqueue
      <3>2. /\ ops'[r].token = a /\ ops'[r].target = t /\ ops'[r].outcome = None
            /\ ops'[r].pc = (IF current = None THEN "resolving" ELSE "queued")
        BY <2>2, <2>3, <3>1 DEF Operation
      <3>3. ~ops'[r].needs /\ ops'[r].exact
        BY <2>2, <2>3, <3>1 DEF Operation
      <3>4. latest' = r /\ current' = (IF current = None THEN r ELSE current)
        BY <2>6 DEF Enqueue
      <3> QED
        BY <2>5, <3>2, <3>3, <3>4, TargetAssumption DEF RouteOperationInv, Executing, Outcomes
    <2>12. RouteInv'
      <3>1. ASSUME NEW b \in Attempts, Holds(b)'
            PROVE  b = a
        BY <2>5, <3>1 DEF Holds
      <3>2. \A b \in Attempts : b # a /\ attempts'[b].pc = "routing" => ~live
        BY <1>1, <2>8 DEF RouteInv, Holds
      <3>3. Holds(a)'
        BY <2>5, TargetAssumption DEF Holds
      <3> QED
        BY <1>1, <2>5, <2>8, <2>11, <3>1, <3>2, <3>3 DEF RouteInv
    <2>13. LeaseTargetPublished'
      BY <2>4, <2>5, <2>6 DEF LeaseTargetPublished, Matches
    <2> QED
      BY <2>7, <2>9, <2>10, <2>12, <2>13
  <1> QED
    BY <1>2, <1>3 DEF Route

\* The router ends with the leased and the published target equal: it keeps the
\* model that was applied to it, or goes back with both.
LEMMA RoutedStep ==
  ASSUME IInv, NEW a \in Attempts, Routed(a)
  PROVE  IInv'
  <1> USE DEF IInv
  <1> DEFINE o == ops[attempts[a].req]
             previous == attempts[a].previous
  <1>1. /\ attempts[a].pc = "routing" /\ o.outcome # None
        /\ UNCHANGED <<live, actor, intents, tasks, ops, backend>>
    BY DEF Routed
  <1>2. Holds(a) => /\ lease \in Lease /\ lease.target \in Concrete /\ previous \in Targets
                    /\ o.outcome = "committed" => o.effective = lease.target
    BY <1>1 DEF RouteInv, RouteOperationInv, TypeOK, Holds
  <1>3. previous \in MaybeTarget /\ attempts[a].previousReasoning \in MaybeTarget
    BY DEF TypeOK, Attempt
  <1>4. \E x \in {"prompting", "rerouting", "ended"} : attempts' = [attempts EXCEPT ![a].pc = x]
    BY DEF Routed
  <1>5. /\ attempts' \in [Attempts -> Attempt]
        /\ attempts'[a].pc # "routing"
        /\ \A b \in Attempts : b # a => attempts'[b] = attempts[b]
    <2>1. PICK x \in {"prompting", "rerouting", "ended"} : attempts' = [attempts EXCEPT ![a].pc = x]
      BY <1>4
    <2>2. [attempts[a] EXCEPT !.pc = x] \in Attempt /\ attempts'[a] = [attempts[a] EXCEPT !.pc = x]
      BY <2>1 DEF TypeOK, Attempt
    <2>3. attempts'[a].pc = x
      BY <2>2 DEF TypeOK, Attempt
    <2> QED
      BY <2>1, <2>2, <2>3 DEF TypeOK
  <1>6. /\ store' \in StoreState /\ deferredMutation' \in StoreState \cup {None}
        /\ lease' \in Lease \cup {None}
        /\ ~Holds(a) => lease' = lease
        /\ Holds(a) => lease'.holder = a
        /\ live /\ Holds(a) => store'.target = lease'.target
    <2>1. CASE Applied(o)
      <3>1. /\ store' = store
            /\ Holds(a) => lease' = [lease EXCEPT !.target = o.effective, !.reasoning = store.reasoning]
            /\ ~Holds(a) => lease' = lease
            /\ deferredMutation' \in {None, deferredMutation}
        BY <2>1 DEF Routed
      <3>2. Holds(a) => o.effective = lease.target /\ o.effective \in Targets
        BY <1>2, <2>1 DEF Applied, Concrete
      <3>3. live /\ Holds(a) => store.target = lease.target
        BY <1>2 DEF LeaseTargetPublished, Matches, Concrete, Holds
      <3>4. store.reasoning \in MaybeTarget
        BY DEF TypeOK, StoreState
      <3>5. Holds(a) => lease' \in Lease /\ lease'.target = lease.target /\ lease'.holder = a
        BY <1>2, <3>1, <3>2, <3>4 DEF Lease, Holds
      <3> QED
        BY <3>1, <3>3, <3>5 DEF TypeOK
    <2>2. CASE ~Applied(o)
      <3>1. /\ store' = IF live THEN WithTarget(store, previous, "ui") ELSE store
            /\ Holds(a) => lease' = [lease EXCEPT !.target = previous,
                                                 !.reasoning = attempts[a].previousReasoning]
            /\ ~Holds(a) => lease' = lease
            /\ deferredMutation' = deferredMutation
        BY <2>2 DEF Routed
      <3>2. Holds(a) => lease' \in Lease /\ lease'.target = previous /\ lease'.holder = a
        BY <1>2, <1>3, <3>1 DEF Lease, Holds
      <3>3. store' \in StoreState /\ (live => store'.target = previous)
        BY <1>3, <3>1, WithTargetType DEF TypeOK
      <3> QED
        BY <3>1, <3>2, <3>3 DEF TypeOK
    <2> QED
      BY <2>1, <2>2
  <1>7. TypeOK'
    BY <1>1, <1>5, <1>6 DEF TypeOK, actor, intents, tasks
  <1>8. GateInv' /\ PickInv'
    BY <1>1, GateFrame DEF GateInv, PickInv, tasks
  <1>9. live => Holds(a)
    BY <1>1 DEF RouteInv
  <1>10. RouteInv'
    <2>1. CASE Holds(a)
      <3>1. \A b \in Attempts : b # a /\ attempts'[b].pc = "routing" => ~live /\ ~Holds(b)'
        BY <1>5, <1>6, <2>1 DEF RouteInv, Holds
      <3> QED
        BY <1>1, <1>5, <3>1 DEF RouteInv
    <2>2. CASE ~Holds(a)
      <3>1. \A b \in Attempts : attempts'[b].pc = "routing" => attempts'[b] = attempts[b]
        BY <1>5
      <3>2. \A b \in Attempts, q \in Requests : RouteOperationInv(b, q) => RouteOperationInv(b, q)'
        BY <1>1, <1>6, <2>2, RouteUnchanged DEF actor
      <3> QED
        BY <1>1, <1>6, <2>2, <3>1, <3>2, RouteFrame
    <2> QED
      BY <2>1, <2>2
  <1>11. LeaseTargetPublished'
    BY <1>1, <1>6, <1>9 DEF LeaseTargetPublished, Matches
  <1> QED
    BY <1>7, <1>8, <1>10, <1>11

LEMMA ReleaseStep ==
  ASSUME IInv, NEW a \in Attempts, Release(a)
  PROVE  IInv'
  <1> USE DEF IInv
  <1>1. /\ attempts[a].pc = "ended"
        /\ attempts' = [attempts EXCEPT ![a] = [NewAttempt EXCEPT !.pc = "done"]]
        /\ UNCHANGED <<live, latest, current, ops, backend>>
    BY DEF Release
  <1>2. /\ attempts' \in [Attempts -> Attempt]
        /\ \A b \in Attempts : attempts'[b].pc = "routing" => attempts'[b] = attempts[b] /\ b # a
    <2>1. [NewAttempt EXCEPT !.pc = "done"] \in Attempt /\ [NewAttempt EXCEPT !.pc = "done"].pc = "done"
      BY DEF NewAttempt, Attempt, MaybeRequest, MaybeTarget
    <2> QED
      BY <1>1, <2>1 DEF TypeOK
  <1>3. CASE ~Holds(a)
    <2>1. UNCHANGED <<store, sync, intents, deferredMutation, lease, tasks>>
      BY <1>3 DEF Release
    <2> QED
      BY <1>1, <1>2, <2>1, AttemptStep DEF actor, tasks, TypeOK
  <1>4. CASE Holds(a)
    <2>1. /\ lease' = None /\ deferredSelection' = None /\ deferredMutation' = None
          /\ selection' = PromotedPick /\ gate' = <<>> /\ woken' = woken \o gate
          /\ notifying' = (notifying \/ latest = None)
      BY <1>4 DEF Release, OpenedGate
    <2>2. sync' \in Sync /\ store' \in StoreState
      <3>1. CASE UNCHANGED <<store, sync>>
        BY <3>1 DEF TypeOK
      <3>2. CASE ~(deferredSelection = None /\ deferredMutation # None)
        BY <1>4, <3>1, <3>2 DEF Release
      <3>3. CASE deferredSelection = None /\ deferredMutation # None
        <4> DEFINE m == deferredMutation
        <4>1. /\ sync' = SettledOrUnresolved(m.target)
              /\ store' = IF m.source = "ui"
                          THEN WithReasoning(WithTarget(store, m.target, "ui"), m.reasoning)
                          ELSE m
          BY <1>4, <3>3 DEF Release
        <4>2. m \in StoreState /\ m.target \in MaybeTarget /\ m.reasoning \in MaybeTarget
          BY <3>3 DEF TypeOK, StoreState
        <4>3. sync' \in Sync
          BY <4>1, <4>2, SyncType DEF TypeOK, MaybeRequest
        <4>4. WithReasoning(WithTarget(store, m.target, "ui"), m.reasoning) \in StoreState
          BY <4>2, WithTargetType, WithReasoningType DEF TypeOK
        <4> QED
          BY <4>1, <4>2, <4>3, <4>4
      <3> QED
        BY <3>2, <3>3
    <2>3. selection' \in Selection \cup {None}
      BY <2>1 DEF PromotedPick, TypeOK
    <2>4. /\ gate' \in Seq(Requests) /\ woken' \in Seq(Requests)
          /\ Range(gate') \cup Range(woken') \subseteq Range(gate) \cup Range(woken)
      BY <2>1, GateEmptied
    <2>5. TypeOK'
      BY <1>1, <1>2, <2>1, <2>2, <2>3, <2>4 DEF TypeOK
    <2>6. GateInv'
      BY <1>1, <2>4, GateFrame
    <2>7. PickInv'
      BY <1>1 DEF PickInv
    <2>8. RouteInv'
      <3>1. \A b \in Attempts : attempts'[b].pc = "routing" => ~live
        BY <1>2, <1>4 DEF RouteInv, Holds
      <3>2. \A b \in Attempts : ~Holds(b)'
        BY <2>1 DEF Holds
      <3> QED
        BY <1>1, <3>1, <3>2 DEF RouteInv
    <2>9. LeaseTargetPublished'
      BY <2>1 DEF LeaseTargetPublished
    <2> QED
      BY <2>5, <2>6, <2>7, <2>8, <2>9
  <1> QED
    BY <1>3, <1>4
-----------------------------------------------------------------------------
(* Picks and the requests of the session controller *)

\* A step that replaces one operation no router made by another such operation.
LEMMA OperationStep ==
  ASSUME IInv, NEW r \in Requests, NEW o \in Operation,
         ops' = [ops EXCEPT ![r] = o],
         ops[r].pc # "free" => o.pc # "free" /\ o.token = ops[r].token,
         o.pc = "locating" => o.token = None,
         \A a \in Attempts : RouteOperationInv(a, r) => RouteOperationInv(a, r)',
         UNCHANGED <<live, latest, current, lease, attempts>>,
         Range(gate') \cup Range(woken') \subseteq Range(gate) \cup Range(woken)
  PROVE  ops' \in [Requests -> Operation] /\ GateInv' /\ PickInv' /\ RouteInv'
  <1> USE DEF IInv
  <1>1. /\ ops' \in [Requests -> Operation] /\ ops'[r] = o
        /\ \A q \in Requests : q # r => ops'[q] = ops[q]
    BY DEF TypeOK
  <1>2. GateInv'
    BY <1>1, GateFrame
  <1>3. PickInv'
    BY <1>1 DEF PickInv
  <1>4. ASSUME NEW a \in Attempts, NEW q \in Requests, RouteOperationInv(a, q)
        PROVE  RouteOperationInv(a, q)'
    BY <1>1, <1>4, RouteUnchanged
  <1>5. RouteInv'
    BY <1>4, RouteFrame
  <1> QED
    BY <1>1, <1>2, <1>3, <1>5

LEMMA RecordStep ==
  ASSUME IInv, NEW r \in Requests, NEW t \in Targets, NEW cleared \in Selection \cup {None},
         Free(r), Record(r, t, cleared)
  PROVE  IInv'
  <1> USE DEF IInv
  <1> DEFINE o == [NewOperation EXCEPT !.pc = "locating", !.id = r, !.target = t, !.claimed = TRUE]
  <1>1. o \in Operation /\ o.pc = "locating" /\ o.token = None
    <2>1. /\ o \in Operation /\ o.pc = "locating"
      BY NewOperationType DEF Operation, MaybeRequest, MaybeTarget
    <2>2. o.token = None
      BY DEF NewOperation
    <2> QED
      BY <2>1, <2>2
  <1>2. /\ ops' = [ops EXCEPT ![r] = o]
        /\ UNCHANGED <<live, actor, deferredMutation, lease, tasks, attempts, backend>>
    BY DEF Record
  <1> HIDE DEF o
  <1>3. ops' \in [Requests -> Operation] /\ GateInv' /\ PickInv' /\ RouteInv'
    <2>1. \A a \in Attempts : ~RouteOperationInv(a, r)
      BY DEF Free, RouteOperationInv, Executing
    <2> QED
      BY <1>1, <1>2, <2>1, OperationStep DEF Free, actor, tasks
  <1>4. [id |-> r, target |-> t] \in Selection
    BY DEF Selection
  <1>5. /\ selection' \in Selection \cup {None} /\ deferredSelection' \in Selection \cup {None}
        /\ store' \in StoreState /\ (lease # None => store' = store)
    BY <1>4, WithTargetType DEF Record, TypeOK, MaybeTarget
  <1>6. TypeOK'
    BY <1>2, <1>3, <1>5 DEF TypeOK, actor, tasks
  <1>7. LeaseTargetPublished'
    BY <1>2, <1>5 DEF LeaseTargetPublished, Matches
  <1> QED
    BY <1>3, <1>6, <1>7

LEMMA PickModelStep ==
  ASSUME IInv, NEW r \in Requests, NEW t \in Targets, PickModel(r, t)
  PROVE  IInv'
  BY RecordStep DEF PickModel, IInv, TypeOK

LEMMA PickProviderStep ==
  ASSUME IInv, NEW r \in Requests, NEW t \in Targets, PickProvider(r, t)
  PROVE  IInv'
  <1>1. (IF deferredSelection # None THEN selection ELSE None) \in Selection \cup {None}
    BY DEF IInv, TypeOK
  <1> QED
    BY <1>1, RecordStep DEF PickProvider

\* A request of a caller without the lease waits at the gate or is enqueued.
LEMMA RequestStep ==
  ASSUME IInv, NEW r \in Requests, NEW o \in Operation, o.token = None,
         ops[r].pc \in {"free", "locating"}, Request(r, o),
         UNCHANGED <<live, store, intents, deferredMutation, lease, woken, notifying,
                     attempts, backend>>
  PROVE  IInv'
  <1> USE DEF IInv
  <1>1. \A a \in Attempts : ~RouteOperationInv(a, r)
    BY DEF RouteOperationInv, Executing
  <1>2. CASE lease # None
    <2> DEFINE b == [o EXCEPT !.pc = "blocked"]
    <2>1. b \in Operation /\ b.pc = "blocked" /\ b.token = None
      BY DEF Operation
    <2>2. /\ ops' = [ops EXCEPT ![r] = b] /\ gate' = Append(gate, r) /\ UNCHANGED actor
      BY <1>2 DEF Request
    <2> HIDE DEF b
    <2>3. /\ ops' \in [Requests -> Operation] /\ ops'[r] = b
          /\ \A q \in Requests : q # r => ops'[q] = ops[q]
      BY <2>1, <2>2 DEF TypeOK
    <2>4. gate' \in Seq(Requests) /\ Range(gate') = Range(gate) \cup {r}
      BY <2>2, RangeSeq DEF TypeOK
    <2>5. TypeOK'
      BY <2>2, <2>3, <2>4 DEF TypeOK, actor, intents
    <2>6. GateInv'
      <3>1. Range(gate) \cup Range(woken) \subseteq Requests
        BY RangeSeq DEF TypeOK
      <3> QED
        BY <2>1, <2>3, <2>4, <3>1 DEF GateInv
    <2>7. PickInv'
      BY <2>1, <2>3 DEF PickInv
    <2>8. RouteInv'
      <3>1. ASSUME NEW a \in Attempts, NEW q \in Requests, RouteOperationInv(a, q)
            PROVE  RouteOperationInv(a, q)'
        BY <1>1, <2>2, <2>3, <3>1, RouteUnchanged DEF actor
      <3> QED
        BY <3>1, RouteFrame
    <2>9. LeaseTargetPublished'
      BY LeaseFrame
    <2> QED
      BY <2>5, <2>6, <2>7, <2>8, <2>9
  <1>3. CASE lease = None
    <2>1. Enqueue(r, o, store, ops) /\ UNCHANGED gate /\ store \in StoreState
      BY <1>3 DEF Request, TypeOK
    <2>2. /\ sync' \in Sync /\ latest' = r /\ current' \in MaybeRequest
          /\ ops' \in [Requests -> Operation]
          /\ PickInv'
          /\ \A q \in Requests : ops[q].pc # "free" /\ ops[q].token = None
                               => ops'[q].pc # "free" /\ ops'[q].token = None
      BY <2>1, EnqueueStep
    <2>3. TypeOK'
      BY <2>1, <2>2 DEF TypeOK, intents, MaybeRequest
    <2>4. GateInv'
      BY <2>1, <2>2, GateFrame
    <2>5. RouteInv'
      <3>1. ASSUME NEW a \in Attempts, NEW q \in Requests, RouteOperationInv(a, q)
            PROVE  RouteOperationInv(a, q)'
        <4>1. q # r
          BY <1>1, <3>1
        <4> QED
          BY <2>1, <3>1, <4>1, RouteEnqueue
      <3> QED
        BY <3>1, RouteFrame
    <2>6. LeaseTargetPublished'
      BY LeaseFrame
    <2> QED
      BY <2>2, <2>3, <2>4, <2>5, <2>6
  <1> QED
    BY <1>2, <1>3

LEMMA LocatedStep ==
  ASSUME IInv, NEW r \in Requests, Located(r)
  PROVE  IInv'
  <1> USE DEF IInv
  <1>1. /\ ops[r] \in Operation /\ ops[r].pc = "locating" /\ ops[r].token = None
        /\ UNCHANGED <<live, store, intents, deferredMutation, lease, woken, notifying,
                       attempts, backend>>
    BY DEF Located, TypeOK, PickInv
  <1>2. CASE Request(r, ops[r])
    BY <1>1, <1>2, RequestStep
  <1>3. CASE ops' = [ops EXCEPT ![r].pc = "unrequested"] /\ UNCHANGED <<actor, gate>>
    <2> DEFINE o == [ops[r] EXCEPT !.pc = "unrequested"]
    <2>1. o \in Operation /\ o.pc = "unrequested" /\ o.token = None
      BY <1>1 DEF Operation
    <2>2. ops' = [ops EXCEPT ![r] = o]
      BY <1>3 DEF TypeOK
    <2> HIDE DEF o
    <2>3. \A a \in Attempts : ~RouteOperationInv(a, r)
      BY <1>1 DEF RouteOperationInv, Executing
    <2>4. ops' \in [Requests -> Operation] /\ GateInv' /\ PickInv' /\ RouteInv'
      BY <1>1, <1>3, <2>1, <2>2, <2>3, OperationStep DEF actor
    <2>5. TypeOK'
      BY <1>1, <1>3, <2>4 DEF TypeOK, actor, intents
    <2>6. LeaseTargetPublished'
      BY <1>1, LeaseFrame
    <2> QED
      BY <2>4, <2>5, <2>6
  <1> QED
    BY <1>2, <1>3 DEF Located

LEMMA ClearPickStep ==
  ASSUME IInv, NEW r \in Requests, ClearPick(r)
  PROVE  IInv'
  <1> USE DEF IInv
  <1> DEFINE o == [ops[r] EXCEPT !.claimed = FALSE]
  <1>1. /\ ops[r] \in Operation /\ ops' = [ops EXCEPT ![r] = o]
        /\ ops[r].pc = "unrequested" \/ ops[r].outcome # None
        /\ UNCHANGED <<live, store, actor, deferredMutation, lease, tasks, attempts, backend>>
    BY DEF ClearPick, TypeOK
  <1>2. /\ o \in Operation /\ o.pc = ops[r].pc /\ o.token = ops[r].token
        /\ o.target = ops[r].target /\ o.effective = ops[r].effective
        /\ o.outcome = ops[r].outcome
    BY <1>1 DEF Operation
  <1>3. o.needs = ops[r].needs /\ o.exact = ops[r].exact
    BY <1>1 DEF Operation
  <1> HIDE DEF o
  <1>4. ops'[r] = o
    BY <1>1 DEF TypeOK
  <1>5. ASSUME NEW a \in Attempts, RouteOperationInv(a, r)
        PROVE  RouteOperationInv(a, r)'
    BY <1>1, <1>2, <1>3, <1>4, <1>5 DEF RouteOperationInv, Executing, actor
  <1>6. ops' \in [Requests -> Operation] /\ GateInv' /\ PickInv' /\ RouteInv'
    BY <1>1, <1>2, <1>5, OperationStep DEF actor, tasks, PickInv
  <1>7. selection' \in Selection \cup {None} /\ deferredSelection' \in Selection \cup {None}
    BY DEF ClearPick, Cleared, TypeOK
  <1>8. TypeOK'
    BY <1>1, <1>6, <1>7 DEF TypeOK, actor, tasks
  <1>9. LeaseTargetPublished'
    BY <1>1, LeaseFrame
  <1> QED
    BY <1>6, <1>8, <1>9

LEMMA ReprepareStep ==
  ASSUME IInv, NEW r \in Requests, Reprepare(r)
  PROVE  IInv'
  <1> USE DEF IInv
  <1>1. /\ ops[r].pc = "free" /\ store.target \in MaybeTarget
        /\ VisibleIntent \in Selection \cup {None}
        /\ UNCHANGED <<live, store, actor, intents, deferredMutation, lease, tasks,
                       attempts, backend>>
    BY DEF Reprepare, Free, VisibleIntent, TypeOK, StoreState
  <1>2. ASSUME NEW id \in MaybeRequest, NEW t \in MaybeTarget,
               ops' = [ops EXCEPT ![r] =
                 [NewOperation EXCEPT !.pc = "locating", !.id = id, !.target = t]]
        PROVE  IInv'
    <2> DEFINE o == [NewOperation EXCEPT !.pc = "locating", !.id = id, !.target = t]
    <2>1. o \in Operation
      BY NewOperationType DEF Operation
    <2>2. o.token = None
      BY DEF NewOperation
    <2>3. ops' = [ops EXCEPT ![r] = o]
      BY <1>2
    <2> HIDE DEF o
    <2>4. \A a \in Attempts : ~RouteOperationInv(a, r)
      BY <1>1 DEF RouteOperationInv, Executing
    <2>5. ops' \in [Requests -> Operation] /\ GateInv' /\ PickInv' /\ RouteInv'
      BY <1>1, <2>1, <2>2, <2>3, <2>4, OperationStep DEF actor, tasks
    <2>6. TypeOK'
      BY <1>1, <2>5 DEF TypeOK, actor, intents, tasks
    <2>7. LeaseTargetPublished'
      BY <1>1, LeaseFrame
    <2> QED
      BY <2>5, <2>6, <2>7
  <1>3. CASE VisibleIntent # None
    <2>1. VisibleIntent.id \in MaybeRequest /\ VisibleIntent.target \in MaybeTarget
      BY <1>1, <1>3 DEF Selection, MaybeRequest, MaybeTarget
    <2> QED
      BY <1>2, <1>3, <2>1 DEF Reprepare
  <1>4. CASE VisibleIntent = None
    BY <1>1, <1>2, <1>4 DEF Reprepare, MaybeRequest
  <1> QED
    BY <1>3, <1>4

LEMMA RefreshStep ==
  ASSUME IInv, NEW r \in Requests, NEW t \in Targets, Refresh(r, t)
  PROVE  IInv'
  <1> DEFINE o == [NewOperation EXCEPT !.id = r, !.target = t, !.needs = TRUE]
  <1>1. o \in Operation /\ o.token = None
    BY NewOperationType DEF Operation, MaybeRequest, MaybeTarget
  <1> HIDE DEF o
  <1>2. /\ Request(r, o) /\ ops[r].pc = "free"
        /\ UNCHANGED <<live, store, intents, deferredMutation, lease, woken, notifying,
                       attempts, backend>>
    BY DEF Refresh, Free, o
  <1> QED
    BY <1>1, <1>2, RequestStep
-----------------------------------------------------------------------------
(* Observations *)

\* An observation publishes through the subscriber, or is put aside.
LEMMA ObservationStep ==
  ASSUME IInv, Observation, sync' \in Sync, store' \in StoreState,
         deferredMutation' \in StoreState \cup {None},
         lease # None => store' = store \/ Matches(store'.target, lease.target)
  PROVE  IInv'
  <1> USE DEF IInv, Observation
  <1>1. TypeOK'
    BY DEF TypeOK, intents, tasks
  <1>2. GateInv' /\ PickInv'
    BY GateFrame DEF GateInv, PickInv, tasks
  <1>3. \A a \in Attempts, q \in Requests : RouteOperationInv(a, q) => RouteOperationInv(a, q)'
    BY RouteUnchanged
  <1>4. RouteInv'
    BY <1>3, RouteFrame
  <1>5. LeaseTargetPublished'
    BY DEF LeaseTargetPublished, Matches
  <1> QED
    BY <1>1, <1>2, <1>4, <1>5

LEMMA ObservationPublishes ==
  ASSUME IInv, Observation, sync' \in Sync, NEW s \in StoreState, Publish(s, None)
  PROVE  IInv'
  <1>1. /\ store' \in StoreState
        /\ deferredMutation' \in StoreState \cup {None}
        /\ lease # None => Matches(store'.target, lease.target)
    BY PublishLease DEF IInv, MaybeTarget
  <1> QED
    BY <1>1, ObservationStep

LEMMA HydrateStep ==
  ASSUME IInv, NEW t \in Targets, Hydrate(t)
  PROVE  IInv'
  <1>1. /\ store \in StoreState /\ sync \in Sync /\ Hydrated(t) \in StoreState
        /\ Observed(t, None) \in StoreState /\ Settled(t) \in Sync
    <2>1. store \in StoreState /\ sync \in Sync
      BY DEF IInv, TypeOK
    <2> QED
      BY <2>1, WithTargetType, SyncType
      DEF Hydrated, Observed, StoreState, MaybeTarget, MaybeRequest
  <1>2. Observation
    BY DEF Hydrate
  <1>3. CASE lease = None
    BY <1>1, <1>2, <1>3, ObservationPublishes DEF Hydrate
  <1>4. CASE lease # None /\ AgreesWithLease(t)
    BY <1>1, <1>2, <1>4, ObservationPublishes DEF Hydrate
  <1>5. CASE lease # None /\ ~AgreesWithLease(t)
    BY <1>1, <1>2, <1>5, ObservationStep DEF Hydrate
  <1> QED
    BY <1>3, <1>4, <1>5

LEMMA ReplaceAfterDispatchStep ==
  ASSUME IInv, NEW t \in MaybeTarget, ReplaceAfterDispatch(t)
  PROVE  IInv'
  <1>1. /\ store \in StoreState /\ sync' \in Sync /\ Observation
        /\ WithTarget(store, t, "ui") \in StoreState
        /\ [target |-> t, source |-> "ui", reasoning |-> None] \in StoreState
    BY WithTargetType DEF ReplaceAfterDispatch, IInv, TypeOK, StoreState, MaybeTarget
  <1>2. CASE lease = None
    BY <1>1, <1>2, ObservationPublishes DEF ReplaceAfterDispatch
  <1>3. CASE lease # None
    BY <1>1, <1>3, ObservationStep DEF ReplaceAfterDispatch
  <1> QED
    BY <1>2, <1>3

LEMMA WriteStoreStep ==
  ASSUME IInv, NEW t \in MaybeTarget, WriteStore(t)
  PROVE  IInv'
  <1>1. sync' \in Sync /\ Observation /\ WithTarget(store, t, "ui") \in StoreState
    BY WithTargetType DEF WriteStore, IInv, TypeOK
  <1> QED
    BY <1>1, ObservationPublishes DEF WriteStore

LEMMA ObserveModelStep ==
  ASSUME IInv, NEW t \in Targets, NEW q \in MaybeRequest, NEW m \in MaybeTarget,
         ObserveModel(t, q, m)
  PROVE  IInv'
  <1>1. Observation /\ store \in StoreState /\ sync \in Sync /\ store.source \in {"ui", "acp"}
    BY DEF ObserveModel, IInv, TypeOK, StoreState
  <1>2. ASSUME NEW source \in {"ui", "acp"}, NEW r \in MaybeTarget,
               PublishObserved(t, source, r), sync' \in Sync
        PROVE  IInv'
    <2>1. WithReasoning(WithTarget(store, t, source), r) \in StoreState
      BY <1>1, WithTargetType, WithReasoningType DEF MaybeTarget
    <2> QED
      BY <1>1, <1>2, <2>1, ObservationPublishes DEF PublishObserved
  <1>3. CASE deferredMutation' = Observed(t, m) /\ UNCHANGED <<store, sync>>
    <2>1. Observed(t, m) \in StoreState
      BY DEF Observed, StoreState, MaybeTarget
    <2> QED
      BY <1>1, <1>3, <2>1, ObservationStep
  <1>4. CASE \E r \in MaybeTarget : PublishObserved(t, store.source, r) /\ UNCHANGED sync
    BY <1>1, <1>2, <1>4
  <1>5. CASE \E source \in {"ui", "acp"}, r \in MaybeTarget :
               PublishObserved(t, source, r) /\ sync' \in Sync
    BY <1>2, <1>5
  <1> DEFINE id == IF q = None \/ ops[q].token # None \/ ops[q].needs THEN None ELSE ops[q].id
             owns == id # None /\ Owns(id)
             matchesSelection == /\ q # None /\ selection.id = id
                                 /\ Provider[t] = Provider[selection.target]
                                 /\ selection.target \in Boundaries \/ t = selection.target
             matchesLocal == q # None /\ t = store.target
             paired == IF selection # None THEN matchesSelection
                       ELSE store.source # "ui" \/ matchesLocal
  <1>6. id \in MaybeRequest
    BY DEF IInv, TypeOK, Operation, MaybeRequest
  <1> HIDE DEF id, owns, matchesSelection, matchesLocal, paired
  <1>7. \/ deferredMutation' = Observed(t, m) /\ UNCHANGED <<store, sync>>
        \/ /\ PublishObserved(t, store.source, IF store.source # "ui" \/ matchesLocal THEN m ELSE None)
           /\ UNCHANGED sync
        \/ /\ sync' = IF owns THEN Acknowledged(id, t)
                      ELSE IF selection = None THEN Settled(t) ELSE sync
           /\ PublishObserved(t, IF store.source = "ui" \/ selection # None THEN "ui" ELSE "acp",
                              IF paired THEN m ELSE None)
    BY DEF ObserveModel, id, owns, matchesSelection, matchesLocal, paired
  <1>8. CASE /\ PublishObserved(t, store.source, IF store.source # "ui" \/ matchesLocal THEN m ELSE None)
             /\ UNCHANGED sync
    BY <1>4, <1>8 DEF MaybeTarget
  <1>9. CASE /\ sync' = IF owns THEN Acknowledged(id, t)
                        ELSE IF selection = None THEN Settled(t) ELSE sync
             /\ PublishObserved(t, IF store.source = "ui" \/ selection # None THEN "ui" ELSE "acp",
                                IF paired THEN m ELSE None)
    <2>1. sync' \in Sync
      BY <1>1, <1>6, <1>9, SyncType DEF MaybeTarget
    <2> QED
      BY <1>5, <1>9, <2>1 DEF MaybeTarget
  <1> QED
    BY <1>3, <1>7, <1>8, <1>9

\* The removal of the session drops the lease and settles what is pending.
LEMMA RemoveStep ==
  ASSUME IInv, Remove
  PROVE  IInv'
  <1> USE DEF IInv
  <1>1. /\ live' = FALSE /\ lease' = None /\ UNCHANGED <<attempts, backend>>
        /\ latest' = None /\ current' = None
        /\ gate' = <<>> /\ woken' = woken \o gate
    BY DEF Remove, OpenedGate
  <1>2. ASSUME NEW q \in Requests
        PROVE  /\ ops'[q] \in Operation /\ ops'[q].token = ops[q].token
               /\ ops[q].pc # "free" => ops'[q].pc # "free"
               /\ ops'[q].pc = "locating" => ops[q].pc = "locating"
    <2>1. ops[q] \in Operation
      BY DEF TypeOK
    <2>2. CASE ops'[q] = Settle(ops[q], "session-missing")
      BY <2>1, <2>2 DEF Settle, Operation, Outcomes
    <2>3. CASE ops'[q] = Retired(ops[q], "done", "session-missing", None)
      BY <2>1, <2>3, RetiredType DEF Outcomes, MaybeTarget
    <2>4. CASE ops'[q] = ops[q]
      BY <2>1, <2>4
    <2> QED
      BY <2>2, <2>3, <2>4 DEF Remove
  <1>3. ops' \in [Requests -> Operation]
    BY <1>2 DEF Remove
  <1>4. /\ gate' \in Seq(Requests) /\ woken' \in Seq(Requests)
        /\ Range(gate') \cup Range(woken') \subseteq Range(gate) \cup Range(woken)
    BY <1>1, GateEmptied
  <1>5. TypeOK'
    <2>1. store' \in StoreState /\ sync' \in Sync
      BY DEF Remove, StoreState, MaybeTarget, Unresolved, Sync, MaybeRequest
    <2>2. /\ selection' = None /\ deferredSelection' = None /\ deferredMutation' = None
          /\ notifying' \in BOOLEAN
      BY DEF Remove, TypeOK
    <2> QED
      BY <1>1, <1>3, <1>4, <2>1, <2>2 DEF TypeOK, MaybeRequest
  <1>6. GateInv'
    BY <1>2, <1>4, GateFrame
  <1>7. PickInv'
    BY <1>2 DEF PickInv
  <1>8. RouteInv'
    BY <1>1 DEF RouteInv, Holds
  <1>9. LeaseTargetPublished'
    BY <1>1 DEF LeaseTargetPublished
  <1> QED
    BY <1>5, <1>6, <1>7, <1>8, <1>9
-----------------------------------------------------------------------------
LEMMA InitInv == Init => IInv
  <1> SUFFICES ASSUME Init PROVE IInv
    OBVIOUS
  <1>1. TypeOK
    <2>1. sync \in Sync /\ store \in StoreState
      BY DEF Init, SettledOrUnresolved, Settled, Unresolved, Sync, StoreState, MaybeRequest, MaybeTarget
    <2>2. ops \in [Requests -> Operation]
      BY NewOperationType DEF Init, Operation
    <2>3. attempts \in [Attempts -> Attempt]
      BY DEF Init, NewAttempt, Attempt, MaybeRequest, MaybeTarget
    <2>4. live \in BOOLEAN /\ notifying \in BOOLEAN
      BY DEF Init
    <2>5. latest \in MaybeRequest /\ current \in MaybeRequest /\ backend \in MaybeTarget
      BY DEF Init, MaybeRequest
    <2>6. gate \in Seq(Requests) /\ woken \in Seq(Requests)
      BY DEF Init
    <2>7. /\ selection \in Selection \cup {None} /\ deferredSelection \in Selection \cup {None}
          /\ deferredMutation \in StoreState \cup {None} /\ lease \in Lease \cup {None}
      BY DEF Init
    <2> QED
      BY <2>1, <2>2, <2>3, <2>4, <2>5, <2>6, <2>7 DEF TypeOK
  <1>2. GateInv
    BY DEF Init, GateInv, Range
  <1>3. PickInv
    BY DEF Init, PickInv, NewOperation
  <1>4. RouteInv
    BY DEF Init, RouteInv, NewAttempt
  <1>5. LeaseTargetPublished
    BY DEF Init, LeaseTargetPublished
  <1> QED
    BY <1>1, <1>2, <1>3, <1>4, <1>5 DEF IInv

LEMMA NextInv == IInv /\ [Next]_vars => IInv'
  <1> SUFFICES ASSUME IInv, [Next]_vars PROVE IInv'
    OBVIOUS
  <1>1. CASE RunWoken
    BY <1>1, RunWokenStep
  <1>2. CASE Notify
    BY <1>2, NotifyStep
  <1>3. CASE Observe
    BY <1>3, HydrateStep, ReplaceAfterDispatchStep, WriteStoreStep, ObserveModelStep, RemoveStep
    DEF Observe
  <1>4. ASSUME NEW r \in Requests, Execute(r) PROVE IInv'
    BY <1>4, ResolveStep, ResolveFailsStep, AnswerStep, AnswerFailsStep, DrainStep DEF Execute
  <1>5. ASSUME NEW r \in Requests, User(r) PROVE IInv'
    BY <1>5, PickModelStep, PickProviderStep, LocatedStep, ClearPickStep, ReprepareStep,
       RefreshStep DEF User
  <1>6. ASSUME NEW a \in Attempts, Dispatch(a) PROVE IInv'
    BY <1>6, AcquireStep, PrepareStep, PreparedStep, RouteStep, RoutedStep, PromptStep,
       EndAttemptStep, ReleaseStep, CancelWaitStep DEF Dispatch
  <1>7. CASE UNCHANGED vars
    <2>1. UNCHANGED <<live, store, actor, intents, deferredMutation, lease, tasks, ops,
                      attempts, backend>>
      BY <1>7 DEF vars
    <2>2. notifying' \in BOOLEAN /\ attempts' \in [Attempts -> Attempt]
      BY <2>1 DEF tasks, IInv, TypeOK
    <2> QED
      BY <2>1, <2>2, AttemptStep DEF tasks
  <1> QED
    BY <1>1, <1>2, <1>3, <1>4, <1>5, <1>6, <1>7 DEF Next

LEMMA Invariance == Spec => []IInv
  BY InitInv, NextInv, PTL DEF Spec

\* Every reachable state of the coordinator, its callers and its observers is
\* well typed.
THEOREM TypeCorrect == Spec => []TypeOK
  <1>1. IInv => TypeOK
    BY DEF IInv
  <1> QED
    BY <1>1, Invariance, PTL

\* While a dispatch holds the lease, the session store shows the target it runs
\* on: pickers, observers, hydration, older requests and the router itself never
\* leave the two apart, for any number of them.
THEOREM LeasePublished == Spec => []LeaseTargetPublished
  <1>1. IInv => LeaseTargetPublished
    BY DEF IInv
  <1> QED
    BY <1>1, Invariance, PTL

\* A router keeps its lease as long as the session lives, its request is for the
\* model the lease names, and a committed route leaves exactly that model.
THEOREM RouteKept == Spec => []RouteInv
  <1>1. IInv => RouteInv
    BY DEF IInv
  <1> QED
    BY <1>1, Invariance, PTL
-----------------------------------------------------------------------------
(* The actor: its queue, the picks, and the backend a prompt runs on *)

\* The states of an operation that was handed to the actor.
Active == {"queued", "resolving", "applying", "finished"}
-----------------------------------------------------------------------------
(* What leaves each conjunct alone *)

\* No operation enters or leaves the actor.
LEMMA ActorFrame ==
  ASSUME TypeOK, ActorInv, live' => live, latest' = latest, current' = current,
         \A q \in Requests :
           /\ ops'[q].pc \in Active <=> ops[q].pc \in Active
           /\ ops[q].pc \in Active => ops'[q].pc = ops[q].pc /\ ops'[q].id = ops[q].id,
         sync'.status = "transitioning" => sync' = sync
  PROVE  ActorInv'
  <1>1. latest \in Requests \cup {None} /\ current \in Requests \cup {None}
    BY DEF TypeOK, MaybeRequest
  <1>2. latest # None => ops'[latest].pc = ops[latest].pc /\ ops'[latest].id = ops[latest].id
    BY <1>1 DEF ActorInv, Active, Executing
  <1>3. current # None => ops'[current].pc \in Executing
    BY <1>1 DEF ActorInv, Active, Executing
  <1>4. \A r \in Requests : ops'[r].pc = "queued" => r = latest /\ r # current
    BY DEF ActorInv, Active
  <1>5. \A r \in Requests : live' /\ ops'[r].pc \in Executing => r = current
    BY DEF ActorInv, Active, Executing
  <1>6. sync'.status = "transitioning" =>
          latest # None /\ sync'.op = ops'[latest].id /\ ops'[latest].pc # "finished"
    BY <1>2 DEF ActorInv
  <1>7. latest # current => ops'[latest].pc = "queued"
    BY <1>1, <1>2 DEF ActorInv
  <1> QED
    BY <1>3, <1>4, <1>5, <1>6, <1>7 DEF ActorInv, Executing

LEMMA OutcomeFrame ==
  ASSUME OutcomeInv, current' = current \/ current' = None,
         \A q \in Requests :
           \/ ops'[q] = ops[q]
           \/ ops'[q].pc \in {"locating", "unrequested", "blocked"} /\ ops'[q].outcome = None
  PROVE  OutcomeInv'
  <1> SUFFICES ASSUME NEW r \in Requests
               PROVE  /\ ops'[r].pc \in {"free", "locating", "unrequested", "blocked", "queued"}
                           => ops'[r].outcome = None
                      /\ r = current' /\ ops'[r].pc \in {"resolving", "applying"}
                           => ops'[r].outcome = None
                      /\ ops'[r].pc \in {"finished", "done"} => ops'[r].outcome # None
                      /\ ops'[r].pc = "free" => ~ops'[r].claimed /\ ops'[r].token = None
    BY DEF OutcomeInv
  <1>1. CASE ops'[r] = ops[r]
    <2>1. r = current' => r = current \/ r = None
      OBVIOUS
    <2> QED
      BY <1>1, <2>1, TargetAssumption DEF OutcomeInv
  <1>2. CASE ops'[r].pc \in {"locating", "unrequested", "blocked"} /\ ops'[r].outcome = None
    BY <1>2
  <1> QED
    BY <1>1, <1>2

LEMMA WaitFrame ==
  ASSUME TypeOK, WaitInv, UNCHANGED <<gate, woken>>,
         \A q \in Requests : ops[q].pc = "blocked" => ops'[q].pc = "blocked"
  PROVE  WaitInv'
  <1>1. Range(gate) \cup Range(woken) \subseteq Requests
    BY RangeSeq DEF TypeOK, Range
  <1>2. \A r \in Range(gate') \cup Range(woken') : ops'[r].pc = "blocked"
    BY <1>1 DEF WaitInv
  <1>3. IsInjective(woken' \o gate')
    BY DEF WaitInv
  <1> QED
    BY <1>2, <1>3 DEF WaitInv

\* The gate opens.
LEMMA WaitOpens ==
  ASSUME TypeOK, WaitInv, gate' = <<>>, woken' = woken \o gate,
         \A q \in Requests : ops[q].pc = "blocked" => ops'[q].pc = "blocked"
  PROVE  WaitInv'
  <1>1. Range(gate) \cup Range(woken) \subseteq Requests
    BY RangeSeq DEF TypeOK, Range
  <1>2. Range(gate') \cup Range(woken') \subseteq Range(gate) \cup Range(woken)
    BY GateEmptied
  <1>3. woken' \o gate' = woken \o gate
    <2>1. (woken \o gate) \in Seq(Requests)
      BY DEF TypeOK
    <2> QED
      BY <2>1
  <1> QED
    BY <1>1, <1>2, <1>3 DEF WaitInv

LEMMA IntentFrame ==
  ASSUME TypeOK, IntentInv, UNCHANGED <<selection, deferredSelection>>,
         Range(woken') \subseteq Range(woken),
         deferredSelection # None => lease' # None,
         \A q \in Requests :
           /\ ops[q].claimed => ops'[q].claimed
           /\ q # None /\ deferredSelection # None /\ q = deferredSelection.id
                => (ops[q].pc \in {"locating", "blocked"} => ops'[q].pc \in {"locating", "blocked"})
  PROVE  IntentInv'
  <1>1. /\ selection # None => selection.id \in Requests
        /\ deferredSelection # None => deferredSelection.id \in Requests
    BY DEF TypeOK, Selection
  <1>2. \A q \in Requests : q # None
    BY TargetAssumption
  <1>3. CASE deferredSelection # None
    BY <1>1, <1>2, <1>3 DEF IntentInv
  <1>4. CASE deferredSelection = None
    BY <1>1, <1>4 DEF IntentInv
  <1> QED
    BY <1>3, <1>4

LEMMA TokenFrame ==
  ASSUME TokenInv, \A a \in Attempts : Holds(a)' => Holds(a) /\ lease'.target = lease.target,
         \A a \in Attempts : attempts[a].pc \in {"preparing", "routing"} => attempts'[a] = attempts[a],
         \A q \in Requests :
           ops'[q].token # None /\ ops'[q].outcome = None =>
             /\ ops'[q].token = ops[q].token /\ ops[q].outcome = None
             /\ ops'[q].target = ops[q].target /\ (ops'[q].needs => ops[q].needs)
             /\ ops'[q].pc = "applying" => ops[q].pc = "applying" /\ ops'[q].effective = ops[q].effective
  PROVE  TokenInv'
  <1> SUFFICES ASSUME NEW r \in Requests, NEW a \in Attempts,
                      ops'[r].token = a, ops'[r].outcome = None
               PROVE  /\ attempts'[a].pc \in {"preparing", "routing"} /\ attempts'[a].req = r
                      /\ ~ops'[r].needs
                      /\ Holds(a)' => /\ ops'[r].target = lease'.target
                                      /\ ops'[r].pc = "applying" => ops'[r].effective \in Repair[lease'.target]
    BY DEF TokenInv
  <1>1. a # None
    BY TargetAssumption
  <1>2. /\ ops[r].token = a /\ ops[r].outcome = None /\ ops'[r].target = ops[r].target
        /\ ops'[r].needs => ops[r].needs
        /\ ops'[r].pc = "applying" => ops[r].pc = "applying" /\ ops'[r].effective = ops[r].effective
    BY <1>1
  <1>3. /\ attempts[a].pc \in {"preparing", "routing"} /\ attempts[a].req = r /\ ~ops[r].needs
        /\ Holds(a) => /\ ops[r].target = lease.target
                       /\ ops[r].pc = "applying" => ops[r].effective \in Repair[lease.target]
    BY <1>2 DEF TokenInv
  <1> QED
    BY <1>2, <1>3

LEMMA QuietFrame ==
  ASSUME Quiet, \A q \in Requests : ops'[q].pc \in {"queued", "resolving", "applying"}
                                    => ops[q].pc \in {"queued", "resolving", "applying"}
  PROVE  Quiet'
  BY DEF Quiet

\* The operations an attempt waits for, and the backend, stay as they are.
LEMMA PromptFrame ==
  ASSUME TypeOK, PromptInv,
         \A a \in Attempts : Holds(a)' => Holds(a) /\ lease'.target = lease.target,
         \A a \in Attempts :
           attempts'[a].pc \in {"preparing", "routing", "prepared", "prompting"}
             => attempts'[a] = attempts[a],
         woken = <<>> => woken' = <<>>,
         backend' = backend, Quiet => Quiet',
         \A q \in Requests :
           /\ ops[q].token # None => ops'[q].token = ops[q].token /\ ops'[q].outcome = ops[q].outcome
           /\ latest = q /\ ops[q].outcome = None => latest' = q
  PROVE  PromptInv'
  <1> SUFFICES ASSUME NEW a \in Attempts, Holds(a)' PROVE ServedInv(a)'
    BY DEF PromptInv
  <1>1. Holds(a) /\ lease'.target = lease.target /\ ServedInv(a)
    BY DEF PromptInv
  <1>2. a # None
    BY TargetAssumption
  <1>3. ASSUME attempts'[a].pc \in {"preparing", "routing"}
        PROVE  LET r == attempts'[a].req IN
               /\ woken' = <<>> /\ r \in Requests /\ ops'[r].token = a
               /\ ops'[r].outcome = None => latest' = r
               /\ ops'[r].outcome # None => Quiet'
               /\ ops'[r].outcome = "committed" => Serves(backend', lease'.target)
    <2> DEFINE r == attempts[a].req
    <2>1. attempts'[a] = attempts[a]
      BY <1>3
    <2>2. /\ woken = <<>> /\ r \in Requests /\ ops[r].token = a
          /\ ops[r].outcome = None => latest = r
          /\ ops[r].outcome # None => Quiet
          /\ ops[r].outcome = "committed" => Serves(backend, lease.target)
      BY <1>1, <1>3, <2>1 DEF ServedInv
    <2>3. ops'[r].token = a /\ ops'[r].outcome = ops[r].outcome
      BY <1>2, <2>2
    <2>5. Serves(backend', lease'.target) <=> Serves(backend, lease.target)
      BY <1>1 DEF Serves
    <2> QED
      BY <2>1, <2>2, <2>3, <2>5
  <1>4. ASSUME attempts'[a].pc \in {"prepared", "prompting"}
        PROVE  woken' = <<>> /\ Quiet' /\ Serves(backend', lease'.target)
    <2>1. woken = <<>> /\ Quiet /\ Serves(backend, lease.target)
      BY <1>1, <1>4 DEF ServedInv
    <2> QED
      BY <1>1, <2>1 DEF Serves
  <1> QED
    BY <1>3, <1>4 DEF ServedInv
-----------------------------------------------------------------------------
(* The end of an operation *)

\* An operation that settled does not leave the state in transition.
LEMMA SyncEnds ==
  ASSUME TypeOK, ActorInv, NEW r \in Requests, ops[r].pc \in {"resolving", "applying"},
         \/ sync' = IF current = r THEN Superseded(ops[r].id) ELSE sync
         \/ CurrentOperation(r) /\ sync' = Rejected(ops[r].id)
         \/ CurrentOperation(r) /\ \E t \in Targets : sync' = Acknowledged(ops[r].id, t)
  PROVE  sync'.status = "transitioning" => sync' = sync /\ latest # r
  <1>1. sync.status = "transitioning" /\ latest = r => sync.op = ops[r].id
    BY DEF ActorInv
  <1>2. latest = r => current = r
    BY DEF ActorInv
  <1>3. ~Owns(ops[r].id) => ~(sync.status = "transitioning" /\ latest = r)
    BY <1>1 DEF Owns
  <1>4. CASE Owns(ops[r].id) /\ sync' # sync
    <2>1. \A t : Settled(t).status = "settled"
      BY DEF Settled
    <2>2. SettledOrUnresolved(sync.base).status # "transitioning"
      BY DEF SettledOrUnresolved, Settled, Unresolved
    <2>3. [sync EXCEPT !.status = "failed"].status # "transitioning"
      BY DEF TypeOK, Sync
    <2> QED
      BY <1>4, <2>1, <2>2, <2>3 DEF Superseded, Rejected, Acknowledged
  <1>5. CASE ~Owns(ops[r].id)
    <2>1. sync' = sync
      BY <1>5 DEF Superseded, Rejected, Acknowledged
    <2> QED
      BY <1>3, <1>5, <2>1
  <1>6. CASE Owns(ops[r].id) /\ sync' = sync
    <2>1. CASE latest # r
      BY <1>6, <2>1
    <2>2. CASE latest = r
      <3>1. /\ Settled(sync.base).status # "transitioning" /\ Unresolved.status # "transitioning"
            /\ \A t \in Targets : Settled(t).status # "transitioning"
        BY DEF Settled, Unresolved
      <3>2. [sync EXCEPT !.status = "failed"].status # "transitioning"
        BY DEF TypeOK, Sync
      <3>3. sync'.status # "transitioning"
        BY <1>2, <1>6, <2>2, <3>1, <3>2
        DEF Superseded, Rejected, Acknowledged, SettledOrUnresolved
      <3> QED
        BY <3>3
    <2> QED
      BY <2>1, <2>2
  <1> QED
    BY <1>4, <1>5, <1>6

LEMMA RetiredKeeps ==
  ASSUME NEW o \in Operation, NEW pc, NEW outcome, NEW t
  PROVE  Retired(o, pc, outcome, t).claimed = o.claimed
  BY DEF Retired, NewOperation

\* The newest operation of a live session ends: nothing is left to move the backend.
LEMMA QuietEnds ==
  ASSUME TypeOK, ActorInv, live, NEW r \in Requests, latest = r, ops[r].pc \in {"resolving", "applying"},
         ops'[r].pc = "finished", \A q \in Requests : q # r => ops'[q] = ops[q]
  PROVE  Quiet'
  <1> SUFFICES ASSUME NEW q \in Requests, ops'[q].pc \in {"queued", "resolving", "applying"}
               PROVE  FALSE
    BY DEF Quiet
  <1>1. q # r /\ ops[q].pc \in {"queued", "resolving", "applying"}
    OBVIOUS
  <1>2. r = current
    BY DEF ActorInv, Executing
  <1> QED
    BY <1>1, <1>2 DEF ActorInv, Executing

LEMMA EndKeeps ==
  ASSUME IInv, DispatchInv, NEW r \in Requests, ops[r].pc \in {"resolving", "applying"},
         NEW outcome \in Outcomes, NEW t \in MaybeTarget,
         ops' = [ops EXCEPT ![r] = Retired(@, "finished", outcome, t)],
         sync'.status = "transitioning" => sync' = sync /\ latest # r,
         backend' = backend \/ ops[r].pc = "applying",
         \A a \in Attempts : /\ Holds(a) /\ ops[r].token = a /\ ops[r].outcome = None
                             /\ outcome = "committed"
                            => Serves(backend', lease.target),
         UNCHANGED <<live, latest, current, intents, lease, tasks, attempts>>
  PROVE  DispatchInv'
  <1>1. TypeOK /\ RouteInv /\ ActorInv /\ OutcomeInv /\ WaitInv /\ IntentInv /\ LeaseInv
        /\ TokenInv /\ PromptInv
    BY DEF IInv, DispatchInv
  <1>2. ops[r] \in Operation
    BY <1>1 DEF TypeOK
  <1>3. /\ ops'[r] = Retired(ops[r], "finished", outcome, t)
        /\ \A q \in Requests : q # r => ops'[q] = ops[q]
    BY <1>1 DEF TypeOK
  <1>4. /\ ops'[r].pc = "finished" /\ ops'[r].token = ops[r].token /\ ops'[r].outcome # None
        /\ ops'[r].claimed = ops[r].claimed
        /\ ops[r].outcome = None => ops'[r].outcome = outcome
        /\ ops[r].outcome # None => ops'[r].outcome = ops[r].outcome
    BY <1>2, <1>3, RetiredType, RetiredKeeps, TargetAssumption
  <1>5. ActorInv'
    <2>1. latest \in Requests \cup {None} /\ current \in Requests \cup {None}
      BY <1>1 DEF TypeOK, MaybeRequest
    <2>2. current' # None => ops'[current'].pc \in Executing
      BY <1>1, <1>3, <1>4, <2>1 DEF ActorInv, Executing
    <2>3. latest' # current' => ops'[latest'].pc = "queued"
      BY <1>1, <1>3, <2>1 DEF ActorInv
    <2>4. \A q \in Requests : ops'[q].pc = "queued" => q = latest' /\ q # current'
      BY <1>1, <1>3, <1>4 DEF ActorInv
    <2>5. \A q \in Requests : live' /\ ops'[q].pc \in Executing => q = current'
      BY <1>1, <1>3, <1>4 DEF ActorInv, Executing
    <2>6. sync'.status = "transitioning" =>
            latest' # None /\ sync'.op = ops'[latest'].id /\ ops'[latest'].pc # "finished"
      BY <1>1, <1>3, <2>1 DEF ActorInv
    <2>7. current' = None <=> latest' = None
      BY <1>1 DEF ActorInv
    <2> QED
      BY <2>2, <2>3, <2>4, <2>5, <2>6, <2>7 DEF ActorInv, Executing
  <1>6. OutcomeInv'
    BY <1>1, <1>3, <1>4 DEF OutcomeInv
  <1>7. WaitInv'
    BY <1>1, <1>3, WaitFrame DEF tasks
  <1>8. IntentInv'
    <2>1. \A q \in Requests : ops[q].claimed => ops'[q].claimed
      BY <1>3, <1>4
    <2>2. \A q \in Requests : ops[q].pc \in {"locating", "blocked"} => ops'[q].pc \in {"locating", "blocked"}
      BY <1>3
    <2>3. deferredSelection # None => lease' # None
      BY <1>1 DEF IntentInv
    <2> QED
      BY <1>1, <2>1, <2>2, <2>3, IntentFrame DEF tasks, intents
  <1>9. LeaseInv'
    BY <1>1 DEF LeaseInv
  <1>10. TokenInv'
    <2>1. \A q \in Requests : ops'[q].outcome = None => ops'[q] = ops[q]
      BY <1>3, <1>4
    <2> QED
      BY <1>1, <2>1, TokenFrame DEF Holds
  <1>11. PromptInv'
    <2> SUFFICES ASSUME NEW a \in Attempts, Holds(a)' PROVE ServedInv(a)'
      BY DEF PromptInv
    <2>1. Holds(a) /\ ServedInv(a) /\ live
      BY <1>1 DEF PromptInv, Holds, LeaseInv
    <2>2. ~Quiet
      BY DEF Quiet
    <2>3. ASSUME attempts'[a].pc \in {"preparing", "routing"}
          PROVE  LET q == attempts'[a].req IN
                 /\ woken' = <<>> /\ q \in Requests /\ ops'[q].token = a
                 /\ ops'[q].outcome = None => latest' = q
                 /\ ops'[q].outcome # None => Quiet'
                 /\ ops'[q].outcome = "committed" => Serves(backend', lease'.target)
      <3>1. attempts'[a] = attempts[a]
        OBVIOUS
      <3>2. PICK q \in Requests : /\ q = attempts[a].req /\ woken = <<>> /\ ops[q].token = a
                                  /\ ops[q].outcome = None /\ latest = q
        BY <2>1, <2>2, <2>3, <3>1 DEF ServedInv
      <3>3. CASE q = r
        <4>1. Quiet'
          BY <1>1, <1>3, <1>4, <2>1, <3>2, <3>3, QuietEnds
        <4>2. ops'[q].outcome = "committed" => Serves(backend', lease.target)
          BY <1>4, <2>1, <3>2, <3>3
        <4> QED
          BY <1>4, <3>1, <3>2, <3>3, <4>1, <4>2 DEF tasks, Serves
      <3>4. CASE q # r
        <4>1. ops'[q] = ops[q]
          BY <1>3, <3>4
        <4> QED
          BY <3>1, <3>2, <4>1, TargetAssumption DEF tasks, Outcomes
      <3> QED
        BY <3>3, <3>4
    <2>4. attempts'[a].pc \notin {"prepared", "prompting"}
      BY <2>1, <2>2 DEF ServedInv
    <2> QED
      BY <2>3, <2>4 DEF ServedInv
  <1> QED
    BY <1>5, <1>6, <1>7, <1>8, <1>9, <1>10, <1>11 DEF DispatchInv
-----------------------------------------------------------------------------
(* The execution of an operation *)

LEMMA SupersedeKeeps ==
  ASSUME IInv, DispatchInv, NEW r \in Requests, ops[r].pc \in {"resolving", "applying"}, Supersede(r),
         Continue, backend' = backend \/ ops[r].pc = "applying"
  PROVE  DispatchInv'
  <1>1. ops' = [ops EXCEPT ![r] = Retired(@, "finished", "superseded", None)]
    BY DEF Supersede, Finish
  <1>2. sync'.status = "transitioning" => sync' = sync /\ latest # r
    BY SyncEnds DEF Supersede, IInv, DispatchInv
  <1> QED
    BY <1>1, <1>2, EndKeeps DEF Continue, Outcomes, MaybeTarget

LEMMA ThrowKeeps ==
  ASSUME IInv, DispatchInv, NEW r \in Requests, ops[r].pc \in {"resolving", "applying"}, Throw(r),
         Continue, backend' = backend \/ ops[r].pc = "applying"
  PROVE  DispatchInv'
  <1>1. CASE ~CurrentOperation(r)
    BY <1>1, SupersedeKeeps DEF Throw
  <1>2. CASE CurrentOperation(r)
    <2>1. ops' = [ops EXCEPT ![r] = Retired(@, "finished", "failed", None)]
      BY <1>2 DEF Throw, Finish
    <2>2. sync'.status = "transitioning" => sync' = sync /\ latest # r
      BY <1>2, SyncEnds DEF Throw, IInv, DispatchInv
    <2> QED
      BY <2>1, <2>2, EndKeeps DEF Continue, Outcomes, MaybeTarget
  <1> QED
    BY <1>1, <1>2

\* The target a managed model was repaired to is still to be applied.
LEMMA ResolveAppliesKeeps ==
  ASSUME IInv, DispatchInv, NEW r \in Requests, NEW e \in Repair[ops[r].target], e \in Targets,
         ops[r].pc = "resolving",
         sync' = Resolved(ops[r].id, e),
         ops' = [ops EXCEPT ![r].pc = "applying", ![r].effective = e],
         UNCHANGED <<store, deferredMutation, backend>>, Continue
  PROVE  DispatchInv'
  <1>1. TypeOK /\ ActorInv /\ OutcomeInv /\ WaitInv /\ IntentInv /\ LeaseInv
        /\ TokenInv /\ PromptInv
    BY DEF IInv, DispatchInv
  <1>2. /\ ops'[r] = [ops[r] EXCEPT !.pc = "applying", !.effective = e]
        /\ \A q \in Requests : q # r => ops'[q] = ops[q]
    BY <1>1 DEF TypeOK
  <1> DEFINE o == ops[r]
             n == [o EXCEPT !.pc = "applying", !.effective = e]
  <1>o. o \in Operation /\ ops'[r] = n
    BY <1>1, <1>2 DEF TypeOK
  <1> HIDE DEF o
  <1>a. /\ n.pc = "applying" /\ n.effective = e /\ n.id = o.id /\ n.token = o.token
        /\ n.outcome = o.outcome /\ n.target = o.target
    BY <1>o DEF Operation
  <1>b. n.claimed = o.claimed /\ n.needs = o.needs
    BY <1>o DEF Operation
  <1> HIDE DEF n
  <1>3. /\ ops'[r].pc = "applying" /\ ops'[r].effective = e /\ ops'[r].id = ops[r].id
        /\ ops'[r].token = ops[r].token /\ ops'[r].outcome = ops[r].outcome
        /\ ops'[r].target = ops[r].target
    BY <1>o, <1>a DEF o
  <1>4. /\ ops'[r].claimed = ops[r].claimed /\ ops'[r].needs = ops[r].needs
    BY <1>o, <1>b DEF o
  <1>5. sync'.status = sync.status /\ sync'.op = sync.op
    <2>1. sync \in Sync
      BY <1>1 DEF TypeOK
    <2> QED
      BY <2>1 DEF Resolved, Sync
  <1>6. UNCHANGED <<live, latest, current, selection, deferredSelection, lease, gate, woken,
                    notifying, attempts, backend>>
    BY DEF Continue, intents, tasks
  <1>7. ActorInv'
    <2>1. latest \in Requests \cup {None} /\ current \in Requests \cup {None}
      BY <1>1 DEF TypeOK, MaybeRequest
    <2>2. current' # None => ops'[current'].pc \in Executing
      BY <1>1, <1>2, <1>3, <1>6, <2>1 DEF ActorInv, Executing
    <2>3. latest' # current' => ops'[latest'].pc = "queued"
      BY <1>1, <1>2, <1>6, <2>1 DEF ActorInv
    <2>4. \A q \in Requests : ops'[q].pc = "queued" => q = latest' /\ q # current'
      BY <1>1, <1>2, <1>3, <1>6 DEF ActorInv
    <2>5. \A q \in Requests : live' /\ ops'[q].pc \in Executing => q = current'
      BY <1>1, <1>2, <1>3, <1>6 DEF ActorInv, Executing
    <2>6. sync'.status = "transitioning" =>
            latest' # None /\ sync'.op = ops'[latest'].id /\ ops'[latest'].pc # "finished"
      BY <1>1, <1>2, <1>3, <1>5, <1>6, <2>1 DEF ActorInv
    <2>7. current' = None <=> latest' = None
      BY <1>1, <1>6 DEF ActorInv
    <2> QED
      BY <2>2, <2>3, <2>4, <2>5, <2>6, <2>7 DEF ActorInv, Executing
  <1>8. OutcomeInv'
    BY <1>1, <1>2, <1>3, <1>6 DEF OutcomeInv
  <1>9. WaitInv'
    BY <1>1, <1>2, <1>6, WaitFrame
  <1>10. IntentInv'
    <2>1. \A q \in Requests : ops[q].claimed => ops'[q].claimed
      BY <1>2, <1>4
    <2>2. \A q \in Requests : ops[q].pc \in {"locating", "blocked"} => ops'[q].pc \in {"locating", "blocked"}
      BY <1>2
    <2>3. deferredSelection # None => lease' # None
      BY <1>1, <1>6 DEF IntentInv
    <2> QED
      BY <1>1, <1>6, <2>1, <2>2, <2>3, IntentFrame
  <1>11. LeaseInv'
    BY <1>1, <1>6 DEF LeaseInv
  <1>12. TokenInv'
    <2> SUFFICES ASSUME NEW q \in Requests, NEW a \in Attempts,
                        ops'[q].token = a, ops'[q].outcome = None
                 PROVE  /\ attempts'[a].pc \in {"preparing", "routing"} /\ attempts'[a].req = q
                        /\ ~ops'[q].needs
                        /\ Holds(a)' => /\ ops'[q].target = lease'.target
                                        /\ ops'[q].pc = "applying" => ops'[q].effective \in Repair[lease'.target]
      BY DEF TokenInv
    <2>1. ops[q].token = a /\ ops[q].outcome = None
      BY <1>2, <1>3
    <2>2. /\ attempts[a].pc \in {"preparing", "routing"} /\ attempts[a].req = q /\ ~ops[q].needs
          /\ Holds(a) => /\ ops[q].target = lease.target
                         /\ ops[q].pc = "applying" => ops[q].effective \in Repair[lease.target]
      BY <1>1, <2>1 DEF TokenInv
    <2>3. CASE q = r
      BY <1>3, <1>4, <1>6, <2>2, <2>3 DEF Holds
    <2>4. CASE q # r
      BY <1>2, <1>6, <2>2, <2>4 DEF Holds
    <2> QED
      BY <2>3, <2>4
  <1>13. PromptInv'
    <2>1. \A q \in Requests : ops'[q].token = ops[q].token /\ ops'[q].outcome = ops[q].outcome
      BY <1>2, <1>3
    <2>2. \A q \in Requests : ops'[q].pc \in {"queued", "resolving", "applying"}
                              => ops[q].pc \in {"queued", "resolving", "applying"}
      BY <1>2
    <2>3. Quiet => Quiet'
      BY <2>2, QuietFrame
    <2> QED
      BY <1>1, <1>6, <2>1, <2>3, PromptFrame DEF Holds
  <1> QED
    BY <1>7, <1>8, <1>9, <1>10, <1>11, <1>12, <1>13 DEF DispatchInv

LEMMA ResolveKeeps ==
  ASSUME IInv, DispatchInv, NEW r \in Requests, NEW e \in Targets, Resolve(r, e)
  PROVE  DispatchInv'
  <1>1. ops[r].pc = "resolving" /\ Continue /\ UNCHANGED backend /\ e \in Repair[ops[r].target]
    BY DEF Resolve
  <1>2. CASE Supersede(r)
    BY <1>1, <1>2, SupersedeKeeps
  <1>3. CASE Throw(r)
    BY <1>1, <1>3, ThrowKeeps
  <1>4. CASE /\ sync' = Resolved(ops[r].id, e)
             /\ ops' = [ops EXCEPT ![r].pc = "applying", ![r].effective = e]
             /\ UNCHANGED <<store, deferredMutation>>
    BY <1>1, <1>4, ResolveAppliesKeeps
  <1>5. CASE /\ ops[r].needs /\ CurrentOperation(r)
             /\ sync' = Acknowledged(ops[r].id, e)
             /\ Commit(r, e)
    <2>1. sync'.status = "transitioning" => sync' = sync /\ latest # r
      BY <1>1, <1>5, SyncEnds DEF IInv, DispatchInv
    <2>2. \A a \in Attempts : ~(ops[r].token = a /\ ops[r].outcome = None)
      BY <1>5 DEF DispatchInv, TokenInv
    <2>3. UNCHANGED <<live, latest, current, intents, lease, tasks, attempts>>
      BY <1>1 DEF Continue
    <2>4. ops' = [ops EXCEPT ![r] = Retired(@, "finished", "committed", e)]
      BY <1>5 DEF Commit
    <2> QED
      BY <1>1, <2>1, <2>2, <2>3, <2>4, EndKeeps DEF Outcomes, MaybeTarget
  <1> QED
    BY <1>2, <1>3, <1>4, <1>5 DEF Resolve

LEMMA ResolveFailsKeeps ==
  ASSUME IInv, DispatchInv, NEW r \in Requests, ResolveFails(r)
  PROVE  DispatchInv'
  BY ThrowKeeps DEF ResolveFails

LEMMA AnswerFailsKeeps ==
  ASSUME IInv, DispatchInv, NEW r \in Requests, AnswerFails(r)
  PROVE  DispatchInv'
  BY ThrowKeeps DEF AnswerFails

\* The answer to the leaseholder's request is the target it leased.
LEMMA AnswerKeeps ==
  ASSUME IInv, DispatchInv, NEW r \in Requests, NEW t \in Targets, NEW m \in MaybeTarget, Answer(r, t, m)
  PROVE  DispatchInv'
  <1>1. /\ ops[r].pc = "applying" /\ Continue /\ t \in Materialized(ops[r].effective)
        /\ backend' = t
    BY DEF Answer
  <1>2. CASE Supersede(r)
    BY <1>1, <1>2, SupersedeKeeps
  <1>3. CASE CurrentOperation(r) /\ sync' = Acknowledged(ops[r].id, t) /\ Commit(r, t)
    <2>1. sync'.status = "transitioning" => sync' = sync /\ latest # r
      BY <1>1, <1>3, SyncEnds DEF IInv, DispatchInv
    <2>2. ASSUME NEW a \in Attempts, Holds(a), ops[r].token = a, ops[r].outcome = None
          PROVE  Serves(backend', lease.target)
      <3>1. ops[r].effective \in Repair[lease.target]
        BY <1>1, <2>2 DEF DispatchInv, TokenInv
      <3> QED
        BY <1>1, <3>1 DEF Serves
    <2>3. UNCHANGED <<live, latest, current, intents, lease, tasks, attempts>>
      BY <1>1 DEF Continue
    <2>4. ops' = [ops EXCEPT ![r] = Retired(@, "finished", "committed", t)]
      BY <1>3 DEF Commit
    <2> QED
      BY <1>1, <2>1, <2>2, <2>3, <2>4, EndKeeps DEF Outcomes, MaybeTarget
  <1> QED
    BY <1>2, <1>3 DEF Answer

LEMMA PcKeeps ==
  ASSUME NEW o \in Operation, NEW x \in {"done", "resolving", "queued", "blocked", "unrequested"}
  PROVE  /\ [o EXCEPT !.pc = x].pc = x
         /\ [o EXCEPT !.pc = x].id = o.id
         /\ [o EXCEPT !.pc = x].target = o.target
         /\ [o EXCEPT !.pc = x].effective = o.effective
         /\ [o EXCEPT !.pc = x].token = o.token
         /\ [o EXCEPT !.pc = x].outcome = o.outcome
         /\ [o EXCEPT !.pc = x].claimed = o.claimed
         /\ [o EXCEPT !.pc = x].needs = o.needs
  <1>1. /\ [o EXCEPT !.pc = x].pc = x
        /\ [o EXCEPT !.pc = x].id = o.id
        /\ [o EXCEPT !.pc = x].target = o.target
        /\ [o EXCEPT !.pc = x].effective = o.effective
        /\ [o EXCEPT !.pc = x].token = o.token
        /\ [o EXCEPT !.pc = x].outcome = o.outcome
    BY DEF Operation
  <1>2. [o EXCEPT !.pc = x].claimed = o.claimed /\ [o EXCEPT !.pc = x].needs = o.needs
    BY DEF Operation
  <1> QED
    BY <1>1, <1>2

\* A notification wakes the attempts that wait, and no other.
LEMMA NotifiedRows ==
  ASSUME TypeOK, attempts' \in {Notified(attempts), attempts}, NEW a \in Attempts
  PROVE  \/ attempts'[a] = attempts[a]
         \/ attempts[a].pc = "waiting" /\ attempts'[a].pc = "woken"
  <1>1. CASE attempts' = Notified(attempts)
    <2> DEFINE row == attempts[a]
    <2>0. attempts'[a] = IF row.pc = "waiting" THEN [row EXCEPT !.pc = "woken"] ELSE row
      BY <1>1 DEF Notified
    <2>1. CASE attempts[a].pc = "waiting"
      <3>1. attempts'[a] = [row EXCEPT !.pc = "woken"] /\ row \in Attempt
        BY <2>0, <2>1 DEF TypeOK
      <3>2. attempts'[a].pc = "woken"
        BY <3>1 DEF Attempt
      <3> QED
        BY <2>1, <3>2
    <2>2. CASE attempts[a].pc # "waiting"
      BY <2>0, <2>2
    <2> QED
      BY <2>1, <2>2
  <1>2. CASE attempts' = attempts
    BY <1>2
  <1> QED
    BY <1>1, <1>2

LEMMA DrainKeeps ==
  ASSUME IInv, DispatchInv, NEW r \in Requests, Drain(r)
  PROVE  DispatchInv'
  <1> DEFINE next == IF latest = r THEN None ELSE latest
  <1>1. TypeOK /\ ActorInv /\ OutcomeInv /\ WaitInv /\ IntentInv /\ LeaseInv
        /\ TokenInv /\ PromptInv
    BY DEF IInv, DispatchInv
  <1>2. /\ ops[r].pc = "finished"
        /\ UNCHANGED <<live, sync, selection, deferredSelection, lease, gate, woken, backend>>
        /\ attempts' \in {Notified(attempts), attempts}
    BY DEF Drain, intents, tasks
  <1>row. \A q \in Requests :
          \/ ops'[q] = ops[q]
          \/ q = r /\ ops'[q] = [ops[q] EXCEPT !.pc = "done"]
          \/ current = r /\ q = next /\ q # r /\ ops'[q] = [ops[q] EXCEPT !.pc = "resolving"]
    BY <1>1 DEF Drain, TypeOK
  <1> HIDE DEF next
  <1>3. ASSUME NEW q \in Requests
        PROVE  /\ ops'[q].id = ops[q].id /\ ops'[q].target = ops[q].target
               /\ ops'[q].effective = ops[q].effective
               /\ ops'[q].token = ops[q].token /\ ops'[q].outcome = ops[q].outcome
               /\ ops'[q].claimed = ops[q].claimed /\ ops'[q].needs = ops[q].needs
    <2>1. ops[q] \in Operation
      BY <1>1 DEF TypeOK
    <2>2. CASE ops'[q] = [ops[q] EXCEPT !.pc = "done"]
      BY <2>1, <2>2, PcKeeps
    <2>3. CASE ops'[q] = [ops[q] EXCEPT !.pc = "resolving"]
      BY <2>1, <2>3, PcKeeps
    <2> QED
      BY <1>row, <2>2, <2>3
  <1>4. /\ ops'[r].pc = "done"
        /\ \A q \in Requests :
             \/ q = r
             \/ ops'[q].pc = ops[q].pc
             \/ current = r /\ q = next /\ ops'[q].pc = "resolving"
    <2>1. ASSUME NEW q \in Requests
          PROVE  /\ ops'[q] = [ops[q] EXCEPT !.pc = "done"] => ops'[q].pc = "done"
                 /\ ops'[q] = [ops[q] EXCEPT !.pc = "resolving"] => ops'[q].pc = "resolving"
      <3>1. ops[q] \in Operation
        BY <1>1 DEF TypeOK
      <3>2. ops'[q] = [ops[q] EXCEPT !.pc = "done"] => ops'[q].pc = "done"
        BY <3>1, PcKeeps
      <3>3. ops'[q] = [ops[q] EXCEPT !.pc = "resolving"] => ops'[q].pc = "resolving"
        BY <3>1, PcKeeps
      <3> QED
        BY <3>2, <3>3
    <2>2. ops'[r] = [ops[r] EXCEPT !.pc = "done"]
      BY <1>1 DEF Drain, TypeOK
    <2>3. ops'[r].pc = "done"
      BY <2>1, <2>2
    <2>4. ASSUME NEW q \in Requests
          PROVE  \/ q = r
                 \/ ops'[q].pc = ops[q].pc
                 \/ current = r /\ q = next /\ ops'[q].pc = "resolving"
      <3>1. CASE ops'[q] = ops[q]
        BY <3>1
      <3>2. CASE current = r /\ q = next /\ ops'[q] = [ops[q] EXCEPT !.pc = "resolving"]
        BY <2>1, <3>2
      <3> QED
        BY <1>row, <3>1, <3>2
    <2> QED
      BY <2>3, <2>4
  <1>5. latest \in Requests \cup {None} /\ current \in Requests \cup {None} /\ None \notin Requests
    BY <1>1, TargetAssumption DEF TypeOK, MaybeRequest
  <1>6. current = r /\ next # None => /\ next \in Requests /\ next # r /\ latest = next
                                      /\ ops[next].pc = "queued" /\ ops'[next].pc = "resolving"
    <2>1. ASSUME current = r, next # None
          PROVE  /\ next \in Requests /\ next # r /\ latest = next /\ ops[next].pc = "queued"
      BY <1>1, <1>5, <2>1 DEF ActorInv, next
    <2>2. ASSUME current = r, next # None PROVE ops'[next].pc = "resolving"
      <3>1. ops'[next] = [ops[next] EXCEPT !.pc = "resolving"]
        BY <2>1, <2>2 DEF Drain, next
      <3>2. ops[next] \in Operation
        BY <1>1, <2>1, <2>2 DEF TypeOK
      <3> QED
        BY <3>1, <3>2, PcKeeps
    <2> QED
      BY <2>1, <2>2
  <1>7. \/ current = r /\ latest' = next /\ current' = next
        \/ current # r /\ latest' = latest /\ current' = current /\ ~live /\ latest # r
    BY <1>1, <1>2 DEF Drain, ActorInv, Executing, next
  <1>8. ASSUME current = r, next = None
        PROVE  latest = r /\ sync.status # "transitioning"
    BY <1>1, <1>2, <1>5, <1>8 DEF next, ActorInv
  <1>9. ActorInv'
    <2>1. CASE current = r /\ next = None
      <3>1. latest' = None /\ current' = None /\ sync'.status # "transitioning"
        BY <1>2, <1>5, <1>7, <1>8, <2>1
      <3>2. \A q \in Requests : ops'[q].pc # "queued" /\ (live' => ops'[q].pc \notin Executing)
        BY <1>1, <1>2, <1>4, <1>8, <2>1, <1>5 DEF ActorInv, Executing
      <3> QED
        BY <1>5, <3>1, <3>2 DEF ActorInv
    <2>2. CASE current = r /\ next # None
      <3>1. /\ latest' = next /\ current' = next /\ next \in Requests /\ latest = next
            /\ ops'[next].pc = "resolving" /\ ops[next].pc = "queued"
        BY <1>6, <1>7, <2>2
      <3>2. \A q \in Requests : ops'[q].pc # "queued"
        BY <1>1, <1>4, <3>1 DEF ActorInv
      <3>3. \A q \in Requests : live' /\ ops'[q].pc \in Executing => q = next
        BY <1>1, <1>2, <1>4, <3>1, <2>2 DEF ActorInv, Executing
      <3>4. sync'.status = "transitioning" => sync'.op = ops'[next].id
        BY <1>1, <1>2, <1>3, <3>1 DEF ActorInv
      <3> QED
        BY <1>5, <3>1, <3>2, <3>3, <3>4 DEF ActorInv, Executing
    <2>3. CASE current # r
      <3>1. /\ latest' = latest /\ current' = current /\ ~live' /\ latest # r
            /\ \A q \in Requests : q # r => ops'[q].pc = ops[q].pc
        BY <1>2, <1>4, <1>7, <2>3
      <3>2. latest # None => ops'[latest].pc = ops[latest].pc /\ ops'[latest].id = ops[latest].id
        BY <1>3, <1>5, <3>1
      <3>3. current # None => ops'[current].pc = ops[current].pc
        BY <1>5, <2>3, <3>1
      <3>4. \A q \in Requests : ops'[q].pc = "queued" => q = latest' /\ q # current'
        BY <1>1, <1>4, <3>1 DEF ActorInv
      <3>5. sync'.status = "transitioning" =>
              latest' # None /\ sync'.op = ops'[latest'].id /\ ops'[latest'].pc # "finished"
        BY <1>1, <1>2, <3>1, <3>2 DEF ActorInv
      <3>6. latest' # current' => ops'[latest'].pc = "queued"
        BY <1>1, <3>1, <3>2 DEF ActorInv
      <3> QED
        BY <1>1, <3>1, <3>3, <3>4, <3>5, <3>6 DEF ActorInv, Executing
    <2> QED
      BY <2>1, <2>2, <2>3
  <1>10. OutcomeInv'
    <2> SUFFICES ASSUME NEW q \in Requests
                 PROVE  /\ ops'[q].pc \in {"free", "locating", "unrequested", "blocked", "queued"}
                             => ops'[q].outcome = None
                        /\ q = current' /\ ops'[q].pc \in {"resolving", "applying"}
                             => ops'[q].outcome = None
                        /\ ops'[q].pc \in {"finished", "done"} => ops'[q].outcome # None
                        /\ ops'[q].pc = "free" => ~ops'[q].claimed /\ ops'[q].token = None
      BY DEF OutcomeInv
    <2>1. CASE q = r
      BY <1>1, <1>2, <1>3, <1>4, <2>1 DEF OutcomeInv
    <2>2. CASE q # r /\ ops'[q].pc = ops[q].pc
      <3>1. q = current' => q = current \/ ops[q].pc = "queued"
        BY <1>5, <1>6, <1>7
      <3> QED
        BY <1>1, <1>3, <2>2, <3>1 DEF OutcomeInv
    <2>3. CASE current = r /\ q = next /\ ops'[q].pc = "resolving"
      <3>1. ops[q].outcome = None
        BY <1>1, <1>5, <1>6, <2>3 DEF OutcomeInv
      <3> QED
        BY <1>3, <2>3, <3>1
    <2> QED
      BY <1>4, <2>1, <2>2, <2>3
  <1>11. \A q \in Requests : ops[q].pc \in {"locating", "blocked"} => ops'[q].pc = ops[q].pc
    <2> SUFFICES ASSUME NEW q \in Requests, ops[q].pc \in {"locating", "blocked"}
                 PROVE  ops'[q].pc = ops[q].pc
      OBVIOUS
    <2>1. q # r
      BY <1>2
    <2>2. ~(current = r /\ q = next)
      BY <1>5, <1>6
    <2> QED
      BY <1>4, <2>1, <2>2
  <1>12. WaitInv'
    BY <1>1, <1>2, <1>11, WaitFrame
  <1>13. IntentInv'
    <2>1. deferredSelection # None => lease' # None
      BY <1>1, <1>2 DEF IntentInv
    <2>2. \A q \in Requests : ops[q].claimed => ops'[q].claimed
      BY <1>3
    <2> QED
      BY <1>1, <1>2, <1>11, <2>1, <2>2, IntentFrame
  <1>14. LeaseInv'
    BY <1>1, <1>2 DEF LeaseInv
  <1>15. \A a \in Attempts : attempts'[a].pc \in {"preparing", "routing", "prepared", "prompting"}
                               \/ attempts[a].pc \in {"preparing", "routing"}
                             => attempts'[a] = attempts[a]
    BY <1>1, <1>2, NotifiedRows
  <1>16. TokenInv'
    <2>1. \A q \in Requests : ops'[q].pc = "applying" => ops[q].pc = "applying"
      BY <1>4
    <2> QED
      BY <1>1, <1>2, <1>3, <1>15, <2>1, TokenFrame DEF Holds
  <1>17. PromptInv'
    <2>1. Quiet => Quiet'
      <3> SUFFICES ASSUME Quiet, NEW q \in Requests, ops'[q].pc \in {"queued", "resolving", "applying"}
                   PROVE  FALSE
        BY DEF Quiet
      <3>1. ~(current = r /\ q = next)
        BY <1>5, <1>6 DEF Quiet
      <3> QED
        BY <1>4, <3>1 DEF Quiet
    <2>2. \A q \in Requests : latest = q /\ ops[q].outcome = None => latest' = q
      BY <1>1, <1>2, <1>5, <1>7 DEF next, OutcomeInv
    <2> QED
      BY <1>1, <1>2, <1>3, <1>15, <2>1, <2>2, PromptFrame DEF Holds
  <1> QED
    BY <1>9, <1>10, <1>12, <1>13, <1>14, <1>16, <1>17 DEF DispatchInv
-----------------------------------------------------------------------------
(* A transition that is enqueued *)

\* The rows an enqueued transition leaves.
LEMMA EnqueueRows ==
  ASSUME TypeOK, ActorInv, OutcomeInv, NEW r \in Requests, NEW o \in Operation, NEW s \in StoreState,
         Enqueue(r, o, s, ops)
  PROVE  /\ latest' = r /\ current' = (IF current = None THEN r ELSE current)
         /\ sync'.status = "transitioning" /\ sync'.op = o.id
         /\ ops'[r].pc = (IF current = None THEN "resolving" ELSE "queued")
         /\ ops'[r].id = o.id /\ ops'[r].target = o.target /\ ops'[r].token = o.token
         /\ ops'[r].outcome = o.outcome
         /\ ops'[r].claimed = o.claimed /\ ops'[r].needs = o.needs
         /\ \A q \in Requests : q # r => \/ ops'[q] = ops[q] /\ ~(q = latest /\ q # current)
                                         \/ /\ q = latest /\ q # current
                                            /\ ops[q].pc = "queued" /\ ops'[q].pc = "done"
                                            /\ ops'[q].token = ops[q].token
                                            /\ ops'[q].outcome = "superseded"
                                            /\ ops'[q].claimed = ops[q].claimed
  <1>1. /\ latest' = r /\ current' = (IF current = None THEN r ELSE current)
        /\ sync'.status = "transitioning" /\ sync'.op = o.id
    BY DEF Enqueue, Selected
  <1> DEFINE x == IF current = None THEN "resolving" ELSE "queued"
             n == [o EXCEPT !.pc = x, !.selectionAt = selection, !.targetAt = s.target]
  <1>2. ops'[r] = n
    BY DEF Enqueue
  <1>3. /\ n.pc = x /\ n.id = o.id /\ n.target = o.target /\ n.token = o.token
        /\ n.outcome = o.outcome
    BY DEF Operation
  <1>4. n.claimed = o.claimed /\ n.needs = o.needs
    BY DEF Operation
  <1> HIDE DEF n
  <1>5. ASSUME NEW q \in Requests, q # r
        PROVE  \/ ops'[q] = ops[q] /\ ~(q = latest /\ q # current)
               \/ /\ q = latest /\ q # current
                  /\ ops[q].pc = "queued" /\ ops'[q].pc = "done"
                  /\ ops'[q].token = ops[q].token
                  /\ ops'[q].outcome = "superseded"
                  /\ ops'[q].claimed = ops[q].claimed
    <2>1. CASE q = latest /\ q # current
      <3>1. ops'[q] = Retired(ops[q], "done", "superseded", None)
        BY <1>5, <2>1 DEF Enqueue
      <3>2. ops[q] \in Operation /\ ops[q].pc = "queued" /\ ops[q].outcome = None
        BY <2>1 DEF TypeOK, ActorInv, OutcomeInv
      <3> QED
        BY <2>1, <3>1, <3>2, RetiredType, RetiredKeeps DEF Outcomes, MaybeTarget
    <2>2. CASE ~(q = latest /\ q # current)
      BY <1>5, <2>2 DEF Enqueue
    <2> QED
      BY <2>1, <2>2
  <1> QED
    BY <1>1, <1>2, <1>3, <1>4, <1>5

\* Whoever enqueues, the actor's queue and the user's picks stay consistent.
LEMMA EnqueueKeeps ==
  ASSUME TypeOK, ActorInv, OutcomeInv, IntentInv, NEW r \in Requests, NEW o \in Operation,
         NEW s \in StoreState, Enqueue(r, o, s, ops),
         ops[r].pc \in {"free", "locating", "blocked"}, o.outcome = None,
         ops[r].claimed => o.claimed,
         deferredSelection # None => deferredSelection.id # r,
         deferredSelection # None => lease' # None,
         Range(woken') \subseteq Range(woken),
         UNCHANGED <<live, selection, deferredSelection>>
  PROVE  ActorInv' /\ OutcomeInv' /\ IntentInv'
  <1>1. /\ latest' = r /\ current' = (IF current = None THEN r ELSE current)
        /\ sync'.status = "transitioning" /\ sync'.op = o.id
        /\ ops'[r].pc = (IF current = None THEN "resolving" ELSE "queued")
        /\ ops'[r].id = o.id /\ ops'[r].outcome = None /\ ops'[r].claimed = o.claimed
    BY EnqueueRows
  <1>2. ASSUME NEW q \in Requests, q # r
        PROVE  \/ ops'[q] = ops[q] /\ ~(q = latest /\ q # current)
               \/ /\ q = latest /\ q # current
                  /\ ops[q].pc = "queued" /\ ops'[q].pc = "done"
                  /\ ops'[q].outcome = "superseded" /\ ops'[q].claimed = ops[q].claimed
    BY <1>2, EnqueueRows
  <1>3. latest \in Requests \cup {None} /\ current \in Requests \cup {None} /\ None \notin Requests
    BY TargetAssumption DEF TypeOK, MaybeRequest
  <1>4. current # r /\ latest # r
    BY <1>3 DEF ActorInv, Executing
  <1>5. ActorInv'
    <2>1. current # None => ops'[current] = ops[current]
      BY <1>2, <1>3, <1>4
    <2>2. ops'[current'].pc \in Executing /\ current' # None /\ latest' # None
      BY <1>1, <1>3, <2>1 DEF ActorInv, Executing
    <2>3. latest' # current' => ops'[latest'].pc = "queued"
      BY <1>1
    <2>4. ASSUME NEW q \in Requests, ops'[q].pc = "queued"
          PROVE  q = latest' /\ q # current'
      <3>1. q = r
        BY <1>2, <2>4 DEF ActorInv
      <3> QED
        BY <1>1, <1>4, <2>4, <3>1
    <2>5. ASSUME NEW q \in Requests, live', ops'[q].pc \in Executing
          PROVE  q = current'
      <3>1. CASE q = r
        BY <1>1, <2>5, <3>1 DEF Executing
      <3>2. CASE q # r
        <4>1. ops'[q] = ops[q]
          BY <1>2, <2>5, <3>2 DEF Executing
        <4> QED
          BY <1>1, <1>3, <2>5, <4>1 DEF ActorInv
      <3> QED
        BY <3>1, <3>2
    <2>6. sync'.status = "transitioning" =>
            latest' # None /\ sync'.op = ops'[latest'].id /\ ops'[latest'].pc # "finished"
      BY <1>1, <1>3
    <2> QED
      BY <2>2, <2>3, <2>4, <2>5, <2>6 DEF ActorInv, Executing
  <1>6. OutcomeInv'
    <2> SUFFICES ASSUME NEW q \in Requests
                 PROVE  /\ ops'[q].pc \in {"free", "locating", "unrequested", "blocked", "queued"}
                             => ops'[q].outcome = None
                        /\ q = current' /\ ops'[q].pc \in {"resolving", "applying"}
                             => ops'[q].outcome = None
                        /\ ops'[q].pc \in {"finished", "done"} => ops'[q].outcome # None
                        /\ ops'[q].pc = "free" => ~ops'[q].claimed /\ ops'[q].token = None
      BY DEF OutcomeInv
    <2>1. CASE q = r
      BY <1>1, <2>1
    <2>2. CASE q # r /\ ops'[q] = ops[q]
      <3>1. q = current' => q = current
        BY <1>1, <2>2
      <3> QED
        BY <2>2, <3>1 DEF OutcomeInv
    <2>3. CASE ops'[q].pc = "done" /\ ops'[q].outcome = "superseded"
      BY <2>3, TargetAssumption DEF Outcomes
    <2> QED
      BY <1>2, <2>1, <2>2, <2>3
  <1>7. IntentInv'
    <2>1. \A q \in Requests : ops[q].claimed => ops'[q].claimed
      BY <1>1, <1>2
    <2>2. \A q \in Requests : q # r /\ ops[q].pc \in {"locating", "blocked"}
                              => ops'[q].pc \in {"locating", "blocked"}
      BY <1>2
    <2> QED
      BY <2>1, <2>2, IntentFrame
  <1> QED
    BY <1>5, <1>6, <1>7

LEMMA WaitEnqueue ==
  ASSUME TypeOK, ActorInv, OutcomeInv, WaitInv, NEW r \in Requests, NEW o \in Operation,
         NEW s \in StoreState, Enqueue(r, o, s, ops), ops[r].pc # "blocked",
         UNCHANGED <<gate, woken>>
  PROVE  WaitInv'
  <1>1. \A q \in Requests : ops[q].pc = "blocked" => ops'[q].pc = "blocked"
    <2> SUFFICES ASSUME NEW q \in Requests, ops[q].pc = "blocked" PROVE ops'[q].pc = "blocked"
      OBVIOUS
    <2>1. q # r
      OBVIOUS
    <2> QED
      BY <2>1, EnqueueRows
  <1> QED
    BY <1>1, WaitFrame

\* A request that holds no lease leaves the leaseholder's operation alone.
LEMMA TokenEnqueue ==
  ASSUME TypeOK, ActorInv, OutcomeInv, TokenInv, NEW r \in Requests, NEW o \in Operation,
         NEW s \in StoreState, Enqueue(r, o, s, ops), o.token = None,
         UNCHANGED <<lease, attempts>>
  PROVE  TokenInv'
  <1>1. ASSUME NEW q \in Requests, ops'[q].token # None, ops'[q].outcome = None
        PROVE  ops'[q] = ops[q]
    <2>1. q # r
      BY <1>1, EnqueueRows
    <2>2. ops'[q].outcome # "superseded"
      BY <1>1, TargetAssumption DEF Outcomes
    <2> QED
      BY <2>1, <2>2, EnqueueRows
  <1> QED
    BY <1>1, TokenFrame DEF Holds

LEMMA RangeConcat ==
  ASSUME NEW u \in Seq(Requests), NEW v \in Seq(Requests)
  PROVE  Range(u) \cup Range(v) \subseteq Range(u \o v)
  <1>1. /\ DOMAIN u = 1..Len(u) /\ DOMAIN v = 1..Len(v) /\ Len(u) \in Nat /\ Len(v) \in Nat
        /\ DOMAIN (u \o v) = 1..(Len(u) + Len(v))
        /\ \A i \in 1..(Len(u) + Len(v)) : (u \o v)[i] = IF i <= Len(u) THEN u[i] ELSE v[i - Len(u)]
    OBVIOUS
  <1>2. ASSUME NEW i \in DOMAIN u PROVE u[i] \in Range(u \o v)
    <2>1. i \in 1..(Len(u) + Len(v)) /\ (u \o v)[i] = u[i]
      BY <1>1
    <2> QED
      BY <1>1, <2>1 DEF Range
  <1>3. ASSUME NEW i \in DOMAIN v PROVE v[i] \in Range(u \o v)
    <2>1. /\ i + Len(u) \in 1..(Len(u) + Len(v)) /\ ~(i + Len(u) <= Len(u))
          /\ (i + Len(u)) - Len(u) = i
      BY <1>1
    <2>2. (u \o v)[i + Len(u)] = v[i]
      BY <1>1, <2>1
    <2> QED
      BY <1>1, <2>1, <2>2 DEF Range
  <1> QED
    BY <1>2, <1>3 DEF Range

LEMMA InjectiveTail ==
  ASSUME NEW s \in Seq(Requests), s # <<>>, IsInjective(s)
  PROVE  IsInjective(Tail(s)) /\ Head(s) \notin Range(Tail(s))
  <1>1. /\ DOMAIN s = 1..Len(s) /\ Len(s) \in Nat /\ Len(s) > 0 /\ Head(s) = s[1]
        /\ DOMAIN Tail(s) = 1..(Len(s) - 1)
        /\ \A i \in 1..(Len(s) - 1) : Tail(s)[i] = s[i + 1]
    OBVIOUS
  <1>2. \A i, j \in 1..Len(s) : s[i] = s[j] => i = j
    BY <1>1 DEF IsInjective
  <1>3. ASSUME NEW i \in 1..(Len(s) - 1), NEW j \in 1..(Len(s) - 1), Tail(s)[i] = Tail(s)[j]
        PROVE  i = j
    <2>1. i + 1 \in 1..Len(s) /\ j + 1 \in 1..Len(s) /\ s[i + 1] = s[j + 1]
      BY <1>1, <1>3
    <2>2. i + 1 = j + 1
      BY <1>2, <2>1
    <2> QED
      BY <2>2
  <1>4. ASSUME NEW i \in 1..(Len(s) - 1) PROVE Tail(s)[i] # Head(s)
    <2>1. i + 1 \in 1..Len(s) /\ 1 \in 1..Len(s) /\ i + 1 # 1
      BY <1>1
    <2>2. s[i + 1] # s[1]
      BY <1>2, <2>1
    <2> QED
      BY <1>1, <2>2
  <1> QED
    BY <1>1, <1>3, <1>4 DEF IsInjective, Range

LEMMA InjectiveAppend ==
  ASSUME NEW s \in Seq(Requests), NEW r \in Requests, r \notin Range(s), IsInjective(s)
  PROVE  IsInjective(Append(s, r))
  <1>1. /\ DOMAIN s = 1..Len(s) /\ Len(s) \in Nat
        /\ DOMAIN Append(s, r) = 1..(Len(s) + 1)
        /\ \A i \in 1..Len(s) : Append(s, r)[i] = s[i]
        /\ Append(s, r)[Len(s) + 1] = r
    OBVIOUS
  <1>2. \A i \in 1..(Len(s) + 1) : i \in 1..Len(s) \/ i = Len(s) + 1
    BY <1>1
  <1>3. \A i \in 1..Len(s) : s[i] # r
    BY <1>1 DEF Range
  <1>4. \A i, j \in 1..Len(s) : s[i] = s[j] => i = j
    BY <1>1 DEF IsInjective
  <1>5. ASSUME NEW i \in 1..(Len(s) + 1), NEW j \in 1..(Len(s) + 1),
               Append(s, r)[i] = Append(s, r)[j]
        PROVE  i = j
    <2>1. CASE i \in 1..Len(s) /\ j \in 1..Len(s)
      BY <1>1, <1>4, <1>5, <2>1
    <2>2. CASE i = Len(s) + 1
      BY <1>1, <1>2, <1>3, <1>5, <2>2
    <2>3. CASE j = Len(s) + 1
      BY <1>1, <1>2, <1>3, <1>5, <2>3
    <2> QED
      BY <1>2, <2>1, <2>2, <2>3
  <1> QED
    BY <1>1, <1>5 DEF IsInjective

LEMMA RunWokenKeeps ==
  ASSUME IInv, DispatchInv, RunWoken
  PROVE  DispatchInv'
  <1>1. /\ TypeOK /\ GateInv /\ ActorInv /\ OutcomeInv /\ WaitInv /\ IntentInv /\ LeaseInv
        /\ TokenInv /\ PromptInv
    BY DEF IInv, DispatchInv
  <1> DEFINE r == Head(woken)
  <1>2. /\ woken # <<>> /\ woken' = Tail(woken) /\ Enqueue(r, ops[r], store, ops)
        /\ UNCHANGED <<live, selection, deferredSelection, lease, gate, attempts, backend>>
    BY DEF RunWoken, intents
  <1>3. /\ woken \in Seq(Requests) /\ gate \in Seq(Requests)
        /\ r \in Range(woken) /\ Range(woken') \subseteq Range(woken) /\ r \in Requests
    BY <1>1, <1>2, RangeSeq DEF TypeOK
  <1>4. ops[r] \in Operation /\ ops[r].pc = "blocked" /\ ops[r].token = None /\ ops[r].outcome = None
        /\ store \in StoreState
    BY <1>1, <1>3 DEF TypeOK, WaitInv, GateInv, OutcomeInv
  <1> HIDE DEF r
  <1>5. ActorInv' /\ OutcomeInv' /\ IntentInv'
    <2>1. deferredSelection # None => deferredSelection.id # r
      BY <1>1, <1>3 DEF IntentInv
    <2>2. deferredSelection # None => lease' # None
      BY <1>1, <1>2 DEF IntentInv
    <2> QED
      BY <1>1, <1>2, <1>3, <1>4, <2>1, <2>2, EnqueueKeeps
  <1>6. WaitInv'
    <2> DEFINE all == woken \o gate
    <2>1. /\ all \in Seq(Requests) /\ all # <<>> /\ Head(all) = r /\ woken' \o gate' = Tail(all)
      BY <1>2, <1>3 DEF r
    <2>2. IsInjective(all)
      BY <1>1 DEF WaitInv
    <2> HIDE DEF all
    <2>4. IsInjective(Tail(all)) /\ r \notin Range(Tail(all))
      BY <2>1, <2>2, InjectiveTail
    <2>6. Range(gate') \cup Range(woken') \subseteq Range(Tail(all))
      <3>1. gate' \in Seq(Requests) /\ woken' \in Seq(Requests)
        BY <1>2, <1>3
      <3> QED
        BY <2>1, <3>1, RangeConcat
    <2>7. Range(gate') \cup Range(woken') \subseteq Range(gate) \cup Range(woken)
      BY <1>2, <1>3
    <2>8. ASSUME NEW q \in Range(gate') \cup Range(woken') PROVE ops'[q].pc = "blocked"
      <3>1. q # r /\ ops[q].pc = "blocked" /\ q \in Requests
        BY <1>1, <1>3, <2>4, <2>6, <2>7, RangeSeq DEF WaitInv
      <3> QED
        BY <1>1, <1>2, <1>3, <1>4, <3>1, EnqueueRows
    <2> QED
      BY <2>1, <2>4, <2>8 DEF WaitInv
  <1>7. LeaseInv'
    BY <1>1, <1>2 DEF LeaseInv
  <1>8. TokenInv'
    BY <1>1, <1>2, <1>3, <1>4, TokenEnqueue
  <1>9. PromptInv'
    BY <1>1, <1>2 DEF PromptInv, ServedInv, Holds
  <1> QED
    BY <1>5, <1>6, <1>7, <1>8, <1>9 DEF DispatchInv
-----------------------------------------------------------------------------
(* Dispatch attempts *)

\* The holder enqueues a transition to the target it leases.
LEMMA LeasedEnqueueKeeps ==
  ASSUME IInv, DispatchInv, NEW a \in Attempts, NEW r \in Requests, NEW o \in Operation, NEW s \in StoreState,
         Enqueue(r, o, s, ops), ops[r].pc = "free", NoContinuation,
         o.token = a, o.outcome = None, ~o.needs, o.target = lease'.target,
         Holds(a), lease' # None, lease'.holder = a,
         attempts[a].pc \notin {"preparing", "routing"},
         attempts'[a].pc \in {"preparing", "routing"}, attempts'[a].req = r,
         \A b \in Attempts : b # a => attempts'[b] = attempts[b],
         UNCHANGED <<live, intents, tasks, backend>>
  PROVE  DispatchInv'
  <1>1. TypeOK /\ ActorInv /\ OutcomeInv /\ WaitInv /\ IntentInv /\ LeaseInv
        /\ TokenInv /\ PromptInv
    BY DEF IInv, DispatchInv
  <1>2. woken = <<>> /\ UNCHANGED <<selection, deferredSelection, gate, woken>>
    BY DEF NoContinuation, intents, tasks
  <1>3. ActorInv' /\ OutcomeInv' /\ IntentInv'
    <2>1. deferredSelection # None => deferredSelection.id # r
      BY <1>1 DEF IntentInv
    <2>2. ops[r].claimed => o.claimed
      BY <1>1 DEF OutcomeInv
    <2>3. ops[r].pc \in {"free", "locating", "blocked"}
      OBVIOUS
    <2> QED
      BY <1>1, <1>2, <2>1, <2>2, <2>3, EnqueueKeeps
  <1>4. WaitInv'
    BY <1>1, <1>2, WaitEnqueue
  <1>5. LeaseInv'
    BY <1>1 DEF LeaseInv, Holds
  <1>6. /\ latest' = r /\ ops'[r].token = a /\ ops'[r].outcome = None /\ ops'[r].pc # "applying"
        /\ ops'[r].target = lease'.target
    BY <1>1, EnqueueRows
  <1>7. ~ops'[r].needs
    BY <1>1, EnqueueRows
  <1>8. TokenInv'
    <2> SUFFICES ASSUME NEW q \in Requests, NEW b \in Attempts,
                        ops'[q].token = b, ops'[q].outcome = None
                 PROVE  /\ attempts'[b].pc \in {"preparing", "routing"} /\ attempts'[b].req = q
                        /\ ~ops'[q].needs
                        /\ Holds(b)' => /\ ops'[q].target = lease'.target
                                        /\ ops'[q].pc = "applying" => ops'[q].effective \in Repair[lease'.target]
      BY DEF TokenInv
    <2>1. CASE q = r
      BY <1>6, <1>7, <2>1
    <2>2. CASE q # r
      <3>1. ops'[q].outcome # "superseded"
        BY TargetAssumption DEF Outcomes
      <3>2. ops'[q] = ops[q]
        BY <1>1, <2>2, <3>1, EnqueueRows
      <3>3. attempts[b].pc \in {"preparing", "routing"} /\ attempts[b].req = q /\ ~ops[q].needs
        BY <1>1, <3>2 DEF TokenInv
      <3>4. b # a
        BY <3>3
      <3>5. ~Holds(b)'
        BY <3>4 DEF Holds
      <3> QED
        BY <3>2, <3>3, <3>4, <3>5
    <2> QED
      BY <2>1, <2>2
  <1>9. PromptInv'
    <2> SUFFICES ASSUME NEW b \in Attempts, Holds(b)' PROVE ServedInv(b)'
      BY DEF PromptInv
    <2>1. b = a
      BY DEF Holds
    <2> QED
      BY <1>2, <1>6, <2>1, TargetAssumption DEF ServedInv, Outcomes
  <1> QED
    BY <1>3, <1>4, <1>5, <1>8, <1>9 DEF DispatchInv

\* An attempt goes on.  Nobody waits any longer for what it had requested.
LEMMA MoveActorKeeps ==
  ASSUME IInv, DispatchInv, NEW a \in Attempts,
         \/ attempts[a].pc \notin {"preparing", "routing"}
         \/ ops[attempts[a].req].outcome # None,
         Holds(a)' => ServedInv(a)',
         \A b \in Attempts : b # a =>
           /\ attempts'[b] = attempts[b]
           /\ Holds(b)' => Holds(b) /\ lease'.target = lease.target /\ woken' = woken,
         sync'.status = "transitioning" => sync' = sync,
         UNCHANGED <<live, latest, current, ops, backend>>
  PROVE  ActorInv' /\ OutcomeInv' /\ TokenInv' /\ PromptInv'
  <1>1. TypeOK /\ ActorInv /\ OutcomeInv /\ TokenInv /\ PromptInv
    BY DEF IInv, DispatchInv
  <1>2. ActorInv'
    BY <1>1, ActorFrame
  <1>3. OutcomeInv'
    BY <1>1, OutcomeFrame
  <1>4. TokenInv'
    <2> SUFFICES ASSUME NEW q \in Requests, NEW b \in Attempts,
                        ops[q].token = b, ops[q].outcome = None
                 PROVE  /\ attempts'[b].pc \in {"preparing", "routing"} /\ attempts'[b].req = q
                        /\ ~ops[q].needs
                        /\ Holds(b)' => /\ ops[q].target = lease'.target
                                        /\ ops[q].pc = "applying" => ops[q].effective \in Repair[lease'.target]
      BY DEF TokenInv
    <2>1. /\ attempts[b].pc \in {"preparing", "routing"} /\ attempts[b].req = q
          /\ ~ops[q].needs
          /\ Holds(b) => /\ ops[q].target = lease.target
                         /\ ops[q].pc = "applying" => ops[q].effective \in Repair[lease.target]
      BY <1>1 DEF TokenInv
    <2>2. b # a
      BY <2>1
    <2>3. attempts'[b] = attempts[b] /\ (Holds(b)' => Holds(b) /\ lease'.target = lease.target)
      BY <2>2
    <2> QED
      BY <2>1, <2>3
  <1>5. PromptInv'
    <2> SUFFICES ASSUME NEW b \in Attempts, Holds(b)' PROVE ServedInv(b)'
      BY DEF PromptInv
    <2>1. CASE b = a
      BY <2>1
    <2>2. CASE b # a
      <3>1. /\ attempts'[b] = attempts[b] /\ Holds(b) /\ lease'.target = lease.target
            /\ woken' = woken
        BY <2>2
      <3>2. ServedInv(b)
        BY <1>1, <3>1 DEF PromptInv
      <3>3. Quiet' <=> Quiet
        BY DEF Quiet
      <3> QED
        BY <3>1, <3>2, <3>3 DEF ServedInv, Serves
    <2> QED
      BY <2>1, <2>2
  <1> QED
    BY <1>2, <1>3, <1>4, <1>5

LEMMA MoveKeeps ==
  ASSUME IInv, DispatchInv, NEW a \in Attempts,
         \/ attempts[a].pc \notin {"preparing", "routing"}
         \/ ops[attempts[a].req].outcome # None,
         Holds(a)' => ServedInv(a)',
         \A b \in Attempts : b # a =>
           /\ attempts'[b] = attempts[b]
           /\ Holds(b)' => Holds(b) /\ lease'.target = lease.target,
         lease # None => lease' # None, lease' # None => live,
         UNCHANGED <<live, actor, intents, tasks, ops, backend>>
  PROVE  DispatchInv'
  <1>1. UNCHANGED <<sync, latest, current, selection, deferredSelection, gate, woken>>
    BY DEF actor, intents, tasks
  <1>2. TypeOK /\ WaitInv /\ IntentInv /\ LeaseInv
    BY DEF IInv, DispatchInv
  <1>3. ActorInv' /\ OutcomeInv' /\ TokenInv' /\ PromptInv'
    BY <1>1, MoveActorKeeps
  <1>4. WaitInv'
    BY <1>1, <1>2, WaitFrame
  <1>5. IntentInv'
    <2>1. deferredSelection # None => lease' # None
      BY <1>2 DEF IntentInv
    <2> QED
      BY <1>1, <1>2, <2>1, IntentFrame
  <1>6. LeaseInv'
    BY DEF LeaseInv
  <1> QED
    BY <1>3, <1>4, <1>5, <1>6 DEF DispatchInv

\* The lease stays, and the attempt reaches a state that promises nothing of the
\* backend, or keeps what it promised.
LEMMA PcMoveKeeps ==
  ASSUME IInv, DispatchInv, NEW a \in Attempts, NEW x,
         \/ attempts[a].pc \notin {"preparing", "routing"}
         \/ ops[attempts[a].req].outcome # None,
         attempts' = [attempts EXCEPT ![a].pc = x],
         \/ x \notin {"preparing", "routing", "prepared", "prompting"}
         \/ x \in {"prepared", "prompting"} /\
              (Holds(a) => woken = <<>> /\ Quiet /\ Serves(backend, lease.target)),
         UNCHANGED <<live, actor, intents, lease, tasks, ops, backend>>
  PROVE  DispatchInv'
  <1>1. attempts'[a].pc = x /\ \A b \in Attempts : b # a => attempts'[b] = attempts[b]
    <2>1. attempts[a] \in Attempt /\ a \in DOMAIN attempts
      BY DEF IInv, TypeOK
    <2>2. attempts'[a] = [attempts[a] EXCEPT !.pc = x]
      BY <2>1
    <2>3. attempts'[a].pc = x
      BY <2>1, <2>2 DEF Attempt
    <2> QED
      BY <2>3 DEF IInv, TypeOK
  <1>2. Holds(a)' => ServedInv(a)'
    <2>1. CASE x \notin {"preparing", "routing", "prepared", "prompting"}
      BY <1>1, <2>1 DEF ServedInv
    <2>2. CASE x \in {"prepared", "prompting"} /\
                 (Holds(a) => woken = <<>> /\ Quiet /\ Serves(backend, lease.target))
      BY <1>1, <2>2 DEF ServedInv, Holds, Quiet, Serves, tasks
    <2> QED
      BY <2>1, <2>2
  <1>3. \A b \in Attempts : Holds(b)' => Holds(b) /\ lease'.target = lease.target
    BY DEF Holds
  <1>4. lease' # None => live
    BY DEF DispatchInv, LeaseInv
  <1> QED
    BY <1>1, <1>2, <1>3, <1>4, MoveKeeps

LEMMA AcquireKeeps ==
  ASSUME IInv, DispatchInv, NEW a \in Attempts, Acquire(a)
  PROVE  DispatchInv'
  <1>1. /\ attempts[a].pc \in {"idle", "woken"}
        /\ UNCHANGED <<live, actor, intents, tasks, ops, backend>>
    BY DEF Acquire
  <1>2. CASE \E x \in {"waiting", "done", "idle"} :
               attempts' = [attempts EXCEPT ![a].pc = x] /\ UNCHANGED lease
    BY <1>1, <1>2, PcMoveKeeps
  <1>3. CASE /\ lease = None /\ live
             /\ lease' = [holder |-> a, target |-> store.target, source |-> store.source,
                          reasoning |-> store.reasoning]
             /\ attempts' = [attempts EXCEPT ![a].pc = "leased"]
    <2>1. attempts'[a].pc = "leased" /\ \A b \in Attempts : b # a => attempts'[b] = attempts[b]
      BY <1>3 DEF IInv, TypeOK, Attempt
    <2>2. ServedInv(a)'
      BY <2>1 DEF ServedInv
    <2>3. \A b \in Attempts : b # a => ~Holds(b)'
      BY <1>3 DEF Holds
    <2> QED
      BY <1>1, <1>3, <2>1, <2>2, <2>3, MoveKeeps
  <1> QED
    BY <1>2, <1>3 DEF Acquire

LEMMA PrepareKeeps ==
  ASSUME IInv, DispatchInv, NEW a \in Attempts, Prepare(a)
  PROVE  DispatchInv'
  <1>1. /\ attempts[a].pc = "leased" /\ Holds(a) /\ NoContinuation
        /\ UNCHANGED <<live, intents, lease, tasks, backend>>
    BY DEF Prepare
  <1>2. PICK r \in Requests :
          /\ Free(r)
          /\ Enqueue(r, [NewOperation EXCEPT !.id = r, !.target = lease.target, !.token = a],
                     store, ops)
          /\ attempts' = [attempts EXCEPT ![a].pc = "preparing", ![a].req = r]
    BY DEF Prepare
  <1> DEFINE o == [NewOperation EXCEPT !.id = r, !.target = lease.target, !.token = a]
  <1>3. o \in Operation
    <2>1. lease.target \in MaybeTarget
      BY <1>1 DEF IInv, TypeOK, Holds, Lease, MaybeTarget
    <2> QED
      BY <2>1, NewOperationType DEF Operation, MaybeRequest
  <1>4. o.token = a /\ o.outcome = None /\ o.needs = FALSE /\ o.target = lease.target
    BY DEF NewOperation
  <1>5. /\ attempts'[a].pc = "preparing" /\ attempts'[a].req = r
        /\ \A b \in Attempts : b # a => attempts'[b] = attempts[b]
    BY <1>2 DEF IInv, TypeOK, Attempt
  <1>6. store \in StoreState /\ lease' # None /\ lease'.holder = a /\ o.target = lease'.target
    BY <1>1, <1>4 DEF IInv, TypeOK, Holds
  <1> HIDE DEF o
  <1>7. Enqueue(r, o, store, ops) /\ ops[r].pc = "free" /\ ~o.needs
    BY <1>2, <1>4 DEF o, Free
  <1> QED
    BY <1>1, <1>3, <1>4, <1>5, <1>6, <1>7, LeasedEnqueueKeeps

LEMMA PreparedKeeps ==
  ASSUME IInv, DispatchInv, NEW a \in Attempts, Prepared(a)
  PROVE  DispatchInv'
  <1>1. /\ attempts[a].pc = "preparing" /\ ops[attempts[a].req].outcome # None
        /\ UNCHANGED <<live, actor, intents, lease, tasks, ops, backend>>
        /\ attempts' = [attempts EXCEPT ![a].pc =
             IF Applied(ops[attempts[a].req]) THEN "prepared" ELSE "ended"]
    BY DEF Prepared
  <1>2. CASE Applied(ops[attempts[a].req])
    <2>1. Holds(a) => woken = <<>> /\ Quiet /\ Serves(backend, lease.target)
      BY <1>1, <1>2 DEF DispatchInv, PromptInv, ServedInv, Applied
    <2> QED
      BY <1>1, <1>2, <2>1, PcMoveKeeps
  <1>3. CASE ~Applied(ops[attempts[a].req])
    BY <1>1, <1>3, PcMoveKeeps
  <1> QED
    BY <1>2, <1>3

LEMMA PromptKeeps ==
  ASSUME IInv, DispatchInv, NEW a \in Attempts, Prompt(a)
  PROVE  DispatchInv'
  <1>1. Holds(a) => woken = <<>> /\ Quiet /\ Serves(backend, lease.target)
    BY DEF Prompt, DispatchInv, PromptInv, ServedInv
  <1> QED
    BY <1>1, PcMoveKeeps DEF Prompt

LEMMA EndAttemptKeeps ==
  ASSUME IInv, DispatchInv, NEW a \in Attempts, EndAttempt(a)
  PROVE  DispatchInv'
  BY PcMoveKeeps DEF EndAttempt

LEMMA CancelWaitKeeps ==
  ASSUME IInv, DispatchInv, NEW a \in Attempts, CancelWait(a)
  PROVE  DispatchInv'
  BY PcMoveKeeps DEF CancelWait

LEMMA NotifyKeeps ==
  ASSUME IInv, DispatchInv, Notify
  PROVE  DispatchInv'
  <1>1. TypeOK /\ ActorInv /\ OutcomeInv /\ WaitInv /\ IntentInv /\ LeaseInv
        /\ TokenInv /\ PromptInv
    BY DEF IInv, DispatchInv
  <1>2. /\ UNCHANGED <<live, sync, latest, current, selection, deferredSelection, lease, gate,
                       woken, ops, backend>>
        /\ attempts' \in {Notified(attempts), attempts}
    BY DEF Notify, actor, intents
  <1>3. \A a \in Attempts : attempts'[a].pc \in {"preparing", "routing", "prepared", "prompting"}
                              \/ attempts[a].pc \in {"preparing", "routing"}
                            => attempts'[a] = attempts[a]
    BY <1>1, <1>2, NotifiedRows
  <1>4. ActorInv'
    BY <1>1, <1>2, ActorFrame
  <1>5. OutcomeInv' /\ LeaseInv'
    BY <1>1, <1>2, OutcomeFrame DEF LeaseInv
  <1>6. WaitInv'
    BY <1>1, <1>2, WaitFrame
  <1>7. IntentInv'
    BY <1>1, <1>2, IntentFrame DEF IntentInv
  <1>8. TokenInv'
    BY <1>1, <1>2, <1>3, TokenFrame DEF Holds
  <1>9. PromptInv'
    BY <1>1, <1>2, <1>3, PromptFrame DEF Holds, Quiet
  <1> QED
    BY <1>4, <1>5, <1>6, <1>7, <1>8, <1>9 DEF DispatchInv

LEMMA RouteKeeps ==
  ASSUME IInv, DispatchInv, NEW a \in Attempts, NEW t \in Targets, Route(a, t)
  PROVE  DispatchInv'
  <1>1. /\ attempts[a].pc \in {"prepared", "rerouting"} /\ Holds(a) /\ NoContinuation
        /\ lease \in Lease /\ lease.holder = a
        /\ UNCHANGED <<live, intents, tasks, backend>>
    BY DEF Route, Holds, IInv, TypeOK
  <1>2. CASE attempts' = [attempts EXCEPT ![a].pc = "ended"]
             /\ UNCHANGED <<store, actor, deferredMutation, lease, ops>>
    BY <1>1, <1>2, PcMoveKeeps
  <1>3. CASE /\ lease' = [lease EXCEPT !.target = t, !.reasoning = None]
             /\ \E r \in Requests :
                  /\ Free(r)
                  /\ Enqueue(r, RouteRequest(r, a, t), WithTarget(store, t, "ui"), ops)
                  /\ attempts' = [attempts EXCEPT ![a] =
                       [pc |-> "routing", req |-> r, previous |-> lease.target,
                        previousReasoning |-> lease.reasoning]]
    <2>1. PICK r \in Requests :
            /\ Free(r)
            /\ Enqueue(r, RouteRequest(r, a, t), WithTarget(store, t, "ui"), ops)
            /\ attempts' = [attempts EXCEPT ![a] =
                 [pc |-> "routing", req |-> r, previous |-> lease.target,
                  previousReasoning |-> lease.reasoning]]
      BY <1>3
    <2> DEFINE o == RouteRequest(r, a, t)
               published == WithTarget(store, t, "ui")
    <2>2. o \in Operation
      BY NewOperationType DEF RouteRequest, Operation, MaybeRequest, MaybeTarget
    <2>3. o.token = a /\ o.target = t /\ o.needs = FALSE /\ o.outcome = None
      BY DEF RouteRequest, NewOperation
    <2>4. published \in StoreState
      BY WithTargetType DEF IInv, TypeOK, MaybeTarget
    <2>5. lease' # None /\ lease'.target = t /\ lease'.holder = a
      <3>1. lease' \in Lease /\ lease'.target = t /\ lease'.holder = a
        BY <1>1, <1>3 DEF Lease, MaybeTarget
      <3> QED
        BY <3>1, TargetAssumption
    <2>6. /\ attempts'[a].pc = "routing" /\ attempts'[a].req = r
          /\ \A b \in Attempts : b # a => attempts'[b] = attempts[b]
      BY <2>1 DEF IInv, TypeOK
    <2> HIDE DEF o, published
    <2>7. Enqueue(r, o, published, ops) /\ ops[r].pc = "free" /\ ~o.needs /\ o.target = lease'.target
      BY <2>1, <2>3, <2>5 DEF Free, o, published
    <2> QED
      BY <1>1, <2>2, <2>3, <2>4, <2>5, <2>6, <2>7, LeasedEnqueueKeeps
  <1> QED
    BY <1>2, <1>3 DEF Route

\* A router that goes on to its prompt prompts on what it was routed to.
LEMMA RoutedKeeps ==
  ASSUME IInv, DispatchInv, NEW a \in Attempts, Routed(a)
  PROVE  DispatchInv'
  <1> DEFINE o == ops[attempts[a].req]
             previous == attempts[a].previous
  <1>1. /\ attempts[a].pc = "routing" /\ o.outcome # None
        /\ UNCHANGED <<live, actor, intents, tasks, ops, backend>>
    BY DEF Routed
  <1>2. /\ ~Holds(a) => lease' = lease
        /\ Holds(a) => lease' # None /\ lease'.holder = a
    <2>1. CASE ~Holds(a)
      BY <2>1 DEF Routed
    <2>2. CASE Holds(a)
      <3>1. /\ lease \in Lease /\ lease.holder = a
            /\ lease.target \in Targets /\ previous \in Targets
            /\ o.outcome = "committed" => o.effective = lease.target
        BY <1>1, <2>2 DEF Holds, IInv, TypeOK, RouteInv, RouteOperationInv, Concrete
      <3>2. store.reasoning \in MaybeTarget /\ attempts[a].previousReasoning \in MaybeTarget
        BY DEF IInv, TypeOK, StoreState, Attempt
      <3>3. PICK u \in Targets, m \in MaybeTarget : lease' = [lease EXCEPT !.target = u, !.reasoning = m]
        BY <2>2, <3>1, <3>2 DEF Routed, Applied
      <3>4. lease' \in Lease /\ lease'.holder = a
        BY <3>1, <3>3 DEF Lease
      <3> QED
        BY <2>2, <3>4, TargetAssumption
    <2> QED
      BY <2>1, <2>2
  <1>3. \A b \in Attempts : b # a => (Holds(b)' => Holds(b) /\ lease'.target = lease.target)
    BY <1>2 DEF Holds
  <1>4. PICK x \in {"prompting", "rerouting", "ended"} :
          /\ attempts' = [attempts EXCEPT ![a].pc = x]
          /\ x = "prompting" <=> Applied(o)
    BY DEF Routed
  <1>5. attempts'[a].pc = x /\ \A b \in Attempts : b # a => attempts'[b] = attempts[b]
    <2>1. attempts[a] \in Attempt /\ a \in DOMAIN attempts
      BY DEF IInv, TypeOK
    <2>2. attempts'[a] = [attempts[a] EXCEPT !.pc = x]
      BY <1>4, <2>1
    <2>3. attempts'[a].pc = x
      BY <2>1, <2>2 DEF Attempt
    <2> QED
      BY <1>4, <2>3 DEF IInv, TypeOK
  <1>6. ASSUME Holds(a)' PROVE ServedInv(a)'
    <2>1. Holds(a)
      BY <1>2, <1>6 DEF Holds
    <2>2. CASE x # "prompting"
      BY <1>5, <2>2 DEF ServedInv
    <2>3. CASE x = "prompting"
      <3>1. o.outcome = "committed"
        BY <1>4, <2>3 DEF Applied
      <3>2. woken = <<>> /\ Quiet /\ Serves(backend, lease.target)
        BY <1>1, <2>1, <3>1 DEF DispatchInv, PromptInv, ServedInv
      <3>3. lease'.target = lease.target
        <4>1. lease \in Lease
          BY <2>1 DEF IInv, TypeOK, Holds
        <4>2. o.effective = lease.target
          BY <1>1, <2>1, <3>1 DEF IInv, RouteInv, RouteOperationInv
        <4>3. lease' = [lease EXCEPT !.target = o.effective, !.reasoning = store.reasoning]
          BY <1>4, <2>1, <2>3 DEF Routed
        <4> QED
          BY <4>1, <4>2, <4>3 DEF Lease
      <3> QED
        BY <1>1, <1>5, <2>3, <3>2, <3>3 DEF ServedInv, Quiet, Serves, tasks
    <2> QED
      BY <2>2, <2>3
  <1>7. /\ lease # None => lease' # None
        /\ lease' # None => live
    BY <1>2 DEF DispatchInv, LeaseInv, Holds
  <1> QED
    BY <1>1, <1>3, <1>5, <1>6, <1>7, MoveKeeps

\* The pick made during the dispatch becomes the selection, its picker's request
\* the first to run.
LEMMA ReleaseKeeps ==
  ASSUME IInv, DispatchInv, NEW a \in Attempts, Release(a)
  PROVE  DispatchInv'
  <1>1. /\ attempts[a].pc = "ended"
        /\ attempts' = [attempts EXCEPT ![a] = [NewAttempt EXCEPT !.pc = "done"]]
        /\ UNCHANGED <<live, latest, current, ops, backend>>
    BY DEF Release
  <1>2. attempts'[a].pc = "done" /\ \A b \in Attempts : b # a => attempts'[b] = attempts[b]
    BY <1>1 DEF IInv, TypeOK, NewAttempt
  <1>3. ServedInv(a)'
    BY <1>2 DEF ServedInv
  <1>4. CASE ~Holds(a)
    <2>1. UNCHANGED <<sync, intents, lease, tasks>>
      BY <1>4 DEF Release
    <2>2. lease' # None => live
      BY <2>1 DEF DispatchInv, LeaseInv
    <2> QED
      BY <1>1, <1>2, <1>3, <2>1, <2>2, MoveKeeps DEF actor, Holds
  <1>5. CASE Holds(a)
    <2>1. /\ lease' = None /\ deferredSelection' = None /\ selection' = PromotedPick
          /\ gate' = <<>> /\ woken' = woken \o gate
      BY <1>5 DEF Release, OpenedGate
    <2>2. sync'.status = "transitioning" => sync' = sync
      <3>1. \A t : SettledOrUnresolved(t).status # "transitioning"
        BY DEF SettledOrUnresolved, Settled, Unresolved
      <3>2. sync' = sync \/ \E t : sync' = SettledOrUnresolved(t)
        BY <1>5 DEF Release
      <3> QED
        BY <3>1, <3>2
    <2>3. ActorInv' /\ OutcomeInv' /\ TokenInv' /\ PromptInv'
      BY <1>1, <1>2, <1>3, <2>1, <2>2, MoveActorKeeps DEF Holds
    <2>4. WaitInv'
      BY <1>1, <2>1, WaitOpens DEF IInv, DispatchInv
    <2>5. IntentInv'
      BY <1>1, <2>1 DEF DispatchInv, IntentInv, PromotedPick
    <2>6. LeaseInv'
      BY <2>1 DEF LeaseInv
    <2> QED
      BY <2>3, <2>4, <2>5, <2>6 DEF DispatchInv
  <1> QED
    BY <1>4, <1>5
-----------------------------------------------------------------------------
(* Picks and the requests of the session controller *)

\* One request that no attempt waits for changes, and stays outside the actor.
LEMMA RowKeeps ==
  ASSUME IInv, DispatchInv, NEW r \in Requests, NEW o \in Operation, ops' = [ops EXCEPT ![r] = o],
         \/ /\ ops[r].pc \in {"free", "locating"} /\ o.pc \in {"locating", "unrequested", "blocked"}
            /\ o.outcome = None /\ o.token = None
         \/ /\ o.pc = ops[r].pc /\ o.id = ops[r].id /\ o.outcome = ops[r].outcome
            /\ o.token = ops[r].token /\ o.target = ops[r].target /\ o.effective = ops[r].effective
            /\ (o.needs => ops[r].needs) /\ (o.claimed => ops[r].claimed),
         UNCHANGED <<live, actor, lease, woken, attempts, backend>>
  PROVE  /\ ActorInv' /\ OutcomeInv' /\ LeaseInv' /\ TokenInv' /\ PromptInv'
         /\ gate' = gate /\ ops[r].pc # "blocked" => WaitInv'
  <1>1. TypeOK /\ ActorInv /\ OutcomeInv /\ WaitInv /\ LeaseInv /\ TokenInv /\ PromptInv
    BY DEF IInv, DispatchInv
  <1>2. ops'[r] = o /\ \A q \in Requests : q # r => ops'[q] = ops[q]
    BY <1>1 DEF TypeOK
  <1>3. UNCHANGED <<sync, latest, current>>
    BY DEF actor
  <1>4. ActorInv'
    <2>1. \A q \in Requests : /\ ops'[q].pc \in Active <=> ops[q].pc \in Active
                              /\ ops[q].pc \in Active => ops'[q].pc = ops[q].pc /\ ops'[q].id = ops[q].id
      BY <1>2 DEF Active
    <2> QED
      BY <1>1, <1>3, <2>1, ActorFrame
  <1>5. OutcomeInv'
    <2> SUFFICES ASSUME NEW q \in Requests
                 PROVE  /\ ops'[q].pc \in {"free", "locating", "unrequested", "blocked", "queued"}
                             => ops'[q].outcome = None
                        /\ q = current /\ ops'[q].pc \in {"resolving", "applying"}
                             => ops'[q].outcome = None
                        /\ ops'[q].pc \in {"finished", "done"} => ops'[q].outcome # None
                        /\ ops'[q].pc = "free" => ~ops'[q].claimed /\ ops'[q].token = None
      BY <1>3 DEF OutcomeInv
    <2>1. CASE q = r
      BY <1>1, <1>2, <2>1 DEF OutcomeInv
    <2>2. CASE q # r
      BY <1>1, <1>2, <2>2 DEF OutcomeInv
    <2> QED
      BY <2>1, <2>2
  <1>6. LeaseInv'
    BY <1>1 DEF LeaseInv
  <1>7. TokenInv'
    <2>1. ASSUME NEW q \in Requests, ops'[q].token # None, ops'[q].outcome = None
          PROVE  /\ ops'[q].token = ops[q].token /\ ops[q].outcome = None
                 /\ ops'[q].target = ops[q].target /\ (ops'[q].needs => ops[q].needs)
                 /\ ops'[q].pc = "applying" => ops[q].pc = "applying" /\ ops'[q].effective = ops[q].effective
      <3>1. CASE q = r
        BY <1>2, <2>1, <3>1
      <3>2. CASE q # r
        BY <1>2, <2>1, <3>2
      <3> QED
        BY <3>1, <3>2
    <2> QED
      BY <1>1, <2>1, TokenFrame DEF Holds
  <1>8. PromptInv'
    <2>1. ops[r].token # None => ops'[r].token = ops[r].token /\ ops'[r].outcome = ops[r].outcome
      <3>1. CASE ops[r].pc = "free"
        BY <1>1, <3>1 DEF OutcomeInv
      <3>2. CASE ops[r].pc = "locating"
        BY <3>2 DEF IInv, PickInv
      <3> QED
        BY <1>2, <3>1, <3>2
    <2>2. \A q \in Requests : ops'[q].pc \in {"queued", "resolving", "applying"}
                              => ops[q].pc \in {"queued", "resolving", "applying"}
      BY <1>2
    <2>3. Quiet => Quiet'
      BY <2>2, QuietFrame
    <2> QED
      BY <1>1, <1>2, <1>3, <2>1, <2>3, PromptFrame DEF Holds
  <1>9. gate' = gate /\ ops[r].pc # "blocked" => WaitInv'
    BY <1>1, <1>2, WaitFrame
  <1> QED
    BY <1>4, <1>5, <1>6, <1>7, <1>8, <1>9

LEMMA RecordKeeps ==
  ASSUME IInv, DispatchInv, NEW r \in Requests, NEW t \in Targets, NEW cleared \in Selection \cup {None},
         Free(r), Record(r, t, cleared)
  PROVE  DispatchInv'
  <1> DEFINE o == [NewOperation EXCEPT !.pc = "locating", !.id = r, !.target = t, !.claimed = TRUE]
  <1>1. o \in Operation /\ o.pc = "locating"
    BY NewOperationType DEF Operation, MaybeRequest, MaybeTarget
  <1>2. o.token = None /\ o.claimed = TRUE /\ o.outcome = None
    BY DEF NewOperation
  <1>3. /\ ops' = [ops EXCEPT ![r] = o]
        /\ UNCHANGED <<live, actor, lease, gate, woken, attempts, backend>>
    BY DEF Record, tasks
  <1> HIDE DEF o
  <1>4. ops[r].pc = "free"
    BY DEF Free
  <1>5. /\ ActorInv' /\ OutcomeInv' /\ LeaseInv' /\ TokenInv' /\ PromptInv' /\ WaitInv'
    BY <1>1, <1>2, <1>3, <1>4, RowKeeps
  <1>6. ops'[r] = o /\ \A q \in Requests : q # r => ops'[q] = ops[q]
    BY <1>3 DEF IInv, TypeOK
  <1> DEFINE pick == [id |-> r, target |-> t]
  <1>7. pick # None /\ pick.id = r
    <2>1. pick \in Selection
      BY DEF Selection
    <2> QED
      BY <2>1, TargetAssumption
  <1>8. r \notin Range(woken)
    BY <1>4 DEF DispatchInv, WaitInv
  <1>9. CASE lease # None
    <2>1. deferredSelection' = pick
      BY <1>9 DEF Record
    <2> QED
      BY <1>1, <1>2, <1>3, <1>5, <1>6, <1>7, <1>8, <1>9, <2>1 DEF DispatchInv, IntentInv
  <1>10. CASE lease = None
    <2>1. selection' = pick /\ deferredSelection' = deferredSelection
      BY <1>10 DEF Record
    <2>2. deferredSelection = None
      BY <1>10 DEF DispatchInv, IntentInv
    <2> QED
      BY <1>2, <1>5, <1>6, <1>7, <2>1, <2>2 DEF DispatchInv, IntentInv
  <1> QED
    BY <1>9, <1>10

LEMMA PickModelKeeps ==
  ASSUME IInv, DispatchInv, NEW r \in Requests, NEW t \in Targets, PickModel(r, t)
  PROVE  DispatchInv'
  BY RecordKeeps DEF PickModel, IInv, TypeOK

LEMMA PickProviderKeeps ==
  ASSUME IInv, DispatchInv, NEW r \in Requests, NEW t \in Targets, PickProvider(r, t)
  PROVE  DispatchInv'
  <1>1. (IF deferredSelection # None THEN selection ELSE None) \in Selection \cup {None}
    BY DEF IInv, TypeOK
  <1> QED
    BY <1>1, RecordKeeps DEF PickProvider

LEMMA RequestKeeps ==
  ASSUME IInv, DispatchInv, NEW r \in Requests, NEW o \in Operation, o.token = None, o.outcome = None,
         ops[r].pc \in {"free", "locating"}, Request(r, o), ops[r].claimed => o.claimed,
         UNCHANGED <<live, store, intents, deferredMutation, lease, woken, notifying,
                     attempts, backend>>
  PROVE  DispatchInv'
  <1>1. /\ TypeOK /\ ActorInv /\ OutcomeInv /\ WaitInv /\ IntentInv /\ LeaseInv
        /\ TokenInv /\ PromptInv
    BY DEF IInv, DispatchInv
  <1>2. CASE lease # None
    <2> DEFINE b == [o EXCEPT !.pc = "blocked"]
    <2>1. /\ b \in Operation /\ b.pc = "blocked" /\ b.token = None /\ b.outcome = None
      BY DEF Operation
    <2>2. b.claimed = o.claimed
      BY DEF Operation
    <2>3. /\ ops' = [ops EXCEPT ![r] = b] /\ gate' = Append(gate, r) /\ UNCHANGED actor
      BY <1>2 DEF Request
    <2> HIDE DEF b
    <2>4. ActorInv' /\ OutcomeInv' /\ LeaseInv' /\ TokenInv' /\ PromptInv'
      BY <2>1, <2>3, RowKeeps
    <2>5. ops'[r] = b /\ \A q \in Requests : q # r => ops'[q] = ops[q]
      BY <1>1, <2>3 DEF TypeOK
    <2>6. /\ gate \in Seq(Requests) /\ woken \in Seq(Requests)
          /\ Range(gate) \cup Range(woken) \subseteq Requests
          /\ r \notin Range(gate) \cup Range(woken)
      BY <1>1, RangeSeq DEF TypeOK, WaitInv
    <2>7. WaitInv'
      <3>1. /\ woken \o gate \in Seq(Requests)
            /\ woken' \o gate' = Append(woken \o gate, r)
        BY <2>3, <2>6
      <3>2. Range(woken \o gate) \subseteq Range(woken) \cup Range(gate)
        BY <2>6, RangeSeq
      <3>3. IsInjective(woken' \o gate')
        BY <1>1, <2>6, <3>1, <3>2, InjectiveAppend DEF WaitInv
      <3>4. Range(gate') \cup Range(woken') \subseteq Range(gate) \cup Range(woken) \cup {r}
        BY <2>3, <2>6, RangeSeq
      <3> QED
        BY <1>1, <2>1, <2>5, <2>6, <3>3, <3>4 DEF WaitInv
    <2>8. IntentInv'
      <3>1. deferredSelection # None => lease' # None
        BY <1>2
      <3>2. \A q \in Requests : ops[q].claimed => ops'[q].claimed
        BY <2>2, <2>5
      <3>3. \A q \in Requests : ops[q].pc \in {"locating", "blocked"} => ops'[q].pc \in {"locating", "blocked"}
        BY <2>1, <2>5
      <3> QED
        BY <1>1, <3>1, <3>2, <3>3, IntentFrame DEF intents
    <2> QED
      BY <2>4, <2>7, <2>8 DEF DispatchInv
  <1>3. CASE lease = None
    <2>1. Enqueue(r, o, store, ops) /\ UNCHANGED <<gate, woken, selection, deferredSelection>>
          /\ store \in StoreState
      BY <1>1, <1>3 DEF Request, TypeOK, intents
    <2>2. deferredSelection = None
      BY <1>1, <1>3 DEF IntentInv
    <2>3. ActorInv' /\ OutcomeInv' /\ IntentInv'
      BY <1>1, <2>1, <2>2, EnqueueKeeps
    <2>4. WaitInv'
      BY <1>1, <2>1, WaitEnqueue
    <2>5. LeaseInv'
      BY <1>1 DEF LeaseInv
    <2>6. TokenInv'
      BY <1>1, <2>1, TokenEnqueue
    <2>7. PromptInv'
      BY <1>3 DEF PromptInv, Holds
    <2> QED
      BY <2>3, <2>4, <2>5, <2>6, <2>7 DEF DispatchInv
  <1> QED
    BY <1>2, <1>3

LEMMA LocatedKeeps ==
  ASSUME IInv, DispatchInv, NEW r \in Requests, Located(r)
  PROVE  DispatchInv'
  <1>1. /\ ops[r] \in Operation /\ ops[r].pc = "locating" /\ ops[r].token = None
        /\ ops[r].outcome = None
        /\ UNCHANGED <<live, store, intents, deferredMutation, lease, woken, notifying,
                       attempts, backend>>
    BY DEF Located, IInv, TypeOK, PickInv, DispatchInv, OutcomeInv
  <1>2. CASE StillWanted(r)
    BY <1>1, <1>2, RequestKeeps DEF Located
  <1>3. CASE ~StillWanted(r)
    <2> DEFINE o == [ops[r] EXCEPT !.pc = "unrequested"]
    <2>1. o \in Operation /\ o.pc = "unrequested" /\ o.token = None /\ o.outcome = None
      BY <1>1 DEF Operation
    <2>2. o.claimed = ops[r].claimed
      BY <1>1 DEF Operation
    <2>3. ops' = [ops EXCEPT ![r] = o] /\ UNCHANGED <<actor, gate>>
      BY <1>3 DEF Located, IInv, TypeOK
    <2> HIDE DEF o
    <2>4. ActorInv' /\ OutcomeInv' /\ LeaseInv' /\ TokenInv' /\ PromptInv' /\ WaitInv'
      BY <1>1, <2>1, <2>3, RowKeeps
    <2>5. ops'[r] = o /\ \A q \in Requests : q # r => ops'[q] = ops[q]
      BY <2>3 DEF IInv, TypeOK
    <2>6. IntentInv'
      <3>1. deferredSelection # None => deferredSelection.id # r
        <4> SUFFICES ASSUME deferredSelection # None, deferredSelection.id = r PROVE FALSE
          OBVIOUS
        <4>1. ops[r].claimed
          BY DEF DispatchInv, IntentInv
        <4>2. IntentId(VisibleIntent) = r
          BY DEF IntentId, VisibleIntent
        <4> QED
          BY <1>3, <4>1, <4>2 DEF StillWanted
      <3>2. \A q \in Requests : ops[q].claimed => ops'[q].claimed
        BY <2>2, <2>5
      <3>3. \A q \in Requests : q # r /\ ops[q].pc \in {"locating", "blocked"}
                                => ops'[q].pc \in {"locating", "blocked"}
        BY <2>5
      <3>4. deferredSelection # None => lease' # None
        BY <1>1 DEF DispatchInv, IntentInv
      <3> QED
        BY <1>1, <3>1, <3>2, <3>3, <3>4, IntentFrame DEF DispatchInv, IInv, intents
    <2> QED
      BY <2>4, <2>6 DEF DispatchInv
  <1> QED
    BY <1>2, <1>3

\* A picker that was answered is not the one of a deferred pick.
LEMMA ClearPickKeeps ==
  ASSUME IInv, DispatchInv, NEW r \in Requests, ClearPick(r)
  PROVE  DispatchInv'
  <1> DEFINE o == [ops[r] EXCEPT !.claimed = FALSE]
  <1>1. /\ ops[r] \in Operation /\ ops' = [ops EXCEPT ![r] = o]
        /\ ops[r].pc = "unrequested" \/ ops[r].outcome # None
        /\ UNCHANGED <<live, actor, lease, gate, woken, attempts, backend>>
    BY DEF ClearPick, IInv, TypeOK, tasks
  <1>2. /\ o \in Operation /\ o.pc = ops[r].pc /\ o.id = ops[r].id /\ o.token = ops[r].token
        /\ o.target = ops[r].target /\ o.effective = ops[r].effective
        /\ o.outcome = ops[r].outcome
    BY <1>1 DEF Operation
  <1>3. o.needs = ops[r].needs /\ o.claimed = FALSE
    BY <1>1 DEF Operation
  <1> HIDE DEF o
  <1>4. ops'[r] = o /\ \A q \in Requests : q # r => ops'[q] = ops[q]
    BY <1>1 DEF IInv, TypeOK
  <1>5. ops[r].pc # "blocked" /\ ops[r].pc # "locating"
    BY <1>1 DEF DispatchInv, OutcomeInv
  <1>6. ActorInv' /\ OutcomeInv' /\ LeaseInv' /\ TokenInv' /\ PromptInv' /\ WaitInv'
    BY <1>1, <1>2, <1>3, <1>5, RowKeeps
  <1>7. IntentInv'
    <2>1. CASE deferredSelection # None
      <3>1. deferredSelection.id # r /\ deferredSelection.id \in Requests
        BY <1>5, <2>1 DEF DispatchInv, IntentInv, IInv, TypeOK, Selection
      <3>2. deferredSelection' = deferredSelection
        BY <2>1, <3>1 DEF ClearPick, Cleared, IntentId
      <3> QED
        BY <1>1, <1>4, <2>1, <3>1, <3>2 DEF DispatchInv, IntentInv
    <2>2. CASE deferredSelection = None
      <3>1. deferredSelection' = None /\ selection' = Cleared(selection, r)
        BY <2>2 DEF ClearPick
      <3>2. selection' # None => selection' = selection /\ selection.id # r /\ selection.id \in Requests
        BY <3>1 DEF Cleared, IntentId, IInv, TypeOK, Selection
      <3> QED
        BY <1>4, <2>2, <3>1, <3>2 DEF DispatchInv, IntentInv
    <2> QED
      BY <2>1, <2>2
  <1> QED
    BY <1>6, <1>7 DEF DispatchInv

LEMMA ReprepareKeeps ==
  ASSUME IInv, DispatchInv, NEW r \in Requests, Reprepare(r)
  PROVE  DispatchInv'
  <1>1. /\ ops[r].pc = "free" /\ store.target \in MaybeTarget
        /\ VisibleIntent \in Selection \cup {None}
        /\ UNCHANGED <<live, store, actor, intents, deferredMutation, lease, gate, woken,
                       attempts, backend>>
    BY DEF Reprepare, Free, VisibleIntent, IInv, TypeOK, StoreState, tasks
  <1>2. ASSUME NEW id \in MaybeRequest, NEW t \in MaybeTarget,
               ops' = [ops EXCEPT ![r] =
                 [NewOperation EXCEPT !.pc = "locating", !.id = id, !.target = t]]
        PROVE  DispatchInv'
    <2> DEFINE o == [NewOperation EXCEPT !.pc = "locating", !.id = id, !.target = t]
    <2>1. o \in Operation /\ o.pc = "locating"
      BY NewOperationType DEF Operation
    <2>2. o.token = None /\ o.outcome = None
      BY DEF NewOperation
    <2>3. ops' = [ops EXCEPT ![r] = o]
      BY <1>2
    <2> HIDE DEF o
    <2>4. ActorInv' /\ OutcomeInv' /\ LeaseInv' /\ TokenInv' /\ PromptInv' /\ WaitInv'
      BY <1>1, <2>1, <2>2, <2>3, RowKeeps
    <2>5. ops'[r] = o /\ \A q \in Requests : q # r => ops'[q] = ops[q]
      BY <2>3 DEF IInv, TypeOK
    <2>6. IntentInv'
      <3>1. \A q \in Requests : ops[q].claimed => ops'[q].claimed
        BY <1>1, <2>5 DEF DispatchInv, OutcomeInv
      <3>2. \A q \in Requests : ops[q].pc \in {"locating", "blocked"} => ops'[q].pc \in {"locating", "blocked"}
        BY <2>1, <2>5
      <3>3. deferredSelection # None => lease' # None
        BY <1>1 DEF DispatchInv, IntentInv
      <3> QED
        BY <1>1, <3>1, <3>2, <3>3, IntentFrame DEF DispatchInv, IInv, intents
    <2> QED
      BY <2>4, <2>6 DEF DispatchInv
  <1>3. CASE VisibleIntent # None
    <2>1. VisibleIntent.id \in MaybeRequest /\ VisibleIntent.target \in MaybeTarget
      BY <1>1, <1>3 DEF Selection, MaybeRequest, MaybeTarget
    <2> QED
      BY <1>2, <1>3, <2>1 DEF Reprepare
  <1>4. CASE VisibleIntent = None
    BY <1>1, <1>2, <1>4 DEF Reprepare, MaybeRequest
  <1> QED
    BY <1>3, <1>4

LEMMA RefreshKeeps ==
  ASSUME IInv, DispatchInv, NEW r \in Requests, NEW t \in Targets, Refresh(r, t)
  PROVE  DispatchInv'
  <1> DEFINE o == [NewOperation EXCEPT !.id = r, !.target = t, !.needs = TRUE]
  <1>1. o \in Operation
    BY NewOperationType DEF Operation, MaybeRequest, MaybeTarget
  <1>2. o.token = None /\ o.outcome = None
    BY DEF NewOperation
  <1> HIDE DEF o
  <1>3. /\ Request(r, o) /\ ops[r].pc = "free"
        /\ UNCHANGED <<live, store, intents, deferredMutation, lease, woken, notifying,
                       attempts, backend>>
    BY DEF Refresh, Free, o
  <1>4. ~ops[r].claimed
    BY <1>3 DEF DispatchInv, OutcomeInv
  <1> QED
    BY <1>1, <1>2, <1>3, <1>4, RequestKeeps
-----------------------------------------------------------------------------
(* Observations *)

\* An observation moves neither the actor, nor the picks, nor the backend.
LEMMA ObservationKeeps ==
  ASSUME IInv, DispatchInv, Observation, sync'.status = "transitioning" => sync' = sync
  PROVE  DispatchInv'
  <1>1. UNCHANGED <<live, latest, current, selection, deferredSelection, lease, gate, woken, ops,
                    attempts, backend>>
    BY DEF Observation, intents, tasks
  <1>2. ActorInv' /\ OutcomeInv'
    BY <1>1, ActorFrame, OutcomeFrame DEF DispatchInv, IInv
  <1>3. WaitInv' /\ IntentInv' /\ LeaseInv'
    BY <1>1 DEF DispatchInv, WaitInv, IntentInv, LeaseInv
  <1>4. TokenInv'
    BY <1>1 DEF DispatchInv, TokenInv, Holds
  <1>5. PromptInv'
    BY <1>1 DEF DispatchInv, PromptInv, ServedInv, Quiet, Holds
  <1> QED
    BY <1>2, <1>3, <1>4, <1>5 DEF DispatchInv

LEMMA HydrateKeeps ==
  ASSUME IInv, DispatchInv, NEW t \in Targets, Hydrate(t)
  PROVE  DispatchInv'
  <1>1. Observation /\ sync' \in {sync, Settled(t)}
    BY DEF Hydrate
  <1>2. Settled(t).status # "transitioning"
    BY DEF Settled
  <1> QED
    BY <1>1, <1>2, ObservationKeeps

LEMMA ReplaceAfterDispatchKeeps ==
  ASSUME IInv, DispatchInv, NEW t \in MaybeTarget, ReplaceAfterDispatch(t)
  PROVE  DispatchInv'
  BY ObservationKeeps DEF ReplaceAfterDispatch

LEMMA WriteStoreKeeps ==
  ASSUME IInv, DispatchInv, NEW t \in MaybeTarget, WriteStore(t)
  PROVE  DispatchInv'
  BY ObservationKeeps DEF WriteStore

LEMMA ObserveModelKeeps ==
  ASSUME IInv, DispatchInv, NEW t \in Targets, NEW q \in MaybeRequest, NEW m \in MaybeTarget,
         ObserveModel(t, q, m)
  PROVE  DispatchInv'
  <1>1. Settled(t).status # "transitioning"
    BY DEF Settled
  <1>2. Observation /\ (sync' = sync \/ sync' = Settled(t) \/ \E id : sync' = Acknowledged(id, t))
    BY DEF ObserveModel
  <1> QED
    BY <1>1, <1>2, ObservationKeeps DEF Acknowledged

\* The removed session's operations are answered, and its lease is gone.
LEMMA RemoveKeeps ==
  ASSUME IInv, DispatchInv, Remove
  PROVE  DispatchInv'
  <1>1. /\ ~live' /\ latest' = None /\ current' = None /\ sync' = Unresolved
        /\ selection' = None /\ deferredSelection' = None /\ lease' = None
        /\ gate' = <<>> /\ woken' = woken \o gate
        /\ UNCHANGED <<attempts, backend>>
    BY DEF Remove, OpenedGate
  <1>2. \A q \in Requests : ops[q] \in Operation /\ q # None
    BY TargetAssumption DEF IInv, TypeOK
  <1>3. ASSUME NEW q \in Requests
        PROVE  \/ /\ q # current /\ q # latest
                  /\ ops'[q] = ops[q]
               \/ /\ q = current /\ ops[q].pc \in Executing
                  /\ ops'[q].pc = ops[q].pc /\ ops'[q].outcome # None
               \/ /\ q # current /\ q = latest /\ ops[q].pc = "queued"
                  /\ ops'[q].pc = "done" /\ ops'[q].outcome # None
    <2>1. ops[q] \in Operation /\ q # None /\ "session-missing" \in Outcomes /\ None \notin Outcomes
      BY <1>2, TargetAssumption DEF Outcomes
    <2>2. CASE q = current
      <3>1. ops'[q] = Settle(ops[q], "session-missing")
        BY <2>1, <2>2 DEF Remove
      <3>2. ops'[q].pc = ops[q].pc /\ ops'[q].outcome # None
        BY <2>1, <3>1 DEF Settle, Operation
      <3> QED
        BY <2>1, <2>2, <3>2 DEF DispatchInv, ActorInv
    <2>3. CASE q # current /\ q = latest
      <3>1. ops'[q] = Retired(ops[q], "done", "session-missing", None)
        BY <2>1, <2>3 DEF Remove
      <3>2. ops'[q].pc = "done" /\ ops'[q].outcome # None
        BY <2>1, <3>1, RetiredType DEF MaybeTarget
      <3> QED
        BY <2>3, <3>2 DEF DispatchInv, ActorInv
    <2>4. CASE q # current /\ q # latest
      BY <2>1, <2>4 DEF Remove
    <2> QED
      BY <2>2, <2>3, <2>4
  <1>4. ActorInv'
    <2>1. \A q \in Requests : ops'[q].pc # "queued"
      BY <1>3 DEF DispatchInv, ActorInv, Executing
    <2>2. Unresolved.status # "transitioning"
      BY DEF Unresolved
    <2> QED
      BY <1>1, <2>1, <2>2 DEF ActorInv
  <1>5. OutcomeInv'
    <2> SUFFICES ASSUME NEW q \in Requests
                 PROVE  /\ ops'[q].pc \in {"free", "locating", "unrequested", "blocked", "queued"}
                             => ops'[q].outcome = None
                        /\ ops'[q].pc \in {"finished", "done"} => ops'[q].outcome # None
                        /\ ops'[q].pc = "free" => ~ops'[q].claimed /\ ops'[q].token = None
      BY <1>1, <1>2 DEF OutcomeInv
    <2> QED
      BY <1>3 DEF DispatchInv, OutcomeInv, Executing
  <1>6. WaitInv'
    <2>1. \A q \in Requests : ops[q].pc = "blocked" => ops'[q].pc = "blocked"
      BY <1>3 DEF Executing
    <2> QED
      BY <1>1, <2>1, WaitOpens DEF DispatchInv, IInv
  <1>7. IntentInv' /\ LeaseInv' /\ PromptInv'
    BY <1>1 DEF IntentInv, LeaseInv, PromptInv, Holds
  <1>8. TokenInv'
    <2>1. \A q \in Requests : ops'[q].outcome = None => ops'[q] = ops[q]
      BY <1>3
    <2>2. \A a \in Attempts : ~Holds(a)'
      BY <1>1 DEF Holds
    <2> QED
      BY <1>1, <2>1, <2>2 DEF DispatchInv, TokenInv
  <1> QED
    BY <1>4, <1>5, <1>6, <1>7, <1>8 DEF DispatchInv
-----------------------------------------------------------------------------
(* The invariant *)

LEMMA InitDispatchInv == Init => DispatchInv
  <1> SUFFICES ASSUME Init PROVE DispatchInv
    OBVIOUS
  <1>1. /\ latest = None /\ current = None /\ lease = None /\ selection = None
        /\ deferredSelection = None /\ gate = <<>> /\ woken = <<>>
    BY DEF Init
  <1>2. \A r \in Requests : /\ ops[r].pc = "free" /\ ops[r].outcome = None /\ ops[r].token = None
                            /\ ~ops[r].claimed /\ r # None
    BY TargetAssumption DEF Init, NewOperation
  <1>3. ActorInv
    BY <1>1, <1>2 DEF Init, ActorInv, Executing, SettledOrUnresolved, Settled, Unresolved
  <1>4. OutcomeInv
    BY <1>1, <1>2 DEF OutcomeInv
  <1>5. WaitInv
    <2>1. woken \o gate = <<>>
      BY <1>1
    <2> QED
      BY <1>1, <2>1 DEF WaitInv, IsInjective, Range
  <1>6. IntentInv /\ LeaseInv /\ PromptInv
    BY <1>1 DEF IntentInv, LeaseInv, PromptInv, Holds
  <1>7. TokenInv
    BY <1>2, TargetAssumption DEF TokenInv
  <1> QED
    BY <1>3, <1>4, <1>5, <1>6, <1>7 DEF DispatchInv

LEMMA StutterKeeps ==
  ASSUME IInv, DispatchInv, UNCHANGED vars
  PROVE  DispatchInv'
  BY ObservationKeeps DEF Observation, vars, actor, intents, tasks

LEMMA NextDispatchInv == IInv /\ DispatchInv /\ [Next]_vars => DispatchInv'
  <1> SUFFICES ASSUME IInv, DispatchInv, [Next]_vars PROVE DispatchInv'
    OBVIOUS
  <1>1. CASE RunWoken
    BY <1>1, RunWokenKeeps
  <1>2. CASE Notify
    BY <1>2, NotifyKeeps
  <1>3. CASE Observe
    BY <1>3, HydrateKeeps, ReplaceAfterDispatchKeeps, WriteStoreKeeps, ObserveModelKeeps, RemoveKeeps
    DEF Observe
  <1>4. ASSUME NEW r \in Requests, Execute(r) PROVE DispatchInv'
    BY <1>4, ResolveKeeps, ResolveFailsKeeps, AnswerKeeps, AnswerFailsKeeps, DrainKeeps DEF Execute
  <1>5. ASSUME NEW r \in Requests, User(r) PROVE DispatchInv'
    BY <1>5, PickModelKeeps, PickProviderKeeps, LocatedKeeps, ClearPickKeeps, ReprepareKeeps,
       RefreshKeeps DEF User
  <1>6. ASSUME NEW a \in Attempts, Dispatch(a) PROVE DispatchInv'
    BY <1>6, AcquireKeeps, PrepareKeeps, PreparedKeeps, RouteKeeps, RoutedKeeps, PromptKeeps,
       EndAttemptKeeps, ReleaseKeeps, CancelWaitKeeps DEF Dispatch
  <1>7. CASE UNCHANGED vars
    BY <1>7, StutterKeeps
  <1> QED
    BY <1>1, <1>2, <1>3, <1>4, <1>5, <1>6, <1>7 DEF Next

LEMMA ActorInvariance == Spec => [](IInv /\ DispatchInv)
  <1>1. Init => IInv /\ DispatchInv
    BY InitInv, InitDispatchInv
  <1>2. IInv /\ DispatchInv /\ [Next]_vars => (IInv /\ DispatchInv)'
    BY NextInv, NextDispatchInv
  <1> QED
    BY <1>1, <1>2, PTL DEF Spec

-----------------------------------------------------------------------------
(* What callers are told *)

\* No answer is revised, and only the requests of R are told of a commit.
Told(R) ==
  \A q \in Requests :
    /\ ops[q].outcome # None => ops'[q].outcome = ops[q].outcome
    /\ q \notin R /\ ops[q].outcome = None => ops'[q].outcome # "committed"

LEMMA SameTold ==
  ASSUME ops' = ops
  PROVE  Told({})
  BY TargetAssumption DEF Told, Outcomes

LEMMA RowTold ==
  ASSUME TypeOK, NEW r \in Requests, NEW o, ops' = [ops EXCEPT ![r] = o],
         o.outcome = ops[r].outcome
  PROVE  Told({})
  BY TargetAssumption DEF Told, TypeOK, Outcomes

LEMMA RetiredTold ==
  ASSUME TypeOK, NEW r \in Requests, NEW outcome \in Outcomes, NEW t \in MaybeTarget,
         ops' = [ops EXCEPT ![r] = Retired(@, "finished", outcome, t)]
  PROVE  /\ Told({r})
         /\ outcome # "committed" => Told({})
  <1>1. ops[r] \in Operation
    BY DEF TypeOK
  <1>2. /\ ops[r].outcome = None => ops'[r].outcome = outcome
        /\ ops[r].outcome # None => ops'[r].outcome = ops[r].outcome
        /\ \A q \in Requests : q # r => ops'[q] = ops[q]
    BY <1>1, RetiredType DEF TypeOK
  <1>3. None # "committed"
    BY TargetAssumption DEF Outcomes
  <1> QED
    BY <1>2, <1>3 DEF Told

LEMMA EnqueueTold ==
  ASSUME TypeOK, ActorInv, OutcomeInv, NEW r \in Requests, NEW o \in Operation,
         NEW s \in StoreState, Enqueue(r, o, s, ops),
         ops[r].pc \in {"free", "locating", "blocked"}, o.outcome = None
  PROVE  Told({})
  <1>1. ops'[r].outcome = o.outcome /\ ops[r].outcome = None
    BY EnqueueRows DEF OutcomeInv
  <1>2. \A q \in Requests : q # r => \/ ops'[q] = ops[q]
                                     \/ ops[q].pc = "queued" /\ ops'[q].outcome = "superseded"
    BY EnqueueRows
  <1>3. None # "committed"
    BY TargetAssumption DEF Outcomes
  <1> QED
    BY <1>1, <1>2, <1>3 DEF Told, OutcomeInv

LEMMA RequestTold ==
  ASSUME TypeOK, ActorInv, OutcomeInv, NEW r \in Requests, NEW o \in Operation, Request(r, o),
         ops[r].pc \in {"free", "locating", "blocked"}, o.outcome = None
  PROVE  Told({})
  <1>1. CASE lease # None
    <2>1. [o EXCEPT !.pc = "blocked"].outcome = ops[r].outcome
      BY PcKeeps DEF OutcomeInv
    <2> QED
      BY <1>1, <2>1, RowTold DEF Request
  <1>2. CASE lease = None
    BY <1>2, EnqueueTold DEF Request, TypeOK
  <1> QED
    BY <1>1, <1>2

LEMMA SupersedeTold ==
  ASSUME TypeOK, NEW r \in Requests, Supersede(r)
  PROVE  Told({})
  BY RetiredTold DEF Supersede, Finish, Outcomes, MaybeTarget

LEMMA ThrowTold ==
  ASSUME TypeOK, NEW r \in Requests, Throw(r)
  PROVE  Told({})
  <1>1. CASE Supersede(r)
    BY <1>1, SupersedeTold
  <1>2. CASE Finish(r, "failed")
    BY <1>2, RetiredTold DEF Finish, Outcomes, MaybeTarget
  <1> QED
    BY <1>1, <1>2 DEF Throw

\* A resolved operation goes on, is refused, or commits the target the store has.
LEMMA ResolveTold ==
  ASSUME TypeOK, NEW r \in Requests, NEW e \in Targets, Resolve(r, e)
  PROVE  \/ Told({})
         \/ Told({r}) /\ ops[r].pc = "resolving" /\ store.target = e /\ UNCHANGED store /\ Commit(r, e)
  <1>1. ops[r].pc = "resolving" /\ ops[r] \in Operation
    BY DEF Resolve, TypeOK
  <1>2. CASE Supersede(r)
    BY <1>2, SupersedeTold
  <1>3. CASE Throw(r)
    BY <1>3, ThrowTold
  <1>4. CASE ops' = [ops EXCEPT ![r].pc = "applying", ![r].effective = e]
    <2>1. ops' = [ops EXCEPT ![r] = [ops[r] EXCEPT !.pc = "applying", !.effective = e]]
      BY <1>4 DEF TypeOK
    <2>2. [ops[r] EXCEPT !.pc = "applying", !.effective = e].outcome = ops[r].outcome
      BY <1>1 DEF Operation
    <2> QED
      BY <2>1, <2>2, RowTold
  <1>5. CASE store.target = e /\ UNCHANGED store /\ Commit(r, e)
    BY <1>1, <1>5, RetiredTold DEF Commit, Outcomes, MaybeTarget
  <1> QED
    BY <1>2, <1>3, <1>4, <1>5 DEF Resolve

\* An answered operation is refused, or commits what the backend runs.
LEMMA AnswerTold ==
  ASSUME TypeOK, NEW r \in Requests, NEW t \in Targets, NEW m \in MaybeTarget, Answer(r, t, m)
  PROVE  \/ Told({})
         \/ /\ Told({r}) /\ ops[r].pc = "applying" /\ t \in Materialized(ops[r].effective)
            /\ Commit(r, t) /\ lease' = lease
            /\ live => Publish(IF store.target = t THEN store ELSE WithTarget(store, t, "ui"), m)
  <1>1. ops[r].pc = "applying" /\ t \in Materialized(ops[r].effective) /\ lease' = lease
    BY DEF Answer, Continue
  <1>2. CASE Supersede(r)
    BY <1>2, SupersedeTold
  <1>3. CASE /\ Commit(r, t)
             /\ live => Publish(IF store.target = t THEN store ELSE WithTarget(store, t, "ui"), m)
    <2>1. Told({r})
      BY <1>3, RetiredTold DEF Commit, Outcomes, MaybeTarget
    <2> QED
      BY <1>1, <1>3, <2>1
  <1> QED
    BY <1>2, <1>3 DEF Answer

LEMMA DrainTold ==
  ASSUME TypeOK, NEW r \in Requests, Drain(r)
  PROVE  Told({})
  <1>1. \A q \in Requests : ops[q] \in Operation
    BY DEF TypeOK
  <1>2. \A q \in Requests : ops'[q] \in {ops[q], [ops[q] EXCEPT !.pc = "done"],
                                         [ops[q] EXCEPT !.pc = "resolving"]}
    BY DEF Drain, TypeOK
  <1>3. ASSUME NEW q \in Requests PROVE ops'[q].outcome = ops[q].outcome
    <2>1. /\ [ops[q] EXCEPT !.pc = "done"].outcome = ops[q].outcome
          /\ [ops[q] EXCEPT !.pc = "resolving"].outcome = ops[q].outcome
      BY <1>1, PcKeeps
    <2> QED
      BY <1>2, <2>1
  <1> QED
    BY <1>3, TargetAssumption DEF Told, Outcomes

LEMMA RunWokenTold ==
  ASSUME IInv, DispatchInv, RunWoken
  PROVE  Told({})
  <1>1. Head(woken) \in Range(woken) /\ Head(woken) \in Requests
    <2>1. woken \in Seq(Requests) /\ woken # <<>>
      BY DEF IInv, TypeOK, RunWoken
    <2>2. 1 \in DOMAIN woken /\ woken[1] = Head(woken)
      BY <2>1
    <2> QED
      BY <2>1, <2>2 DEF Range
  <1>2. ops[Head(woken)].pc = "blocked" /\ ops[Head(woken)] \in Operation
    BY <1>1 DEF DispatchInv, WaitInv, IInv, TypeOK
  <1>3. ops[Head(woken)].outcome = None
    BY <1>1, <1>2 DEF DispatchInv, OutcomeInv
  <1> QED
    BY <1>1, <1>2, <1>3, EnqueueTold DEF RunWoken, IInv, TypeOK, DispatchInv

LEMMA PrepareTold ==
  ASSUME IInv, DispatchInv, NEW a \in Attempts, Prepare(a)
  PROVE  Told({})
  <1>1. PICK r \in Requests :
          Free(r) /\ Enqueue(r, [NewOperation EXCEPT !.id = r, !.target = lease.target, !.token = a],
                             store, ops)
    BY DEF Prepare
  <1> DEFINE o == [NewOperation EXCEPT !.id = r, !.target = lease.target, !.token = a]
  <1>2. lease \in Lease
    BY DEF Prepare, Holds, IInv, TypeOK
  <1>3. lease.target \in Targets
    BY <1>2 DEF Lease
  <1>4. o \in Operation
    BY <1>3, NewOperationType DEF Operation, MaybeRequest, MaybeTarget
  <1>5. o.outcome = None
    BY DEF NewOperation
  <1> HIDE DEF o
  <1>6. Enqueue(r, o, store, ops)
    BY <1>1 DEF o
  <1> QED
    BY <1>1, <1>4, <1>5, <1>6, EnqueueTold DEF Free, IInv, TypeOK, DispatchInv

LEMMA RouteTold ==
  ASSUME IInv, DispatchInv, NEW a \in Attempts, NEW t \in Targets, Route(a, t)
  PROVE  Told({})
  <1>1. CASE ops' = ops
    BY <1>1, SameTold
  <1>2. CASE \E r \in Requests : Free(r) /\ Enqueue(r, RouteRequest(r, a, t), WithTarget(store, t, "ui"), ops)
    <2>1. PICK r \in Requests : Free(r) /\ Enqueue(r, RouteRequest(r, a, t), WithTarget(store, t, "ui"), ops)
      BY <1>2
    <2>2. RouteRequest(r, a, t) \in Operation
      BY NewOperationType DEF RouteRequest, Operation, MaybeRequest, MaybeTarget
    <2>3. RouteRequest(r, a, t).outcome = None
      BY DEF RouteRequest, NewOperation
    <2>4. WithTarget(store, t, "ui") \in StoreState
      BY WithTargetType DEF IInv, TypeOK, MaybeTarget
    <2> QED
      BY <2>1, <2>2, <2>3, <2>4, EnqueueTold DEF Free, IInv, DispatchInv
  <1> QED
    BY <1>1, <1>2 DEF Route

LEMMA DispatchTold ==
  ASSUME IInv, DispatchInv, NEW a \in Attempts, Dispatch(a)
  PROVE  Told({})
  <1>1. CASE Prepare(a)
    BY <1>1, PrepareTold
  <1>2. CASE \E t \in Targets : Route(a, t)
    BY <1>2, RouteTold
  <1>3. CASE Acquire(a) \/ Prepared(a) \/ Routed(a) \/ Prompt(a) \/ EndAttempt(a) \/ Release(a)
             \/ CancelWait(a)
    <2>1. ops' = ops
      BY <1>3 DEF Acquire, Prepared, Routed, Prompt, EndAttempt, Release, CancelWait
    <2> QED
      BY <2>1, SameTold
  <1> QED
    BY <1>1, <1>2, <1>3 DEF Dispatch

LEMMA UserTold ==
  ASSUME IInv, DispatchInv, NEW r \in Requests, User(r)
  PROVE  Told({})
  <1>1. TypeOK /\ ActorInv /\ OutcomeInv /\ ops[r] \in Operation
    BY DEF IInv, DispatchInv, TypeOK
  <1>2. ASSUME NEW o, o.outcome = None, ops[r].pc = "free", ops' = [ops EXCEPT ![r] = o]
        PROVE  Told({})
    BY <1>1, <1>2, RowTold DEF OutcomeInv
  <1>3. ASSUME NEW t \in Targets, PickModel(r, t) \/ PickProvider(r, t) PROVE Told({})
    <2>1. [NewOperation EXCEPT !.pc = "locating", !.id = r, !.target = t, !.claimed = TRUE].outcome = None
      BY DEF NewOperation
    <2> QED
      BY <1>2, <1>3, <2>1 DEF PickModel, PickProvider, Record, Free
  <1>4. ASSUME NEW t \in Targets, Refresh(r, t) PROVE Told({})
    <2> DEFINE o == [NewOperation EXCEPT !.id = r, !.target = t, !.needs = TRUE]
    <2>1. o \in Operation
      BY NewOperationType DEF Operation, MaybeRequest, MaybeTarget
    <2>2. o.outcome = None
      BY DEF NewOperation
    <2>3. Request(r, o) /\ ops[r].pc = "free"
      BY <1>4 DEF Refresh, Free
    <2> HIDE DEF o
    <2> QED
      BY <1>1, <2>1, <2>2, <2>3, RequestTold
  <1>5. CASE Reprepare(r)
    <2>1. \A id, t : [NewOperation EXCEPT !.pc = "locating", !.id = id, !.target = t].outcome = None
      BY DEF NewOperation
    <2> QED
      BY <1>2, <1>5, <2>1 DEF Reprepare, Free
  <1>6. CASE Located(r)
    <2>1. ops[r].pc = "locating" /\ ops[r].outcome = None
      BY <1>1, <1>6 DEF Located, OutcomeInv
    <2>2. CASE Request(r, ops[r])
      BY <1>1, <2>1, <2>2, RequestTold
    <2>3. CASE ops' = [ops EXCEPT ![r].pc = "unrequested"]
      <3>1. ops' = [ops EXCEPT ![r] = [ops[r] EXCEPT !.pc = "unrequested"]]
        BY <1>1, <2>3 DEF TypeOK
      <3> QED
        BY <1>1, <3>1, PcKeeps, RowTold
    <2> QED
      BY <1>6, <2>2, <2>3 DEF Located
  <1>7. CASE ClearPick(r)
    <2>1. ops' = [ops EXCEPT ![r] = [ops[r] EXCEPT !.claimed = FALSE]]
      BY <1>1, <1>7 DEF ClearPick, TypeOK
    <2>2. [ops[r] EXCEPT !.claimed = FALSE].outcome = ops[r].outcome
      BY <1>1 DEF Operation
    <2> QED
      BY <1>1, <2>1, <2>2, RowTold
  <1> QED
    BY <1>3, <1>4, <1>5, <1>6, <1>7 DEF User

LEMMA RemoveTold ==
  ASSUME TypeOK, Remove
  PROVE  Told({})
  <1> SUFFICES ASSUME NEW q \in Requests
               PROVE  /\ ops[q].outcome # None => ops'[q].outcome = ops[q].outcome
                      /\ ops[q].outcome = None => ops'[q].outcome # "committed"
    BY DEF Told
  <1>1. ops[q] \in Operation /\ None # "committed" /\ "session-missing" \in Outcomes
    BY TargetAssumption DEF TypeOK, Outcomes
  <1>2. CASE ops'[q] = Settle(ops[q], "session-missing")
    BY <1>1, <1>2 DEF Settle, Operation
  <1>3. CASE ops'[q] = Retired(ops[q], "done", "session-missing", None)
    BY <1>1, <1>3, RetiredType DEF MaybeTarget
  <1>4. CASE ops'[q] = ops[q]
    BY <1>1, <1>4
  <1> QED
    BY <1>2, <1>3, <1>4 DEF Remove

LEMMA ObserveTold ==
  ASSUME TypeOK, Observe
  PROVE  Told({})
  <1>1. CASE Remove
    BY <1>1, RemoveTold
  <1>2. CASE Observation
    BY <1>2, SameTold DEF Observation
  <1> QED
    BY <1>1, <1>2 DEF Observe, Hydrate, ReplaceAfterDispatch, WriteStore, ObserveModel

\* Only an operation that is resolved or applied is told that it committed.
LEMMA StepTold ==
  ASSUME IInv, DispatchInv, [Next]_vars
  PROVE  \/ Told({})
         \/ \E r \in Requests : Told({r}) /\ \/ \E e \in Targets : Resolve(r, e)
                                             \/ \E t \in Targets, m \in MaybeTarget : Answer(r, t, m)
  <1>1. TypeOK
    BY DEF IInv
  <1>2. CASE RunWoken
    BY <1>2, RunWokenTold
  <1>3. CASE Notify \/ UNCHANGED vars
    BY <1>3, SameTold DEF Notify, vars
  <1>4. CASE Observe
    BY <1>1, <1>4, ObserveTold
  <1>5. ASSUME NEW r \in Requests, Execute(r)
        PROVE  \/ Told({})
               \/ Told({r}) /\ \/ \E e \in Targets : Resolve(r, e)
                               \/ \E t \in Targets, m \in MaybeTarget : Answer(r, t, m)
    <2>1. CASE \E e \in Targets : Resolve(r, e)
      BY <1>1, <2>1, ResolveTold
    <2>2. CASE \E t \in Targets, m \in MaybeTarget : Answer(r, t, m)
      BY <1>1, <2>2, AnswerTold
    <2>3. CASE ResolveFails(r) \/ AnswerFails(r)
      BY <1>1, <2>3, ThrowTold DEF ResolveFails, AnswerFails
    <2>4. CASE Drain(r)
      BY <1>1, <2>4, DrainTold
    <2> QED
      BY <1>5, <2>1, <2>2, <2>3, <2>4 DEF Execute
  <1>6. ASSUME NEW r \in Requests, User(r) PROVE Told({})
    BY <1>6, UserTold
  <1>7. ASSUME NEW a \in Attempts, Dispatch(a) PROVE Told({})
    BY <1>7, DispatchTold
  <1> QED
    BY <1>2, <1>3, <1>4, <1>5, <1>6, <1>7 DEF Next
-----------------------------------------------------------------------------
(* The user's visible pick *)

\* The user's own steps: a pick takes the place of the last, or its picker ends.
LEMMA UserIntent ==
  ASSUME IInv, NEW r \in Requests, User(r)
  PROVE  \/ VisibleIntent' = VisibleIntent
         \/ ops[r].pc = "free" /\ ops'[r].claimed
         \/ ops[VisibleIntent.id].claimed /\ ~ops'[VisibleIntent.id].claimed
  <1>1. ASSUME NEW t \in Targets, PickModel(r, t) \/ PickProvider(r, t)
        PROVE  ops[r].pc = "free" /\ ops'[r].claimed
    <2>1. [NewOperation EXCEPT !.pc = "locating", !.id = r, !.target = t, !.claimed = TRUE].claimed
      BY DEF NewOperation
    <2> QED
      BY <1>1, <2>1 DEF PickModel, PickProvider, Record, Free, IInv, TypeOK
  <1>2. ASSUME UNCHANGED intents PROVE VisibleIntent' = VisibleIntent
    BY <1>2 DEF VisibleIntent, intents
  <1>3. CASE ClearPick(r)
    <2>1. ops[r] \in Operation /\ ops' = [ops EXCEPT ![r] = [ops[r] EXCEPT !.claimed = FALSE]]
      BY <1>3 DEF ClearPick, IInv, TypeOK
    <2>2. [ops[r] EXCEPT !.claimed = FALSE].claimed = FALSE
      BY <2>1 DEF Operation
    <2>3. ops[r].claimed /\ ~ops'[r].claimed
      BY <1>3, <2>1, <2>2 DEF ClearPick, IInv, TypeOK
    <2>4. r # None
      BY TargetAssumption
    <2>5. VisibleIntent' = VisibleIntent \/ VisibleIntent.id = r
      <3>1. CASE deferredSelection # None
        BY <1>3, <2>4, <3>1 DEF ClearPick, Cleared, IntentId, VisibleIntent
      <3>2. CASE deferredSelection = None
        BY <1>3, <2>4, <3>2 DEF ClearPick, Cleared, IntentId, VisibleIntent
      <3> QED
        BY <3>1, <3>2
    <2> QED
      BY <2>3, <2>5
  <1>4. CASE Reprepare(r) \/ Located(r) \/ \E t \in Targets : Refresh(r, t)
    BY <1>2, <1>4 DEF Reprepare, Located, Refresh
  <1> QED
    BY <1>1, <1>3, <1>4 DEF User

LEMMA DispatchIntent ==
  ASSUME NEW a \in Attempts, Dispatch(a)
  PROVE  VisibleIntent' = VisibleIntent
  <1>1. CASE Release(a)
    BY <1>1 DEF Release, PromotedPick, VisibleIntent, intents
  <1>2. CASE UNCHANGED intents
    BY <1>2 DEF VisibleIntent, intents
  <1> QED
    BY <1>1, <1>2 DEF Dispatch, Acquire, Prepare, Prepared, Route, Routed, Prompt, EndAttempt, CancelWait

LEMMA OtherIntent ==
  ASSUME \/ RunWoken \/ Notify \/ Observe \/ UNCHANGED vars
         \/ \E r \in Requests : Execute(r)
  PROVE  VisibleIntent' = VisibleIntent \/ ~live'
  <1>1. CASE UNCHANGED intents
    BY <1>1 DEF VisibleIntent, intents
  <1>2. CASE Remove
    BY <1>2 DEF Remove
  <1>3. CASE Observe /\ ~Remove
    BY <1>1, <1>3
    DEF Observe, Hydrate, ReplaceAfterDispatch, WriteStore, ObserveModel, Observation
  <1>4. ASSUME NEW r \in Requests, Execute(r) PROVE UNCHANGED intents
    BY <1>4 DEF Execute, Resolve, ResolveFails, Answer, AnswerFails, Drain, Continue
  <1> QED
    BY <1>1, <1>2, <1>3, <1>4 DEF RunWoken, Notify, vars
-----------------------------------------------------------------------------
(* A committed target reaches the store *)

\* Repair answers a model of the provider it was asked for, or the same model.
RepairAgrees == \A t, u \in Targets : Serves(u, t) => Matches(u, t)

LEMMA CommitTarget ==
  ASSUME TypeOK, NEW r \in Requests, NEW t \in MaybeTarget, Commit(r, t)
  PROVE  ops'[r].effective = t
  <1>1. ops[r] \in Operation /\ ops'[r] = Retired(ops[r], "finished", "committed", t)
    BY DEF Commit, TypeOK
  <1>2. "committed" \in Outcomes
    BY DEF Outcomes
  <1>3. Retired(ops[r], "finished", "committed", t).effective = t
    BY <1>1, <1>2, RetiredType
  <1> QED
    BY <1>1, <1>3

\* The target an operation commits is published, unless another attempt's lease
\* keeps it aside.
LEMMA AnswerPublished ==
  ASSUME RepairAgrees, IInv, DispatchInv, NEW r \in Requests, NEW t \in Targets, NEW m \in MaybeTarget,
         live, ops[r].outcome = None, ops[r].pc = "applying", t \in Materialized(ops[r].effective),
         Commit(r, t),
         Publish(IF store.target = t THEN store ELSE WithTarget(store, t, "ui"), m)
  PROVE  \/ store'.target = t
         \/ /\ lease # None /\ lease.holder # ops[r].token
            /\ deferredMutation' # None /\ deferredMutation'.target = t
  <1> DEFINE s == IF store.target = t THEN store ELSE WithTarget(store, t, "ui")
  <1>1. s \in StoreState /\ s.target = t
    BY WithTargetType DEF IInv, TypeOK, MaybeTarget, WithTarget
  <1> HIDE DEF s
  <1>2. Publish(s, m)
    BY DEF s
  <1>3. CASE ~Divergent(s)
    <2>1. store' = WithReasoning(s, m)
      BY <1>2, <1>3 DEF Publish
    <2>2. WithReasoning(s, m).target = s.target
      BY <1>1, WithReasoningType DEF MaybeTarget
    <2> QED
      BY <1>1, <2>1, <2>2
  <1>4. CASE Divergent(s)
    <2>1. deferredMutation' = s /\ s # None
      BY <1>1, <1>2, <1>4, TargetAssumption DEF Publish, Deferral
    <2>2. lease # None /\ ~Matches(t, lease.target)
      BY <1>1, <1>4 DEF Divergent, AgreesWithLease
    <2>3. lease \in Lease
      BY <2>2 DEF IInv, TypeOK
    <2>4. lease.holder \in Attempts /\ lease.target \in Targets
      BY <2>3 DEF Lease
    <2>5. lease.holder # ops[r].token
      <3> SUFFICES ASSUME lease.holder = ops[r].token PROVE FALSE
        OBVIOUS
      <3>1. ops[r].effective \in Repair[lease.target]
        BY <2>2, <2>4 DEF DispatchInv, TokenInv, Holds
      <3>2. Serves(t, lease.target)
        BY <3>1 DEF Serves
      <3> QED
        BY <2>2, <2>4, <3>2 DEF RepairAgrees
    <2> QED
      BY <1>1, <2>1, <2>2, <2>5
  <1> QED
    BY <1>3, <1>4
-----------------------------------------------------------------------------
\* The actor runs one operation, keeps the newest behind it and answers each; a
\* waiter waits once; a deferred pick is kept for the release; and from the answer
\* an attempt waits for until its lease is released nothing moves the backend.
THEOREM DispatchKept == Spec => []DispatchInv
  BY ActorInvariance, PTL

\* When nothing runs, nothing is queued and the state is not in transition.
THEOREM IdleSettled == Spec => []IdleActorSettled
  <1>1. DispatchInv => IdleActorSettled
    BY DEF DispatchInv, ActorInv, IdleActorSettled
  <1> QED
    BY <1>1, ActorInvariance, PTL

\* Outside a dispatch every recorded pick has the caller that will clear it.
THEOREM PicksOwned == Spec => []SelectionHasPicker
  <1>1. DispatchInv => SelectionHasPicker
    BY DEF DispatchInv, IntentInv, SelectionHasPicker
  <1> QED
    BY <1>1, ActorInvariance, PTL

\* A turn runs on a target that managed-model repair may answer for the leased
\* one, whatever repair does.
PromptServed ==
  \A a \in Attempts : attempts[a].pc = "prompting" /\ Holds(a) => Serves(backend, lease.target)

THEOREM PromptsServed == Spec => []PromptServed
  <1>1. DispatchInv => PromptServed
    BY DEF DispatchInv, PromptInv, ServedInv, PromptServed
  <1> QED
    BY <1>1, ActorInvariance, PTL

\* A turn runs on the model its lease names, as long as repair keeps to the model it
\* was asked for.
THEOREM PromptsRunOnLease ==
  ASSUME RepairAgrees
  PROVE  Spec => []PromptRunsOnLease
  <1>1. IInv /\ DispatchInv => PromptRunsOnLease
    <2> SUFFICES ASSUME IInv, DispatchInv, NEW a \in Attempts, attempts[a].pc = "prompting", Holds(a)
                 PROVE  Matches(backend, lease.target)
      BY DEF PromptRunsOnLease
    <2>1. Serves(backend, lease.target)
      BY DEF DispatchInv, PromptInv, ServedInv
    <2>2. lease \in Lease
      BY DEF Holds, IInv, TypeOK
    <2>3. lease.target \in Targets
      BY <2>2 DEF Lease
    <2>4. backend \in Targets
      BY <2>1, <2>3, TargetAssumption DEF Serves, Materialized, Concrete
    <2> QED
      BY <2>1, <2>3, <2>4 DEF RepairAgrees
  <1> QED
    BY <1>1, ActorInvariance, PTL

\* What a caller was told is never revised.
THEOREM AnswersFinal == Spec => OutcomeIsFinal
  <1>1. IInv /\ DispatchInv /\ [Next]_vars =>
          [\A r \in Requests : ops[r].outcome # None => ops'[r].outcome = ops[r].outcome]_vars
    BY StepTold DEF Told
  <1> QED
    BY <1>1, ActorInvariance, PTL DEF Spec, OutcomeIsFinal

\* The user's visible pick is displaced by another pick, by its own picker, or by the
\* removal of the session, and by nothing else.
THEOREM IntentKept == Spec => IntentSurvives
  <1>1. IInv /\ DispatchInv /\ [Next]_vars =>
          [VisibleIntent # None /\ VisibleIntent' # VisibleIntent =>
             \/ ~live'
             \/ \E r \in Requests : ops[r].pc = "free" /\ ops'[r].claimed
             \/ ops[VisibleIntent.id].claimed /\ ~ops'[VisibleIntent.id].claimed]_vars
    BY UserIntent, DispatchIntent, OtherIntent DEF Next
  <1> QED
    BY <1>1, ActorInvariance, PTL DEF Spec, IntentSurvives

\* A target a caller is told was committed is in the store, or is deferred behind the
\* lease of another attempt.
THEOREM CommitsPublished ==
  ASSUME RepairAgrees
  PROVE  Spec => CommitReachesStore
  <1>1. IInv /\ DispatchInv /\ [Next]_vars =>
          [\A r \in Requests :
             live /\ ops[r].outcome = None /\ ops'[r].outcome = "committed" =>
               \/ store'.target = ops'[r].effective
               \/ /\ lease # None /\ lease.holder # ops[r].token
                  /\ deferredMutation' # None /\ deferredMutation'.target = ops'[r].effective]_vars
    <2> SUFFICES ASSUME IInv, DispatchInv, [Next]_vars, NEW r \in Requests,
                        live, ops[r].outcome = None, ops'[r].outcome = "committed"
                 PROVE  \/ store'.target = ops'[r].effective
                        \/ /\ lease # None /\ lease.holder # ops[r].token
                           /\ deferredMutation' # None
                           /\ deferredMutation'.target = ops'[r].effective
      OBVIOUS
    <2>1. TypeOK
      BY DEF IInv
    <2>2. ~Told({})
      BY DEF Told
    <2>3. \/ \E e \in Targets : Resolve(r, e)
          \/ \E t \in Targets, m \in MaybeTarget : Answer(r, t, m)
      BY <2>2, StepTold DEF Told
    <2>4. ASSUME NEW e \in Targets, Resolve(r, e) PROVE store'.target = ops'[r].effective
      BY <2>1, <2>2, <2>4, ResolveTold, CommitTarget DEF MaybeTarget
    <2>5. ASSUME NEW t \in Targets, NEW m \in MaybeTarget, Answer(r, t, m)
          PROVE  \/ store'.target = ops'[r].effective
                 \/ /\ lease # None /\ lease.holder # ops[r].token
                    /\ deferredMutation' # None
                    /\ deferredMutation'.target = ops'[r].effective
      <3>1. /\ ops[r].pc = "applying" /\ t \in Materialized(ops[r].effective) /\ Commit(r, t)
            /\ Publish(IF store.target = t THEN store ELSE WithTarget(store, t, "ui"), m)
        BY <2>1, <2>2, <2>5, AnswerTold
      <3>2. ops'[r].effective = t
        BY <2>1, <3>1, CommitTarget DEF MaybeTarget
      <3> QED
        BY <3>1, <3>2, AnswerPublished
    <2> QED
      BY <2>3, <2>4, <2>5
  <1> QED
    BY <1>1, ActorInvariance, PTL DEF Spec, CommitReachesStore
=============================================================================

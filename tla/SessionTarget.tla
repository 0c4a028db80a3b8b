--------------------------- MODULE SessionTarget ---------------------------
(***************************************************************************)
(* The coordinator that decides which execution target (provider and       *)
(* model) one chat session runs on: sessionTargetCoordinator.ts with its   *)
(* reducer sessionTargetReducer.ts and the callers that drive it.          *)
(*                                                                         *)
(* Three parties contend for the target.  A dispatch ATTEMPT takes a lease *)
(* on the target, prepares the backend for it and sends a prompt.  A       *)
(* REQUEST (a user's pick, a re-preparation, a metadata refresh) asks for  *)
(* a transition; requests are coalesced so that only the newest commits.   *)
(* OBSERVATIONS (ACP snapshots, hydration, other writers of the session    *)
(* store) report what the backend or another part of the app believes.     *)
(*                                                                         *)
(* A target is normalised, so two targets are the same when they are equal *)
(* (modelName is display data).  Boundaries are the targets that name a    *)
(* provider and no model.  Reasoning metadata is represented by the target *)
(* it was reported for.                                                    *)
(***************************************************************************)
EXTENDS Sequences, Functions

CONSTANTS Targets, Boundaries, Provider,  \* execution targets
          Repair,      \* the targets managed-model repair may answer
          Requests,    \* transition requests: a bound on how many are made
          Attempts,    \* dispatch attempts: a bound on how many are made
          Environment, \* which observations a run admits
          None

MaybeTarget == Targets \cup {None}
MaybeRequest == Requests \cup {None}

StoreState == [target : MaybeTarget, source : {"ui", "acp"}, reasoning : MaybeTarget]
Selection  == [id : Requests, target : Targets]
Lease      == [holder : Attempts, target : Targets, source : {"ui", "acp"},
               reasoning : MaybeTarget]
Outcomes   == {"committed", "superseded", "failed", "session-missing"}

ASSUME TargetAssumption ==
  /\ Boundaries \subseteq Targets
  /\ Repair \in [Targets -> SUBSET Targets]
  /\ \A t \in Targets : t \in Repair[t]
  /\ Environment \subseteq {"hydrate", "replace", "write", "observe", "reasoning", "remove"}
  /\ None \notin Targets \cup Requests \cup Attempts \cup Outcomes
  /\ None \notin Lease \cup Selection \cup StoreState

VARIABLES
  live,              \* the session is in the session store
  store,             \* its published target, who set it, its metadata
  sync,              \* the reducer's state
  latest, current,   \* newest and running operation of the actor
  selection, deferredSelection,   \* the user's picks
  deferredMutation,  \* what an observer wanted while the lease was held
  lease,             \* the dispatch lease
  gate,              \* requests awaiting the release of the lease, in order
  woken,             \* requests whose gate opened: microtasks, in order
  notifying,         \* the release-notification microtask is queued
  ops,               \* every transition request
  attempts,          \* every dispatch attempt
  backend            \* the target the backend session is configured for

actor   == <<sync, latest, current>>
intents == <<selection, deferredSelection>>
tasks   == <<gate, woken, notifying>>
vars    == <<live, store, actor, intents, deferredMutation, lease, tasks, ops,
             attempts, backend>>

Sync       == [status : {"unresolved", "settled", "transitioning", "failed"},
               op : MaybeRequest, base : MaybeTarget, wanted : MaybeTarget]
Operation  == [pc : {"free", "locating", "unrequested", "blocked", "queued",
                     "resolving", "applying", "finished", "done"},
               id : MaybeRequest, target : MaybeTarget, effective : MaybeTarget,
               selectionAt : Selection \cup {None}, targetAt : MaybeTarget,
               token : Attempts \cup {None}, exact : BOOLEAN, needs : BOOLEAN,
               claimed : BOOLEAN, outcome : Outcomes \cup {None}]
Attempt    == [pc : {"idle", "waiting", "woken", "leased", "preparing",
                     "prepared", "routing", "rerouting", "prompting", "ended", "done"},
               req : MaybeRequest, previous : MaybeTarget, previousReasoning : MaybeTarget]

TypeOK ==
  /\ live \in BOOLEAN
  /\ store \in StoreState
  /\ sync \in Sync
  /\ latest \in MaybeRequest
  /\ current \in MaybeRequest
  /\ selection \in Selection \cup {None}
  /\ deferredSelection \in Selection \cup {None}
  /\ deferredMutation \in StoreState \cup {None}
  /\ lease \in Lease \cup {None}
  /\ gate \in Seq(Requests)
  /\ woken \in Seq(Requests)
  /\ notifying \in BOOLEAN
  /\ ops \in [Requests -> Operation]
  /\ attempts \in [Attempts -> Attempt]
  /\ backend \in MaybeTarget
-----------------------------------------------------------------------------
(* Targets *)

Concrete == Targets \ Boundaries

\* What a model snapshot can turn a base target into: its own provider, a model.
Materialized(t) ==
  IF t \in Boundaries
  THEN {t} \cup {u \in Concrete : Provider[u] = Provider[t]}
  ELSE {t}

\* The reasoning metadata a report on target t may carry, by what it describes.
Report(t) == IF "reasoning" \in Environment THEN {None, t} ELSE {None}

\* A published target agrees with a leased one; a leased boundary admits any
\* model of its provider.
Matches(t, leased) ==
  \/ t = leased
  \/ /\ leased \in Boundaries
     /\ t # None
     /\ Provider[t] = Provider[leased]
-----------------------------------------------------------------------------
(* The reducer *)

Unresolved == [status |-> "unresolved", op |-> None, base |-> None, wanted |-> None]
Settled(t) == [status |-> "settled", op |-> None, base |-> t, wanted |-> None]
SettledOrUnresolved(t) == IF t = None THEN Unresolved ELSE Settled(t)

Selected(id, t) == [status |-> "transitioning", op |-> id, base |-> sync.base, wanted |-> t]

Owns(id) == sync.status = "transitioning" /\ sync.op = id

Resolved(id, t)     == IF Owns(id) THEN [sync EXCEPT !.wanted = t] ELSE sync
Acknowledged(id, t) == IF Owns(id) THEN Settled(t) ELSE sync
\* Mutant: a superseded operation leaves the state in transition.
SupersededStaysInTransition(id) == sync
Superseded(id)      == IF Owns(id) THEN SettledOrUnresolved(sync.base) ELSE sync
Rejected(id)        == IF Owns(id) THEN [sync EXCEPT !.status = "failed"] ELSE sync
-----------------------------------------------------------------------------
(* The session store and the subscriber that guards a leased target *)

WithTarget(s, t, source) ==
  [target |-> t, source |-> source, reasoning |-> IF t = s.target THEN s.reasoning ELSE None]

WithReasoning(s, r) == IF r = None THEN s ELSE [s EXCEPT !.reasoning = r]

LeaseStore == [target |-> lease.target, source |-> lease.source, reasoning |-> lease.reasoning]

AgreesWithLease(t) == IF lease = None THEN TRUE ELSE Matches(t, lease.target)

\* Mutant: nothing guards the leased target.
NeverDivergent(s) == FALSE
Divergent(s) == ~AgreesWithLease(s.target)

\* Mutant: a write that is undone is forgotten instead of deferred.
ForgottenDeferral(s) == deferredMutation
Deferral(s) == IF Divergent(s) THEN s ELSE deferredMutation

\* A write of the target, with what the store subscriber makes of it: a value
\* that disagrees with the lease is put aside and the leased target restored.
\* r is patched in afterwards.
Publish(s, r) ==
  /\ store' = WithReasoning(IF Divergent(s) THEN LeaseStore ELSE s, r)
  /\ deferredMutation' = Deferral(s)
-----------------------------------------------------------------------------
(* Operations *)

Executing == {"resolving", "applying", "finished"}

\* Mutant: an operation can be settled again.
SettleAgain(o, outcome) == [o EXCEPT !.outcome = outcome]
Settle(o, outcome) == IF o.outcome = None THEN [o EXCEPT !.outcome = outcome] ELSE o

\* getSessionTargetSelection
VisibleIntent == IF deferredSelection # None THEN deferredSelection ELSE selection

\* The operation id of a pick: selection?.operationId
IntentId(s) == IF s = None THEN None ELSE s.id

CurrentOperation(r) == current = r /\ latest = r

NewOperation == [pc |-> "queued", id |-> None, target |-> None, effective |-> None,
                 selectionAt |-> None, targetAt |-> None, token |-> None, exact |-> FALSE,
                 needs |-> FALSE, claimed |-> FALSE, outcome |-> None]

\* Mutant: a coalesced operation is dropped without an answer.
RetiredSilently(o, pc, outcome, t) ==
  [NewOperation EXCEPT !.pc = pc, !.token = o.token, !.claimed = o.claimed,
                       !.effective = t,
                       !.outcome = IF pc = "done" THEN o.outcome ELSE Settle(o, outcome).outcome]

\* A settled operation keeps only what its caller still reads.
Retired(o, pc, outcome, t) ==
  [NewOperation EXCEPT !.pc = pc, !.token = o.token, !.claimed = o.claimed,
                       !.effective = t, !.outcome = Settle(o, outcome).outcome]

Free(r) == ops[r].pc = "free"

\* Promise continuations run before any other task, so a request whose gate
\* has opened runs before every step that answers an event.
NoContinuation == woken = <<>>

\* requestSessionTargetTransition on an actor whose published target is s and
\* whose request table is table: the operation becomes the newest, an older one
\* that has not started is superseded, and an idle actor starts it.
Enqueue(r, o, s, table) ==
  /\ sync' = Selected(o.id, o.target)
  /\ latest' = r
  /\ current' = IF current = None THEN r ELSE current
  /\ ops' = [q \in Requests |->
       IF q = r
       THEN [o EXCEPT !.pc = IF current = None THEN "resolving" ELSE "queued",
                      !.selectionAt = selection, !.targetAt = s.target]
       ELSE IF q = latest /\ q # current
            THEN Retired(table[q], "done", "superseded", None)
            ELSE table[q]]

\* transitionSessionTarget for a caller that does not hold the lease: it waits
\* for the lease to be released, and only for that.
Request(r, o) ==
  IF lease # None
  THEN /\ ops' = [ops EXCEPT ![r] = [o EXCEPT !.pc = "blocked"]]
       /\ gate' = Append(gate, r)
       /\ UNCHANGED actor
  ELSE Enqueue(r, o, store, ops) /\ UNCHANGED gate

RunWoken ==
  /\ woken # <<>>
  /\ woken' = Tail(woken)
  /\ Enqueue(Head(woken), ops[Head(woken)], store, ops)
  /\ UNCHANGED <<live, store, intents, deferredMutation, lease, gate, notifying,
                 attempts, backend>>

Finish(r, outcome) == ops' = [ops EXCEPT ![r] = Retired(@, "finished", outcome, None)]

Commit(r, t) == ops' = [ops EXCEPT ![r] = Retired(@, "finished", "committed", t)]

\* resolveSuperseded.  The operation of a removed session's actor is no longer
\* current and leaves the state of the actor that replaced it alone.
Supersede(r) ==
  /\ sync' = IF current = r THEN Superseded(ops[r].id) ELSE sync
  /\ Finish(r, "superseded")
  /\ UNCHANGED <<store, deferredMutation>>

\* The catch clause of execute.
Throw(r) ==
  /\ IF CurrentOperation(r)
     THEN sync' = Rejected(ops[r].id) /\ Finish(r, "failed")
          /\ UNCHANGED <<store, deferredMutation>>
     ELSE Supersede(r)

SelectionChanged(r) ==
  /\ selection # ops[r].selectionAt
  /\ IntentId(selection) # ops[r].id

Continue == UNCHANGED <<live, latest, current, intents, lease, tasks, attempts>>

\* The continuation of resolveEffectiveTarget, which answered e.
Resolve(r, e) ==
  LET o == ops[r]
      stale == \/ ~CurrentOperation(r)
               \/ SelectionChanged(r)
               \/ store.target \notin {o.targetAt, o.target, e}
  IN
  /\ o.pc = "resolving" /\ NoContinuation
  /\ e \in Repair[o.target]
  /\ IF stale
     THEN Supersede(r)
     ELSE IF o.exact /\ e # o.target
     THEN Throw(r)
     ELSE IF ~(o.needs /\ store.reasoning # None)
     THEN /\ sync' = Resolved(o.id, e)
          /\ ops' = [ops EXCEPT ![r].pc = "applying", ![r].effective = e]
          /\ UNCHANGED <<store, deferredMutation>>
     ELSE IF store.target = e
     THEN /\ sync' = Acknowledged(o.id, e)
          /\ Commit(r, e)
          /\ UNCHANGED <<store, deferredMutation>>
     ELSE Supersede(r)
  /\ Continue /\ UNCHANGED backend

ResolveFails(r) ==
  /\ ops[r].pc = "resolving" /\ NoContinuation
  /\ Throw(r)
  /\ Continue /\ UNCHANGED backend

\* The continuation of acpPrepareSession: the backend now runs t, and may have
\* reported reasoning metadata with it (r is the request, m the metadata).
Answer(r, t, m) ==
  LET o == ops[r]
      owned == \/ ~live
               \/ store.target \in {o.targetAt, o.target, o.effective}
               \/ sync.status = "settled" /\ store.target = sync.base
      rejected == \/ ~CurrentOperation(r)
                  \/ ~owned
                  \/ SelectionChanged(r)
                  \/ o.needs /\ live /\ store.target # o.target
                  \/ /\ selection # None
                     /\ selection.id # o.id
                     /\ selection.target # t
  IN
  /\ o.pc = "applying" /\ NoContinuation
  /\ t \in Materialized(o.effective)
  /\ m \in Report(t)
  /\ backend' = t
  /\ IF rejected
     THEN Supersede(r)
     ELSE /\ sync' = Acknowledged(o.id, t)
          /\ Commit(r, t)
          /\ IF live
             THEN Publish(IF store.target = t THEN store ELSE WithTarget(store, t, "ui"), m)
             ELSE UNCHANGED <<store, deferredMutation>>
  /\ Continue

\* acpPrepareSession rejects, before or after the backend applied the change.
AnswerFails(r) ==
  /\ ops[r].pc = "applying" /\ NoContinuation
  /\ backend' \in {backend, ops[r].effective}
  /\ Throw(r)
  /\ Continue

\* Mutant: an actor that goes idle wakes nobody.
NobodyNotified(table) == table
Notified(table) ==
  [a \in Attempts |-> IF table[a].pc = "waiting" THEN [table[a] EXCEPT !.pc = "woken"] ELSE table[a]]

\* drain, after execute returned: the next operation starts, or the actor goes
\* idle and whoever waits for the lease is notified.
Drain(r) ==
  LET next == IF latest = r THEN None ELSE latest IN
  /\ ops[r].pc = "finished"
  /\ IF current = r
     THEN /\ latest' = next
          /\ current' = next
          /\ ops' = [q \in Requests |-> IF q = r THEN [ops[q] EXCEPT !.pc = "done"]
                                        ELSE IF q = next THEN [ops[q] EXCEPT !.pc = "resolving"]
                                        ELSE ops[q]]
          /\ attempts' = IF next = None /\ lease = None THEN Notified(attempts) ELSE attempts
     ELSE /\ ops' = [ops EXCEPT ![r].pc = "done"]
          /\ attempts' = IF \A q \in Requests \ {r} : ops[q].pc \notin Executing
                         THEN Notified(attempts) ELSE attempts
          /\ UNCHANGED <<latest, current>>
  /\ UNCHANGED <<live, store, sync, intents, deferredMutation, lease, tasks, backend>>
-----------------------------------------------------------------------------
(* Dispatch attempts: useMessageQueue, queuedSessionSend, autoRoutingDispatch *)

NewAttempt == [pc |-> "idle", req |-> None, previous |-> None, previousReasoning |-> None]

Holds(a) == lease # None /\ lease.holder = a

\* acquireSessionDispatchTarget, and what its caller does with the answer.
Acquire(a) ==
  /\ attempts[a].pc \in {"idle", "woken"}
  /\ \/ /\ lease # None
        /\ attempts' = [attempts EXCEPT ![a].pc = "waiting"]
        /\ UNCHANGED lease
     \/ /\ lease = None /\ ~live
        /\ attempts' = [attempts EXCEPT ![a].pc = "done"]
        /\ UNCHANGED lease
     \/ /\ lease = None /\ live /\ store.target # None
        /\ lease' = [holder |-> a, target |-> store.target, source |-> store.source,
                     reasoning |-> store.reasoning]
        /\ attempts' = [attempts EXCEPT ![a].pc = "leased"]
     \/ /\ lease = None /\ live /\ store.target = None
        /\ attempts[a].pc = "woken"
        /\ attempts' = [attempts EXCEPT ![a].pc = "idle"]
        /\ UNCHANGED lease
  /\ UNCHANGED <<live, store, actor, intents, deferredMutation, tasks, ops, backend>>

\* The holder prepares the backend for the target it leased.
Prepare(a) ==
  /\ attempts[a].pc = "leased" /\ Holds(a) /\ NoContinuation
  /\ \E r \in Requests :
       /\ Free(r)
       /\ Enqueue(r, [NewOperation EXCEPT !.id = r, !.target = lease.target, !.token = a],
                  store, ops)
       /\ attempts' = [attempts EXCEPT ![a].pc = "preparing", ![a].req = r]
  /\ UNCHANGED <<live, store, intents, deferredMutation, lease, tasks, backend>>

\* Mutant: the caller looks for an error only.
NotFailed(o) == o.outcome # "failed"
Applied(o) == o.outcome = "committed"

Prepared(a) ==
  /\ attempts[a].pc = "preparing" /\ NoContinuation
  /\ ops[attempts[a].req].outcome # None
  /\ attempts' = [attempts EXCEPT ![a].pc =
       IF Applied(ops[attempts[a].req]) THEN "prepared" ELSE "ended"]
  /\ UNCHANGED <<live, store, actor, intents, deferredMutation, lease, tasks, ops, backend>>

\* Mutant: the router accepts whatever managed-model repair answers.
RepairedRequest(r, a, t) == [NewOperation EXCEPT !.id = r, !.target = t, !.token = a]
RouteRequest(r, a, t) ==
  [NewOperation EXCEPT !.id = r, !.target = t, !.token = a, !.exact = TRUE]

\* transitionSessionDispatchTarget: the router changes the leased target while
\* the lease is kept, unless the user has picked another one meanwhile.
Route(a, t) ==
  LET routed == [lease EXCEPT !.target = t, !.reasoning = None]
      published == WithTarget(store, t, "ui")
  IN
  /\ attempts[a].pc \in {"prepared", "rerouting"} /\ Holds(a) /\ NoContinuation
  /\ t \in Concrete
  /\ IF deferredSelection # None \/ (deferredMutation # None /\ deferredMutation.source = "ui")
     THEN /\ attempts' = [attempts EXCEPT ![a].pc = "ended"]
          /\ UNCHANGED <<store, actor, deferredMutation, lease, ops>>
     ELSE /\ lease' = routed
          /\ deferredMutation' = None
          /\ store' = published
          /\ \E r \in Requests :
               /\ Free(r)
               /\ Enqueue(r, RouteRequest(r, a, t), published, ops)
               /\ attempts' = [attempts EXCEPT ![a] =
                    [pc |-> "routing", req |-> r, previous |-> lease.target,
                     previousReasoning |-> lease.reasoning]]
  /\ UNCHANGED <<live, intents, tasks, backend>>

\* Its continuation: an applied route drops what observers said of the previous
\* model, any other outcome restores the previous target.  A failed route may
\* be tried once more with the fallback model; a superseded one gives up.
Routed(a) ==
  LET o == ops[attempts[a].req]
      previous == attempts[a].previous
  IN
  /\ attempts[a].pc = "routing" /\ NoContinuation
  /\ o.outcome # None
  /\ IF Applied(o)
     THEN /\ IF Holds(a)
             THEN /\ lease' = [lease EXCEPT !.target = o.effective, !.reasoning = store.reasoning]
                  /\ deferredMutation' =
                       IF deferredMutation # None /\ deferredMutation.source = "acp"
                       THEN None ELSE deferredMutation
             ELSE UNCHANGED <<lease, deferredMutation>>
          /\ UNCHANGED store
          /\ attempts' = [attempts EXCEPT ![a].pc = "prompting"]
     ELSE /\ IF Holds(a)
             THEN lease' = [lease EXCEPT !.target = previous,
                                         !.reasoning = attempts[a].previousReasoning]
             ELSE UNCHANGED lease
          /\ store' = IF live THEN WithTarget(store, previous, "ui") ELSE store
          /\ UNCHANGED deferredMutation
          /\ attempts' = [attempts EXCEPT ![a].pc =
               IF o.outcome = "failed" THEN "rerouting" ELSE "ended"]
  /\ UNCHANGED <<live, actor, intents, tasks, ops, backend>>

\* The prompt is sent to the backend session.
Prompt(a) ==
  /\ attempts[a].pc = "prepared" /\ Holds(a) /\ NoContinuation
  /\ attempts' = [attempts EXCEPT ![a].pc = "prompting"]
  /\ UNCHANGED <<live, store, actor, intents, deferredMutation, lease, tasks, ops, backend>>

\* The turn ends, or the attempt fails before it committed its message.
EndAttempt(a) ==
  /\ attempts[a].pc \in {"leased", "prepared", "rerouting", "prompting"} /\ NoContinuation
  /\ attempts' = [attempts EXCEPT ![a].pc = "ended"]
  /\ UNCHANGED <<live, store, actor, intents, deferredMutation, lease, tasks, ops, backend>>

\* Mutant: releasing the lease drops the pick made meanwhile.
DroppedPick == selection
PromotedPick == IF deferredSelection # None THEN deferredSelection ELSE selection

\* Mutant: the requests at the gate are not resumed.
GateStaysClosed == woken
OpenedGate == woken \o gate

\* The lease's release function.  A pick made during the dispatch becomes the
\* selection and is applied by the request waiting at the gate; otherwise the
\* last deferred observation is published.
Release(a) ==
  LET m == deferredMutation IN
  /\ attempts[a].pc = "ended" /\ NoContinuation
  /\ attempts' = [attempts EXCEPT ![a] = [NewAttempt EXCEPT !.pc = "done"]]
  /\ IF ~Holds(a)
     THEN UNCHANGED <<store, sync, intents, deferredMutation, lease, tasks>>
     ELSE /\ lease' = None
          /\ deferredSelection' = None
          /\ deferredMutation' = None
          /\ selection' = PromotedPick
          /\ IF deferredSelection = None /\ m # None
             THEN /\ sync' = SettledOrUnresolved(m.target)
                  /\ store' = IF m.source = "ui"
                              THEN WithReasoning(WithTarget(store, m.target, "ui"), m.reasoning)
                              ELSE m
             ELSE UNCHANGED <<store, sync>>
          /\ gate' = <<>>
          /\ woken' = OpenedGate
          /\ notifying' = (notifying \/ latest = None)
  /\ UNCHANGED <<live, latest, current, ops, backend>>

\* queueMicrotask(() => notifyDispatchReleaseListeners(actor))
Notify ==
  /\ notifying /\ NoContinuation
  /\ notifying' = FALSE
  /\ attempts' = IF lease = None /\ current = None /\ latest = None
                 THEN Notified(attempts) ELSE attempts
  /\ UNCHANGED <<live, store, actor, intents, deferredMutation, lease, gate, woken, ops, backend>>

\* The component that was waiting unmounts and cancels its waiter.
CancelWait(a) ==
  /\ attempts[a].pc \in {"waiting", "woken"}
  /\ attempts' = [attempts EXCEPT ![a].pc = "done"]
  /\ UNCHANGED <<live, store, actor, intents, deferredMutation, lease, tasks, ops, backend>>
-----------------------------------------------------------------------------
(* The user's picks: useResolvedAgentModelPicker, modelSelectionIntent *)

\* recordSessionTargetSelection.  cleared is the selection left by the
\* unconditional clear a provider pick starts with.
Record(r, t, cleared) ==
  /\ ops' = [ops EXCEPT ![r] = [NewOperation EXCEPT !.pc = "locating", !.id = r,
                                                    !.target = t, !.claimed = TRUE]]
  /\ IF lease # None
     THEN /\ deferredSelection' = [id |-> r, target |-> t]
          /\ selection' = cleared
          /\ UNCHANGED store
     ELSE /\ selection' = [id |-> r, target |-> t]
          /\ store' = WithTarget(store, t, "ui")
          /\ UNCHANGED deferredSelection
  /\ UNCHANGED <<live, actor, deferredMutation, lease, tasks, attempts, backend>>

PickModel(r, t) ==
  /\ live /\ Free(r) /\ NoContinuation
  /\ t \in Concrete
  /\ store.target # t \/ (VisibleIntent # None /\ VisibleIntent.target # t)
  /\ Record(r, t, selection)

PickProvider(r, t) ==
  /\ live /\ Free(r) /\ NoContinuation
  /\ Record(r, t, IF deferredSelection # None THEN selection ELSE None)

\* What a caller checks once the working directory is known.  A pick asks for
\* nothing when it is no longer the visible intent; a re-preparation of a model
\* looks at the intent it captured, or at the store; that of a boundary looks at
\* nothing.
StillWanted(r) ==
  LET o == ops[r] IN
  IF o.claimed THEN IntentId(VisibleIntent) = r
  ELSE \/ o.target \in Boundaries
       \/ /\ VisibleIntent # None
          /\ o.id # r /\ VisibleIntent.id = o.id
       \/ VisibleIntent = None /\ store.target = o.target

\* Resolving the working directory took a turn of the event loop.
Located(r) ==
  /\ ops[r].pc = "locating" /\ NoContinuation
  /\ IF StillWanted(r)
     THEN Request(r, ops[r])
     ELSE ops' = [ops EXCEPT ![r].pc = "unrequested"] /\ UNCHANGED <<actor, gate>>
  /\ UNCHANGED <<live, store, intents, deferredMutation, lease, woken, notifying,
                 attempts, backend>>

\* Mutant: the pick that settled stays the session's intent.
ClearNothing(s, r) == s
Cleared(s, r) == IF IntentId(s) = r THEN None ELSE s

\* clearSessionTargetSelection(sessionId, r), when the pick's promise settled.
ClearPick(r) ==
  /\ ops[r].claimed /\ NoContinuation
  /\ ops[r].pc = "unrequested" \/ ops[r].outcome # None
  /\ ops' = [ops EXCEPT ![r].claimed = FALSE]
  /\ IF deferredSelection # None
     THEN /\ deferredSelection' = Cleared(deferredSelection, r)
          /\ UNCHANGED selection
     ELSE /\ selection' = Cleared(selection, r)
          /\ UNCHANGED deferredSelection
  /\ UNCHANGED <<live, store, actor, deferredMutation, lease, tasks, attempts, backend>>
-----------------------------------------------------------------------------
(* Requests the session controller makes on its own *)

\* prepareCurrentSessionTarget after a workspace change: it captures the visible
\* intent, with that intent's operation id, or the live target.
Reprepare(r) ==
  /\ live /\ Free(r) /\ NoContinuation
  /\ store.target # None
  /\ ops' = [ops EXCEPT ![r] =
       IF VisibleIntent # None
       THEN [NewOperation EXCEPT !.pc = "locating", !.id = VisibleIntent.id,
                                 !.target = VisibleIntent.target]
       ELSE [NewOperation EXCEPT !.pc = "locating", !.id = r, !.target = store.target]]
  /\ UNCHANGED <<live, store, actor, intents, deferredMutation, lease, tasks,
                 attempts, backend>>

\* refreshMissingReasoningEffort, which checks again all it read before it
\* resolved the working directory.  A session that names no model yet is
\* refreshed for the default model t.
Refresh(r, t) ==
  /\ live /\ Free(r) /\ NoContinuation
  /\ t \in Concrete
  /\ IF store.target \in Concrete THEN t = store.target ELSE store.source # "ui"
  /\ store.reasoning = None
  /\ VisibleIntent = None
  /\ Request(r, [NewOperation EXCEPT !.id = r, !.target = t, !.needs = TRUE])
  /\ UNCHANGED <<live, store, intents, deferredMutation, lease, woken, notifying,
                 attempts, backend>>
-----------------------------------------------------------------------------
(* Observations *)

Observation == UNCHANGED <<live, latest, current, intents, lease, tasks, ops, attempts, backend>>

\* Mutant: a deferred observation carries no metadata field.
ObservedBare(t, m) == [target |-> t, source |-> "acp"]
Observed(t, m) == [target |-> t, source |-> "acp", reasoning |-> m]

\* hydrateSessionExecutionTarget leaves a target the user interface set alone.
Hydrated(t) == IF store.source = "ui" THEN store ELSE WithTarget(store, t, "acp")

\* hydrateSessionTarget, from session activation
Hydrate(t) ==
  /\ "hydrate" \in Environment /\ live /\ NoContinuation
  /\ current = None /\ latest = None /\ selection = None
  /\ IF lease = None
     THEN /\ sync' = Settled(t)
          /\ Publish(Hydrated(t), None)
     ELSE /\ IF AgreesWithLease(t)
             THEN Publish(IF t = lease.target THEN store ELSE Hydrated(t), None)
             ELSE deferredMutation' = Observed(t, None) /\ UNCHANGED store
          /\ UNCHANGED sync
  /\ Observation

\* replaceSessionTargetAfterDispatch
ReplaceAfterDispatch(t) ==
  /\ "replace" \in Environment /\ live /\ NoContinuation
  /\ IF lease # None
     THEN /\ deferredMutation' = [target |-> t, source |-> "ui", reasoning |-> None]
          /\ UNCHANGED store
     ELSE Publish(WithTarget(store, t, "ui"), None)
  /\ UNCHANGED sync
  /\ Observation

\* Any other writer of the session store, such as the promotion of a draft; the
\* store subscriber sees it.
WriteStore(t) ==
  /\ "write" \in Environment /\ live /\ NoContinuation
  /\ t # store.target
  /\ Publish(WithTarget(store, t, "ui"), None)
  /\ UNCHANGED sync
  /\ Observation

\* publishObservedTarget
PublishObserved(t, source, m) ==
  Publish(WithReasoning(WithTarget(store, t, source), m), None)

\* observeSessionTargetModelSnapshot: the backend reports model t, in answer to
\* request q (None for a notification), with reasoning metadata m.
ObserveModel(t, q, m) ==
  LET id == IF q = None \/ ops[q].token # None \/ ops[q].needs THEN None ELSE ops[q].id
      response == q # None
      owns == id # None /\ Owns(id)
      matchesSelection == /\ response /\ selection.id = id
                          /\ Provider[t] = Provider[selection.target]
                          /\ selection.target \in Boundaries \/ t = selection.target
      matchesLocal == response /\ t = store.target
      paired == IF selection # None THEN matchesSelection
                ELSE store.source # "ui" \/ matchesLocal
      leased == lease # None /\ AgreesWithLease(t) /\ ~owns
      admitted == /\ IF selection # None THEN matchesSelection
                     ELSE store.source = "ui" => t = store.target
                  /\ AgreesWithLease(t) /\ ~leased
  IN
  /\ "observe" \in Environment /\ live /\ NoContinuation
  /\ q # None => ops[q].pc = "applying" /\ t \in Materialized(ops[q].effective)
  /\ t \in Concrete
  /\ m \in Report(t)
  /\ \/ /\ ~AgreesWithLease(t)
        /\ deferredMutation' = Observed(t, m)
        /\ UNCHANGED <<store, sync>>
     \/ /\ leased
        /\ PublishObserved(t, store.source,
             IF store.source # "ui" \/ matchesLocal THEN m ELSE None)
        /\ UNCHANGED sync
     \/ /\ admitted
        /\ sync' = IF owns THEN Acknowledged(id, t)
                   ELSE IF selection = None THEN Settled(t) ELSE sync
        /\ PublishObserved(t, IF store.source = "ui" \/ selection # None THEN "ui" ELSE "acp",
                           IF paired THEN m ELSE None)
  /\ Observation

\* The session leaves the store: cancelSessionTarget settles what is pending,
\* releases the lease and drops the actor.  A request still at the gate will
\* find a new actor.
Remove ==
  LET pending == {current, latest} \ {None} IN
  /\ "remove" \in Environment /\ live /\ NoContinuation
  /\ live' = FALSE
  /\ store' = [target |-> None, source |-> "acp", reasoning |-> None]
  /\ sync' = Unresolved
  /\ latest' = None
  /\ current' = None
  /\ selection' = None
  /\ deferredSelection' = None
  /\ deferredMutation' = None
  /\ lease' = None
  /\ gate' = <<>>
  /\ woken' = OpenedGate
  /\ notifying' = (notifying \/ lease # None)
  /\ ops' = [q \in Requests |->
       IF q \in pending
       THEN IF q = current THEN Settle(ops[q], "session-missing")
            ELSE Retired(ops[q], "done", "session-missing", None)
       ELSE ops[q]]
  /\ UNCHANGED <<attempts, backend>>
-----------------------------------------------------------------------------
Init ==
  /\ live = TRUE
  /\ store \in [target : MaybeTarget, source : {"ui", "acp"}, reasoning : {None}]
  /\ sync = SettledOrUnresolved(store.target)
  /\ latest = None /\ current = None
  /\ selection = None /\ deferredSelection = None
  /\ deferredMutation = None
  /\ lease = None
  /\ gate = <<>> /\ woken = <<>> /\ notifying = FALSE
  /\ ops = [r \in Requests |-> [NewOperation EXCEPT !.pc = "free"]]
  /\ attempts = [a \in Attempts |-> NewAttempt]
  /\ backend = store.target

Execute(r) ==
  \/ \E e \in Targets : Resolve(r, e)
  \/ ResolveFails(r)
  \/ \E t \in Targets, m \in MaybeTarget : Answer(r, t, m)
  \/ AnswerFails(r)
  \/ Drain(r)

Dispatch(a) ==
  \/ Acquire(a) \/ Prepare(a) \/ Prepared(a)
  \/ \E t \in Targets : Route(a, t)
  \/ Routed(a) \/ Prompt(a) \/ EndAttempt(a) \/ Release(a) \/ CancelWait(a)

User(r) ==
  \/ \E t \in Targets : PickModel(r, t) \/ PickProvider(r, t) \/ Refresh(r, t)
  \/ Reprepare(r) \/ Located(r) \/ ClearPick(r)

Observe ==
  \/ \E t \in Targets : Hydrate(t)
  \/ \E t \in MaybeTarget : ReplaceAfterDispatch(t) \/ WriteStore(t)
  \/ \E t \in Targets, q \in MaybeRequest, m \in MaybeTarget : ObserveModel(t, q, m)
  \/ Remove

Next ==
  \/ RunWoken \/ Notify \/ Observe
  \/ \E r \in Requests : Execute(r) \/ User(r)
  \/ \E a \in Attempts : Dispatch(a)

Spec == Init /\ [][Next]_vars
-----------------------------------------------------------------------------
(* Fairness: the event loop runs every continuation that is ready, the     *)
(* backend answers or rejects every call, and a turn ends.                  *)

Progress(a) ==
  \/ attempts[a].pc = "woken" /\ Acquire(a)
  \/ Prepared(a) \/ Routed(a) \/ EndAttempt(a) \/ Release(a)

Fairness ==
  /\ WF_vars(RunWoken) /\ WF_vars(Notify)
  /\ \A r \in Requests : WF_vars(Execute(r))
  /\ \A a \in Attempts : WF_vars(Progress(a))

FairSpec == Spec /\ Fairness
-----------------------------------------------------------------------------
(* Safety *)

\* While a dispatch holds the lease, the session store shows the target the
\* dispatch runs on, whatever pickers, observers and older requests do: every
\* writer of the store goes through the subscriber or owns the lease.
LeaseTargetPublished ==
  live /\ lease # None => Matches(store.target, lease.target)

\* A prompt is answered by the model its lease names: no request that was in
\* flight, blocked or superseded moves the backend under a running turn.
PromptRunsOnLease ==
  \A a \in Attempts : attempts[a].pc = "prompting" /\ Holds(a) => Matches(backend, lease.target)

\* When the actor has no operation left, it keeps none queued and its state is
\* not in transition: no interleaving of supersession, rejection, observation
\* and acknowledgement leaves the picker spinning.
IdleActorSettled ==
  current = None => latest = None /\ sync.status # "transitioning"

\* Outside a dispatch, a recorded pick still has the caller that will clear it.
\* A pick without one would refuse every hydration and supersede every
\* preparation of another target, for ever.
SelectionHasPicker ==
  lease = None /\ selection # None => ops[selection.id].claimed

\* The reasoning options a session shows were reported for the target it shows.
ReasoningDescribesTarget ==
  live /\ store.reasoning # None => Matches(store.reasoning, store.target)
-----------------------------------------------------------------------------
(* The inductive invariant behind LeaseTargetPublished *)

\* A request waits at the gate only when its caller holds no lease.
GateInv ==
  \A r \in Range(gate) \cup Range(woken) : ops[r].pc # "free" /\ ops[r].token = None

PickInv == \A r \in Requests : ops[r].pc = "locating" => ops[r].token = None

\* What holds of the transition a router made under its lease.
RouteOperationInv(a, r) ==
  LET o == ops[r] IN
  /\ o.token = a
  /\ ~o.needs
  /\ o.pc \in {"queued", "done"} \cup Executing
  /\ latest = r /\ current # r => o.pc = "queued" /\ o.outcome = None
  /\ o.outcome = None => /\ o.exact
                         /\ o.target = lease.target
                         /\ o.pc = "applying" => o.effective = lease.target
  /\ o.outcome = "committed" => o.pc \in {"finished", "done"} /\ o.effective = lease.target

\* Only the removal of the session takes the lease from a router.  A router that
\* holds it has published a model, asked for exactly that model, and can go back
\* to the target it replaced.
RouteInv ==
  \A a \in Attempts : attempts[a].pc = "routing" =>
    /\ live => Holds(a)
    /\ Holds(a) => /\ lease.target \in Concrete
                   /\ attempts[a].previous \in Targets
                   /\ \E r \in Requests : attempts[a].req = r /\ RouteOperationInv(a, r)
-----------------------------------------------------------------------------
(* The inductive invariant behind the other safety properties *)

\* The actor runs at most one operation and keeps at most one queued behind it,
\* the newest; a state in transition is that of the newest.
ActorInv ==
  /\ current = None <=> latest = None
  /\ current # None => ops[current].pc \in Executing
  /\ latest # current => ops[latest].pc = "queued"
  /\ \A r \in Requests : ops[r].pc = "queued" => r = latest /\ r # current
  /\ \A r \in Requests : live /\ ops[r].pc \in Executing => r = current
  /\ sync.status = "transitioning" =>
       latest # None /\ sync.op = ops[latest].id /\ ops[latest].pc # "finished"

\* An operation is answered when it ends, and not before unless its session
\* was removed.
OutcomeInv ==
  \A r \in Requests :
    /\ ops[r].pc \in {"free", "locating", "unrequested", "blocked", "queued"} => ops[r].outcome = None
    /\ r = current /\ ops[r].pc \in {"resolving", "applying"} => ops[r].outcome = None
    /\ ops[r].pc \in {"finished", "done"} => ops[r].outcome # None
    /\ ops[r].pc = "free" => ~ops[r].claimed /\ ops[r].token = None

\* A request waits at the gate, or behind it, once.
WaitInv ==
  /\ \A r \in Range(gate) \cup Range(woken) : ops[r].pc = "blocked"
  /\ IsInjective(woken \o gate)

\* A pick made during a dispatch is still to be applied, and its picker waits for
\* the release; no other pick is left without its picker.
IntentInv ==
  /\ deferredSelection # None =>
       /\ lease # None
       /\ ops[deferredSelection.id].claimed
       /\ ops[deferredSelection.id].pc \in {"locating", "blocked"}
       /\ deferredSelection.id \notin Range(woken)
  /\ deferredSelection = None /\ selection # None => ops[selection.id].claimed

LeaseInv == lease # None => live

\* A pending operation that was requested under a lease is the one its attempt
\* waits for, and asks for the leased target.
TokenInv ==
  \A r \in Requests : \A a \in Attempts :
    ops[r].token = a /\ ops[r].outcome = None =>
      /\ attempts[a].pc \in {"preparing", "routing"} /\ attempts[a].req = r
      /\ ~ops[r].needs
      /\ Holds(a) => /\ ops[r].target = lease.target
                     /\ ops[r].pc = "applying" => ops[r].effective \in Repair[lease.target]

\* No operation can still move the backend.
Quiet == \A r \in Requests : ops[r].pc \notin {"queued", "resolving", "applying"}

\* Preparing a session for t configures its backend for such a target.
Serves(u, t) == \E e \in Repair[t] : u \in Materialized(e)

\* The attempt's own request is the newest until it is answered; from then on
\* nothing moves the backend until the lease is released.
ServedInv(a) ==
  /\ attempts[a].pc \in {"preparing", "routing"} =>
       /\ woken = <<>>
       /\ attempts[a].req \in Requests
       /\ ops[attempts[a].req].token = a
       /\ ops[attempts[a].req].outcome = None => latest = attempts[a].req
       /\ ops[attempts[a].req].outcome # None => Quiet
       /\ ops[attempts[a].req].outcome = "committed" => Serves(backend, lease.target)
  /\ attempts[a].pc \in {"prepared", "prompting"} =>
       woken = <<>> /\ Quiet /\ Serves(backend, lease.target)

PromptInv == \A a \in Attempts : Holds(a) => ServedInv(a)

DispatchInv ==
  ActorInv /\ OutcomeInv /\ WaitInv /\ IntentInv /\ LeaseInv /\ TokenInv /\ PromptInv
-----------------------------------------------------------------------------
(* What a step may never do *)

\* A request is answered once: what its caller was told is never revised, even
\* when the session is removed while the backend call is on the wire.
OutcomeIsFinal ==
  [][\A r \in Requests : ops[r].outcome # None => ops'[r].outcome = ops[r].outcome]_vars

\* The user's visible pick is displaced only by another pick, by its own picker
\* finishing, or by the removal of the session: never by a release, by an
\* answer, or by an observation.
IntentSurvives ==
  [][VisibleIntent # None /\ VisibleIntent' # VisibleIntent =>
       \/ ~live'
       \/ \E r \in Requests : ops[r].pc = "free" /\ ops'[r].claimed
       \/ ops[VisibleIntent.id].claimed /\ ~ops'[VisibleIntent.id].claimed]_vars

\* When a caller is told its transition was committed, the target is in the
\* store, or is deferred behind a lease some other attempt holds.
CommitReachesStore ==
  [][\A r \in Requests :
       live /\ ops[r].outcome = None /\ ops'[r].outcome = "committed" =>
         \/ store'.target = ops'[r].effective
         \/ /\ lease # None /\ lease.holder # ops[r].token
            /\ deferredMutation' # None /\ deferredMutation'.target = ops'[r].effective]_vars

\* When a transition commits, the reducer has settled on its target.
CommitSettlesState ==
  [][\A r \in Requests :
       live /\ ops[r].outcome = None /\ ops'[r].outcome = "committed" =>
         sync'.status = "settled" /\ sync'.base = ops'[r].effective]_vars
-----------------------------------------------------------------------------
(* Liveness *)

\* Every transition that was asked for is answered, also when it was coalesced,
\* had to wait for a lease, or lost its session.
EveryRequestSettles ==
  \A r \in Requests :
    ops[r].pc \in {"blocked", "queued", "resolving", "applying"} ~> ops[r].outcome # None

\* An attempt that found the lease taken is woken again: no release, drain or
\* removal loses the notification.
EveryWaiterWakes ==
  \A a \in Attempts : attempts[a].pc = "waiting" ~> attempts[a].pc # "waiting"
=============================================================================

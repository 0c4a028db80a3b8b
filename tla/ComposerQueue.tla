--------------------------- MODULE ComposerQueue ---------------------------
(***************************************************************************)
(* The queue of messages of one chat and the two drains that empty it: the *)
(* one of the mounted chat (useMessageQueue) and the one that works while  *)
(* no chat view owns the queue (useBackgroundQueuedMessageDrain).          *)
(*                                                                         *)
(* A drain takes the session's dispatch lease, prepares the session and    *)
(* commits the message as a user turn, provided that it still is the head  *)
(* of the queue and that the session is ready.  A drain that finds the     *)
(* lease taken waits for its release; a rejected one retries.              *)
(*                                                                         *)
(* Each action is what runs between two events of the event loop.  The     *)
(* subscribers of the chat store run inside every write of the store       *)
(* (Write).  Microtasks run, in order, before the next event.              *)
(***************************************************************************)
EXTENDS Naturals, SequencesExt

CONSTANTS MaxMessages, MaxEdits,  \* bounds: messages, and edits of each
          MaxRejections,          \* MAX_CONSECUTIVE_REJECTIONS
          MaxSteers,              \* bound: steers in flight
          Restored,               \* messages a previous run left in the queue
          Hooks,                  \* mounts of the chat view, in any order
          Environment,            \* what a run admits
          None

Messages == 1..MaxMessages
Payload  == [id : Messages, rev : 0..MaxEdits]
Record   == [id : Messages, rev : 0..MaxEdits, kind : {"ready", "preparing", "failed"},
             editing : BOOLEAN, released : BOOLEAN, restored : BOOLEAN]

Attempt  == [hook : Hooks, payload : Payload, pc : {"preparing", "compacting", "compacted"}]
BackgroundAttempt ==
  [pc : {"sending", "running", "settling", "failing", "done"}, payload : Payload,
   same : BOOLEAN]
Rejection == [payload : Payload, count : 1..MaxRejections]
Steer == [hook : Hooks, payload : Payload]
Tasks == {"notify", "parkHead", "drainAgain", "resume"}

ASSUME ComposerAssumption ==
  /\ MaxMessages \in Nat /\ MaxEdits \in Nat /\ MaxSteers \in Nat
  /\ MaxRejections \in Nat \ {0}
  /\ Restored \in 0..MaxMessages
  /\ Environment \subseteq {"edit", "cancel", "remove", "defer", "load", "other", "compact",
                            "fail", "stop", "steer"}
  /\ IsFiniteSet(Hooks) /\ Hooks \cap Tasks = {}
  /\ None \notin UNION {Payload, Record, Hooks, Attempt, BackgroundAttempt, Rejection}

VARIABLES
  queue, accepted, removed,  \* the session's records; how many there were; removed ones
  turns,                     \* user turns, in order
  chat, stopping,            \* chatState, isRunCancellationPending
  turn,                      \* who sent the prompt that is running
  hooks,                     \* refs of every mount of useMessageQueue
  attempt,                   \* the mounted chat's attempt, which holds the lease
  background, waiter,        \* the background attempt, its contention waiter
  exclusions,                \* restored records the background drain leaves alone
  other,                     \* another sender holds the lease
  steers,                    \* steers that await their acknowledgement
  microtasks

store == <<queue, chat, stopping>>
drains == <<hooks, attempt, background, waiter, exclusions>>
history == <<accepted, removed, turns>>
vars == <<store, history, turn, drains, other, steers, microtasks>>

Hook == [mounted : BOOLEAN, used : BOOLEAN,
         last : [payload : Payload, current : BOOLEAN] \cup {None},
         waiting : Payload \cup {None}, timer : Payload \cup {None},
         rejections : Rejection \cup {None},
         shown : {"idle", "busy"}, stale : BOOLEAN]

TypeOK ==
  /\ queue \in Seq(Record)
  /\ accepted \in 0..MaxMessages
  /\ removed \in SUBSET Messages
  /\ turns \in Seq(Payload)
  /\ chat \in {"idle", "busy"}
  /\ stopping \in BOOLEAN
  /\ turn \in {"none", "foreground", "background"}
  /\ hooks \in [Hooks -> Hook]
  /\ attempt \in Attempt \cup {None}
  /\ background \in BackgroundAttempt \cup {None}
  /\ waiter \in Payload \cup {None}
  /\ exclusions \in SUBSET Messages
  /\ other \in BOOLEAN
  /\ steers \in Seq(Steer)
  /\ microtasks \in Seq(Hooks \cup Tasks)
-----------------------------------------------------------------------------
(* Records, readiness and ownership *)

NewRecord(id, kind, restored) ==
  [id |-> id, rev |-> 0, kind |-> kind, editing |-> FALSE, released |-> FALSE,
   restored |-> restored]

PayloadOf(r) == [id |-> r.id, rev |-> r.rev]
First(q) == IF q = <<>> THEN None ELSE Head(q)

\* isQueuedSessionReady
Ready(c, s) == c = "idle" /\ ~s

\* isQueuedMessageAttemptable
Attemptable(r) == r # None /\ r.kind = "ready" /\ ~r.editing

Mounted == {h \in Hooks : hooks[h].mounted}
\* hasForegroundQueueOwner
Open == Mounted # {}

Quiet == microtasks = <<>>

\* Whether a holder of the dispatch lease exists, for attempts a and b.
Leased(a, b) ==
  \/ a # None
  \/ b # None /\ b.pc \in {"sending", "running", "settling"}
  \/ other

\* Mutant: an edit of the record, begun or saved, does not end the ownership.
SameRecord(p) == First(queue) # None /\ First(queue).id = p.id
\* assertQueuedMessageAttemptOwned: the head is still the record p was taken from.
Owned(p) == Attemptable(First(queue)) /\ PayloadOf(First(queue)) = p

\* beforeUserMessageCommitted
MayCommit(p) == Owned(p) /\ Ready(chat, stopping)
-----------------------------------------------------------------------------
(* tryDrainQueuedMessage *)

ForegroundClaims(r) == Attemptable(r) /\ ~r.restored /\ ~r.released

Exhausted(hook, p) ==
  hook.rejections # None /\ hook.rejections.payload = p /\ hook.rejections.count >= MaxRejections

\* The record was tried in this idle cycle already.
Tried(hook, p) == hook.last # None /\ hook.last.payload = p /\ hook.last.current

Sending(h, a, p) ==
  a # None /\ (a.payload = p \/ (a.hook = h /\ a.payload.id = p.id))

\* What mount h, in state hook, does with record r: start an attempt, wait for
\* the lease, or nothing.
Tries(h, hook, r, ready, a) ==
  LET p == PayloadOf(r) IN
  /\ ForegroundClaims(r)
  /\ ready
  /\ ~Exhausted(hook, p) /\ ~Tried(hook, p) /\ ~Sending(h, a, p)
  /\ hook.waiting = None

Drained(h, hook, r, ready, a, b) ==
  IF ~Tries(h, hook, r, ready, a) THEN [hook |-> hook, attempt |-> a]
  ELSE IF Leased(a, b) THEN [hook |-> [hook EXCEPT !.waiting = PayloadOf(r)], attempt |-> a]
  ELSE [hook |-> [hook EXCEPT !.last = [payload |-> PayloadOf(r), current |-> TRUE]],
        attempt |-> [hook |-> h, payload |-> PayloadOf(r), pc |-> "preparing"]]

\* Mount h, whose refs are hook by now, tries the head outside a store write.
TryDrain(h, hook) ==
  LET d == Drained(h, hook, First(queue), Ready(chat, stopping), attempt, background) IN
  /\ hooks' = [hooks EXCEPT ![h] = d.hook]
  /\ attempt' = d.attempt

\* An idle edge begins a new idle cycle.
NextCycle(hook) ==
  [hook EXCEPT !.last = IF @ = None THEN None ELSE [@ EXCEPT !.current = FALSE]]

ForgetRejections(hook) == [hook EXCEPT !.rejections = None, !.timer = None]
-----------------------------------------------------------------------------
(* drainQueuedMessage of the background drain *)

BackgroundClaims(r, open, excluded) ==
  /\ Attemptable(r)
  /\ r.released \/ (~r.restored /\ r.id \notin excluded /\ ~open)

Background(r) == [pc |-> "sending", payload |-> PayloadOf(r), same |-> TRUE]

\* What the background drain does with record r when its attempt is b and its
\* waiter w.
BackgroundDrained(r, ready, open, excluded, a, b, w) ==
  IF ~(BackgroundClaims(r, open, excluded) /\ ready /\ b = None /\ w = None)
  THEN [attempt |-> b, waiter |-> w]
  ELSE IF Leased(a, b) THEN [attempt |-> b, waiter |-> PayloadOf(r)]
  ELSE [attempt |-> Background(r), waiter |-> w]

DrainBackground(open, excluded, a, b, w) ==
  LET d == BackgroundDrained(First(queue), Ready(chat, stopping), open, excluded, a, b, w) IN
  /\ background' = d.attempt
  /\ waiter' = d.waiter

\* Mutant: only the restored flag keeps a record from the background drain.
NothingNoted(q) == {}
\* noteRestoredRecords, while no chat view owns the queue
Noted(q) == exclusions \cup {q[i].id : i \in {j \in DOMAIN q : q[j].restored}}
-----------------------------------------------------------------------------
(* Writes of the chat store *)

\* Mutant: a session that becomes ready while idle starts no new idle cycle.
BecameIdle(c, s) == c = "idle" /\ chat # "idle"
IdleEdge(c, s) == c = "idle" /\ (chat # "idle" \/ (stopping /\ ~s))

\* What wakes the mounted drain besides an idle edge: the head was released,
\* loaded, edited, or is another one.
HeadEdge(old, new) ==
  \/ /\ old # None /\ new # None /\ old.id = new.id /\ new.kind = "ready"
     /\ \/ old.kind # "ready"
        \/ old.restored /\ ~new.restored
        \/ old.editing /\ ~new.editing /\ old.rev # new.rev
  \/ old # None /\ (new = None \/ new.id # old.id)

\* A materially different send resets the rejection budget.
NewSend(old, new) ==
  /\ old # None
  /\ \/ new = None \/ new.id # old.id
     \/ new.kind = "ready" /\ old.editing /\ ~new.editing /\ old.rev # new.rev

\* The refs of the mounted chat after its subscriber saw the write.
Subscribed(hook, c, s, old, new) ==
  LET cycled == IF IdleEdge(c, s) THEN [NextCycle(hook) EXCEPT !.timer = None] ELSE hook
      seen   == [cycled EXCEPT !.stale = @ \/ old # new]
  IN IF NewSend(old, new) THEN ForgetRejections(seen) ELSE seen

\* The store is set to queue q, chat state c and cancellation s, and both
\* subscribers run.  table, a and b are the refs and attempts they find;
\* dismissing is the mount that asked for the dismissal of the head.
Write(q, c, s, table, a, b, dismissing) ==
  LET old == First(queue)
      new == First(q)
      view == CHOOSE h \in Hooks : Open => h \in Mounted
      hook == Subscribed(table[view], c, s, old, new)
      fg == IF view # dismissing /\ (IdleEdge(c, s) \/ HeadEdge(old, new))
            THEN Drained(view, hook, new, Ready(c, s), a, b)
            ELSE [hook |-> hook, attempt |-> a]
      excluded == IF Open THEN exclusions ELSE Noted(q)
      kept == IF old = new THEN waiter ELSE None
      own == IF b = None THEN None ELSE [b EXCEPT !.same = @ /\ old = new]
      bg == IF old # new \/ ~Ready(chat, stopping)
            THEN BackgroundDrained(new, Ready(c, s), Open, excluded, a, own, kept)
            ELSE [attempt |-> own, waiter |-> kept]
  IN
  /\ queue' = q /\ chat' = c /\ stopping' = s
  /\ hooks' = IF Open THEN [table EXCEPT ![view] = fg.hook] ELSE table
  /\ attempt' = IF Open THEN fg.attempt ELSE a
  /\ background' = bg.attempt
  /\ waiter' = bg.waiter
  /\ exclusions' = excluded

\* A write of the queue by nobody's attempt.
WriteQueue(q) == Write(q, chat, stopping, hooks, attempt, background, None)
WriteChat(c, s) == Write(queue, c, s, hooks, attempt, background, None)
-----------------------------------------------------------------------------
(* The composer and the queue's own controls *)

\* enqueueTransportReadyMessage
Accept ==
  /\ Quiet /\ Open /\ accepted < MaxMessages
  /\ accepted' = accepted + 1
  /\ WriteQueue(Append(queue, NewRecord(accepted + 1, "ready", FALSE)))
  /\ UNCHANGED <<removed, turns, turn, other, steers, microtasks>>

\* enqueueDeferredMessage: one message at a time may wait for its workspace.
Defer ==
  /\ "defer" \in Environment /\ Quiet /\ Open /\ accepted < MaxMessages
  /\ \A i \in DOMAIN queue : queue[i].kind = "ready"
  /\ accepted' = accepted + 1
  /\ WriteQueue(Append(queue, NewRecord(accepted + 1, "preparing", FALSE)))
  /\ UNCHANGED <<removed, turns, turn, other, steers, microtasks>>

\* The record at i is replaced by r.
ReplaceRecord(i, r) ==
  /\ WriteQueue([queue EXCEPT ![i] = r])
  /\ UNCHANGED <<history, turn, other, steers, microtasks>>

\* A record that leaves deferral belongs to the background drain.
Released(r) == [r EXCEPT !.kind = "ready", !.released = TRUE, !.restored = FALSE]
\* deferTransportReadyMessage, with a failed state
Parked(r) == [r EXCEPT !.kind = "failed", !.released = FALSE, !.restored = FALSE]

\* releaseDeferredMessage: the workspace is there.
Release(i) ==
  /\ Quiet /\ queue[i].kind = "preparing"
  /\ ReplaceRecord(i, Released(queue[i]))

\* updateDeferredMessage: the workspace could not be made.
FailDeferred(i) ==
  /\ Quiet /\ queue[i].kind = "preparing"
  /\ ReplaceRecord(i, [queue[i] EXCEPT !.kind = "failed"])

BeginEditing(i) ==
  /\ "edit" \in Environment /\ Quiet /\ Open
  /\ ~queue[i].editing
  /\ ReplaceRecord(i, [queue[i] EXCEPT !.editing = TRUE])

CancelEditing(i) ==
  /\ "cancel" \in Environment /\ Quiet /\ Open
  /\ queue[i].editing
  /\ ReplaceRecord(i, [queue[i] EXCEPT !.editing = FALSE])

\* updateQueuedMessage.  Saving a failed record releases it.
Save(i) ==
  LET edited == [queue[i] EXCEPT !.rev = @ + 1, !.editing = FALSE] IN
  /\ Quiet /\ Open /\ queue[i].editing /\ queue[i].rev < MaxEdits
  /\ ReplaceRecord(i, IF edited.kind = "failed" THEN Released(edited) ELSE edited)

\* The mount that dismisses the head, if mount h dismisses message id.
Dismissing(h, id) == IF queue # <<>> /\ Head(queue).id = id THEN h ELSE None

\* dismissQueuedMessage, from the queue's remove button
Dismiss(i) ==
  LET id == queue[i].id IN
  /\ "remove" \in Environment /\ Quiet
  /\ \E h \in Mounted :
       Write(RemoveAt(queue, i), chat, stopping, hooks, attempt, background, Dismissing(h, id))
  /\ removed' = removed \cup {id}
  /\ UNCHANGED <<accepted, turns, turn, other, steers, microtasks>>

\* markQueuedMessagesReady, at the end of any load of the session
Load ==
  /\ "load" \in Environment /\ Quiet
  /\ \E i \in DOMAIN queue : queue[i].restored
  /\ WriteQueue([i \in DOMAIN queue |-> [queue[i] EXCEPT !.restored = FALSE]])
  /\ UNCHANGED <<history, turn, other, steers, microtasks>>
-----------------------------------------------------------------------------
(* Mounting, unmounting and rendering the chat view *)

\* registerForegroundQueueOwner and the effects of a first render
Mount(h) ==
  /\ Quiet /\ ~Open /\ ~hooks[h].used
  /\ exclusions' = {}
  /\ DrainBackground(TRUE, {}, attempt, background, waiter)
  /\ LET hook == [hooks[h] EXCEPT !.mounted = TRUE, !.used = TRUE, !.shown = chat] IN
       TryDrain(h, hook)
  /\ UNCHANGED <<store, history, turn, other, steers, microtasks>>

\* The background drain takes over.  An attempt of the view goes on.
Unmount(h) ==
  /\ Quiet /\ hooks[h].mounted
  /\ exclusions' = Noted(queue)
  /\ DrainBackground(FALSE, Noted(queue), attempt, background, waiter)
  /\ hooks' = [hooks EXCEPT ![h] = [@ EXCEPT !.mounted = FALSE, !.waiting = None,
                                             !.timer = None, !.stale = FALSE]]
  /\ UNCHANGED <<attempt, store, history, turn, other, steers, microtasks>>

\* The refs after the effect on the queued record.
Rekeyed(hook) ==
  LET r == First(queue)
      waited == IF r # None /\ hook.waiting = PayloadOf(r) THEN hook
                ELSE [hook EXCEPT !.waiting = None]
  IN IF hook.last # None /\ r # None /\ r.kind = "ready" /\ hook.last.payload.id = r.id
     THEN waited
     ELSE ForgetRejections([waited EXCEPT !.last = None])

\* React renders the view again: the effects on the record and the chat state.
Render(h) ==
  LET hook == [(IF hooks[h].stale THEN Rekeyed(hooks[h]) ELSE hooks[h])
                 EXCEPT !.stale = FALSE, !.shown = chat] IN
  /\ Quiet /\ hooks[h].mounted
  /\ hooks[h].stale \/ hooks[h].shown # chat
  /\ TryDrain(h, hook)
  /\ UNCHANGED <<store, history, turn, background, waiter, exclusions, other, steers, microtasks>>
-----------------------------------------------------------------------------
(* Attempts of the mounted chat *)

\* The retry timer of mount h fires; an unmounted one may have set it too.
Retry(h) ==
  LET hook == hooks[h]
      fired == [hook EXCEPT !.timer = None]
      r == First(queue)
      same == r # None /\ r.kind = "ready" /\ PayloadOf(r) = hook.timer
  IN
  /\ Quiet /\ hook.timer # None
  /\ IF ~same
     THEN hooks' = [hooks EXCEPT ![h] = fired] /\ UNCHANGED attempt
     ELSE IF ~Ready(chat, stopping)
     THEN hooks' = [hooks EXCEPT ![h].last = None] /\ UNCHANGED attempt
     ELSE TryDrain(h, NextCycle(fired))
  /\ UNCHANGED <<store, history, turn, background, waiter, exclusions, other, steers, microtasks>>

\* sendWithAutoCompact compacts the conversation before it sends.
Compact ==
  /\ "compact" \in Environment /\ Quiet
  /\ attempt # None /\ attempt.pc = "preparing" /\ chat = "idle"
  /\ Write(queue, "busy", stopping, hooks, [attempt EXCEPT !.pc = "compacting"], background, None)
  /\ UNCHANGED <<history, turn, other, steers, microtasks>>

Compacted ==
  /\ Quiet /\ attempt # None /\ attempt.pc = "compacting"
  /\ Write(queue, "idle", stopping, hooks, [attempt EXCEPT !.pc = "compacted"], background, None)
  /\ UNCHANGED <<history, turn, other, steers, microtasks>>

\* The message becomes a user turn; its attempt is finalized as accepted.
Commit ==
  LET h == attempt.hook IN
  /\ Quiet /\ attempt # None /\ attempt.pc # "compacting"
  /\ MayCommit(attempt.payload)
  /\ turns' = Append(turns, attempt.payload)
  /\ turn' = "foreground"
  /\ Write(Tail(queue), "busy", stopping,
           [hooks EXCEPT ![h].last = None, ![h].rejections = None], None, background, None)
  /\ microtasks' = <<"notify">>
  /\ UNCHANGED <<accepted, removed, other, steers>>

\* Mutant: the first rejection is free.
Retries(hook, p) ==
  [payload |-> p,
   count |-> IF hook.rejections # None /\ hook.rejections.payload = p
             THEN hook.rejections.count + 1 ELSE 0]
Rejections(hook, p) ==
  [payload |-> p,
   count |-> IF hook.rejections # None /\ hook.rejections.payload = p
             THEN hook.rejections.count + 1 ELSE 1]

\* Mutant: a rejected attempt waits for the next idle edge.
RejectedOnce(hook, p) == [hook EXCEPT !.rejections = Rejections(hook, p)]
\* The attempt is counted; unless that was the last, a timer will retry it.
RejectedBy(hook, p) ==
  [hook EXCEPT !.rejections = Rejections(hook, p),
               !.timer = IF Rejections(hook, p).count >= MaxRejections THEN None
                         ELSE IF @ = None THEN p ELSE @]

\* finalize: who tries the head when the attempt of h no longer owns it
TriesNext(h) == IF Attemptable(First(queue)) THEN <<h>> ELSE <<>>

\* The attempt fails, is superseded, or may not commit: finalize(false).
Reject ==
  LET h == attempt.hook IN
  /\ Quiet /\ attempt # None /\ attempt.pc # "compacting"
  /\ "fail" \in Environment \/ ~MayCommit(attempt.payload)
  /\ attempt' = None
  /\ IF Owned(attempt.payload)
     THEN /\ hooks' = [hooks EXCEPT ![h] = RejectedBy(@, attempt.payload)]
          /\ microtasks' = <<"notify">>
     ELSE /\ microtasks' = <<"notify">> \o TriesNext(h)
          /\ UNCHANGED hooks
  /\ UNCHANGED <<store, history, turn, background, waiter, exclusions, other, steers>>
-----------------------------------------------------------------------------
(* Attempts of the background drain, which hold the lease until the turn ends *)

CommitBackground ==
  /\ Quiet /\ background # None /\ background.pc = "sending"
  /\ MayCommit(background.payload)
  /\ turns' = Append(turns, background.payload)
  /\ turn' = "background"
  /\ Write(Tail(queue), "busy", stopping, hooks, attempt,
           [background EXCEPT !.pc = "running"], None)
  /\ UNCHANGED <<accepted, removed, other, steers, microtasks>>

\* A PreCommitSendRejectedError is silent; any other failure parks the head.
RejectBackground ==
  /\ Quiet /\ background # None /\ background.pc = "sending"
  /\ \/ /\ ~MayCommit(background.payload)
        /\ background' = [background EXCEPT !.pc = "done"]
        /\ microtasks' = <<"notify", "drainAgain">>
     \/ /\ "fail" \in Environment
        /\ background' = [background EXCEPT !.pc = "failing"]
        /\ microtasks' = <<"notify", "parkHead">>
  /\ UNCHANGED <<store, history, turn, hooks, attempt, waiter, exclusions, other, steers>>

\* The turn is over and its lease is released.
SettleBackground ==
  /\ Quiet /\ background # None /\ background.pc = "settling"
  /\ background' = [background EXCEPT !.pc = "done"]
  /\ microtasks' = <<"notify", "drainAgain">>
  /\ UNCHANGED <<store, history, turn, hooks, attempt, waiter, exclusions, other, steers>>
-----------------------------------------------------------------------------
(* Microtasks *)

Task(t) == microtasks # <<>> /\ Head(microtasks) = t

\* Everyone who waits for the lease, when it is free.
Notify ==
  /\ Task("notify")
  /\ IF Leased(attempt, background)
     THEN microtasks' = Tail(microtasks) /\ UNCHANGED <<hooks, waiter>>
     ELSE /\ hooks' = [h \in Hooks |-> [hooks[h] EXCEPT !.waiting = None]]
          /\ waiter' = None
          /\ \E wakes \in SetToSeqs({h \in Hooks : hooks[h].waiting # None}) :
               microtasks' = wakes \o Tail(microtasks)
                                   \o (IF waiter # None THEN <<"resume">> ELSE <<>>)
  /\ UNCHANGED <<store, history, turn, attempt, background, exclusions, other, steers>>

Wake(h) ==
  /\ Task(h)
  /\ TryDrain(h, hooks[h])
  /\ microtasks' = Tail(microtasks)
  /\ UNCHANGED <<store, history, turn, background, waiter, exclusions, other, steers>>

\* The catch clause of the background attempt: if the head still is the record
\* it was made for, it is parked as failed.
ParkHead ==
  /\ Task("parkHead") /\ background # None
  /\ IF background.same /\ queue # <<>>
     THEN Write([queue EXCEPT ![1] = Parked(@)], chat, stopping, hooks, attempt,
                [background EXCEPT !.pc = "done"], None)
     ELSE /\ background' = [background EXCEPT !.pc = "done"]
          /\ UNCHANGED <<store, hooks, attempt, waiter, exclusions>>
  /\ microtasks' = Tail(microtasks) \o <<"drainAgain">>
  /\ UNCHANGED <<history, turn, other, steers>>

\* Its finally clause, and the resumption after contention.
DrainAgain ==
  /\ Task("drainAgain") \/ Task("resume")
  /\ DrainBackground(Open, exclusions, attempt,
                     IF Task("drainAgain") THEN None ELSE background, waiter)
  /\ microtasks' = Tail(microtasks)
  /\ UNCHANGED <<store, history, turn, hooks, attempt, exclusions, other, steers>>
-----------------------------------------------------------------------------
(* The turn, and other holders of the lease *)

TurnEnds ==
  /\ Quiet /\ turn # "none"
  /\ turn' = "none"
  /\ Write(queue, "idle", FALSE, hooks, attempt,
           IF turn = "background" THEN [background EXCEPT !.pc = "settling"] ELSE background,
           None)
  /\ UNCHANGED <<history, other, steers, microtasks>>

\* stopGeneration: the chat is idle at once, and ready when the turn has ended.
Stop ==
  /\ "stop" \in Environment /\ Quiet /\ Open
  /\ turn # "none" /\ chat = "busy"
  /\ WriteChat("idle", TRUE)
  /\ UNCHANGED <<history, turn, other, steers, microtasks>>

OtherAcquires ==
  /\ "other" \in Environment /\ Quiet /\ ~Leased(attempt, background)
  /\ other' = TRUE
  /\ UNCHANGED <<store, history, turn, drains, steers, microtasks>>

OtherReleases ==
  /\ Quiet /\ other
  /\ other' = FALSE
  /\ microtasks' = <<"notify">>
  /\ UNCHANGED <<store, history, turn, drains, steers>>

\* steerQueuedMessage: the head is sent into the running turn.
StartSteer(h) ==
  /\ "steer" \in Environment /\ Quiet /\ hooks[h].mounted
  /\ Len(steers) < MaxSteers
  /\ turn # "none" /\ chat = "busy"
  /\ Attemptable(First(queue))
  /\ steers' = Append(steers, [hook |-> h, payload |-> PayloadOf(Head(queue))])
  /\ UNCHANGED <<store, history, turn, drains, other, microtasks>>

\* The queue filtered for other records than id, of which there is at most one.
Without(q, id) ==
  LET places == {i \in DOMAIN q : q[i].id = id} IN
  IF places = {} THEN q ELSE RemoveAt(q, CHOOSE i \in places : TRUE)

\* The backend acknowledged the steer: the message is a turn, and dismissed.
Steered ==
  LET id == Head(steers).payload.id IN
  /\ Quiet /\ steers # <<>>
  /\ turns' = Append(turns, Head(steers).payload)
  /\ Write(Without(queue, id), chat, stopping, hooks, attempt, background,
           Dismissing(Head(steers).hook, id))
  /\ steers' = Tail(steers)
  /\ UNCHANGED <<accepted, removed, turn, other, microtasks>>

SteerFails ==
  /\ Quiet /\ steers # <<>>
  /\ steers' = Tail(steers)
  /\ UNCHANGED <<store, history, turn, drains, other, microtasks>>
-----------------------------------------------------------------------------
NewHook ==
  [mounted |-> FALSE, used |-> FALSE, last |-> None, waiting |-> None, timer |-> None,
   rejections |-> None, shown |-> "idle", stale |-> FALSE]

\* The program starts with what the previous run left in the queue.
Init ==
  /\ queue = [i \in 1..Restored |-> NewRecord(i, "ready", TRUE)]
  /\ accepted = Restored /\ removed = {} /\ turns = <<>>
  /\ chat = "idle" /\ stopping = FALSE /\ turn = "none"
  /\ hooks = [h \in Hooks |-> NewHook]
  /\ attempt = None /\ background = None /\ waiter = None
  /\ exclusions = 1..Restored
  /\ other = FALSE /\ steers = <<>> /\ microtasks = <<>>

Edit(i) ==
  Release(i) \/ FailDeferred(i) \/ BeginEditing(i) \/ CancelEditing(i) \/ Save(i) \/ Dismiss(i)

View(h) == Mount(h) \/ Unmount(h) \/ Render(h) \/ Retry(h) \/ StartSteer(h)

Foreground == Compact \/ Compacted \/ Commit \/ Reject
BackgroundStep == CommitBackground \/ RejectBackground \/ SettleBackground
Microtask == Notify \/ (\E h \in Hooks : Wake(h)) \/ ParkHead \/ DrainAgain

Next ==
  \/ Accept \/ Defer \/ Load
  \/ \E i \in DOMAIN queue : Edit(i)
  \/ \E h \in Hooks : View(h)
  \/ Foreground \/ BackgroundStep \/ Microtask
  \/ TurnEnds \/ Stop \/ OtherAcquires \/ OtherReleases \/ Steered \/ SteerFails

Spec == Init /\ [][Next]_vars
-----------------------------------------------------------------------------
(* Fairness: the event loop runs microtasks, and every task that is queued  *)
(* although microtasks and other tasks run in between (hence SF); a send    *)
(* and a turn end; whoever else holds the lease gives it back.              *)
FairSpec ==
  /\ Spec
  /\ WF_vars(Microtask)
  /\ SF_vars(Compacted) /\ SF_vars(Commit \/ Reject)
  /\ SF_vars(CommitBackground \/ RejectBackground) /\ SF_vars(SettleBackground)
  /\ SF_vars(TurnEnds) /\ SF_vars(OtherReleases)
  /\ \A h \in Hooks : SF_vars(Render(h)) /\ SF_vars(Retry(h))
-----------------------------------------------------------------------------
(* What the queue promises *)

\* What ChatQueue sees of the queue and of the turns.
Entries(q) ==
  [i \in DOMAIN q |-> [id |-> q[i].id, text |-> q[i].rev, held |-> ~Attemptable(q[i])]]
Dispatched(s) == [i \in DOMAIN s |-> [id |-> s[i].id, text |-> s[i].rev]]

Promise == INSTANCE ChatQueue WITH
  Texts <- 0..MaxEdits,
  queue <- Entries(queue),
  turns <- Dispatched(turns),
  ready <- Ready(chat, stopping)

\* This queue and its drains implement the queue of LAWS/CHAT.md: messages keep
\* their order and their places, each becomes at most one turn, with its newest
\* text and only while the session is ready, and none is lost, through
\* rejections, edits, mounts, contention and stops.
Implements == Promise!Spec

\* A message becomes at most one user turn.
OneTurnEach ==
  \A i, j \in DOMAIN turns : turns[i].id = turns[j].id => i = j

\* The user, not the drains, is awaited: the head was restored and its chat not
\* opened or loaded since, or a view, which may be gone by now, was rejected too
\* often.
AwaitsUser(r) ==
  \/ r.restored
  \/ ~Open /\ ~r.released /\ r.id \in exclusions
  \/ \E h \in Hooks : Exhausted(hooks[h], PayloadOf(r))

\* Something that is under way will look at the head r again.
WillBeTried(r) ==
  \/ attempt # None \/ background # None
  \/ other /\ (waiter # None \/ \E h \in Hooks : hooks[h].waiting = PayloadOf(r))
  \/ \E h \in Hooks : hooks[h].timer = PayloadOf(r)
  \/ \E h \in Mounted : hooks[h].stale \/ hooks[h].shown # chat

\* "When a chat's session becomes ready, that chat's queue MUST resume": in a
\* ready session an attemptable head is never left to nobody, whichever of the
\* subscriptions, effects, timers and waiters had to notice it.
NeverStranded ==
  Quiet /\ Ready(chat, stopping) /\ Attemptable(First(queue)) =>
    AwaitsUser(First(queue)) \/ WillBeTried(First(queue))

\* A prompt left over from an earlier run is never sent before the user has
\* opened its chat, even if some load of the session cleared its flag.
RestoredAwaitsUser ==
  (\E i \in DOMAIN turns : turns[i].id <= Restored) => \E h \in Hooks : hooks[h].used

\* The queue empties: every message the user does not withdraw becomes a turn,
\* wherever the chat is shown.
QueueDrains ==
  \A m \in Messages : accepted >= m ~> \E i \in DOMAIN turns : turns[i].id = m
=============================================================================

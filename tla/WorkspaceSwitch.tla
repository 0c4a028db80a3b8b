-------------------------- MODULE WorkspaceSwitch --------------------------
(* Switching the folder of a chat: requests of agents are persisted until   *)
(* the chat is idle, a drain and the barrier of the next prompt share one   *)
(* update of the backend, and the user may choose a folder at any moment    *)
(* (src/src/features/chat/lib/sessionWorkspaceActivation.ts and its         *)
(* callers).  The backend handles what one connection sends in order.       *)
EXTENDS Naturals, Sequences, SequencesExt

CONSTANTS
  Folders,      \* the folders a request can name
  Commands,     \* the calls of `berdctl folder set-cwd`
  Picks,      \* the folders the user picks
  Home,         \* the folder the chat starts in
  None

VARIABLES
  running,      \* the chat runs, or its cancellation is pending
  pending,      \* the persisted request: the command that made it and its folder
  op,           \* applyingBySession: the shared update
  draining,     \* drainingSessionIds: the request a drain waits for
  dirty,        \* a store changed that the drain subscribes to
  intent,       \* intentGenerationBySession
  shown,        \* workingDir of the session
  backend,      \* the folder the backend works in
  wire,         \* what the backend has yet to handle
  prompt,       \* the next turn
  command, choice

vars == <<running, pending, op, draining, dirty, intent, shown, backend, wire, prompt, command, choice>>

AnyFolder == Folders \cup {Home}
Request == [id : Commands, folder : Folders]

TypeOK ==
  /\ running \in BOOLEAN /\ dirty \in BOOLEAN
  /\ pending \in Request \cup {None}
  /\ op \in [phase : {"checking", "updating"}, request : Request, allowRunning : BOOLEAN] \cup {None}
  /\ draining \in Commands \cup {None}
  /\ intent \in Nat
  /\ shown \in AnyFolder /\ backend \in AnyFolder
  /\ wire \in Seq([by : {"op", "prompt"} \cup Picks, folder : AnyFolder])
  /\ prompt \in [pc : {"none", "barrier", "hydrating", "hydrated", "sent", "turn"}, folder : AnyFolder]
  /\ command \in [Commands -> [pc : {"idle", "attaching", "applying", "queued", "applied", "failed"},
                               folder : AnyFolder, generation : Nat, attached : BOOLEAN]]
  /\ choice \in [Picks -> [pc : {"idle", "waiting", "sent", "done"}, folder : AnyFolder]]

Send(by, folder) == Append(wire, [by |-> by, folder |-> folder])
Started(request, allow) == [phase |-> "checking", request |-> request, allowRunning |-> allow]

\* applyPendingSessionWorkspaceActivation joins the update that is running, and lets
\* it proceed in a running chat if the caller is a prompt.
Joined(request, allow) ==
  IF op # None THEN [op EXCEPT !.allowRunning = @ \/ allow] ELSE Started(request, allow)

----------------------------------------------------------------------------
(* Requests of agents and choices of the user.                              *)

\* A command claims the intent before anything else and then attaches the folder.
\* `attached`: the folder was attached to the chat before.
Claim(c) ==
  /\ command[c].pc = "idle"
  /\ intent' = intent + 1
  /\ \E f \in Folders, attached \in BOOLEAN :
       command' = [command EXCEPT ![c] = [pc |-> "attaching", folder |-> f,
                                          generation |-> intent', attached |-> attached]]
  /\ UNCHANGED <<running, pending, op, draining, dirty, shown, backend, wire, prompt, choice>>

\* queueSessionWorkspaceActivation refuses an intent that is not the newest.
Newest(c) == command[c].generation = intent

\* In a running chat the request is kept for later.  In an idle one whatever is
\* pending is cleared, even when the command turns out to be superseded, and the
\* request is applied at once.
Attached(c) ==
  LET request == [id |-> c, folder |-> command[c].folder]
      To(pc) == [command EXCEPT ![c].pc = pc]
  IN /\ command[c].pc = "attaching"
     /\ IF ~Newest(c)
          THEN /\ command' = To("failed")
               /\ pending' = IF running THEN pending ELSE None
               /\ UNCHANGED op
          ELSE /\ command' = To(IF running THEN "queued" ELSE "applying")
               /\ pending' = request
               /\ op' = IF running THEN op ELSE Joined(request, FALSE)
     /\ dirty' = (pending' # pending)
     /\ UNCHANGED <<running, draining, intent, shown, backend, wire, prompt, choice>>

\* The attachment was refused, or the deadline of the call has passed.
AttachFails(c) ==
  /\ command[c].pc = "attaching"
  /\ command' = [command EXCEPT ![c].pc = "failed"]
  /\ UNCHANGED <<running, pending, op, draining, dirty, intent, shown, backend, wire, prompt, choice>>

\* The user picks a folder: the intent is claimed, the pending request dropped, and
\* an update that is running awaited.
Choose(u) ==
  /\ choice[u].pc = "idle"
  /\ intent' = intent + 1
  /\ pending' = None
  /\ dirty' = (pending # None)
  /\ \E f \in Folders :
       /\ choice' = [choice EXCEPT ![u] = [pc |-> IF op = None THEN "sent" ELSE "waiting", folder |-> f]]
       /\ wire' = IF op = None THEN Send(u, f) ELSE wire
  /\ UNCHANGED <<running, op, draining, shown, backend, prompt, command>>

----------------------------------------------------------------------------
(* The shared update.                                                       *)

\* The drain applies a pending request of a settled chat, one at a time.
\* Mutant: it leaves a request alone once a newer intent was claimed.
NewestDrainable == pending # None /\ draining = None /\ ~running /\ Newest(pending.id)
Drainable == pending # None /\ draining = None /\ ~running

Drain ==
  /\ dirty
  /\ dirty' = FALSE
  /\ IF Drainable
       THEN draining' = pending.id /\ op' = Joined(pending, FALSE)
       ELSE UNCHANGED <<draining, op>>
  /\ UNCHANGED <<running, pending, intent, shown, backend, wire, prompt, command, choice>>

\* Mutant: nobody looks at the chat before the update is sent.
AlwaysMay == TRUE
MayUpdate == op.allowRunning \/ ~running

\* The folder exists and its branch is known.  Before the update is sent the chat
\* is looked at once more.
Checked ==
  /\ op # None /\ op.phase = "checking" /\ MayUpdate
  /\ op' = [op EXCEPT !.phase = "updating"]
  /\ wire' = Send("op", op.request.folder)
  /\ UNCHANGED <<running, pending, draining, dirty, intent, shown, backend, prompt, command, choice>>

\* A choice of the user that waited for the update is sent after it.
ChoiceSent(u) == [choice[u] EXCEPT !.pc = IF @ = "waiting" THEN "sent" ELSE @]
Waiters == SetToSeq({u \in Picks : choice[u].pc = "waiting"})
WithWaiters(w) == w \o [i \in DOMAIN Waiters |-> [by |-> Waiters[i], folder |-> choice[Waiters[i]].folder]]

\* The turn whose barrier has been passed: the backend is prepared for its folder.
PromptTo(folder) == [by |-> "prompt", folder |-> folder]

\* A request that was withdrawn leaves the prompt in the folder the session shows.
\* Mutant: the prompt takes whatever the update applied.
AsApplied(folder) == folder
PromptFolder(folder) == IF folder = None THEN shown' ELSE folder

\* The update is over for everyone who shares it.  `folder` is what was applied, or
\* None when the request was withdrawn meanwhile.
Finish(w, folder) ==
  /\ op' = None
  /\ pending' = None
  /\ draining' = None
  /\ dirty' = TRUE
  /\ command' = [c \in Commands |->
       IF command[c].pc # "applying" THEN command[c]
       ELSE [command[c] EXCEPT !.pc =
              IF folder = command[c].folder /\ Newest(c) THEN "applied" ELSE "failed"]]
  /\ choice' = [u \in Picks |-> ChoiceSent(u)]
  /\ LET prompted == prompt.pc = "barrier"
         to == PromptFolder(folder)
     IN /\ wire' = WithWaiters(IF prompted THEN Append(w, PromptTo(to)) ELSE w)
        /\ prompt' = IF prompted THEN [pc |-> "sent", folder |-> to]
                     ELSE IF prompt.pc = "hydrating" THEN [prompt EXCEPT !.pc = "hydrated"] ELSE prompt
  /\ UNCHANGED <<running, intent>>

\* The request failed.  It stays pending and keeps the barrier closed, unless the
\* command that made it attached its folder and takes both back.  The prompt that
\* waited fails; a drain that waited looks for a newer request.
Withdrawn ==
  /\ pending # None /\ pending.id = op.request.id
  /\ command[pending.id].pc = "applying" /\ ~command[pending.id].attached

Abort(w) ==
  /\ op' = None
  /\ pending' = IF Withdrawn THEN None ELSE pending
  /\ draining' = None
  /\ dirty' = \/ Withdrawn
              \/ prompt.pc = "barrier"
              \/ draining # None /\ pending # None /\ pending.id # draining
  /\ command' = [c \in Commands |->
       IF command[c].pc = "applying" THEN [command[c] EXCEPT !.pc = "failed"] ELSE command[c]]
  /\ choice' = [u \in Picks |-> ChoiceSent(u)]
  /\ wire' = WithWaiters(w)
  /\ running' = IF prompt.pc = "barrier" THEN FALSE ELSE running
  /\ prompt' = IF prompt.pc \in {"barrier", "hydrating"} THEN [prompt EXCEPT !.pc = "none"] ELSE prompt
  /\ UNCHANGED <<intent, shown, backend>>

\* The folder is missing, or the chat started running before the update was sent.
CheckFails ==
  /\ op # None /\ op.phase = "checking"
  /\ Abort(wire)

\* The backend has the folder and the session shows it.  A request that came in
\* meanwhile is applied by the same update; a cleared one ends it.
\* Mutant: the update ends with the request it began with.
NoFollowUp == FALSE
FollowUp == pending # None /\ pending.id # op.request.id

OpHandled ==
  /\ wire # <<>> /\ Head(wire).by = "op"
  /\ backend' = Head(wire).folder /\ shown' = Head(wire).folder
  /\ IF FollowUp
       THEN /\ op' = [op EXCEPT !.phase = "checking", !.request = pending]
            /\ wire' = Tail(wire)
            /\ dirty' = TRUE
            /\ UNCHANGED <<running, pending, draining, intent, prompt, command, choice>>
       ELSE Finish(Tail(wire), IF pending = None THEN None ELSE Head(wire).folder)

OpFails ==
  /\ wire # <<>> /\ Head(wire).by = "op"
  /\ Abort(Tail(wire))

ChoiceHandled(u) ==
  /\ wire # <<>> /\ Head(wire).by = u
  /\ wire' = Tail(wire)
  /\ choice' = [choice EXCEPT ![u].pc = "done"]
  /\ \/ backend' = Head(wire).folder /\ shown' = Head(wire).folder /\ dirty' = TRUE
     \/ UNCHANGED <<backend, shown, dirty>>
  /\ UNCHANGED <<running, pending, op, draining, intent, prompt, command>>

----------------------------------------------------------------------------
(* Turns.                                                                   *)

\* A mounted chat is running before its barrier, which joins, starts or skips the
\* update.
Begin ==
  /\ prompt.pc = "none" /\ ~running
  /\ running' = TRUE /\ dirty' = TRUE
  /\ IF op = None /\ pending = None
       THEN /\ prompt' = [pc |-> "sent", folder |-> shown]
            /\ wire' = Append(wire, PromptTo(shown))
            /\ UNCHANGED op
       ELSE /\ prompt' = [prompt EXCEPT !.pc = "barrier"]
            /\ op' = IF op # None THEN Joined(op.request, TRUE) ELSE Started(pending, TRUE)
            /\ UNCHANGED wire
  /\ UNCHANGED <<pending, draining, intent, shown, backend, command, choice>>

\* A background send applies the request while it loads the session, and the chat
\* runs only once its message is committed.
Hydrate ==
  /\ prompt.pc = "none" /\ ~running
  /\ IF op = None /\ pending = None
       THEN prompt' = [prompt EXCEPT !.pc = "hydrated"] /\ UNCHANGED op
       ELSE /\ prompt' = [prompt EXCEPT !.pc = "hydrating"]
            /\ op' = IF op # None THEN op ELSE Started(pending, FALSE)
  /\ UNCHANGED <<running, pending, draining, dirty, intent, shown, backend, wire, command, choice>>

Commit ==
  /\ prompt.pc = "hydrated"
  /\ running' = TRUE /\ dirty' = TRUE
  /\ prompt' = [pc |-> "sent", folder |-> shown]
  /\ wire' = Append(wire, PromptTo(shown))
  /\ UNCHANGED <<pending, op, draining, intent, shown, backend, command, choice>>

TurnStarts ==
  /\ wire # <<>> /\ Head(wire).by = "prompt"
  /\ wire' = Tail(wire)
  /\ backend' = Head(wire).folder
  /\ prompt' = [prompt EXCEPT !.pc = "turn"]
  /\ UNCHANGED <<running, pending, op, draining, dirty, intent, shown, command, choice>>

\* Berd is restarted: only the request persists, and the drain looks at it once.  The
\* backend may have handled what was on the wire.
Restart ==
  /\ running' = FALSE /\ dirty' = TRUE
  /\ op' = None /\ draining' = None /\ intent' = 0 /\ wire' = <<>>
  /\ backend' \in {backend} \cup {wire[i].folder : i \in DOMAIN wire}
  /\ shown' = backend'
  /\ prompt' = [prompt EXCEPT !.pc = "none"]
  /\ command' = [c \in Commands |->
       [command[c] EXCEPT !.pc = IF @ = "idle" THEN @ ELSE "failed", !.generation = 0]]
  /\ choice' = [u \in Picks |-> [choice[u] EXCEPT !.pc = IF @ = "idle" THEN @ ELSE "done"]]
  /\ UNCHANGED pending

TurnEnds ==
  /\ prompt.pc = "turn"
  /\ prompt' = [prompt EXCEPT !.pc = "none"]
  /\ running' = FALSE /\ dirty' = TRUE
  /\ UNCHANGED <<pending, op, draining, intent, shown, backend, wire, command, choice>>

----------------------------------------------------------------------------
Init ==
  /\ running = FALSE /\ dirty = FALSE
  /\ pending = None /\ op = None /\ draining = None
  /\ intent = 0
  /\ shown = Home /\ backend = Home
  /\ wire = <<>>
  /\ prompt = [pc |-> "none", folder |-> Home]
  /\ command = [c \in Commands |-> [pc |-> "idle", folder |-> Home, generation |-> 0, attached |-> FALSE]]
  /\ choice = [u \in Picks |-> [pc |-> "idle", folder |-> Home]]

\* The subscribers run inside the write that wakes them.
Quiet == ~dirty

Next ==
  \/ Drain
  \/ /\ Quiet
     /\ \/ \E c \in Commands : Claim(c) \/ Attached(c) \/ AttachFails(c)
        \/ \E u \in Picks : Choose(u) \/ ChoiceHandled(u)
        \/ Checked \/ CheckFails \/ OpHandled \/ OpFails
        \/ Begin \/ Hydrate \/ Commit \/ TurnStarts \/ TurnEnds \/ Restart

Spec == Init /\ [][Next]_vars

----------------------------------------------------------------------------
\* A request of an agent never moves the folder under a turn: no update of the drain
\* is handled after the prompt, whoever shared it.
NoSwitchUnderTurn ==
  \A i \in DOMAIN wire : wire[i].by = "op" =>
    /\ prompt.pc # "turn"
    /\ \A j \in DOMAIN wire : wire[j].by = "prompt" => i < j

\* A request that Berd accepted is forgotten only when its folder is shown, a newer
\* intent was claimed, or its command reports the failure; a restart does not forget it.
\* The exception is the code's: a superseded command that attached its folder in an
\* idle chat clears what is pending before it looks at its own intent.
ClearedByStale == \E c \in Commands : command[c].pc = "attaching" /\ command'[c].pc = "failed"
RequestKept ==
  (pending # None /\ pending' # pending) =>
    \/ shown' = pending.folder
    \/ intent > command[pending.id].generation \/ intent' > intent
    \/ command'[pending.id].pc = "failed"
    \/ ClearedByStale
AcceptedKept == [][RequestKept]_vars

\* An idle chat keeps a pending request only after an attempt to apply it failed.
Attempting == op # None \/ dirty \/ running
RequestTried == (pending # None /\ Attempting /\ ~Attempting' /\ pending' # None) => op # None
PendingWasTried == [][RequestTried]_vars
=============================================================================

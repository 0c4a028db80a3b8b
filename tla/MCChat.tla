------------------------------- MODULE MCChat -------------------------------
(* Four parts of one chat side by side: its first send in a project, the    *)
(* switches of its folder, its move to a window of its own, and a model     *)
(* picked while a prompt routes.  Their state is disjoint; the initial      *)
(* state says which part a behaviour is about and the others rest in it, so *)
(* a run explores the union of their behaviours, not the product.           *)
EXTENDS MCSessionTarget, FiniteSets

CONSTANTS Runs, MaxRevision,
          Folders, f1, Commands, c1, Picks, Home,
          Messages, Deliveries, MaxSent, MaxOpens, MaxCrashes, MaxPending

VARIABLES
  part,
  session, record, revision, backendDir, disk, run,
  running, pending, op, draining, dirty, intent, shown, cwd, wire, prompt, command, choice,
  registry, snapshot, news, seen, source, view, phase, fresh, queued, chat, attempt, chain,
  file, cache, reclaim, exclusions, accepted, sent, opens, crashes, opened, crossed

Send == INSTANCE WorkspaceSend
Switch == INSTANCE WorkspaceSwitch WITH backend <- cwd
Window == INSTANCE SessionWindows

send == <<session, record, revision, backendDir, disk, run>>
switch == <<running, pending, op, draining, dirty, intent, shown, cwd, wire, prompt, command, choice>>
window == <<registry, snapshot, news, seen, source, view, phase, fresh, queued, chat, attempt, chain,
            file, cache, reclaim, exclusions, accepted, sent, opens, crashes, opened, crossed>>
chatVars == <<part, vars, send, switch, window>>

Routes(A)   == part = "route"  /\ A /\ UNCHANGED <<part, send, switch, window>>
Sends(A)    == part = "send"   /\ A /\ UNCHANGED <<part, vars, switch, window>>
\* Outside a continuation of a waiter, which runs first.
Handles(A)  == part = "send" /\ Send!NoContinuation /\ A /\ UNCHANGED <<part, vars, switch, window>>
Switches(A) == part = "switch" /\ Switch!Quiet /\ A /\ UNCHANGED <<part, vars, send, window>>
\* Once `crossed` holds the properties of this part say nothing more.
Moves(A)    == part = "window" /\ ~crossed /\ A /\ UNCHANGED <<part, vars, send, switch>>

\* The names of the runs and of the picks are none of the other places and senders, and
\* None is neither a request, an update, a snapshot nor an attempt.
ASSUME ChatAssumption ==
  /\ Runs \cap {"none", "start", "asis", "edited"} = {}
  /\ Picks \cap {"op", "prompt"} = {} /\ IsFiniteSet(Picks)
  /\ None \notin Switch!Request
  /\ None \notin [phase : {"checking", "updating"}, request : Switch!Request, allowRunning : BOOLEAN]
  /\ None \notin Window!Snapshot \cup [id : Messages, checked : BOOLEAN]
  /\ Messages \subseteq Nat /\ MaxSent \in Nat /\ MaxOpens \in Nat /\ MaxCrashes \in Nat

\* The commands and the folders are interchangeable: c1 is the first command and names
\* the folder f1.
InOrder(w) == IF w = c1 THEN command'[c1].folder = f1
                        ELSE command[c1].pc # "idle"

\* The initial states of a part that rests are cut down to one.
ChatInit ==
  /\ part \in {"route", "send", "switch", "window"}
  /\ Init /\ (part # "route" => store.target = a /\ store.source = "ui")
  /\ Send!Init /\ (part # "send" => session.stage = "ready" /\ session.model)
  /\ Switch!Init
  /\ Window!Init

\* No observation moves the store in the instance with a router.
ChatNext ==
  \/ Routes(RunWoken) \/ Routes(Notify)
  \/ \E r \in Requests : Routes(Execute(r)) \/ Routes(User(r))
  \/ \E d \in Attempts : Routes(Dispatch(d))

  \/ Handles(Send!Accept) \/ Handles(Send!Choose) \/ Handles(Send!CancelNaming)
  \/ Handles(Send!SendAnyway) \/ Handles(Send!Dismiss) \/ Handles(Send!PickModel)
  \/ Handles(Send!ChangeFolder) \/ Handles(Send!Reconfigure) \/ Handles(Send!Archive)
  \/ Handles(Send!Remove) \/ Handles(Send!Promote) \/ Handles(Send!CreationFails)
  \/ \E w \in Runs :
       \/ Handles(Send!Skip(w)) \/ Handles(Send!SubmitName(w)) \/ Handles(Send!Retry(w))
       \/ Handles(Send!Planned(w)) \/ Handles(Send!PlanFails(w))
       \/ Sends(Send!Promoted(w)) \/ Sends(Send!WaitFails(w))
       \/ Handles(Send!Moved(w)) \/ Handles(Send!MoveSuperseded(w)) \/ Handles(Send!MoveFails(w))
       \/ Handles(Send!MovedBack(w)) \/ Handles(Send!Undone(w)) \/ Handles(Send!UndoFails(w))

  \/ part = "switch" /\ Switch!Drain /\ UNCHANGED <<part, vars, send, window>>
  \/ Switches(Switch!Checked) \/ Switches(Switch!CheckFails) \/ Switches(Switch!OpHandled)
  \/ Switches(Switch!OpFails) \/ Switches(Switch!Begin) \/ Switches(Switch!Hydrate)
  \/ Switches(Switch!Commit) \/ Switches(Switch!TurnStarts) \/ Switches(Switch!TurnEnds)
  \/ Switches(Switch!Restart)
  \/ \E w \in Commands : \/ Switches(Switch!Claim(w) /\ InOrder(w)) \/ Switches(Switch!Attached(w))
                         \/ Switches(Switch!AttachFails(w))
  \/ \E u \in Picks : Switches(Switch!Choose(u)) \/ Switches(Switch!ChoiceHandled(u))

  \/ Moves(Window!OpenWindow) \/ Moves(Window!Crash) \/ Moves(Window!Load) \/ Moves(Window!Join)
  \/ Moves(Window!ReadSnapshot) \/ Moves(Window!RecoveryTimer) \/ Moves(Window!Reload)
  \/ Moves(Window!WindowLoaded) \/ Moves(Window!Close) \/ Moves(Window!HandleNews)
  \/ Moves(Window!Publish) \/ Moves(Window!Finish) \/ Moves(Window!Finished)
  \/ Moves(Window!ReclaimLoad) \/ Moves(Window!ReclaimApply) \/ Moves(Window!OpenChat)
  \/ Moves(Window!LeaveChat) \/ Moves(Window!MainLoaded)
  \/ \E w \in Window!Renderers :
       \/ Moves(Window!Write(w)) \/ Moves(Window!Accept(w)) \/ Moves(Window!Begin(w))
       \/ Moves(Window!Check(w)) \/ Moves(Window!Commit(w)) \/ Moves(Window!TurnEnds(w))

\* Only the first send promises progress; the fairness is that of its component.
ChatSpec ==
  /\ ChatInit /\ [][ChatNext]_chatVars
  /\ WF_send(part = "send" /\ (Send!Promote \/ (~session.archived /\ Send!CreationFails)))
  /\ \A w \in Runs : WF_send(part = "send" /\ Send!Answered(w))

----------------------------------------------------------------------------
\* Every part of the chat keeps its types.
ChatTypes == TypeOK /\ Send!TypeOK /\ Switch!TypeOK /\ Window!TypeOK

\* No first send leaves the session or its backend in a removed worktree.
FoldersExist == Send!FoldersExist

\* A message shown as being prepared has a run that will change it.
CreatingHasRun == Send!CreatingHasRun

\* A worktree that is not the session's is left behind only for a reason the user sees.
TreesAccounted == Send!TreesAccounted

\* The folder the user chose while the backend was moved is not replaced by the plan.
UserFolderKept == Send!UserFolderKept

\* A run that prepares a first send always ends.
RunEnds == Send!RunEnds

\* No request of an agent moves the folder under a turn.
NoSwitchUnderTurn == Switch!NoSwitchUnderTurn

\* An accepted request of an agent is not forgotten without a reason.
AcceptedKept == Switch!AcceptedKept

\* An idle chat keeps a request only after it was tried.
PendingWasTried == Switch!PendingWasTried

\* No message is sent twice by a window, a restart or a stale queue alone.
NoReplay == Window!NoReplay

\* Only a sent message leaves the file of the queues.
FileForgetsSent == Window!FileForgetsSent
=============================================================================

--------------------------- MODULE WorkspaceSend ---------------------------
(* The first message of a chat whose project prepares its folders: the      *)
(* message is deferred while a worktree is created, a draft is promoted and *)
(* the backend session is moved, and every step can fail or find that the   *)
(* user, the project or the chat changed meanwhile                          *)
(* (src/src/features/chat/lib/firstWorkspaceSend.ts).                       *)
(*                                                                          *)
(* A place stands for a working directory together with the attachments     *)
(* that go with it; a run that creates a worktree gives it its own name.    *)
EXTENDS Naturals

CONSTANTS
  Runs,         \* the calls of createDeferredWorkspaces an instance can make
  MaxRevision   \* bound: how often the project's folders are reconfigured

VARIABLES
  session,      \* the chat's entry in the session store
  record,       \* its deferred message
  revision,     \* the revision of the project's workspace configuration
  backendDir,   \* where the backend session works
  disk,         \* the worktrees that exist
  run           \* the calls of createDeferredWorkspaces

vars == <<session, record, revision, backendDir, disk, run>>

Places == {"none", "start", "asis", "edited"} \cup Runs

Session == [id : {"draft", "backend", "gone"}, stage : {"pending", "failed", "ready"},
            archived : BOOLEAN, place : Places, model : BOOLEAN]

Deferred == {"choice", "naming", "creating", "held", "failed"}

\* `unresolved`: held because no model was selected, the error the view retries on.
Record == [state : Deferred \cup {"none", "ready", "gone"}, revision : Nat, unresolved : BOOLEAN]

\* `id`: the session id the run resolved last; `seen`: the snapshot it compares with;
\* `from`: the place it started from; `back`: where it moves the backend back to;
\* `then`: what a rollback is followed by.
Run == [pc : {"idle", "planning", "waiting", "moving", "restoring", "reverting", "undoing", "done"},
        named : BOOLEAN, id : {"draft", "backend", "gone"}, revision : Nat,
        seen : Places, from : Places, back : Places,
        then : {"nothing", "held", "original", "failed"}]

Idle == [pc |-> "idle", named |-> FALSE, id |-> "draft", revision |-> 0,
         seen |-> "none", from |-> "none", back |-> "none", then |-> "nothing"]

TypeOK ==
  /\ session \in Session
  /\ record \in Record
  /\ revision \in Nat
  /\ backendDir \in Places
  /\ disk \subseteq Runs
  /\ run \in [Runs -> Run]

Present == session.id # "gone"
Waiting == Present /\ record.state \in Deferred     \* deferredRecord is not null
Active(r) == run[r].pc \notin {"idle", "done"}
PlanPlace(r) == IF run[r].named THEN r ELSE "asis"

\* A waiter that a change of the session store has resolved continues before the
\* next event.
WaitSettled == session.id = "gone" \/ session.archived \/ session.stage # "pending"
NoContinuation == WaitSettled => \A r \in Runs : run[r].pc # "waiting"

WithState(state) == [record EXCEPT !.state = state, !.unresolved = FALSE]
At(r, pc) == [run EXCEPT ![r].pc = pc]
\* Mutant: a stale plan is dropped without a rollback.
DropPlan(r, then) == At(r, "done")
Undoing(r, then) == [run EXCEPT ![r].pc = "undoing", ![r].then = then, ![r].id = session.id]

----------------------------------------------------------------------------
(* A run up to its next await.                                              *)

\* Asking the backend to work in the planned place, for the model the session has.
\* Without one the message is held, and the run ends without undoing its plan.
Move(r, f, rec) ==
  IF session.model
    THEN /\ run' = [run EXCEPT ![r] = [f EXCEPT !.pc = "moving", !.seen = session.place]]
         /\ record' = rec
    ELSE /\ run' = [run EXCEPT ![r] = [f EXCEPT !.pc = "done"]]
         /\ record' = [rec EXCEPT !.state = "held", !.unresolved = TRUE]

\* What follows the checks of a plan that has been made.
Continue(r, f, rec) ==
  IF session.archived \/ session.stage = "pending"
    THEN /\ run' = [run EXCEPT ![r] = [f EXCEPT !.pc = IF session.archived THEN "undoing" ELSE "waiting",
                                               !.then = "held"]]
         /\ record' = rec
    ELSE Move(r, f, rec)

\* The call: it gives up at once when the chat could not be created or the project
\* changed since the message was accepted.  Without a name there is nothing to
\* create and the call goes on without an await.
Start(r, named) ==
  LET f == [Idle EXCEPT !.pc = "planning", !.named = named, !.id = session.id,
                        !.revision = record.revision, !.seen = session.place,
                        !.from = session.place]
      creating == WithState("creating")
  IN /\ run[r].pc = "idle"
     /\ Waiting
     /\ IF session.stage = "failed" \/ revision # record.revision
          THEN record' = WithState("failed") /\ UNCHANGED run
        ELSE IF named
          THEN record' = creating /\ run' = [run EXCEPT ![r] = f]
        ELSE Continue(r, f, creating)

----------------------------------------------------------------------------
(* The composer and the user.                                               *)

\* The first send is accepted and deferred, remembering the configuration it was
\* accepted under.
Accept ==
  /\ record.state = "none" /\ Present /\ ~session.archived
  /\ \E status \in {"choice", "naming"} :
       record' = [state |-> status, revision |-> revision, unresolved |-> FALSE]
  /\ UNCHANGED <<session, revision, backendDir, disk, run>>

\* "Create a worktree" asks for a name, which may be taken back.
Choose ==
  /\ Waiting /\ record.state = "choice"
  /\ record' = WithState("naming")
  /\ UNCHANGED <<session, revision, backendDir, disk, run>>

CancelNaming ==
  /\ Waiting /\ record.state = "naming"
  /\ record' = WithState("choice")
  /\ UNCHANGED <<session, revision, backendDir, disk, run>>

\* "Use as is" runs without a name, submitting a name with one.
Skip(r) ==
  /\ record.state = "choice"
  /\ Start(r, FALSE)
  /\ UNCHANGED <<session, revision, backendDir, disk>>

SubmitName(r) ==
  /\ record.state = "naming"
  /\ Start(r, TRUE)
  /\ UNCHANGED <<session, revision, backendDir, disk>>

\* The view retries a message that was held for want of a model, without a name.
Retry(r) ==
  /\ record.unresolved /\ session.model
  /\ Start(r, FALSE)
  /\ UNCHANGED <<session, revision, backendDir, disk>>

SendAnyway ==
  /\ Waiting /\ record.state \in {"held", "failed"}
  /\ session.stage # "failed" /\ session.model
  /\ record' = WithState("ready")
  /\ UNCHANGED <<session, revision, backendDir, disk, run>>

Dismiss ==
  /\ Waiting
  /\ record' = WithState("gone")
  /\ UNCHANGED <<session, revision, backendDir, disk, run>>

PickModel ==
  /\ Present /\ ~session.model
  /\ session' = [session EXCEPT !.model = TRUE]
  /\ UNCHANGED <<record, revision, backendDir, disk, run>>

\* The user points the chat at another folder; a live backend session follows.  The
\* message is released when the chat's folders now are what the project wants.
ChangeFolder ==
  /\ Present /\ ~session.archived
  /\ session' = [session EXCEPT !.place = "edited"]
  /\ backendDir' = IF session.stage = "ready" THEN "edited" ELSE backendDir
  /\ \/ UNCHANGED record
     \/ Waiting /\ session.model /\ record' = WithState("ready")
  /\ UNCHANGED <<revision, disk, run>>

Reconfigure ==
  /\ revision < MaxRevision
  /\ revision' = revision + 1
  /\ UNCHANGED <<session, record, backendDir, disk, run>>

Archive ==
  /\ Present /\ ~session.archived
  /\ session' = [session EXCEPT !.archived = TRUE]
  /\ UNCHANGED <<record, revision, backendDir, disk, run>>

\* The chat is deleted with its queue.
Remove ==
  /\ Present
  /\ session' = [session EXCEPT !.id = "gone"]
  /\ record' = WithState("gone")
  /\ UNCHANGED <<revision, backendDir, disk, run>>

----------------------------------------------------------------------------
(* The creation of the backend session.                                     *)

\* The draft takes the backend's id and its queue moves with it.
Promote ==
  /\ Present /\ session.stage = "pending" /\ ~session.archived
  /\ session' = [session EXCEPT !.id = "backend", !.stage = "ready",
                                !.place = IF @ = "none" THEN "start" ELSE @]
  /\ backendDir' = "start"
  /\ UNCHANGED <<record, revision, disk, run>>

CreationFails ==
  /\ Present /\ session.stage = "pending"
  /\ session' = [session EXCEPT !.stage = "failed"]
  /\ UNCHANGED <<record, revision, backendDir, disk, run>>

----------------------------------------------------------------------------
(* The continuations of a run.                                              *)

\* The worktree is there.  A message that is gone, a project or a chat that changed
\* sends the run into a rollback.
Planned(r) ==
  /\ run[r].pc = "planning"
  /\ disk' = disk \cup {r}
  /\ LET f == [run[r] EXCEPT !.id = session.id]
     IN IF ~Waiting
          THEN run' = Undoing(r, "nothing") /\ UNCHANGED record
          ELSE IF revision # run[r].revision \/ session.place # run[r].seen
          THEN run' = Undoing(r, "held") /\ UNCHANGED record
          ELSE Continue(r, f, record)
  /\ UNCHANGED <<session, revision, backendDir>>

\* An error leaves the plan behind and tells the user, if the message is still there.
\* Mutant: it only ends the run.
SilentFailure == record
Failed == IF Waiting THEN WithState("failed") ELSE record

\* Planning failed and cleaned up after itself, which may fail too.
PlanFails(r) ==
  /\ run[r].pc = "planning"
  /\ disk' \in {disk, disk \cup {r}}
  /\ run' = At(r, "done")
  /\ record' = Failed
  /\ UNCHANGED <<session, revision, backendDir>>

\* The draft was promoted.
Promoted(r) ==
  /\ run[r].pc = "waiting"
  /\ Waiting /\ ~session.archived /\ session.stage = "ready"
  /\ Move(r, [run[r] EXCEPT !.id = session.id], record)
  /\ UNCHANGED <<session, revision, backendDir, disk>>

\* The draft failed, was archived or deleted, or the message is gone.
\* Mutant: the waiter only looks for a failed creation.
LostByFailure == session.stage = "failed"
Lost == ~Waiting \/ session.archived \/ session.stage = "failed"

WaitFails(r) ==
  /\ run[r].pc = "waiting"
  /\ Lost
  /\ run' = Undoing(r, "failed")
  /\ UNCHANGED <<session, record, revision, backendDir, disk>>

\* The backend works in the planned place, and nothing changed: the session gets the
\* place and the message is released.
Release(r) ==
  /\ session' = [session EXCEPT !.place = PlanPlace(r)]
  /\ record' = WithState("ready")
  /\ run' = At(r, "done")

\* A prepared backend must go back to `place`, before the plan is rolled back.
\* Mutant: the rollback does not wait for the backend.
UndoAtOnce(r, pc, place) == run' = Undoing(r, "held") /\ UNCHANGED <<session, record>>
GoBack(r, pc, place) ==
  /\ IF place = "none"
       THEN run' = At(r, "done") /\ record' = WithState("failed")
       ELSE run' = [run EXCEPT ![r].pc = pc, ![r].back = place] /\ UNCHANGED record
  /\ UNCHANGED session

\* Mutant: the session is not compared with what the run saw.
NeverChanged(r) == FALSE
SnapshotChanged(r) == session.place # run[r].seen

Moved(r) ==
  /\ run[r].pc = "moving"
  /\ backendDir' = PlanPlace(r)
  /\ IF ~Waiting
       THEN run' = At(r, "done") /\ UNCHANGED <<session, record>>
     ELSE IF SnapshotChanged(r)
       THEN GoBack(r, "restoring", session.place)
     ELSE IF revision # run[r].revision
       THEN GoBack(r, "reverting", run[r].from)
     ELSE IF session.archived
       THEN run' = At(r, "done") /\ record' = WithState("held") /\ UNCHANGED session
     ELSE Release(r)
  /\ UNCHANGED <<revision, disk>>

\* The transition was superseded; the newer one works where the session shows.
MoveSuperseded(r) ==
  /\ run[r].pc = "moving"
  /\ backendDir' \in {backendDir, session.place}
  /\ run' = IF Waiting THEN Undoing(r, "held") ELSE At(r, "done")
  /\ UNCHANGED <<session, record, revision, disk>>

\* The backend refused, or the transition threw.
MoveFails(r) ==
  /\ run[r].pc \in {"moving", "restoring", "reverting"}
  /\ run' = At(r, "done")
  /\ record' = Failed
  /\ UNCHANGED <<session, revision, backendDir, disk>>

MovedBack(r) ==
  /\ run[r].pc \in {"restoring", "reverting"}
  /\ backendDir' = run[r].back
  /\ run' = Undoing(r, IF run[r].pc = "restoring" THEN "held" ELSE "original")
  /\ UNCHANGED <<session, record, revision, disk>>

\* The rollback is done.  The message is updated under the id resolved before it.
Undone(r) ==
  LET known == run[r].id = session.id /\ Waiting
  IN /\ run[r].pc = "undoing"
     /\ disk' = disk \ {r}
     /\ run' = At(r, "done")
     /\ record' = IF run[r].then = "failed" /\ Waiting THEN WithState("failed")
                  ELSE IF run[r].then \in {"held", "original"} /\ known THEN WithState("held")
                  ELSE record
     /\ session' = IF Present /\ (\/ run[r].then = "failed"
                                  \/ run[r].then = "original" /\ run[r].id = session.id)
                     THEN [session EXCEPT !.place = run[r].from] ELSE session
     /\ UNCHANGED <<revision, backendDir>>

\* Git refused to remove the worktree.
UndoFails(r) ==
  /\ run[r].pc = "undoing" /\ run[r].named
  /\ run' = At(r, "done")
  /\ record' = Failed
  /\ UNCHANGED <<session, revision, backendDir, disk>>

----------------------------------------------------------------------------
Init ==
  /\ session \in [id : {"draft"}, stage : {"pending"}, archived : {FALSE},
                   place : {"none", "start"}, model : BOOLEAN]
       \cup [id : {"backend"}, stage : {"ready"}, archived : {FALSE},
             place : {"start"}, model : BOOLEAN]
  /\ record = [state |-> "none", revision |-> 0, unresolved |-> FALSE]
  /\ revision = 0
  /\ backendDir = IF session.stage = "ready" THEN "start" ELSE "none"
  /\ disk = {}
  /\ run = [r \in Runs |-> Idle]

Event ==
  \/ Accept \/ Choose \/ CancelNaming \/ SendAnyway \/ Dismiss \/ PickModel
  \/ ChangeFolder \/ Reconfigure \/ Archive \/ Remove \/ Promote \/ CreationFails
  \/ \E r \in Runs :
       \/ Skip(r) \/ SubmitName(r) \/ Retry(r) \/ Planned(r) \/ PlanFails(r)
       \/ Moved(r) \/ MoveSuperseded(r) \/ MoveFails(r) \/ MovedBack(r)
       \/ Undone(r) \/ UndoFails(r)

Next ==
  \/ NoContinuation /\ Event
  \/ \E r \in Runs : Promoted(r) \/ WaitFails(r)

Spec == Init /\ [][Next]_vars

Answered(r) ==
  \/ Planned(r) \/ PlanFails(r) \/ Promoted(r) \/ WaitFails(r) \/ Moved(r)
  \/ MoveSuperseded(r) \/ MoveFails(r) \/ MovedBack(r) \/ Undone(r) \/ UndoFails(r)

FairSpec ==
  /\ Spec
  /\ WF_vars(Promote \/ (~session.archived /\ CreationFails))
  /\ \A r \in Runs : WF_vars(Answered(r))

----------------------------------------------------------------------------
\* Neither the session nor its backend ever works in a worktree that a rollback has
\* removed: the backend is moved back before the worktree goes.
FoldersExist ==
  /\ session.place \in Runs => session.place \in disk
  /\ backendDir \in Runs => backendDir \in disk

\* A worktree that outlives its run without being the session's folder is left only
\* when the message was gone or released before, failed, is held for want of a model,
\* or the chat is archived.
TreeAccounted ==
  \A r \in Runs : (Active(r) /\ run'[r].pc = "done") =>
    \/ r \notin disk'
    \/ session'.place = r
    \/ ~Waiting
    \/ record'.state = "failed"
    \/ record'.unresolved
    \/ session'.archived
TreesAccounted == [][TreeAccounted]_vars

\* A folder the user chose while the backend was being moved is not replaced by the
\* plan.  A run overwrites the choice only if it saw it before it asked the backend,
\* if the draft is lost, or if the project was reconfigured: what the user chose
\* during that rollback is overwritten by the place the run started from.
ChoiceKept ==
  (session.place = "edited" /\ session'.place # "edited") =>
    \E r \in Runs :
      \/ run[r].pc = "moving" /\ run[r].seen = "edited"
      \/ run[r].pc = "undoing" /\ run[r].then \in {"failed", "original"}
UserFolderKept == [][ChoiceKept]_vars

\* A message that shows "creating" has a run that will change it, unless the draft was
\* promoted while that run rolled back and updated the message under its old id.
CreatingHasRun ==
  record.state = "creating" =>
    \E r \in Runs :
      \/ Active(r)
      \/ run[r].pc = "done" /\ run[r].id # session.id

\* A run always ends.
RunEnds == \A r \in Runs : Active(r) ~> ~Active(r)
=============================================================================

---------------------------- MODULE MCChat_proofs ----------------------------
(***************************************************************************)
(* What the parts of a chat promise, for any number of runs, folders,       *)
(* commands, picks, messages and restarts: its first send in a project, the *)
(* switches of its folder, the windows it moves through, and the model      *)
(* picked while a prompt routes.                                            *)
(***************************************************************************)
EXTENDS MCChat, SessionTarget_proofs, FiniteSetTheorems, SequenceTheorems, WellFoundedInduction

----------------------------------------------------------------------------
(* The inductive invariant of the first send *)

\* A worktree in which the session works, or that a run would go back to, is that of
\* a run which is over and left it behind.
Kept(place) == place \in Runs => run[place].pc = "done" /\ place \in disk
PlaceInv ==
  /\ Kept(session.place)
  /\ backendDir \in Runs =>
       /\ run[backendDir].pc \in {"restoring", "reverting", "done"}
       /\ backendDir \in disk
  /\ \A w \in Runs : Kept(run[w].seen) /\ Kept(run[w].from) /\ Kept(run[w].back)

\* Only a run with a name makes a worktree, before it asks the backend to work there.
TreeInv ==
  \A w \in Runs :
    /\ run[w].pc = "idle" => ~run[w].named
    /\ ~run[w].named => w \notin disk /\ run[w].pc # "planning"
    /\ run[w].named /\ run[w].pc \in {"waiting", "moving", "restoring", "reverting"} => w \in disk

\* The id of the session changes with its promotion and its removal, and a message
\* that is not deferred any more stays so: a run which found that ends without a word.
IdInv ==
  /\ session.id = "draft" <=> session.id # "gone" /\ session.stage # "ready"
  /\ session.id = "gone" => record.state = "gone"
  /\ \A w \in Runs :
       /\ run[w].id = "backend" => session.id # "draft"
       /\ run[w].pc # "idle" => record.state # "none"
       /\ run[w].pc = "undoing" /\ run[w].then = "nothing" => ~Send!Waiting

SendInv == Send!TypeOK /\ PlaceInv /\ TreeInv /\ IdInv /\ Send!CreatingHasRun

----------------------------------------------------------------------------
(* The inductive invariant of the switches *)

\* A request that is pending or applied is that of a command which has attached its
\* folder.
Genuine(request) ==
  /\ command[request.id].pc \notin {"idle", "attaching"}
  /\ request.folder = command[request.id].folder
RequestInv ==
  /\ pending # None => Genuine(pending)
  /\ op # None => Genuine(op.request)
  /\ draining # None => op # None

\* A command that attaches its folder has an intent of its own.
AttachInv ==
  \A w \in Commands :
    /\ command[w].pc # "idle" => command[w].folder \in Folders
    /\ command[w].generation <= intent
    /\ command[w].pc = "attaching" =>
         \A other \in Commands : command[other].generation = command[w].generation => other = w

\* One update and one prompt at most are on the wire, the update before the prompt: the
\* update is the shared one, and the prompt that of the next turn.
InOrderOn(w) ==
  \A i, j \in DOMAIN w :
    /\ w[i].by = "op" /\ w[j].by = "op" => i = j
    /\ w[i].by = "prompt" /\ w[j].by = "prompt" => i = j
    /\ w[i].by = "op" /\ w[j].by = "prompt" => i < j
SentFor(w, update, pc) ==
  \A i \in DOMAIN w :
    /\ w[i].by = "op" => /\ update # None /\ update.phase = "updating"
                         /\ w[i].folder = update.request.folder
                         /\ pc # "turn"
    /\ w[i].by = "prompt" => pc = "sent"
WireInv == InOrderOn(wire) /\ SentFor(wire, op, prompt.pc)

\* Only the barrier of a prompt lets an update proceed in a running chat, and a chat
\* with a prompt runs.
BarrierInv ==
  /\ op # None => (op.allowRunning => prompt.pc = "barrier")
  /\ prompt.pc \in {"barrier", "sent", "turn"} => running

SwitchInv == Switch!TypeOK /\ RequestInv /\ AttachInv /\ WireInv /\ BarrierInv

----------------------------------------------------------------------------
(* The inductive invariant of the windows *)

\* Whatever a queue held is in q, or was sent.
Keeps(held, q, times) == \A m \in Window!Ids(held) : m \in Window!Ids(q) \/ times[m] > 0
\* The queue that is stored when all writes of a chain are done, and a chain in which
\* every write keeps what was stored before it.
LastIn(stored, writes) == IF writes = <<>> THEN stored ELSE writes[Len(writes)]
ChainKeeps(stored, writes, times) ==
  /\ writes # <<>> => Keeps(stored, writes[1], times)
  /\ \A i \in DOMAIN writes : i + 1 \in DOMAIN writes => Keeps(writes[i], writes[i + 1], times)

\* A queue holds accepted messages, each once.
Proper(q, known) ==
  /\ q \in Window!Queue /\ Window!Ids(q) \subseteq known
  /\ \A i, j \in DOMAIN q : q[i].id = q[j].id => i = j
AllRestored(q) == \A i \in DOMAIN q : q[i].restored
ProperInv ==
  /\ \A w \in Window!Renderers : /\ Proper(queued[w], accepted)
                                 /\ \A i \in DOMAIN chain[w] : Proper(chain[w][i], accepted)
  /\ Proper(file, accepted) /\ Proper(cache, accepted) /\ Proper(source.final, accepted)
  /\ snapshot # None => Proper(snapshot.queue, accepted)
  /\ reclaim.pc = "loaded" => Proper(reclaim.queue, accepted) /\ AllRestored(reclaim.queue)
  /\ \A m \in Messages : sent[m] > 0 => m \in accepted

\* The phase of the window follows its record in the registry.
PhaseInv ==
  /\ phase = "closed" <=> registry = "none"
  /\ phase \in {"starting", "listing"} => registry \in {"joining", "owned"}
  /\ phase \in {"mirror", "recoverable"} => registry \in {"handoff", "owned"}
  /\ phase = "ready" => registry = "owned"
  /\ registry = "joining" => snapshot = None
  /\ registry = "handoff" => snapshot = None \/ ~snapshot.final
  /\ registry = "owned" /\ phase \in {"mirror", "recoverable"} => snapshot # None
  /\ fresh /\ phase # "ready" => snapshot # None
  /\ attempt["window"] # None \/ chain["window"] # <<>> => phase = "ready"

\* The main renderer hears of every change of the registry, and a window that owns the
\* chat can only close.
NewsInv ==
  /\ registry = LastIn(seen, news)
  /\ seen = "owned" /\ news # <<>> => news[1] = "none"
  /\ \A i \in DOMAIN news : i + 1 \in DOMAIN news /\ news[i] = "owned" => news[i + 1] = "none"
  /\ source.pc # "off" => seen = "handoff"

\* The queue of whoever has the chat keeps what is stored, and so does a queue that is
\* about to replace it.
MainOwns == registry # "owned" /\ ~Window!Behind
Taken == registry = "owned" /\ phase \in {"mirror", "recoverable"}
StoredInv == ~crossed =>
  /\ \A w \in Window!Renderers : ChainKeeps(file, chain[w], sent)
  /\ MainOwns => Keeps(LastIn(file, chain["main"]), queued["main"], sent)
  /\ Taken => /\ chain["main"] = <<>> /\ Keeps(file, snapshot.queue, sent)
              /\ Keeps(file, queued["main"], sent)
  /\ registry = "owned" /\ phase = "listing" =>
       chain["main"] = <<>> /\ Keeps(file, queued["window"], sent)
  /\ phase = "ready" =>
       chain["main"] = <<>> /\ Keeps(LastIn(file, chain["window"]), queued["window"], sent)
  /\ MainOwns /\ source.pc = "finishing" => Keeps(LastIn(file, chain["main"]), source.final, sent)
  /\ reclaim.pc = "loaded" /\ phase # "ready" =>
       Keeps(LastIn(file, chain["main"]), reclaim.queue, sent)

\* A message may be sent: a delivery is looked up first.
MaySend(m) == m \in Deliveries \/ sent[m] = 0 \/ m \in opened
HeldInv == ~crossed =>
  /\ MainOwns => \A m \in Window!Ids(queued["main"]) : MaySend(m) \/ (~view /\ m \in exclusions)
  /\ MainOwns /\ source.pc = "finishing" =>
       \A m \in Window!Ids(source.final) : MaySend(m) \/ m \in exclusions
  /\ phase = "listing" => Window!Ids(queued["window"]) \subseteq opened
  /\ Taken => \A m \in Window!Ids(snapshot.queue) : MaySend(m)
  /\ phase = "ready" => \A m \in Window!Ids(queued["window"]) : MaySend(m)
AttemptInv == ~crossed =>
  /\ attempt["main"] # None => registry # "owned" /\ source.pc # "finishing"
  /\ \A w \in Window!Renderers : attempt[w] # None =>
       IF attempt[w].id \in Deliveries THEN attempt[w].checked => sent[attempt[w].id] = 0
       ELSE MaySend(attempt[w].id)

WindowInv == /\ Window!TypeOK /\ ProperInv /\ PhaseInv /\ NewsInv
             /\ StoredInv /\ HeldInv /\ AttemptInv

----------------------------------------------------------------------------
(* The parts of a chat are independent *)

\* A step of the chat is one of a part, and the others rest.
LEMMA PartsMove ==
  ASSUME [ChatNext]_chatVars
  PROVE  /\ [Next]_vars
         /\ [Send!Next]_(Send!vars)
         /\ [Switch!Next]_(Switch!vars)
         /\ [Window!Next]_(Window!vars)
  <1>1. CASE UNCHANGED chatVars
    BY <1>1 DEF chatVars, send, switch, window, Send!vars, Switch!vars, Window!vars, Window!native,
                Window!handover, Window!queues, Window!history
  <1>2. UNCHANGED send => UNCHANGED Send!vars
    BY DEF send, Send!vars
  <1>3. UNCHANGED switch => UNCHANGED Switch!vars
    BY DEF switch, Switch!vars
  <1>4. UNCHANGED window => UNCHANGED Window!vars
    BY DEF window, Window!vars, Window!native, Window!handover, Window!queues, Window!history
  <1>5. ASSUME \/ Routes(RunWoken) \/ Routes(Notify)
               \/ \E r \in Requests : Routes(Execute(r)) \/ Routes(User(r))
               \/ \E d \in Attempts : Routes(Dispatch(d))
        PROVE  Next /\ UNCHANGED <<send, switch, window>>
    BY <1>5 DEF Routes, Next
  <1>6. ASSUME \/ Handles(Send!Accept) \/ Handles(Send!Choose) \/ Handles(Send!CancelNaming)
               \/ Handles(Send!SendAnyway) \/ Handles(Send!Dismiss) \/ Handles(Send!PickModel)
               \/ Handles(Send!ChangeFolder) \/ Handles(Send!Reconfigure) \/ Handles(Send!Archive)
               \/ Handles(Send!Remove) \/ Handles(Send!Promote) \/ Handles(Send!CreationFails)
        PROVE  Send!Next /\ UNCHANGED <<vars, switch, window>>
    BY <1>6 DEF Handles, Send!Next, Send!Event
  <1>7. ASSUME NEW w \in Runs,
               \/ Handles(Send!Skip(w)) \/ Handles(Send!SubmitName(w)) \/ Handles(Send!Retry(w))
               \/ Handles(Send!Planned(w)) \/ Handles(Send!PlanFails(w))
               \/ Sends(Send!Promoted(w)) \/ Sends(Send!WaitFails(w))
               \/ Handles(Send!Moved(w)) \/ Handles(Send!MoveSuperseded(w)) \/ Handles(Send!MoveFails(w))
               \/ Handles(Send!MovedBack(w)) \/ Handles(Send!Undone(w)) \/ Handles(Send!UndoFails(w))
        PROVE  Send!Next /\ UNCHANGED <<vars, switch, window>>
    BY <1>7 DEF Handles, Sends, Send!Next, Send!Event
  <1>8. ASSUME \/ part = "switch" /\ Switch!Drain /\ UNCHANGED <<part, vars, send, window>>
               \/ Switches(Switch!Checked) \/ Switches(Switch!CheckFails) \/ Switches(Switch!OpHandled)
               \/ Switches(Switch!OpFails) \/ Switches(Switch!Begin) \/ Switches(Switch!Hydrate)
               \/ Switches(Switch!Commit) \/ Switches(Switch!TurnStarts) \/ Switches(Switch!TurnEnds)
               \/ Switches(Switch!Restart)
               \/ \E w \in Commands : \/ Switches(Switch!Claim(w) /\ InOrder(w)) \/ Switches(Switch!Attached(w))
                                      \/ Switches(Switch!AttachFails(w))
               \/ \E u \in Picks : Switches(Switch!Choose(u)) \/ Switches(Switch!ChoiceHandled(u))
        PROVE  Switch!Next /\ UNCHANGED <<vars, send, window>>
    BY <1>8 DEF Switches, Switch!Next
  <1>9. ASSUME \/ Moves(Window!OpenWindow) \/ Moves(Window!Crash) \/ Moves(Window!Load) \/ Moves(Window!Join)
               \/ Moves(Window!ReadSnapshot) \/ Moves(Window!RecoveryTimer) \/ Moves(Window!Reload)
               \/ Moves(Window!WindowLoaded) \/ Moves(Window!Close) \/ Moves(Window!HandleNews)
               \/ Moves(Window!Publish) \/ Moves(Window!Finish) \/ Moves(Window!Finished)
               \/ Moves(Window!ReclaimLoad) \/ Moves(Window!ReclaimApply) \/ Moves(Window!OpenChat)
               \/ Moves(Window!LeaveChat) \/ Moves(Window!MainLoaded)
               \/ \E w \in Window!Renderers :
                    \/ Moves(Window!Write(w)) \/ Moves(Window!Accept(w)) \/ Moves(Window!Begin(w))
                    \/ Moves(Window!Check(w)) \/ Moves(Window!Commit(w)) \/ Moves(Window!TurnEnds(w))
        PROVE  Window!Next /\ UNCHANGED <<vars, send, switch>>
    BY <1>9 DEF Moves, Window!Next
  <1> QED
    BY <1>1, <1>2, <1>3, <1>4, <1>5, <1>6, <1>7, <1>8, <1>9 DEF ChatNext

LEMMA PartsAlone == ChatSpec => Spec /\ Send!Spec /\ Switch!Spec /\ Window!Spec
  <1>1. ChatInit => Init /\ Send!Init /\ Switch!Init /\ Window!Init
    BY DEF ChatInit
  <1> QED
    BY <1>1, PartsMove, PTL DEF ChatSpec, Spec, Send!Spec, Switch!Spec, Window!Spec

----------------------------------------------------------------------------
(* The first send *)

LEMMA RunsFacts == Runs \cap {"none", "start", "asis", "edited"} = {}
  BY ChatAssumption

\* A run of the call w becomes f.
Becomes(w, f) == f \in Send!Run /\ run[w].pc # "done" /\ run' = [run EXCEPT ![w] = f]

\* Where the run, the session and the backend then are: in places that are kept, or in
\* the worktree of w, which exists.
PlacesOf(w, f) ==
  /\ disk' \in {disk, disk \cup {w}, disk \ {w}}
  /\ f.seen \in {"none", run[w].seen, session.place}
  /\ f.from \in {"none", run[w].from, session.place}
  /\ f.back \in {"none", run[w].back, run[w].from, session.place}
  /\ \/ session'.place \in {session.place, run[w].from, "asis"}
     \/ session'.place = w /\ f.pc = "done" /\ w \in disk'
  /\ \/ /\ backendDir' \in {backendDir, w}
        /\ backendDir' = w => f.pc \in {"restoring", "reverting", "done"} /\ w \in disk'
     \/ backendDir' \in {session.place, run[w].back, "asis"} /\ backendDir' # w

\* Whether its worktree exists.
TreeOf(w, f) ==
  /\ disk' \in {disk, disk \cup {w}, disk \ {w}}
  /\ f.named = run[w].named \/ run[w].pc = "idle"
  /\ ~f.named => w \notin disk' /\ f.pc # "planning"
  /\ f.named /\ f.pc \in {"waiting", "moving", "restoring", "reverting"} => w \in disk'
  /\ f.pc # "idle"

\* What it makes of the message, and why it may leave its worktree behind.
TellsOf(w, f) ==
  /\ session'.id = session.id /\ session'.stage = session.stage
  /\ ~Send!Waiting => record' = record
  /\ Send!Waiting => record'.state # "none"
  /\ f.id \in {run[w].id, session.id}
  /\ run[w].pc # "idle" \/ Send!Waiting
  /\ f.pc = "undoing" /\ f.then = "nothing" => ~Send!Waiting
  /\ record'.state = "creating" => f.pc # "done" \/ f.id # session.id \/ ~Send!Waiting
EndOf(w, f) ==
  f.pc = "done" => \/ w \notin disk' \/ session'.place = w \/ ~Send!Waiting
                   \/ record'.state = "failed" \/ record'.unresolved \/ session'.archived

LEMMA KeptStays ==
  ASSUME SendInv, NEW w \in Runs, NEW f, Becomes(w, f), disk \ {w} \subseteq disk',
         NEW place \in Send!Places, Kept(place)
  PROVE  Kept(place)'
  BY DEF SendInv, Send!TypeOK, Kept, Becomes

\* A run that is not over leaves every place where the others need it.
LEMMA PlaceStep ==
  ASSUME SendInv, NEW w \in Runs, NEW f, Becomes(w, f), PlacesOf(w, f)
  PROVE  PlaceInv'
  <1>1. /\ session.place \in Send!Places /\ Kept(session.place)
        /\ run \in [Runs -> Send!Run] /\ f \in Send!Run
    BY DEF SendInv, Send!TypeOK, Send!Session, PlaceInv, Becomes
  <1>2. \A v \in Runs : /\ run[v].seen \in Send!Places /\ run[v].from \in Send!Places
                        /\ run[v].back \in Send!Places
    BY <1>1 DEF Send!Run
  <1>3. \A v \in Runs : Kept(run[v].seen) /\ Kept(run[v].from) /\ Kept(run[v].back)
    BY DEF SendInv, PlaceInv
  <1> DEFINE Stays(x) == x \in Runs => run'[x].pc = "done" /\ x \in disk'
  <1>4. \A x \in Send!Places : Kept(x) => Stays(x)
    BY KeptStays DEF Kept, PlacesOf
  <1>5. Stays("none") /\ Stays("asis")
    BY RunsFacts DEF PlacesOf
  <1>6. Kept(session.place)'
    <2>1. CASE session'.place = w /\ f.pc = "done" /\ w \in disk'
      BY <2>1, <1>1 DEF Kept, Becomes
    <2>2. CASE session'.place \in {session.place, run[w].from, "asis"}
      BY <2>2, <1>1, <1>2, <1>3, <1>4, <1>5 DEF Kept
    <2> QED
      BY <2>1, <2>2 DEF PlacesOf
  <1>7. ASSUME NEW v \in Runs
        PROVE  (Kept(run[v].seen) /\ Kept(run[v].from) /\ Kept(run[v].back))'
    <2>1. v # w => run'[v] = run[v]
      BY DEF Becomes
    <2>2. v = w => run'[v] = f
      BY <1>1 DEF Becomes
    <2>3. Stays(run'[v].seen) /\ Stays(run'[v].from) /\ Stays(run'[v].back)
      BY <2>1, <2>2, <1>1, <1>2, <1>3, <1>4, <1>5 DEF PlacesOf
    <2> QED
      BY <2>3 DEF Kept
  <1>8. backendDir' \in Runs =>
          /\ run'[backendDir'].pc \in {"restoring", "reverting", "done"}
          /\ backendDir' \in disk'
    <2>1. CASE backendDir' = w
      BY <2>1, <1>1 DEF Becomes, PlacesOf
    <2>2. CASE backendDir' = backendDir /\ backendDir' # w
      BY <2>2, <1>1 DEF Becomes, SendInv, PlaceInv, PlacesOf
    <2>3. CASE backendDir' \in {session.place, run[w].back, "asis"}
      BY <2>3, <1>1, <1>2, <1>3, <1>4, <1>5
    <2> QED
      BY <2>1, <2>2, <2>3 DEF PlacesOf
  <1> QED
    BY <1>6, <1>7, <1>8 DEF PlaceInv

LEMMA TreeStep ==
  ASSUME SendInv, NEW w \in Runs, NEW f, Becomes(w, f), TreeOf(w, f)
  PROVE  TreeInv'
  <1>1. run \in [Runs -> Send!Run]
    BY DEF SendInv, Send!TypeOK
  <1>2. run'[w] = f /\ \A v \in Runs : v # w => run'[v] = run[v] /\ (v \in disk' <=> v \in disk)
    BY <1>1 DEF Becomes, TreeOf
  <1> QED
    BY <1>2 DEF SendInv, TreeInv, TreeOf

\* A run changes neither the id of the session nor a message that is not deferred.
LEMMA IdStep ==
  ASSUME SendInv, NEW w \in Runs, NEW f, Becomes(w, f), TellsOf(w, f), f.pc # "idle"
  PROVE  IdInv' /\ Send!CreatingHasRun'
  <1>1. run \in [Runs -> Send!Run] /\ f \in Send!Run
    BY DEF SendInv, Send!TypeOK, Becomes
  <1>2. run'[w] = f /\ \A v \in Runs : v # w => run'[v] = run[v]
    BY <1>1 DEF Becomes
  <1>3. IdInv'
    <2>1. session.id = "gone" => ~Send!Waiting
      BY DEF Send!Waiting, Send!Present
    <2>2. ~Send!Waiting => ~Send!Waiting'
      BY DEF Send!Waiting, Send!Present, TellsOf
    <2> QED
      BY <1>1, <1>2, <2>1, <2>2 DEF SendInv, IdInv, Send!Waiting, Send!Present, TellsOf
  <1>4. Send!CreatingHasRun'
    <2> SUFFICES ASSUME record'.state = "creating"
                 PROVE  \E v \in Runs : \/ run'[v].pc \notin {"idle", "done"}
                                        \/ run'[v].pc = "done" /\ run'[v].id # session'.id
      BY DEF Send!CreatingHasRun, Send!Active
    <2>1. Send!Waiting
      BY DEF Send!Waiting, Send!Present, Send!Deferred, SendInv, IdInv, TellsOf
    <2> QED
      BY <1>2, <2>1 DEF TellsOf
  <1> QED
    BY <1>3, <1>4

LEMMA RunStep ==
  ASSUME SendInv, NEW w \in Runs, NEW f, Becomes(w, f), PlacesOf(w, f), TreeOf(w, f), TellsOf(w, f),
         EndOf(w, f), session' \in Send!Session, record' \in Send!Record, backendDir' \in Send!Places,
         revision' = revision
  PROVE  SendInv' /\ Send!TreeAccounted
  <1>1. Send!TypeOK'
    BY DEF SendInv, Send!TypeOK, Becomes, PlacesOf
  <1>2. PlaceInv' /\ TreeInv' /\ IdInv' /\ Send!CreatingHasRun'
    BY PlaceStep, TreeStep, IdStep DEF TreeOf
  <1>3. Send!TreeAccounted
    <2>1. \A v \in Runs : run'[v] = IF v = w THEN f ELSE run[v]
      BY DEF SendInv, Send!TypeOK, Becomes
    <2> QED
      BY <2>1 DEF Send!TreeAccounted, Send!Active, EndOf
  <1> QED
    BY <1>1, <1>2, <1>3 DEF SendInv

\* What changes the session or the message and no run.
LEMMA EventStep ==
  ASSUME SendInv, run' = run, disk' = disk,
         session' \in Send!Session, record' \in Send!Record, revision' \in Nat,
         session'.place \in {session.place, "start", "edited"},
         backendDir' \in {backendDir, "start", "edited"},
         session'.id = "draft" <=> session'.id # "gone" /\ session'.stage # "ready",
         session'.id = "draft" => session.id = "draft",
         session'.id = "gone" => record'.state = "gone",
         record'.state = "creating" => record.state = "creating",
         record'.state = "none" => record.state = "none",
         Send!Waiting' => Send!Waiting \/ record.state = "none"
  PROVE  SendInv' /\ Send!TreeAccounted
  <1>1. Send!TypeOK'
    BY DEF SendInv, Send!TypeOK, Send!Places
  <1>2. PlaceInv'
    BY RunsFacts DEF SendInv, PlaceInv, Kept
  <1>3. TreeInv'
    BY DEF SendInv, TreeInv
  <1>4. IdInv' /\ Send!CreatingHasRun'
    BY DEF SendInv, Send!TypeOK, Send!Run, IdInv, Send!CreatingHasRun, Send!Active, Send!Waiting,
           Send!Present, Send!Deferred, Send!Session
  <1>5. Send!TreeAccounted
    BY DEF Send!TreeAccounted, Send!Active
  <1> QED
    BY <1>1, <1>2, <1>3, <1>4, <1>5 DEF SendInv


\* The fields of a run that an ending leaves alone.
Same(f, g) ==
  /\ f.named = g.named /\ f.revision = g.revision
  /\ f.seen = g.seen /\ f.from = g.from /\ f.back = g.back

LEMMA SendFacts ==
  ASSUME SendInv
  PROVE  /\ run \in [Runs -> Send!Run] /\ record \in Send!Record /\ session \in Send!Session
         /\ session.id \in {"draft", "backend", "gone"} /\ session.place \in Send!Places
         /\ \A w \in Runs : /\ run[w] \in Send!Run /\ run[w].from \in Send!Places
                            /\ run[w].back \in Send!Places /\ Send!PlanPlace(w) \in Send!Places
  BY DEF SendInv, Send!TypeOK, Send!Session, Send!Run, Send!PlanPlace, Send!Places

LEMMA WithStateFacts ==
  ASSUME SendInv, NEW state \in Send!Deferred \cup {"none", "ready", "gone"}
  PROVE  /\ Send!WithState(state) \in Send!Record
         /\ Send!WithState(state).state = state
         /\ Send!WithState(state).revision = record.revision
  BY SendFacts DEF Send!WithState, Send!Record

LEMMA EndsAs ==
  ASSUME SendInv, NEW w \in Runs, run[w].pc # "done", run' = Send!At(w, "done")
  PROVE  \E f \in Send!Run : /\ Becomes(w, f) /\ f.pc = "done"
                             /\ Same(f, run[w]) /\ f.id = run[w].id
  <1>1. PICK f : f = [run[w] EXCEPT !.pc = "done"]
    OBVIOUS
  <1>2. run' = [run EXCEPT ![w] = f]
    BY <1>1, SendFacts DEF Send!At
  <1>3. f \in Send!Run /\ f.pc = "done" /\ Same(f, run[w]) /\ f.id = run[w].id
    BY <1>1, SendFacts DEF Send!Run, Same
  <1> QED
    BY <1>2, <1>3 DEF Becomes

LEMMA UndoesAs ==
  ASSUME SendInv, NEW w \in Runs, run[w].pc # "done",
         NEW then \in {"nothing", "held", "original", "failed"}, run' = Send!Undoing(w, then)
  PROVE  \E f \in Send!Run : /\ Becomes(w, f) /\ f.pc = "undoing" /\ f.then = then
                             /\ Same(f, run[w]) /\ f.id = session.id
  <1>1. PICK f : f = [run[w] EXCEPT !.pc = "undoing", !.then = then, !.id = session.id]
    OBVIOUS
  <1>2. run' = [run EXCEPT ![w] = f]
    BY <1>1, SendFacts DEF Send!Undoing
  <1>3. /\ f \in Send!Run /\ f.pc = "undoing" /\ f.then = then
        /\ Same(f, run[w]) /\ f.id = session.id
    BY <1>1, SendFacts DEF Send!Run, Same
  <1> QED
    BY <1>2, <1>3 DEF Becomes

\* What asking the backend for the planned place makes of a run and the message.
Asked(f, g, rec, now) ==
  /\ f.named = g.named /\ f.id = g.id /\ f.from = g.from /\ f.back = g.back
  /\ f.seen \in {g.seen, session.place}
  /\ \/ f.pc = "moving" /\ now = rec
     \/ f.pc = "done" /\ now.state = "held" /\ now.unresolved

LEMMA MovesAs ==
  ASSUME SendInv, NEW w \in Runs, run[w].pc # "done", NEW g \in Send!Run, NEW rec \in Send!Record,
         Send!Move(w, g, rec)
  PROVE  /\ record' \in Send!Record
         /\ \E f \in Send!Run : Becomes(w, f) /\ Asked(f, g, rec, record')
  <1>1. CASE session.model
    <2>1. PICK f : f = [g EXCEPT !.pc = "moving", !.seen = session.place]
      OBVIOUS
    <2>2. /\ f \in Send!Run /\ f.pc = "moving" /\ f.named = g.named /\ f.id = g.id
          /\ f.from = g.from /\ f.back = g.back /\ f.seen = session.place
      BY <2>1, SendFacts DEF Send!Run
    <2>3. record' = rec /\ run' = [run EXCEPT ![w] = f]
      BY <1>1, <2>1 DEF Send!Move
    <2> QED
      BY <2>2, <2>3 DEF Becomes, Asked
  <1>2. CASE ~session.model
    <2>1. PICK f : f = [g EXCEPT !.pc = "done"]
      OBVIOUS
    <2>2. f \in Send!Run /\ f.pc = "done" /\ f.id = g.id /\ Same(f, g)
      BY <2>1 DEF Send!Run, Same
    <2>3. record' = [rec EXCEPT !.state = "held", !.unresolved = TRUE] /\ run' = [run EXCEPT ![w] = f]
      BY <1>2, <2>1 DEF Send!Move
    <2>4. record' \in Send!Record /\ record'.state = "held" /\ record'.unresolved = TRUE
      BY <2>3 DEF Send!Record, Send!Deferred
    <2> QED
      BY <2>2, <2>3, <2>4 DEF Becomes, Asked, Same
  <1> QED
    BY <1>1, <1>2

LEMMA ContinuesAs ==
  ASSUME SendInv, NEW w \in Runs, run[w].pc # "done", NEW g \in Send!Run, NEW rec \in Send!Record,
         Send!Continue(w, g, rec)
  PROVE  /\ record' \in Send!Record
         /\ \E f \in Send!Run :
              /\ Becomes(w, f)
              /\ \/ Asked(f, g, rec, record')
                 \/ /\ f.pc \in {"undoing", "waiting"} /\ f.then = "held" /\ record' = rec
                    /\ Same(f, g) /\ f.id = g.id
  <1>1. CASE session.archived \/ session.stage = "pending"
    <2>1. PICK pc \in {"undoing", "waiting"} : pc = IF session.archived THEN "undoing" ELSE "waiting"
      OBVIOUS
    <2>2. PICK f : f = [g EXCEPT !.pc = pc, !.then = "held"]
      OBVIOUS
    <2>3. f \in Send!Run /\ f.pc = pc /\ f.then = "held" /\ Same(f, g) /\ f.id = g.id
      BY <2>1, <2>2 DEF Send!Run, Same
    <2>4. record' = rec /\ run' = [run EXCEPT ![w] = f]
      BY <1>1, <2>1, <2>2 DEF Send!Continue
    <2> QED
      BY <2>3, <2>4 DEF Becomes
  <1>2. CASE ~(session.archived \/ session.stage = "pending")
    BY <1>2, MovesAs DEF Send!Continue
  <1> QED
    BY <1>1, <1>2

LEMMA EventsKeep ==
  ASSUME SendInv,
         \/ Send!Accept \/ Send!Choose \/ Send!CancelNaming \/ Send!SendAnyway \/ Send!Dismiss
         \/ Send!PickModel \/ Send!ChangeFolder \/ Send!Reconfigure \/ Send!Archive \/ Send!Remove
         \/ Send!Promote \/ Send!CreationFails
  PROVE  SendInv' /\ Send!TreeAccounted
  <1>1. /\ session \in Send!Session /\ record \in Send!Record /\ revision \in Nat
        /\ session.id = "draft" <=> session.id # "gone" /\ session.stage # "ready"
        /\ session.id = "gone" => record.state = "gone"
    BY DEF SendInv, Send!TypeOK, IdInv
  <1>2. CASE Send!Accept
    BY <1>1, <1>2, EventStep DEF Send!Accept, Send!Record, Send!Deferred, Send!Waiting, Send!Present
  <1>3. ASSUME NEW state \in Send!Deferred \cup {"ready", "gone"}, state # "creating",
               record' = Send!WithState(state), Send!Waiting,
               UNCHANGED <<session, revision, backendDir, disk, run>>
        PROVE  SendInv' /\ Send!TreeAccounted
    <2>1. record' \in Send!Record /\ record'.state = state
      BY <1>3, WithStateFacts
    <2> QED
      BY <1>1, <1>3, <2>1, EventStep DEF Send!Waiting, Send!Present, Send!Deferred
  <1>4. CASE Send!Choose \/ Send!CancelNaming \/ Send!SendAnyway \/ Send!Dismiss
    BY <1>3, <1>4 DEF Send!Choose, Send!CancelNaming, Send!SendAnyway, Send!Dismiss, Send!Deferred
  <1>5. CASE Send!PickModel
    BY <1>1, <1>5, EventStep DEF Send!PickModel, Send!Session, Send!Waiting, Send!Present
  <1>6. CASE Send!ChangeFolder
    <2>1. /\ session' \in Send!Session /\ session'.place = "edited"
          /\ session'.id = session.id /\ session'.stage = session.stage
      BY <1>1, <1>6 DEF Send!ChangeFolder, Send!Session, Send!Places
    <2>2. backendDir' \in {backendDir, "edited"} /\ UNCHANGED <<revision, disk, run>>
      BY <1>6 DEF Send!ChangeFolder
    <2>3. \/ record' = record
          \/ Send!Waiting /\ record' \in Send!Record /\ record'.state = "ready"
      BY <1>6, WithStateFacts DEF Send!ChangeFolder
    <2> QED
      BY <1>1, <2>1, <2>2, <2>3, EventStep DEF Send!Waiting, Send!Present, Send!Deferred
  <1>7. CASE Send!Reconfigure
    BY <1>1, <1>7, EventStep DEF Send!Reconfigure, Send!Waiting, Send!Present
  <1>8. CASE Send!Archive
    BY <1>1, <1>8, EventStep DEF Send!Archive, Send!Session, Send!Waiting, Send!Present
  <1>9. CASE Send!Remove
    <2>1. /\ session' \in Send!Session /\ session'.place = session.place /\ session'.id = "gone"
      BY <1>1, <1>9 DEF Send!Remove, Send!Session
    <2>2. record' \in Send!Record /\ record'.state = "gone"
      BY <1>9, WithStateFacts DEF Send!Remove
    <2> QED
      BY <1>1, <1>9, <2>1, <2>2, EventStep DEF Send!Remove, Send!Waiting, Send!Present
  <1>10. CASE Send!Promote
    <2>1. /\ session' \in Send!Session /\ session'.place \in {session.place, "start"}
          /\ session'.id = "backend" /\ session'.stage = "ready"
      BY <1>1, <1>10 DEF Send!Promote, Send!Session, Send!Places
    <2> QED
      BY <1>1, <1>10, <2>1, EventStep DEF Send!Promote, Send!Waiting, Send!Present
  <1>11. CASE Send!CreationFails
    <2>1. /\ session' \in Send!Session /\ session'.place = session.place
          /\ session'.id = session.id /\ session'.stage = "failed" /\ session.stage = "pending"
      BY <1>1, <1>11 DEF Send!CreationFails, Send!Session
    <2> QED
      BY <1>1, <1>11, <2>1, EventStep DEF Send!CreationFails, Send!Waiting, Send!Present
  <1> QED
    BY <1>2, <1>4, <1>5, <1>6, <1>7, <1>8, <1>9, <1>10, <1>11

LEMMA StartKeeps ==
  ASSUME SendInv, NEW w \in Runs, NEW named \in BOOLEAN, Send!Start(w, named),
         UNCHANGED <<session, revision, backendDir, disk>>
  PROVE  SendInv' /\ Send!TreeAccounted
  <1>1. run[w].pc = "idle" /\ Send!Waiting
    BY DEF Send!Start
  <1>2. /\ session \in Send!Session /\ record \in Send!Record /\ revision \in Nat
        /\ backendDir \in Send!Places /\ record.revision \in Nat
    BY DEF SendInv, Send!TypeOK, Send!Record
  <1>3. PICK g : g = [Send!Idle EXCEPT !.pc = "planning", !.named = named, !.id = session.id,
                                       !.revision = record.revision, !.seen = session.place,
                                       !.from = session.place]
    OBVIOUS
  <1>4. /\ g \in Send!Run /\ g.pc = "planning" /\ g.named = named /\ g.id = session.id
        /\ g.seen = session.place /\ g.from = session.place /\ g.back = "none"
    BY <1>2, <1>3 DEF Send!Idle, Send!Run, Send!Session, Send!Places
  <1>5. PICK creating : creating = Send!WithState("creating")
    OBVIOUS
  <1>6. creating \in Send!Record /\ creating.state = "creating"
    BY <1>5, WithStateFacts DEF Send!Deferred
  <1>7. w \notin disk /\ backendDir # w /\ ~run[w].named
    BY <1>1 DEF SendInv, TreeInv, PlaceInv
  <1>8. CASE session.stage = "failed" \/ revision # record.revision
    <2>1. record' \in Send!Record /\ record'.state = "failed" /\ run' = run
      BY <1>8, WithStateFacts DEF Send!Start, Send!Deferred
    <2> QED
      BY <1>1, <1>2, <2>1, EventStep DEF SendInv, IdInv, Send!Waiting, Send!Present
  <1>9. CASE ~(session.stage = "failed" \/ revision # record.revision) /\ named
    <2>1. record' = creating /\ run' = [run EXCEPT ![w] = g]
      BY <1>9, <1>3, <1>5 DEF Send!Start
    <2>2. Becomes(w, g)
      BY <1>1, <1>4, <2>1 DEF Becomes
    <2>3. PlacesOf(w, g) /\ TreeOf(w, g) /\ TellsOf(w, g) /\ EndOf(w, g)
      BY <1>1, <1>4, <1>6, <1>7, <1>9, <2>1 DEF PlacesOf, TreeOf, TellsOf, EndOf
    <2> QED
      BY <1>2, <1>6, <2>1, <2>2, <2>3, RunStep
  <1>10. CASE ~(session.stage = "failed" \/ revision # record.revision) /\ ~named
    <2>1. Send!Continue(w, g, creating)
      BY <1>10, <1>3, <1>5 DEF Send!Start
    <2>2. PICK f \in Send!Run :
            /\ Becomes(w, f)
            /\ \/ Asked(f, g, creating, record')
               \/ /\ f.pc \in {"undoing", "waiting"} /\ f.then = "held" /\ record' = creating
                  /\ Same(f, g) /\ f.id = g.id
      BY <1>1, <1>4, <1>6, <2>1, ContinuesAs
    <2>3. record' \in Send!Record
      BY <1>1, <1>4, <1>6, <2>1, ContinuesAs
    <2>4. ~f.named
      BY <1>4, <1>10, <2>2 DEF Asked, Same
    <2>5. PlacesOf(w, f)
      BY <1>4, <1>7, <2>2 DEF PlacesOf, Asked, Same
    <2>6. TreeOf(w, f)
      BY <1>1, <1>7, <2>2, <2>4 DEF TreeOf, Asked
    <2>7. TellsOf(w, f) /\ EndOf(w, f)
      BY <1>1, <1>4, <1>6, <2>2 DEF TellsOf, EndOf, Asked
    <2> QED
      BY <1>2, <2>2, <2>3, <2>5, <2>6, <2>7, RunStep
  <1> QED
    BY <1>8, <1>9, <1>10

LEMMA PlannedKeeps ==
  ASSUME SendInv, NEW w \in Runs, Send!Planned(w)
  PROVE  SendInv' /\ Send!TreeAccounted
  <1>1. /\ run[w].pc = "planning" /\ disk' = disk \cup {w} /\ run[w] \in Send!Run
        /\ UNCHANGED <<session, revision, backendDir>>
    BY SendFacts DEF Send!Planned
  <1>2. /\ session \in Send!Session /\ record \in Send!Record
        /\ backendDir \in Send!Places /\ session.id \in {"draft", "backend", "gone"}
    BY DEF SendInv, Send!TypeOK, Send!Session
  <1>3. run[w].named /\ backendDir # w
    BY <1>1 DEF SendInv, TreeInv, PlaceInv
  <1>4. Send!Waiting => record.state # "none"
    BY DEF Send!Waiting, Send!Deferred
  <1>5. ASSUME NEW then \in {"nothing", "held"}, run' = Send!Undoing(w, then), record' = record,
               then = "nothing" => ~Send!Waiting
        PROVE  SendInv' /\ Send!TreeAccounted
    <2>1. PICK f \in Send!Run : /\ Becomes(w, f) /\ f.pc = "undoing" /\ f.then = then
                                /\ Same(f, run[w]) /\ f.id = session.id
      BY <1>1, <1>5, UndoesAs
    <2>2. PlacesOf(w, f) /\ TreeOf(w, f) /\ TellsOf(w, f) /\ EndOf(w, f)
      BY <1>1, <1>3, <1>4, <1>5, <2>1 DEF PlacesOf, TreeOf, TellsOf, EndOf, Same
    <2> QED
      BY <1>1, <1>2, <1>5, <2>1, <2>2, RunStep
  <1>6. ASSUME NEW g, g = [run[w] EXCEPT !.id = session.id], NEW rec, rec = record,
               Send!Continue(w, g, rec), Send!Waiting
        PROVE  SendInv' /\ Send!TreeAccounted
    <2>1. g \in Send!Run /\ Same(g, run[w]) /\ g.id = session.id
      BY <1>1, <1>2, <1>6 DEF Send!Run, Same
    <2>2. rec \in Send!Record /\ run[w].pc # "done" /\ Send!Continue(w, g, rec)
      BY <1>1, <1>2, <1>6
    <2>3. PICK f \in Send!Run :
            /\ Becomes(w, f)
            /\ \/ Asked(f, g, rec, record')
               \/ /\ f.pc \in {"undoing", "waiting"} /\ f.then = "held" /\ record' = rec
                  /\ Same(f, g) /\ f.id = g.id
      BY <2>1, <2>2, ContinuesAs
    <2>4. record' \in Send!Record
      BY <2>1, <2>2, ContinuesAs
    <2>5. PlacesOf(w, f) /\ TreeOf(w, f)
      BY <1>1, <1>3, <2>1, <2>3 DEF PlacesOf, TreeOf, Asked, Same
    <2>6. TellsOf(w, f) /\ EndOf(w, f)
      BY <1>1, <1>4, <1>6, <2>1, <2>3 DEF TellsOf, EndOf, Asked
    <2> QED
      BY <1>1, <1>2, <2>3, <2>4, <2>5, <2>6, RunStep
  <1>7. \/ run' = Send!Undoing(w, "nothing") /\ record' = record /\ ~Send!Waiting
        \/ run' = Send!Undoing(w, "held") /\ record' = record
        \/ Send!Waiting /\ Send!Continue(w, [run[w] EXCEPT !.id = session.id], record)
    BY DEF Send!Planned
  <1>8. PICK g, rec : g = [run[w] EXCEPT !.id = session.id] /\ rec = record
    OBVIOUS
  <1> QED
    BY <1>5, <1>6, <1>7, <1>8

\* A failure is told when the message is still there.
LEMMA FailedFacts ==
  ASSUME SendInv, record' = Send!Failed
  PROVE  /\ record' \in Send!Record
         /\ Send!Waiting => record'.state = "failed"
         /\ ~Send!Waiting => record' = record
  BY SendFacts, WithStateFacts DEF Send!Failed, Send!Deferred

LEMMA FailureKeeps ==
  ASSUME SendInv, NEW w \in Runs, Send!PlanFails(w) \/ Send!MoveFails(w) \/ Send!UndoFails(w)
  PROVE  SendInv' /\ Send!TreeAccounted
  <1>1. /\ run' = Send!At(w, "done") /\ record' = Send!Failed /\ UNCHANGED <<session, revision, backendDir>>
        /\ run[w].pc \notin {"idle", "done"}
        /\ \/ disk' = disk
           \/ run[w].pc = "planning" /\ disk' = disk \cup {w}
    BY DEF Send!PlanFails, Send!MoveFails, Send!UndoFails
  <1>2. PICK f \in Send!Run : /\ Becomes(w, f) /\ f.pc = "done"
                              /\ Same(f, run[w]) /\ f.id = run[w].id
    BY <1>1, EndsAs
  <1>3. /\ record' \in Send!Record
        /\ Send!Waiting => record'.state = "failed"
        /\ ~Send!Waiting => record' = record
    BY <1>1, FailedFacts
  <1>4. PlacesOf(w, f) /\ TreeOf(w, f)
    BY <1>1, <1>2 DEF PlacesOf, TreeOf, Same, SendInv, PlaceInv, TreeInv
  <1>5. TellsOf(w, f) /\ EndOf(w, f)
    BY <1>1, <1>2, <1>3 DEF TellsOf, EndOf
  <1>6. session' \in Send!Session /\ backendDir' \in Send!Places
    BY <1>1 DEF SendInv, Send!TypeOK
  <1> QED
    BY <1>1, <1>2, <1>3, <1>4, <1>5, <1>6, RunStep

LEMMA WaitFailsKeeps ==
  ASSUME SendInv, NEW w \in Runs, Send!WaitFails(w)
  PROVE  SendInv' /\ Send!TreeAccounted
  <1>1. /\ run' = Send!Undoing(w, "failed") /\ UNCHANGED <<session, record, revision, backendDir, disk>>
        /\ run[w].pc = "waiting"
    BY DEF Send!WaitFails
  <1>2. PICK f \in Send!Run : /\ Becomes(w, f) /\ f.pc = "undoing" /\ f.then = "failed"
                              /\ Same(f, run[w]) /\ f.id = session.id
    BY <1>1, UndoesAs
  <1>3. backendDir # w /\ (~run[w].named => w \notin disk)
    BY <1>1 DEF SendInv, PlaceInv, TreeInv
  <1>4. PlacesOf(w, f) /\ TreeOf(w, f) /\ TellsOf(w, f) /\ EndOf(w, f)
    BY <1>1, <1>2, <1>3 DEF PlacesOf, TreeOf, TellsOf, EndOf, Same, Send!Waiting, Send!Deferred
  <1>5. session' \in Send!Session /\ record' \in Send!Record /\ backendDir' \in Send!Places
    BY <1>1 DEF SendInv, Send!TypeOK
  <1> QED
    BY <1>1, <1>2, <1>4, <1>5, RunStep

LEMMA PromotedKeeps ==
  ASSUME SendInv, NEW w \in Runs, Send!Promoted(w)
  PROVE  SendInv' /\ Send!TreeAccounted
  <1>1. /\ UNCHANGED <<session, revision, backendDir, disk>>
        /\ run[w].pc = "waiting" /\ Send!Waiting /\ run[w] \in Send!Run
        /\ session.id \in {"draft", "backend", "gone"}
    BY SendFacts DEF Send!Promoted
  <1>2. PICK g, rec : g = [run[w] EXCEPT !.id = session.id] /\ rec = record
    OBVIOUS
  <1>3. g \in Send!Run /\ Same(g, run[w]) /\ g.id = session.id /\ rec \in Send!Record
    BY <1>1, <1>2, SendFacts DEF Send!Run, Same
  <1>4. run[w].pc # "done" /\ Send!Move(w, g, rec)
    BY <1>1, <1>2 DEF Send!Promoted
  <1>5. record' \in Send!Record
    BY <1>3, <1>4, MovesAs
  <1>6. PICK f \in Send!Run : Becomes(w, f) /\ Asked(f, g, rec, record')
    BY <1>3, <1>4, MovesAs
  <1>7. /\ backendDir # w /\ (~run[w].named => w \notin disk) /\ (run[w].named => w \in disk)
    BY <1>1 DEF SendInv, PlaceInv, TreeInv
  <1>8. PlacesOf(w, f) /\ TreeOf(w, f)
    BY <1>1, <1>3, <1>6, <1>7 DEF PlacesOf, TreeOf, Asked, Same
  <1>9. TellsOf(w, f) /\ EndOf(w, f)
    BY <1>1, <1>2, <1>3, <1>6 DEF TellsOf, EndOf, Asked, Send!Waiting, Send!Deferred
  <1>10. session' \in Send!Session /\ backendDir' \in Send!Places
    BY <1>1 DEF SendInv, Send!TypeOK
  <1> QED
    BY <1>1, <1>5, <1>6, <1>8, <1>9, <1>10, RunStep

LEMMA MovedKeeps ==
  ASSUME SendInv, NEW w \in Runs, Send!Moved(w)
  PROVE  SendInv' /\ Send!TreeAccounted
  <1>1. /\ run[w].pc = "moving" /\ backendDir' = Send!PlanPlace(w) /\ UNCHANGED <<revision, disk>>
        /\ run[w] \in Send!Run /\ session \in Send!Session /\ record \in Send!Record
        /\ backendDir' \in Send!Places
    BY SendFacts DEF Send!Moved
  <1>2. /\ run[w].named => w \in disk /\ backendDir' = w
        /\ ~run[w].named => w \notin disk /\ backendDir' = "asis"
        /\ "asis" # w
    BY <1>1, RunsFacts DEF SendInv, TreeInv, Send!PlanPlace
  <1>3. ASSUME run' = Send!At(w, "done"), record' \in Send!Record,
               \/ session' = session
               \/ session' \in Send!Session /\ session'.id = session.id /\ session'.stage = session.stage
                  /\ session'.place = Send!PlanPlace(w),
               \/ ~Send!Waiting /\ record' = record
               \/ Send!Waiting /\ record'.state = "failed"
               \/ Send!Waiting /\ record'.state = "held" /\ session'.archived
               \/ Send!Waiting /\ record'.state = "ready" /\ session'.place = Send!PlanPlace(w)
        PROVE  SendInv' /\ Send!TreeAccounted
    <2>1. PICK f \in Send!Run : /\ Becomes(w, f) /\ f.pc = "done"
                                /\ Same(f, run[w]) /\ f.id = run[w].id
      BY <1>1, <1>3, EndsAs
    <2>2. Send!PlanPlace(w) = backendDir'
      BY <1>1
    <2>3. PlacesOf(w, f)
      BY <1>1, <1>2, <1>3, <2>1, <2>2 DEF PlacesOf, Same
    <2>4. TreeOf(w, f)
      BY <1>1, <1>2, <2>1 DEF TreeOf, Same
    <2>5. TellsOf(w, f) /\ EndOf(w, f)
      BY <1>1, <1>2, <1>3, <2>1, <2>2 DEF TellsOf, EndOf
    <2> QED
      BY <1>1, <1>3, <2>1, <2>3, <2>4, <2>5, RunStep
  <1>4. ASSUME NEW pc \in {"restoring", "reverting"}, NEW place \in Send!Places, Send!Waiting,
               place \in {run[w].from, session.place}, Send!GoBack(w, pc, place)
        PROVE  SendInv' /\ Send!TreeAccounted
    <2>1. CASE place = "none"
      BY <1>1, <1>3, <1>4, <2>1, WithStateFacts DEF Send!GoBack, Send!Deferred
    <2>2. CASE place # "none"
      <3>1. PICK f : f = [run[w] EXCEPT !.pc = pc, !.back = place]
        OBVIOUS
      <3>2. /\ f \in Send!Run /\ f.pc = pc /\ f.back = place /\ f.named = run[w].named
            /\ f.id = run[w].id /\ f.seen = run[w].seen /\ f.from = run[w].from
        BY <1>1, <3>1 DEF Send!Run
      <3>3. run' = [run EXCEPT ![w] = f] /\ record' = record /\ session' = session
        BY <1>4, <2>2, <3>1, SendFacts DEF Send!GoBack
      <3>4. Becomes(w, f)
        BY <1>1, <3>2, <3>3 DEF Becomes
      <3>5. PlacesOf(w, f) /\ TreeOf(w, f)
        BY <1>1, <1>2, <1>4, <3>2, <3>3 DEF PlacesOf, TreeOf
      <3>6. TellsOf(w, f) /\ EndOf(w, f)
        BY <1>1, <1>4, <3>2, <3>3 DEF TellsOf, EndOf, Send!Waiting, Send!Deferred
      <3> QED
        BY <1>1, <3>2, <3>3, <3>4, <3>5, <3>6, RunStep
    <2> QED
      BY <2>1, <2>2
  <1>5. CASE Send!Waiting /\ Send!Release(w)
    <2>1. session' = [session EXCEPT !.place = Send!PlanPlace(w)]
      BY <1>5 DEF Send!Release
    <2>2. /\ session' \in Send!Session /\ session'.id = session.id /\ session'.stage = session.stage
          /\ session'.place = Send!PlanPlace(w)
      BY <1>1, <2>1 DEF Send!Session
    <2> QED
      BY <1>3, <1>5, <2>2, WithStateFacts DEF Send!Release
  <1>6. CASE run' = Send!At(w, "done") /\ session' = session
             /\ \/ ~Send!Waiting /\ record' = record
                \/ Send!Waiting /\ session.archived /\ record' = Send!WithState("held")
    BY <1>1, <1>3, <1>6, WithStateFacts DEF Send!Deferred
  <1>7. PICK from \in Send!Places, place \in Send!Places : from = run[w].from /\ place = session.place
    BY SendFacts
  <1> QED
    BY <1>4, <1>5, <1>6, <1>7 DEF Send!Moved

LEMMA MoveSupersededKeeps ==
  ASSUME SendInv, NEW w \in Runs, Send!MoveSuperseded(w)
  PROVE  SendInv' /\ Send!TreeAccounted
  <1>1. /\ run[w].pc = "moving" /\ backendDir' \in {backendDir, session.place}
        /\ UNCHANGED <<session, record, revision, disk>>
    BY DEF Send!MoveSuperseded
  <1>2. /\ backendDir # w /\ session.place # w
        /\ run[w].named => w \in disk
        /\ ~run[w].named => w \notin disk
    BY <1>1 DEF SendInv, PlaceInv, TreeInv, Kept
  <1>3. session' \in Send!Session /\ record' \in Send!Record /\ backendDir' \in Send!Places
    BY <1>1 DEF SendInv, Send!TypeOK, Send!Session
  <1>4. CASE Send!Waiting
    <2>1. run' = Send!Undoing(w, "held")
      BY <1>4 DEF Send!MoveSuperseded
    <2>2. PICK f \in Send!Run : /\ Becomes(w, f) /\ f.pc = "undoing" /\ f.then = "held"
                                /\ Same(f, run[w]) /\ f.id = session.id
      BY <1>1, <2>1, UndoesAs
    <2>3. PlacesOf(w, f) /\ TreeOf(w, f)
      BY <1>1, <1>2, <2>2 DEF PlacesOf, TreeOf, Same
    <2>4. TellsOf(w, f) /\ EndOf(w, f)
      BY <1>1, <1>4, <2>2 DEF TellsOf, EndOf, Send!Waiting, Send!Deferred
    <2> QED
      BY <1>1, <1>3, <2>2, <2>3, <2>4, RunStep
  <1>5. CASE ~Send!Waiting
    <2>1. run' = Send!At(w, "done")
      BY <1>5 DEF Send!MoveSuperseded
    <2>2. PICK f \in Send!Run : /\ Becomes(w, f) /\ f.pc = "done"
                                /\ Same(f, run[w]) /\ f.id = run[w].id
      BY <1>1, <2>1, EndsAs
    <2>3. PlacesOf(w, f) /\ TreeOf(w, f)
      BY <1>1, <1>2, <2>2 DEF PlacesOf, TreeOf, Same
    <2>4. TellsOf(w, f) /\ EndOf(w, f)
      BY <1>1, <1>5, <2>2 DEF TellsOf, EndOf
    <2> QED
      BY <1>1, <1>3, <2>2, <2>3, <2>4, RunStep
  <1> QED
    BY <1>4, <1>5

\* The backend goes back to a place that is kept, and so not to the worktree itself.
LEMMA MovedBackKeeps ==
  ASSUME SendInv, NEW w \in Runs, Send!MovedBack(w)
  PROVE  SendInv' /\ Send!TreeAccounted
  <1>1. /\ run[w].pc \in {"restoring", "reverting"} /\ backendDir' = run[w].back
        /\ UNCHANGED <<session, record, revision, disk>>
    BY DEF Send!MovedBack
  <1>2. /\ run[w].back # w
        /\ ~run[w].named => w \notin disk
    BY <1>1 DEF SendInv, PlaceInv, TreeInv, Kept
  <1>3. PICK then \in {"held", "original"} : run' = Send!Undoing(w, then)
    BY DEF Send!MovedBack
  <1>4. PICK f \in Send!Run : /\ Becomes(w, f) /\ f.pc = "undoing" /\ f.then = then
                              /\ Same(f, run[w]) /\ f.id = session.id
    BY <1>1, <1>3, UndoesAs
  <1>5. PlacesOf(w, f) /\ TreeOf(w, f)
    BY <1>1, <1>2, <1>4 DEF PlacesOf, TreeOf, Same
  <1>6. TellsOf(w, f) /\ EndOf(w, f)
    BY <1>1, <1>3, <1>4 DEF TellsOf, EndOf, Send!Waiting, Send!Deferred
  <1>7. session' \in Send!Session /\ record' \in Send!Record /\ backendDir' \in Send!Places
    BY <1>1, SendFacts DEF SendInv, Send!TypeOK
  <1> QED
    BY <1>1, <1>4, <1>5, <1>6, <1>7, RunStep

\* The worktree that goes is that of a run which was not over: nobody works in it.
LEMMA UndoneKeeps ==
  ASSUME SendInv, NEW w \in Runs, Send!Undone(w)
  PROVE  SendInv' /\ Send!TreeAccounted
  <1>1. /\ run[w].pc = "undoing" /\ disk' = disk \ {w} /\ run' = Send!At(w, "done")
        /\ UNCHANGED <<revision, backendDir>>
    BY DEF Send!Undone
  <1>2. PICK f \in Send!Run : /\ Becomes(w, f) /\ f.pc = "done"
                              /\ Same(f, run[w]) /\ f.id = run[w].id
    BY <1>1, EndsAs
  <1>3. /\ backendDir # w /\ backendDir \in Send!Places
        /\ run[w].then = "nothing" => ~Send!Waiting
    BY <1>1 DEF SendInv, PlaceInv, IdInv, Send!TypeOK
  <1>4. /\ record' \in Send!Record
        /\ \/ Send!Waiting /\ record'.state \in {"failed", "held"}
           \/ /\ record' = record
              /\ ~Send!Waiting \/ (run[w].then \in {"held", "original"} /\ run[w].id # session.id)
    <2>1. run[w].then \in {"nothing", "held", "original", "failed"} /\ record \in Send!Record
      BY SendFacts DEF Send!Run
    <2>2. /\ Send!WithState("failed") \in Send!Record /\ Send!WithState("failed").state = "failed"
          /\ Send!WithState("held") \in Send!Record /\ Send!WithState("held").state = "held"
      BY WithStateFacts DEF Send!Deferred
    <2> QED
      BY <1>3, <2>1, <2>2 DEF Send!Undone
  <1>5. /\ session' \in Send!Session /\ session'.id = session.id /\ session'.stage = session.stage
        /\ session'.place \in {session.place, run[w].from}
    <2>1. PICK there : there = [session EXCEPT !.place = run[w].from]
      OBVIOUS
    <2>2. /\ there \in Send!Session /\ there.id = session.id /\ there.stage = session.stage
          /\ there.place = run[w].from
      BY <2>1, SendFacts DEF Send!Session
    <2>3. session' \in {session, there}
      BY <2>1 DEF Send!Undone
    <2> QED
      BY <2>2, <2>3, SendFacts
  <1>6. PlacesOf(w, f) /\ TreeOf(w, f)
    BY <1>1, <1>2, <1>3, <1>5 DEF PlacesOf, TreeOf, Same
  <1>7. TellsOf(w, f)
    BY <1>1, <1>2, <1>4, <1>5 DEF TellsOf, Send!Waiting, Send!Deferred
  <1>8. EndOf(w, f)
    BY <1>1 DEF EndOf
  <1> QED
    BY <1>1, <1>2, <1>3, <1>4, <1>5, <1>6, <1>7, <1>8, RunStep

LEMMA SendStarts == Send!Init => SendInv
  <1> SUFFICES ASSUME Send!Init PROVE SendInv
    OBVIOUS
  <1>1. /\ session \in Send!Session /\ session.id \in {"draft", "backend"}
        /\ session.id = "draft" <=> session.stage # "ready"
        /\ session.place \in {"none", "start"} /\ backendDir \in {"none", "start"}
    BY DEF Send!Init, Send!Session, Send!Places
  <1>2. Send!Idle \in Send!Run /\ Send!Idle.pc = "idle" /\ ~Send!Idle.named /\ Send!Idle.id = "draft"
        /\ Send!Idle.seen = "none" /\ Send!Idle.from = "none" /\ Send!Idle.back = "none"
    BY DEF Send!Idle, Send!Run, Send!Places
  <1>3. /\ run = [w \in Runs |-> Send!Idle] /\ disk = {} /\ revision = 0
        /\ record = [state |-> "none", revision |-> 0, unresolved |-> FALSE]
    BY DEF Send!Init
  <1>4. record \in Send!Record /\ record.state = "none"
    BY <1>3 DEF Send!Record
  <1>5. Send!TypeOK
    BY <1>1, <1>2, <1>3, <1>4 DEF Send!TypeOK, Send!Places
  <1>6. PlaceInv /\ TreeInv
    BY <1>1, <1>2, <1>3, RunsFacts DEF PlaceInv, TreeInv, Kept
  <1>7. IdInv /\ Send!CreatingHasRun
    BY <1>1, <1>2, <1>3, <1>4 DEF IdInv, Send!CreatingHasRun
  <1> QED
    BY <1>5, <1>6, <1>7 DEF SendInv

LEMMA SendKeeps ==
  ASSUME SendInv, [Send!Next]_(Send!vars)
  PROVE  SendInv' /\ [Send!TreeAccounted]_(Send!vars)
  <1>1. CASE UNCHANGED Send!vars
    BY <1>1 DEF Send!vars, SendInv, Send!TypeOK, PlaceInv, Kept, TreeInv, IdInv, Send!CreatingHasRun,
                Send!Active, Send!Waiting, Send!Present
  <1>2. ASSUME NEW w \in Runs, Send!Skip(w) \/ Send!SubmitName(w) \/ Send!Retry(w)
        PROVE  SendInv' /\ Send!TreeAccounted
    BY <1>2, StartKeeps DEF Send!Skip, Send!SubmitName, Send!Retry
  <1>3. CASE Send!Next
    BY <1>2, <1>3, EventsKeep, PlannedKeeps, FailureKeeps, WaitFailsKeeps, PromotedKeeps, MovedKeeps,
       MoveSupersededKeeps, MovedBackKeeps, UndoneKeeps DEF Send!Next, Send!Event
  <1> QED
    BY <1>1, <1>3

LEMMA SendAlone == Send!Spec => []SendInv /\ Send!TreesAccounted
  BY SendStarts, SendKeeps, PTL DEF Send!Spec, Send!TreesAccounted

\* Neither the session nor its backend ever works in a worktree that a rollback has
\* removed (rollbackFirstWorkspacePlan comes after the backend has been moved back).
THEOREM NoLostFolder == ChatSpec => []FoldersExist
  <1>1. SendInv => FoldersExist
    BY DEF SendInv, PlaceInv, Kept, FoldersExist, Send!FoldersExist
  <1> QED
    BY <1>1, PartsAlone, SendAlone, PTL

\* A message that shows "creating" has a run that will change it, or one that updated it
\* under the id the draft had before it was promoted.
THEOREM CreatingAttended == ChatSpec => []CreatingHasRun
  <1>1. SendInv => CreatingHasRun
    BY DEF SendInv, CreatingHasRun
  <1> QED
    BY <1>1, PartsAlone, SendAlone, PTL

\* A worktree that outlives its run is the session's, or the user can see why.
THEOREM WorktreesAccounted == ChatSpec => TreesAccounted
  BY PartsAlone, SendAlone, PTL DEF TreesAccounted

\* What the user chose while the backend was being moved is not replaced by the plan.
THEOREM FolderChoiceKept == ChatSpec => UserFolderKept
  <1>1. SendInv /\ [Send!Next]_(Send!vars) => [Send!ChoiceKept]_(Send!vars)
    <2> SUFFICES ASSUME SendInv, Send!Next, session.place = "edited", session'.place # "edited"
                 PROVE  \E w \in Runs :
                           \/ run[w].pc = "moving" /\ run[w].seen = "edited"
                           \/ run[w].pc = "undoing" /\ run[w].then \in {"failed", "original"}
      BY DEF Send!ChoiceKept
    <2>1. session \in Send!Session
      BY SendFacts
    <2>2. ~(\/ Send!Accept \/ Send!Choose \/ Send!CancelNaming \/ Send!SendAnyway \/ Send!Dismiss
            \/ Send!PickModel \/ Send!ChangeFolder \/ Send!Reconfigure \/ Send!Archive \/ Send!Remove
            \/ Send!Promote \/ Send!CreationFails)
      BY <2>1 DEF Send!Accept, Send!Choose, Send!CancelNaming, Send!SendAnyway, Send!Dismiss,
         Send!PickModel, Send!ChangeFolder, Send!Reconfigure, Send!Archive, Send!Remove,
         Send!Promote, Send!CreationFails, Send!Session
    <2>3. PICK w \in Runs : Send!Moved(w) \/ Send!Undone(w)
      BY <2>2 DEF Send!Next, Send!Event, Send!Skip, Send!SubmitName, Send!Retry, Send!Planned,
         Send!PlanFails, Send!Promoted, Send!WaitFails, Send!MoveSuperseded, Send!MoveFails,
         Send!MovedBack, Send!UndoFails
    <2>4. CASE Send!Moved(w)
      BY <2>1, <2>4 DEF Send!Moved, Send!GoBack, Send!Release, Send!SnapshotChanged
    <2>5. CASE Send!Undone(w)
      BY <2>1, <2>5 DEF Send!Undone
    <2> QED
      BY <2>3, <2>4, <2>5
  <1> QED
    BY <1>1, PartsAlone, SendAlone, PTL DEF Send!Spec, UserFolderKept, Send!UserFolderKept

----------------------------------------------------------------------------
(* What is on the wire *)

Entry == [by : {"op", "prompt"} \cup Picks, folder : Switch!AnyFolder]
NoUpdate(w) == \A i \in DOMAIN w : w[i].by # "op"
NoPrompt(w) == \A i \in DOMAIN w : w[i].by # "prompt"

LEMMA EntryFacts ==
  ASSUME NEW e \in Entry
  PROVE  e.folder \in Switch!AnyFolder
  BY DEF Entry

LEMMA TailEntries ==
  ASSUME NEW w \in Seq(Entry), w # <<>>, InOrderOn(w)
  PROVE  /\ Tail(w) \in Seq(Entry) /\ Head(w) \in Entry /\ 1 \in DOMAIN w /\ Head(w) = w[1]
         /\ InOrderOn(Tail(w))
         /\ \A update, pc : SentFor(w, update, pc) => SentFor(Tail(w), update, pc)
         /\ Head(w).by = "op" => NoUpdate(Tail(w))
         /\ Head(w).by = "prompt" => NoUpdate(Tail(w)) /\ NoPrompt(Tail(w))
  <1>1. /\ Tail(w) \in Seq(Entry) /\ Head(w) \in Entry /\ 1 \in DOMAIN w /\ Head(w) = w[1]
    OBVIOUS
  <1>2. \A i \in DOMAIN Tail(w) : /\ i \in Nat /\ i >= 1 /\ i + 1 \in DOMAIN w /\ Tail(w)[i] = w[i + 1]
    OBVIOUS
  <1>3. InOrderOn(Tail(w))
    <2> SUFFICES ASSUME NEW i \in DOMAIN Tail(w), NEW j \in DOMAIN Tail(w)
                 PROVE  /\ Tail(w)[i].by = "op" /\ Tail(w)[j].by = "op" => i = j
                        /\ Tail(w)[i].by = "prompt" /\ Tail(w)[j].by = "prompt" => i = j
                        /\ Tail(w)[i].by = "op" /\ Tail(w)[j].by = "prompt" => i < j
      BY DEF InOrderOn
    <2>1. /\ w[i + 1].by = "op" /\ w[j + 1].by = "op" => i + 1 = j + 1
          /\ w[i + 1].by = "prompt" /\ w[j + 1].by = "prompt" => i + 1 = j + 1
          /\ w[i + 1].by = "op" /\ w[j + 1].by = "prompt" => i + 1 < j + 1
      BY <1>2 DEF InOrderOn
    <2> QED
      BY <1>2, <2>1
  <1>4. \A update, pc : SentFor(w, update, pc) => SentFor(Tail(w), update, pc)
    BY <1>2 DEF SentFor
  <1>5. \A i \in DOMAIN Tail(w) :
          /\ Head(w).by = "op" => Tail(w)[i].by # "op"
          /\ Head(w).by = "prompt" => Tail(w)[i].by # "op" /\ Tail(w)[i].by # "prompt"
    <2> SUFFICES ASSUME NEW i \in DOMAIN Tail(w)
                 PROVE  /\ w[1].by = "op" => w[i + 1].by # "op"
                        /\ w[1].by = "prompt" => w[i + 1].by # "op" /\ w[i + 1].by # "prompt"
      BY <1>1, <1>2
    <2>1. i + 1 \in DOMAIN w /\ i + 1 # 1 /\ ~(i + 1 < 1)
      BY <1>2
    <2> QED
      BY <1>1, <2>1 DEF InOrderOn
  <1> QED
    BY <1>1, <1>3, <1>4, <1>5 DEF NoUpdate, NoPrompt

LEMMA AppendEntries ==
  ASSUME NEW w \in Seq(Entry), NEW e \in Entry, InOrderOn(w),
         e.by = "op" => NoUpdate(w) /\ NoPrompt(w),
         e.by = "prompt" => NoPrompt(w)
  PROVE  /\ Append(w, e) \in Seq(Entry) /\ InOrderOn(Append(w, e))
         /\ \A i \in DOMAIN Append(w, e) :
              \/ Append(w, e)[i] = e
              \/ i \in DOMAIN w /\ Append(w, e)[i] = w[i]
  <1>1. /\ Append(w, e) \in Seq(Entry) /\ Len(w) \in Nat
        /\ DOMAIN w = 1 .. Len(w) /\ DOMAIN Append(w, e) = 1 .. Len(w) + 1
        /\ \A i \in 1 .. Len(w) : Append(w, e)[i] = w[i]
        /\ Append(w, e)[Len(w) + 1] = e
    OBVIOUS
  <1>2. \A i \in DOMAIN Append(w, e) : i \in DOMAIN w \/ i = Len(w) + 1
    BY <1>1
  <1>3. ASSUME NEW i \in DOMAIN Append(w, e), NEW j \in DOMAIN Append(w, e)
        PROVE  /\ Append(w, e)[i].by = "op" /\ Append(w, e)[j].by = "op" => i = j
               /\ Append(w, e)[i].by = "prompt" /\ Append(w, e)[j].by = "prompt" => i = j
               /\ Append(w, e)[i].by = "op" /\ Append(w, e)[j].by = "prompt" => i < j
    <2>1. CASE i \in DOMAIN w /\ j \in DOMAIN w
      BY <1>1, <2>1 DEF InOrderOn
    <2>2. CASE i \in DOMAIN w /\ j = Len(w) + 1
      BY <1>1, <2>2 DEF NoUpdate, NoPrompt
    <2>3. CASE i = Len(w) + 1 /\ j \in DOMAIN w
      BY <1>1, <2>3 DEF NoUpdate, NoPrompt
    <2>4. CASE i = Len(w) + 1 /\ j = Len(w) + 1
      <3>1. Append(w, e)[i] = Append(w, e)[j] /\ i = j
        BY <2>4
      <3>2. Append(w, e)[i].by = "op" => Append(w, e)[j].by # "prompt"
        BY <3>1
      <3> QED
        BY <3>1, <3>2
    <2> QED
      BY <1>2, <2>1, <2>2, <2>3, <2>4
  <1> QED
    BY <1>1, <1>2, <1>3 DEF InOrderOn

LEMMA PicksFacts == "op" \notin Picks /\ "prompt" \notin Picks /\ IsFiniteSet(Picks)
  BY ChatAssumption

\* The choices that waited for the update follow what is on the wire.
LEMMA WaitersFacts ==
  ASSUME Switch!TypeOK
  PROVE  Switch!Waiters \in Seq({u \in Picks : choice[u].pc = "waiting"})
  <1> DEFINE S == {u \in Picks : choice[u].pc = "waiting"}
             n == Cardinality(S)
  <1>1. IsFiniteSet(S)
    BY PicksFacts, FS_Subset
  <1>2. n \in Nat /\ ExistsBijection(1 .. n, S)
    BY <1>1, FS_CardinalityType
  <1>3. \E f \in [1 .. n -> S] : \A i, j \in DOMAIN f : f[i] = f[j] => i = j
    <2>1. PICK f : f \in Bijection(1 .. n, S)
      BY <1>2 DEF ExistsBijection
    <2> QED
      BY <2>1 DEF Bijection, Injection, IsInjective
  <1>4. Switch!Waiters \in [1 .. n -> S]
    BY <1>3 DEF Switch!Waiters, Switch!SetToSeq, Switch!IsInjective, Switch!Cardinality, Cardinality
  <1> HIDE DEF S, n
  <1>5. Switch!Waiters \in Seq(S)
    BY <1>2, <1>4
  <1> QED
    BY <1>5 DEF S

LEMMA WaitersOn ==
  ASSUME Switch!TypeOK, NEW w \in Seq(Entry), InOrderOn(w)
  PROVE  /\ Switch!WithWaiters(w) \in Seq(Entry) /\ InOrderOn(Switch!WithWaiters(w))
         /\ \A i \in DOMAIN Switch!WithWaiters(w) :
              \/ Switch!WithWaiters(w)[i].by \in Picks
              \/ i \in DOMAIN w /\ Switch!WithWaiters(w)[i] = w[i]
  <1> DEFINE S == {u \in Picks : choice[u].pc = "waiting"}
  <1>1. PICK s \in Seq(S) : s = Switch!Waiters
    BY WaitersFacts
  <1>2. PICK t : t = [i \in DOMAIN s |-> [by |-> s[i], folder |-> choice[s[i]].folder]]
    OBVIOUS
  <1>3. \A i \in DOMAIN s : t[i] \in Entry /\ t[i].by \in Picks
    <2>1. \A u \in Picks : choice[u].folder \in Switch!AnyFolder
      BY DEF Switch!TypeOK
    <2>2. \A i \in DOMAIN s : s[i] \in Picks /\ t[i] = [by |-> s[i], folder |-> choice[s[i]].folder]
      BY <1>2
    <2>3. \A i \in DOMAIN s : choice[s[i]].folder \in Switch!AnyFolder
      BY <2>1, <2>2
    <2> SUFFICES ASSUME NEW i \in DOMAIN s PROVE t[i] \in Entry /\ t[i].by \in Picks
      OBVIOUS
    <2>4. PICK u \in Picks, to \in Switch!AnyFolder : t[i] = [by |-> u, folder |-> to]
      BY <2>2, <2>3
    <2> QED
      BY <2>4 DEF Entry
  <1>4. t \in Seq(Entry) /\ DOMAIN t = DOMAIN s
    BY <1>1, <1>2, <1>3
  <1>5. PICK v : v = w \o t
    OBVIOUS
  <1>6. Switch!WithWaiters(w) = v
    BY <1>1, <1>2, <1>5 DEF Switch!WithWaiters
  <1>7. /\ v \in Seq(Entry) /\ Len(w) \in Nat /\ DOMAIN w = 1 .. Len(w)
        /\ DOMAIN v = 1 .. Len(w) + Len(t)
        /\ \A i \in DOMAIN v : i \in DOMAIN w \/ (i > Len(w) /\ i - Len(w) \in DOMAIN t)
        /\ \A i \in DOMAIN v : v[i] = IF i \in DOMAIN w THEN w[i] ELSE t[i - Len(w)]
    BY <1>4, <1>5
  <1>8. \A i \in DOMAIN v : \/ v[i].by \in Picks
                            \/ i \in DOMAIN w /\ v[i] = w[i]
    BY <1>3, <1>4, <1>7
  <1>9. InOrderOn(v)
    <2>1. \A i \in DOMAIN v : v[i].by \in {"op", "prompt"} => i \in DOMAIN w /\ v[i] = w[i]
      BY <1>8, PicksFacts
    <2> QED
      BY <2>1 DEF InOrderOn
  <1> QED
    BY <1>6, <1>7, <1>8, <1>9

\* Whatever is added for a choice is neither an update nor a prompt.
LEMMA SentForWaiters ==
  ASSUME Switch!TypeOK, NEW w \in Seq(Entry), InOrderOn(w), NEW update, NEW pc, SentFor(w, update, pc)
  PROVE  SentFor(Switch!WithWaiters(w), update, pc)
  <1>1. \A i \in DOMAIN Switch!WithWaiters(w) :
          Switch!WithWaiters(w)[i].by \in {"op", "prompt"} =>
            i \in DOMAIN w /\ Switch!WithWaiters(w)[i] = w[i]
    BY WaitersOn, PicksFacts
  <1> QED
    BY <1>1 DEF SentFor

LEMMA AppendSentFor ==
  ASSUME NEW w \in Seq(Entry), NEW e \in Entry, NEW update, NEW pc, SentFor(w, update, pc),
         e.by = "op" => /\ update # None /\ update.phase = "updating"
                        /\ e.folder = update.request.folder /\ pc # "turn",
         e.by = "prompt" => pc = "sent"
  PROVE  SentFor(Append(w, e), update, pc)
  <1>1. \A i \in DOMAIN Append(w, e) :
          \/ Append(w, e)[i] = e
          \/ i \in DOMAIN w /\ Append(w, e)[i] = w[i]
    OBVIOUS
  <1> QED
    BY <1>1 DEF SentFor

----------------------------------------------------------------------------
(* The switches of the folder *)

Update == [phase : {"checking", "updating"}, request : Switch!Request, allowRunning : BOOLEAN]

LEMMA SwitchFacts ==
  ASSUME SwitchInv
  PROVE  /\ op # None => op \in Update /\ op.request \in Switch!Request
         /\ pending # None => pending \in Switch!Request
         /\ intent \in Nat /\ shown \in Switch!AnyFolder /\ cwd \in Switch!AnyFolder
         /\ wire \in Seq(Entry) /\ prompt.folder \in Switch!AnyFolder
         /\ InOrderOn(wire) /\ SentFor(wire, op, prompt.pc)
         /\ op = None \/ op.phase = "checking" => NoUpdate(wire)
         /\ prompt.pc # "sent" => NoPrompt(wire)
         /\ \A w \in Commands : /\ command[w].folder \in Switch!AnyFolder
                                /\ command[w].generation \in Nat
  <1>1. Switch!TypeOK /\ WireInv
    BY DEF SwitchInv
  <1>2. op # None => op \in Update /\ op.request \in Switch!Request
    BY <1>1 DEF Switch!TypeOK, Update
  <1>3. /\ pending # None => pending \in Switch!Request
        /\ intent \in Nat /\ shown \in Switch!AnyFolder /\ cwd \in Switch!AnyFolder
        /\ wire \in Seq(Entry) /\ prompt.folder \in Switch!AnyFolder
    BY <1>1 DEF Switch!TypeOK, Entry
  <1>4. InOrderOn(wire) /\ SentFor(wire, op, prompt.pc)
    BY <1>1 DEF WireInv
  <1>5. /\ op = None \/ op.phase = "checking" => NoUpdate(wire)
        /\ prompt.pc # "sent" => NoPrompt(wire)
    BY <1>4 DEF SentFor, NoUpdate, NoPrompt
  <1>6. \A w \in Commands : /\ command[w].folder \in Switch!AnyFolder
                            /\ command[w].generation \in Nat
    BY <1>1 DEF Switch!TypeOK
  <1> QED
    BY <1>2, <1>3, <1>4, <1>5, <1>6

LEMMA RequestsFacts ==
  /\ None \notin Switch!Request /\ None \notin Update
  /\ \A x \in Switch!Request : x.id \in Commands /\ x.folder \in Switch!AnyFolder
  BY ChatAssumption DEF Update, Switch!Request, Switch!AnyFolder

\* The update that a caller starts or joins.
LEMMA JoinedFacts ==
  ASSUME SwitchInv, NEW request \in Switch!Request, NEW allow \in BOOLEAN, NEW joined,
         joined = IF op # None THEN [op EXCEPT !.allowRunning = @ \/ allow]
                  ELSE Switch!Started(request, allow)
  PROVE  /\ joined \in Update /\ joined # None
         /\ op # None => joined.request = op.request /\ joined.phase = op.phase
         /\ op = None => joined.request = request /\ joined.phase = "checking"
         /\ joined.allowRunning => allow \/ (op # None /\ op.allowRunning)
  <1>1. CASE op = None
    <2>1. joined = [phase |-> "checking", request |-> request, allowRunning |-> allow]
      BY <1>1 DEF Switch!Started
    <2>2. joined \in Update
      BY <2>1 DEF Update
    <2> QED
      BY <1>1, <2>1, <2>2, RequestsFacts
  <1>2. CASE op # None
    <2>1. op \in Update
      BY <1>2, SwitchFacts
    <2>2. PICK may \in BOOLEAN : may = (op.allowRunning \/ allow)
      OBVIOUS
    <2>3. joined = [op EXCEPT !.allowRunning = may]
      BY <1>2, <2>2
    <2>4. /\ joined \in Update /\ joined.request = op.request /\ joined.phase = op.phase
          /\ joined.allowRunning = may
      BY <2>1, <2>3 DEF Update
    <2> QED
      BY <1>2, <2>2, <2>4, RequestsFacts
  <1> QED
    BY <1>1, <1>2

\* A step in which no command claims an intent.
Steady ==
  /\ intent' \in Nat /\ intent' >= intent
  /\ \A w \in Commands :
       /\ command'[w].folder = command[w].folder
       /\ command'[w].generation = command[w].generation
       /\ command'[w].pc = "attaching" => command[w].pc = "attaching"
       /\ command'[w].pc = "idle" <=> command[w].pc = "idle"

LEMMA SteadyGenuine ==
  ASSUME Steady, NEW request \in Switch!Request, Genuine(request)
  PROVE  Genuine(request)'
  BY RequestsFacts DEF Steady, Genuine

LEMMA PendingStep ==
  ASSUME SwitchInv, Steady,
         pending' # None => pending' = pending \/ Genuine(pending)',
         op' # None => \/ op # None /\ op'.request = op.request
                       \/ pending # None /\ op'.request = pending
                       \/ pending' # None /\ op'.request = pending',
         draining' # None => op' # None
  PROVE  RequestInv' /\ AttachInv'
  <1>1. /\ pending # None => pending \in Switch!Request /\ Genuine(pending)
        /\ op # None => op.request \in Switch!Request /\ Genuine(op.request)
    BY SwitchFacts DEF SwitchInv, RequestInv
  <1>2. /\ pending # None => command'[pending.id].pc \notin {"idle", "attaching"}
                             /\ pending.folder = command'[pending.id].folder
        /\ op # None => command'[op.request.id].pc \notin {"idle", "attaching"}
                        /\ op.request.folder = command'[op.request.id].folder
    BY <1>1, SteadyGenuine DEF Genuine
  <1>3. RequestInv'
    BY <1>2 DEF RequestInv, Genuine
  <1>4. AttachInv'
    BY SwitchFacts DEF Steady, SwitchInv, AttachInv
  <1> QED
    BY <1>3, <1>4

\* What was sent is still what the update and the prompt stand for.
LEMMA SentForStays ==
  ASSUME NEW w, NEW before, NEW pc, NEW after, NEW next, SentFor(w, before, pc),
         \/ NoUpdate(w)
         \/ /\ before # None => /\ after # None /\ after.phase = before.phase
                                /\ after.request = before.request
            /\ next # "turn" \/ next = pc,
         NoPrompt(w) \/ (pc = "sent" => next = "sent")
  PROVE  SentFor(w, after, next)
  BY DEF SentFor, NoUpdate, NoPrompt

LEMMA WireStays ==
  ASSUME SwitchInv, wire' = wire,
         \/ op = None \/ op.phase = "checking"
         \/ /\ op' # None /\ op'.phase = op.phase /\ op'.request = op.request
            /\ prompt'.pc # "turn" \/ prompt'.pc = prompt.pc,
         prompt.pc = "sent" => prompt'.pc = "sent"
  PROVE  WireInv'
  <1>1. PICK w, before, pc, after, next :
          w = wire /\ before = op /\ pc = prompt.pc /\ after = op' /\ next = prompt'.pc
    OBVIOUS
  <1>2. SentFor(w, before, pc) /\ InOrderOn(w)
    BY <1>1, SwitchFacts
  <1>3. \/ NoUpdate(w)
        \/ /\ before # None => /\ after # None /\ after.phase = before.phase
                               /\ after.request = before.request
           /\ next # "turn" \/ next = pc
    BY <1>1, SwitchFacts
  <1>4. SentFor(w, after, next)
    BY <1>1, <1>2, <1>3, SentForStays
  <1> QED
    BY <1>1, <1>2, <1>4 DEF WireInv

\* What every step keeps or promises.
SwitchStep == SwitchInv' /\ Switch!RequestKept /\ Switch!RequestTried

\* Waiters add neither an update nor a prompt to what is on the wire.
LEMMA WaitersKeep ==
  ASSUME SwitchInv, NEW w \in Seq(Entry), InOrderOn(w)
  PROVE  /\ Switch!WithWaiters(w) \in Seq(Entry) /\ InOrderOn(Switch!WithWaiters(w))
         /\ NoUpdate(w) => NoUpdate(Switch!WithWaiters(w))
         /\ NoPrompt(w) => NoPrompt(Switch!WithWaiters(w))
  <1>1. PICK v : v = Switch!WithWaiters(w)
    OBVIOUS
  <1>2. /\ v \in Seq(Entry) /\ InOrderOn(v)
        /\ \A i \in DOMAIN v : v[i].by \in Picks \/ (i \in DOMAIN w /\ v[i] = w[i])
    BY <1>1, WaitersOn DEF SwitchInv
  <1> QED
    BY <1>1, <1>2, PicksFacts DEF NoUpdate, NoPrompt

LEMMA ChoicesSent ==
  ASSUME SwitchInv, choice' = [u \in Picks |-> Switch!ChoiceSent(u)]
  PROVE  choice' \in [Picks -> [pc : {"idle", "waiting", "sent", "done"}, folder : Switch!AnyFolder]]
  <1>1. choice \in [Picks -> [pc : {"idle", "waiting", "sent", "done"}, folder : Switch!AnyFolder]]
    BY DEF SwitchInv, Switch!TypeOK
  <1>2. ASSUME NEW u \in Picks
        PROVE  Switch!ChoiceSent(u) \in [pc : {"idle", "waiting", "sent", "done"}, folder : Switch!AnyFolder]
    BY <1>1 DEF Switch!ChoiceSent
  <1> QED
    BY <1>2

\* The types of what a step leaves alone.
LEMMA SwitchTypes ==
  ASSUME SwitchInv,
         running' \in BOOLEAN, dirty' \in BOOLEAN, pending' \in Switch!Request \cup {None},
         op' \in Update \cup {None}, draining' \in Commands \cup {None}, intent' \in Nat,
         shown' \in Switch!AnyFolder, cwd' \in Switch!AnyFolder, wire' \in Seq(Entry),
         prompt' \in [pc : {"none", "barrier", "hydrating", "hydrated", "sent", "turn"},
                      folder : Switch!AnyFolder],
         command' \in [Commands -> [pc : {"idle", "attaching", "applying", "queued", "applied", "failed"},
                                    folder : Switch!AnyFolder, generation : Nat, attached : BOOLEAN]],
         choice' \in [Picks -> [pc : {"idle", "waiting", "sent", "done"}, folder : Switch!AnyFolder]]
  PROVE  Switch!TypeOK'
  BY DEF Switch!TypeOK, Update, Entry

LEMMA SwitchTyped ==
  ASSUME SwitchInv
  PROVE  /\ running \in BOOLEAN /\ dirty \in BOOLEAN /\ pending \in Switch!Request \cup {None}
         /\ op \in Update \cup {None} /\ draining \in Commands \cup {None} /\ intent \in Nat
         /\ shown \in Switch!AnyFolder /\ cwd \in Switch!AnyFolder /\ wire \in Seq(Entry)
         /\ prompt \in [pc : {"none", "barrier", "hydrating", "hydrated", "sent", "turn"},
                        folder : Switch!AnyFolder]
         /\ command \in [Commands -> [pc : {"idle", "attaching", "applying", "queued", "applied", "failed"},
                                      folder : Switch!AnyFolder, generation : Nat, attached : BOOLEAN]]
         /\ choice \in [Picks -> [pc : {"idle", "waiting", "sent", "done"}, folder : Switch!AnyFolder]]
  BY DEF SwitchInv, Switch!TypeOK, Update, Entry

\* A command that fails, is queued or applied.
LEMMA CommandMoves ==
  ASSUME SwitchInv, NEW w \in Commands, command[w].pc # "idle",
         NEW pc \in {"applying", "queued", "failed"},
         command' = [command EXCEPT ![w].pc = pc], intent' = intent
  PROVE  /\ Steady
         /\ command' \in [Commands -> [pc : {"idle", "attaching", "applying", "queued", "applied", "failed"},
                                       folder : Switch!AnyFolder, generation : Nat, attached : BOOLEAN]]
         /\ command'[w].pc = pc /\ command'[w].folder = command[w].folder
         /\ \A v \in Commands : v # w => command'[v] = command[v]
  <1>1. PICK n : n = [command[w] EXCEPT !.pc = pc]
    OBVIOUS
  <1>2. /\ n \in [pc : {"idle", "attaching", "applying", "queued", "applied", "failed"},
                  folder : Switch!AnyFolder, generation : Nat, attached : BOOLEAN]
        /\ n.pc = pc /\ n.folder = command[w].folder /\ n.generation = command[w].generation
    BY <1>1, SwitchTyped
  <1>3. command' = [command EXCEPT ![w] = n]
    BY <1>1, SwitchTyped
  <1>4. command' \in [Commands -> [pc : {"idle", "attaching", "applying", "queued", "applied", "failed"},
                                   folder : Switch!AnyFolder, generation : Nat, attached : BOOLEAN]]
    BY <1>2, <1>3, SwitchTyped
  <1>5. command'[w] = n /\ \A v \in Commands : v # w => command'[v] = command[v]
    BY <1>3, SwitchTyped
  <1>6. Steady
    BY <1>2, <1>5, SwitchTyped DEF Steady
  <1> QED
    BY <1>2, <1>4, <1>5, <1>6

LEMMA ClaimKeeps ==
  ASSUME SwitchInv, NEW w \in Commands, Switch!Claim(w)
  PROVE  SwitchStep
  <1>1. /\ command[w].pc = "idle" /\ intent' = intent + 1
        /\ UNCHANGED <<running, pending, op, draining, dirty, shown, cwd, wire, prompt, choice>>
    BY DEF Switch!Claim
  <1>2. PICK f \in Folders, attached \in BOOLEAN :
          command' = [command EXCEPT ![w] = [pc |-> "attaching", folder |-> f,
                                             generation |-> intent', attached |-> attached]]
    BY DEF Switch!Claim
  <1>3. PICK n : n = [pc |-> "attaching", folder |-> f, generation |-> intent + 1, attached |-> attached]
    OBVIOUS
  <1>4. /\ n \in [pc : {"idle", "attaching", "applying", "queued", "applied", "failed"},
                  folder : Switch!AnyFolder, generation : Nat, attached : BOOLEAN]
        /\ n.pc = "attaching" /\ n.generation = intent + 1 /\ n.folder \in Folders
    BY <1>3, SwitchTyped DEF Switch!AnyFolder
  <1>5. command' = [command EXCEPT ![w] = n]
    BY <1>1, <1>2, <1>3
  <1>6. Switch!TypeOK'
    BY <1>1, <1>4, <1>5, SwitchTyped, SwitchTypes
  <1>7. command'[w] = n /\ \A v \in Commands : v # w => command'[v] = command[v]
    BY <1>5, SwitchTyped
  <1>8. RequestInv'
    <2>1. /\ pending # None => pending.id \in Commands /\ pending.id # w
          /\ op # None => op.request.id \in Commands /\ op.request.id # w
      BY <1>1, SwitchFacts, RequestsFacts DEF SwitchInv, RequestInv, Genuine
    <2> QED
      BY <1>1, <1>7, <2>1 DEF SwitchInv, RequestInv, Genuine
  <1>9. AttachInv'
    BY <1>1, <1>4, <1>7, SwitchFacts DEF SwitchInv, AttachInv
  <1>10. WireInv' /\ BarrierInv'
    BY <1>1 DEF SwitchInv, WireInv, BarrierInv
  <1>11. Switch!RequestKept /\ Switch!RequestTried
    BY <1>1 DEF Switch!RequestKept, Switch!RequestTried, Switch!Attempting
  <1> QED
    BY <1>6, <1>8, <1>9, <1>10, <1>11 DEF SwitchInv, SwitchStep

LEMMA AttachedKeeps ==
  ASSUME SwitchInv, NEW w \in Commands, Switch!Attached(w)
  PROVE  SwitchStep
  <1>1. /\ command[w].pc = "attaching" /\ dirty' = (pending' # pending)
        /\ UNCHANGED <<running, draining, intent, shown, cwd, wire, prompt, choice>>
    BY DEF Switch!Attached
  <1>2. PICK request : request = [id |-> w, folder |-> command[w].folder]
    OBVIOUS
  <1>3. pending # None => pending.id \in Commands /\ pending.id # w
    BY <1>1, SwitchFacts, RequestsFacts DEF SwitchInv, RequestInv, Genuine
  <1>4. CASE ~Switch!Newest(w)
    <2>1. /\ command' = [command EXCEPT ![w].pc = "failed"] /\ op' = op
          /\ pending' = IF running THEN pending ELSE None
      BY <1>4 DEF Switch!Attached
    <2>2. /\ Steady /\ command'[w].pc = "failed"
          /\ command' \in [Commands -> [pc : {"idle", "attaching", "applying", "queued", "applied", "failed"},
                                        folder : Switch!AnyFolder, generation : Nat, attached : BOOLEAN]]
      BY <1>1, <2>1, CommandMoves
    <2>3. Switch!TypeOK'
      BY <1>1, <2>1, <2>2, SwitchTyped, SwitchTypes
    <2>4. RequestInv' /\ AttachInv'
      BY <1>1, <2>1, <2>2, PendingStep DEF SwitchInv, RequestInv
    <2>5. WireInv' /\ BarrierInv'
      BY <1>1, <2>1 DEF SwitchInv, WireInv, BarrierInv
    <2>6. Switch!RequestKept
      BY <1>1, <2>2 DEF Switch!RequestKept, Switch!ClearedByStale
    <2>7. Switch!RequestTried
      BY <1>1, <2>1 DEF Switch!RequestTried, Switch!Attempting
    <2> QED
      BY <2>3, <2>4, <2>5, <2>6, <2>7 DEF SwitchInv, SwitchStep
  <1>5. CASE Switch!Newest(w)
    <2>1. PICK pc \in {"applying", "queued"} : pc = IF running THEN "queued" ELSE "applying"
      OBVIOUS
    <2>2. PICK joined : joined = Switch!Joined(request, FALSE)
      OBVIOUS
    <2>3. /\ command' = [command EXCEPT ![w].pc = pc] /\ pending' = request
          /\ op' = IF running THEN op ELSE joined
      BY <1>2, <1>5, <2>1, <2>2 DEF Switch!Attached
    <2>4. /\ Steady /\ command'[w].pc = pc /\ command'[w].folder = command[w].folder
          /\ command' \in [Commands -> [pc : {"idle", "attaching", "applying", "queued", "applied", "failed"},
                                        folder : Switch!AnyFolder, generation : Nat, attached : BOOLEAN]]
      BY <1>1, <2>3, CommandMoves
    <2>5. /\ request \in Switch!Request /\ request # None /\ request.id = w
          /\ request.folder = command[w].folder
      <3>1. command[w].folder \in Folders
        BY <1>1 DEF SwitchInv, AttachInv
      <3> QED
        BY <1>2, <3>1, RequestsFacts DEF Switch!Request
    <2>6. /\ joined \in Update /\ joined # None
          /\ op # None => joined.request = op.request /\ joined.phase = op.phase
          /\ op = None => joined.request = request /\ joined.phase = "checking"
          /\ joined.allowRunning => op # None /\ op.allowRunning
      <3>1. joined = IF op # None THEN [op EXCEPT !.allowRunning = @ \/ FALSE]
                     ELSE Switch!Started(request, FALSE)
        BY <2>2 DEF Switch!Joined
      <3> QED
        BY <2>5, <3>1, JoinedFacts
    <2>7. Switch!TypeOK'
      BY <1>1, <2>3, <2>4, <2>5, <2>6, SwitchTyped, SwitchTypes
    <2>8. RequestInv' /\ AttachInv'
      <3>1. Genuine(pending)'
        BY <2>3, <2>4, <2>5, <2>1 DEF Genuine
      <3>2. op' # None => \/ op # None /\ op'.request = op.request
                          \/ pending' # None /\ op'.request = pending'
        BY <2>3, <2>5, <2>6
      <3>3. draining' # None => op' # None
        BY <1>1, <2>3, <2>6 DEF SwitchInv, RequestInv
      <3> QED
        BY <2>4, <3>1, <3>2, <3>3, PendingStep
    <2>9. WireInv'
      BY <1>1, <2>3, <2>6, WireStays
    <2>10. BarrierInv'
      BY <1>1, <2>3, <2>6 DEF SwitchInv, BarrierInv
    <2>11. Switch!RequestKept
      <3> SUFFICES ASSUME pending # None PROVE intent > command[pending.id].generation
        BY DEF Switch!RequestKept
      <3>1. /\ command[pending.id].generation <= intent
            /\ command[pending.id].generation # command[w].generation
            /\ command[w].generation = intent
        BY <1>1, <1>3, <1>5 DEF SwitchInv, AttachInv, Switch!Newest
      <3> QED
        BY <1>3, <3>1, SwitchFacts
    <2>12. Switch!RequestTried
      BY <1>1, <2>3, <2>6 DEF Switch!RequestTried, Switch!Attempting
    <2> QED
      BY <2>7, <2>8, <2>9, <2>10, <2>11, <2>12 DEF SwitchInv, SwitchStep
  <1> QED
    BY <1>4, <1>5

LEMMA AttachFailsKeeps ==
  ASSUME SwitchInv, NEW w \in Commands, Switch!AttachFails(w)
  PROVE  SwitchStep
  <1>1. /\ command[w].pc = "attaching" /\ command' = [command EXCEPT ![w].pc = "failed"]
        /\ UNCHANGED <<running, pending, op, draining, dirty, intent, shown, cwd, wire, prompt, choice>>
    BY DEF Switch!AttachFails
  <1>2. /\ Steady
        /\ command' \in [Commands -> [pc : {"idle", "attaching", "applying", "queued", "applied", "failed"},
                                      folder : Switch!AnyFolder, generation : Nat, attached : BOOLEAN]]
    BY <1>1, CommandMoves
  <1>3. Switch!TypeOK'
    BY <1>1, <1>2, SwitchTyped, SwitchTypes
  <1>4. RequestInv' /\ AttachInv'
    BY <1>1, <1>2, PendingStep DEF SwitchInv, RequestInv
  <1>5. WireInv' /\ BarrierInv'
    BY <1>1 DEF SwitchInv, WireInv, BarrierInv
  <1>6. Switch!RequestKept /\ Switch!RequestTried
    BY <1>1 DEF Switch!RequestKept, Switch!RequestTried, Switch!Attempting
  <1> QED
    BY <1>3, <1>4, <1>5, <1>6 DEF SwitchInv, SwitchStep

\* A message of a pick is put on the wire, or none.
LEMMA WireOfPick ==
  ASSUME SwitchInv, NEW u \in Picks, NEW f \in Switch!AnyFolder,
         wire' \in {wire, Append(wire, [by |-> u, folder |-> f])}
  PROVE  /\ wire' \in Seq(Entry) /\ InOrderOn(wire')
         /\ SentFor(wire', op, prompt.pc)
  <1>1. PICK e : e = [by |-> u, folder |-> f]
    OBVIOUS
  <1>2. e \in Entry /\ e.by # "op" /\ e.by # "prompt"
    BY <1>1, PicksFacts DEF Entry
  <1>3. PICK w, update, pc : w = wire /\ update = op /\ pc = prompt.pc
    OBVIOUS
  <1>4. w \in Seq(Entry) /\ InOrderOn(w) /\ SentFor(w, update, pc)
    BY <1>3, SwitchFacts
  <1>5. /\ Append(w, e) \in Seq(Entry) /\ InOrderOn(Append(w, e))
        /\ SentFor(Append(w, e), update, pc)
    BY <1>2, <1>4, AppendEntries, AppendSentFor
  <1> QED
    BY <1>1, <1>3, <1>4, <1>5

LEMMA ChooseKeeps ==
  ASSUME SwitchInv, NEW u \in Picks, Switch!Choose(u)
  PROVE  SwitchStep
  <1>1. /\ intent' = intent + 1 /\ pending' = None /\ dirty' = (pending # None)
        /\ UNCHANGED <<running, op, draining, shown, cwd, prompt, command>>
    BY DEF Switch!Choose
  <1>2. PICK f \in Folders :
          /\ choice' = [choice EXCEPT ![u] = [pc |-> IF op = None THEN "sent" ELSE "waiting", folder |-> f]]
          /\ wire' = IF op = None THEN Append(wire, [by |-> u, folder |-> f]) ELSE wire
    BY DEF Switch!Choose, Switch!Send
  <1>3. f \in Switch!AnyFolder
    BY DEF Switch!AnyFolder
  <1>4. wire' \in Seq(Entry) /\ InOrderOn(wire') /\ SentFor(wire', op, prompt.pc)
    BY <1>2, <1>3, WireOfPick
  <1>5. choice' \in [Picks -> [pc : {"idle", "waiting", "sent", "done"}, folder : Switch!AnyFolder]]
    <2>1. PICK pc \in {"sent", "waiting"} : pc = IF op = None THEN "sent" ELSE "waiting"
      OBVIOUS
    <2>2. PICK n : n = [pc |-> pc, folder |-> f]
      OBVIOUS
    <2>3. n \in [pc : {"idle", "waiting", "sent", "done"}, folder : Switch!AnyFolder]
      BY <1>3, <2>2
    <2>4. choice' = [choice EXCEPT ![u] = n]
      BY <1>2, <2>1, <2>2
    <2> QED
      BY <2>3, <2>4, SwitchTyped
  <1>6. Switch!TypeOK'
    BY <1>1, <1>4, <1>5, SwitchTyped, SwitchTypes
  <1>7. RequestInv' /\ AttachInv'
    <2>1. Steady
      BY <1>1, SwitchTyped DEF Steady
    <2> QED
      BY <1>1, <2>1, PendingStep DEF SwitchInv, RequestInv
  <1>8. WireInv' /\ BarrierInv'
    BY <1>1, <1>4 DEF SwitchInv, WireInv, BarrierInv
  <1>9. Switch!RequestKept /\ Switch!RequestTried
    BY <1>1, SwitchTyped DEF Switch!RequestKept, Switch!RequestTried
  <1> QED
    BY <1>6, <1>7, <1>8, <1>9 DEF SwitchInv, SwitchStep

LEMMA DrainKeepsSwitch ==
  ASSUME SwitchInv, Switch!Drain
  PROVE  SwitchStep
  <1>1. /\ dirty /\ dirty' = FALSE
        /\ UNCHANGED <<running, pending, intent, shown, cwd, wire, prompt, command, choice>>
    BY DEF Switch!Drain
  <1>2. Steady
    BY <1>1, SwitchTyped DEF Steady
  <1>3. CASE Switch!Drainable
    <2>1. /\ draining' = pending.id /\ op' = Switch!Joined(pending, FALSE) /\ pending # None
      BY <1>3 DEF Switch!Drain, Switch!Drainable
    <2>2. PICK request, joined : request \in Switch!Request /\ request = pending /\ joined = op'
      BY <2>1, SwitchFacts
    <2>9. request \in Switch!Request
      BY <2>2
    <2>3. /\ joined \in Update /\ joined # None
          /\ op # None => joined.request = op.request /\ joined.phase = op.phase
          /\ op = None => joined.request = request /\ joined.phase = "checking"
          /\ joined.allowRunning => op # None /\ op.allowRunning
      <3>1. joined = IF op # None THEN [op EXCEPT !.allowRunning = @ \/ FALSE]
                     ELSE Switch!Started(request, FALSE)
        BY <2>1, <2>2 DEF Switch!Joined
      <3> QED
        BY <2>9, <3>1, JoinedFacts
    <2>4. Switch!TypeOK'
      BY <1>1, <2>1, <2>2, <2>3, RequestsFacts, SwitchTyped, SwitchTypes
    <2>5. RequestInv' /\ AttachInv'
      BY <1>1, <1>2, <2>1, <2>2, <2>3, PendingStep
    <2>6. WireInv'
      BY <1>1, <2>2, <2>3, WireStays
    <2>7. BarrierInv'
      BY <1>1, <2>2, <2>3 DEF SwitchInv, BarrierInv
    <2>8. Switch!RequestKept /\ Switch!RequestTried
      BY <1>1, <2>2, <2>3 DEF Switch!RequestKept, Switch!RequestTried, Switch!Attempting
    <2> QED
      BY <2>4, <2>5, <2>6, <2>7, <2>8 DEF SwitchInv, SwitchStep
  <1>4. CASE ~Switch!Drainable
    <2>1. UNCHANGED <<draining, op>>
      BY <1>4 DEF Switch!Drain
    <2>2. Switch!TypeOK'
      BY <1>1, <2>1, SwitchTyped, SwitchTypes
    <2>3. RequestInv' /\ AttachInv'
      BY <1>1, <1>2, <2>1, PendingStep DEF SwitchInv, RequestInv
    <2>4. WireInv' /\ BarrierInv'
      BY <1>1, <2>1 DEF SwitchInv, WireInv, BarrierInv
    <2>5. Switch!RequestKept /\ Switch!RequestTried
      BY <1>1, <1>4, <2>1 DEF Switch!RequestKept, Switch!RequestTried, Switch!Attempting, Switch!Drainable,
         SwitchInv, RequestInv
    <2> QED
      BY <2>2, <2>3, <2>4, <2>5 DEF SwitchInv, SwitchStep
  <1> QED
    BY <1>3, <1>4

\* What is on the wire when an update is over: no update, and a prompt only if it was sent.
LEMMA FinishKeeps ==
  ASSUME SwitchInv, op # None, NEW w \in Seq(Entry), InOrderOn(w), NoUpdate(w),
         prompt.pc # "sent" => NoPrompt(w),
         NEW folder \in Switch!AnyFolder \cup {None}, Switch!Finish(w, folder),
         shown' \in Switch!AnyFolder, cwd' \in Switch!AnyFolder,
         pending # None => shown' = pending.folder
  PROVE  SwitchStep
  <1>1. /\ op' = None /\ pending' = None /\ draining' = None /\ dirty' = TRUE
        /\ running' = running /\ intent' = intent
        /\ command' = [v \in Commands |->
             IF command[v].pc # "applying" THEN command[v]
             ELSE [command[v] EXCEPT !.pc =
                    IF folder = command[v].folder /\ Switch!Newest(v) THEN "applied" ELSE "failed"]]
        /\ choice' = [u \in Picks |-> Switch!ChoiceSent(u)]
    BY DEF Switch!Finish
  <1>2. PICK to : to = Switch!PromptFolder(folder)
    OBVIOUS
  <1>3. to \in Switch!AnyFolder
    BY <1>2 DEF Switch!PromptFolder
  <1>4. /\ wire' = Switch!WithWaiters(IF prompt.pc = "barrier" THEN Append(w, Switch!PromptTo(to)) ELSE w)
        /\ prompt' = IF prompt.pc = "barrier" THEN [pc |-> "sent", folder |-> to]
                     ELSE IF prompt.pc = "hydrating" THEN [prompt EXCEPT !.pc = "hydrated"] ELSE prompt
    BY <1>2 DEF Switch!Finish
  <1>5. /\ Steady
        /\ command' \in [Commands -> [pc : {"idle", "attaching", "applying", "queued", "applied", "failed"},
                                      folder : Switch!AnyFolder, generation : Nat, attached : BOOLEAN]]
    <2>1. \A v \in Commands :
            /\ command'[v] \in [pc : {"idle", "attaching", "applying", "queued", "applied", "failed"},
                                folder : Switch!AnyFolder, generation : Nat, attached : BOOLEAN]
            /\ command'[v].folder = command[v].folder /\ command'[v].generation = command[v].generation
            /\ command'[v].pc = "attaching" => command[v].pc = "attaching"
            /\ command'[v].pc = "idle" <=> command[v].pc = "idle"
      <3> SUFFICES ASSUME NEW v \in Commands
                   PROVE  /\ command'[v] \in [pc : {"idle", "attaching", "applying", "queued", "applied", "failed"},
                                              folder : Switch!AnyFolder, generation : Nat, attached : BOOLEAN]
                          /\ command'[v].folder = command[v].folder
                          /\ command'[v].generation = command[v].generation
                          /\ command'[v].pc = "attaching" => command[v].pc = "attaching"
                          /\ command'[v].pc = "idle" <=> command[v].pc = "idle"
        OBVIOUS
      <3>1. PICK pc \in {"applied", "failed"} :
              pc = IF folder = command[v].folder /\ Switch!Newest(v) THEN "applied" ELSE "failed"
        OBVIOUS
      <3>2. command'[v] = IF command[v].pc # "applying" THEN command[v] ELSE [command[v] EXCEPT !.pc = pc]
        BY <1>1, <3>1
      <3> QED
        BY <3>2, SwitchTyped
    <2>2. command' = [v \in Commands |-> command'[v]]
      BY <1>1
    <2>3. Steady
      BY <1>1, <2>1, SwitchTyped DEF Steady
    <2> QED
      BY <2>1, <2>2, <2>3
  <1>6. choice' \in [Picks -> [pc : {"idle", "waiting", "sent", "done"}, folder : Switch!AnyFolder]]
    BY <1>1, ChoicesSent
  <1>7. /\ wire' \in Seq(Entry) /\ InOrderOn(wire') /\ NoUpdate(wire')
        /\ prompt'.pc # "sent" => NoPrompt(wire')
        /\ prompt' \in [pc : {"none", "barrier", "hydrating", "hydrated", "sent", "turn"},
                        folder : Switch!AnyFolder]
        /\ prompt'.pc \in {"barrier", "sent", "turn"} => running
        /\ prompt'.pc # "barrier"
    <2>1. CASE prompt.pc = "barrier"
      <3>1. PICK e : e = Switch!PromptTo(to)
        OBVIOUS
      <3>2. e \in Entry /\ e.by = "prompt"
        BY <1>3, <3>1 DEF Switch!PromptTo, Entry
      <3>3. PICK x : x = Append(w, e)
        OBVIOUS
      <3>4. x \in Seq(Entry) /\ InOrderOn(x) /\ NoUpdate(x)
        <4>1. NoPrompt(w)
          BY <2>1
        <4>2. /\ x \in Seq(Entry) /\ InOrderOn(x)
              /\ \A i \in DOMAIN x : x[i] = e \/ (i \in DOMAIN w /\ x[i] = w[i])
          BY <3>2, <3>3, <4>1, AppendEntries
        <4> QED
          BY <3>2, <4>2 DEF NoUpdate
      <3>5. wire' = Switch!WithWaiters(x) /\ prompt' = [pc |-> "sent", folder |-> to]
        BY <1>4, <2>1, <3>1, <3>3
      <3>6. wire' \in Seq(Entry) /\ InOrderOn(wire') /\ NoUpdate(wire')
        BY <3>4, <3>5, WaitersKeep
      <3>7. running
        BY <2>1 DEF SwitchInv, BarrierInv
      <3> QED
        BY <1>3, <3>5, <3>6, <3>7
    <2>2. CASE prompt.pc # "barrier"
      <3>1. wire' = Switch!WithWaiters(w)
        BY <1>4, <2>2
      <3>2. /\ wire' \in Seq(Entry) /\ InOrderOn(wire') /\ NoUpdate(wire')
            /\ prompt.pc # "sent" => NoPrompt(wire')
        BY <3>1, WaitersKeep
      <3>3. /\ prompt' \in [pc : {"none", "barrier", "hydrating", "hydrated", "sent", "turn"},
                            folder : Switch!AnyFolder]
            /\ prompt'.pc = IF prompt.pc = "hydrating" THEN "hydrated" ELSE prompt.pc
        BY <1>4, <2>2, SwitchTyped
      <3>4. prompt.pc \in {"sent", "turn"} => running
        BY DEF SwitchInv, BarrierInv
      <3> QED
        BY <2>2, <3>2, <3>3, <3>4
    <2> QED
      BY <2>1, <2>2
  <1>8. Switch!TypeOK'
    BY <1>1, <1>5, <1>6, <1>7, SwitchTyped, SwitchTypes
  <1>9. RequestInv' /\ AttachInv'
    BY <1>1, <1>5, PendingStep
  <1>10. WireInv'
    BY <1>7 DEF WireInv, SentFor, NoUpdate, NoPrompt
  <1>11. BarrierInv'
    BY <1>1, <1>7 DEF BarrierInv
  <1>12. Switch!RequestKept /\ Switch!RequestTried
    BY <1>1 DEF Switch!RequestKept, Switch!RequestTried
  <1> QED
    BY <1>8, <1>9, <1>10, <1>11, <1>12 DEF SwitchInv, SwitchStep

LEMMA AbortKeeps ==
  ASSUME SwitchInv, op # None, NEW w \in Seq(Entry), InOrderOn(w), NoUpdate(w),
         prompt.pc # "sent" => NoPrompt(w), Switch!Abort(w)
  PROVE  SwitchStep
  <1>1. /\ op' = None /\ draining' = None /\ UNCHANGED <<intent, shown, cwd>>
        /\ pending' = IF Switch!Withdrawn THEN None ELSE pending
        /\ command' = [v \in Commands |->
             IF command[v].pc = "applying" THEN [command[v] EXCEPT !.pc = "failed"] ELSE command[v]]
        /\ choice' = [u \in Picks |-> Switch!ChoiceSent(u)]
        /\ wire' = Switch!WithWaiters(w)
        /\ running' = IF prompt.pc = "barrier" THEN FALSE ELSE running
        /\ prompt' = IF prompt.pc \in {"barrier", "hydrating"} THEN [prompt EXCEPT !.pc = "none"] ELSE prompt
        /\ dirty' \in BOOLEAN
    BY DEF Switch!Abort
  <1>2. /\ \A v \in Commands : command[v].pc = "applying" => command'[v].pc = "failed"
        /\ Steady
        /\ command' \in [Commands -> [pc : {"idle", "attaching", "applying", "queued", "applied", "failed"},
                                      folder : Switch!AnyFolder, generation : Nat, attached : BOOLEAN]]
    <2>1. \A v \in Commands :
            /\ command'[v] \in [pc : {"idle", "attaching", "applying", "queued", "applied", "failed"},
                                folder : Switch!AnyFolder, generation : Nat, attached : BOOLEAN]
            /\ command'[v].folder = command[v].folder /\ command'[v].generation = command[v].generation
            /\ command'[v].pc = IF command[v].pc = "applying" THEN "failed" ELSE command[v].pc
      BY <1>1, SwitchTyped
    <2>2. command' = [v \in Commands |-> command'[v]]
      BY <1>1
    <2>3. Steady
      BY <1>1, <2>1, SwitchTyped DEF Steady
    <2> QED
      BY <2>1, <2>2, <2>3
  <1>3. choice' \in [Picks -> [pc : {"idle", "waiting", "sent", "done"}, folder : Switch!AnyFolder]]
    BY <1>1, ChoicesSent
  <1>4. /\ wire' \in Seq(Entry) /\ InOrderOn(wire') /\ NoUpdate(wire')
        /\ prompt.pc # "sent" => NoPrompt(wire')
    BY <1>1, WaitersKeep
  <1>5. /\ prompt' \in [pc : {"none", "barrier", "hydrating", "hydrated", "sent", "turn"},
                        folder : Switch!AnyFolder]
        /\ prompt'.pc = IF prompt.pc \in {"barrier", "hydrating"} THEN "none" ELSE prompt.pc
    BY <1>1, SwitchTyped
  <1>6. Switch!TypeOK'
    BY <1>1, <1>2, <1>3, <1>4, <1>5, SwitchTyped, SwitchTypes
  <1>7. RequestInv' /\ AttachInv'
    BY <1>1, <1>2, PendingStep
  <1>8. WireInv'
    BY <1>1, <1>4, <1>5 DEF WireInv, SentFor, NoUpdate, NoPrompt
  <1>9. BarrierInv'
    BY <1>1, <1>5 DEF SwitchInv, BarrierInv
  <1>10. Switch!RequestKept
    <2> SUFFICES ASSUME pending # None, Switch!Withdrawn PROVE command'[pending.id].pc = "failed"
      BY <1>1 DEF Switch!RequestKept
    <2> QED
      BY <1>2, SwitchFacts, RequestsFacts DEF Switch!Withdrawn
  <1>11. Switch!RequestTried
    BY DEF Switch!RequestTried
  <1> QED
    BY <1>6, <1>7, <1>8, <1>9, <1>10, <1>11 DEF SwitchInv, SwitchStep

LEMMA CheckedKeeps ==
  ASSUME SwitchInv, Switch!Checked
  PROVE  SwitchStep
  <1>1. /\ op # None /\ op.phase = "checking" /\ op' = [op EXCEPT !.phase = "updating"]
        /\ wire' = Append(wire, [by |-> "op", folder |-> op.request.folder])
        /\ op.allowRunning \/ ~running
        /\ UNCHANGED <<running, pending, draining, dirty, intent, shown, cwd, prompt, command, choice>>
    BY DEF Switch!Checked, Switch!Send, Switch!MayUpdate
  <1>2. PICK n : n = [op EXCEPT !.phase = "updating"]
    OBVIOUS
  <1>3. /\ op' = n /\ n \in Update /\ n # None /\ n.phase = "updating" /\ n.request = op.request
        /\ n.allowRunning = op.allowRunning
    <2>1. op \in Update
      BY <1>1, SwitchFacts
    <2>2. /\ n \in Update /\ n.phase = "updating" /\ n.request = op.request
          /\ n.allowRunning = op.allowRunning
      BY <1>2, <2>1 DEF Update
    <2> QED
      BY <1>1, <1>2, <2>2, RequestsFacts
  <1>4. PICK e : e = [by |-> "op", folder |-> op.request.folder]
    OBVIOUS
  <1>5. e \in Entry /\ e.by = "op" /\ e.folder = n.request.folder
    BY <1>1, <1>3, <1>4, SwitchFacts, RequestsFacts DEF Entry
  <1>6. prompt.pc \notin {"sent", "turn"}
    BY <1>1 DEF SwitchInv, BarrierInv
  <1>7. /\ wire \in Seq(Entry) /\ InOrderOn(wire) /\ NoUpdate(wire) /\ NoPrompt(wire)
        /\ wire' = Append(wire, e)
    BY <1>1, <1>4, <1>6, SwitchFacts
  <1>8. /\ wire' \in Seq(Entry) /\ InOrderOn(wire')
        /\ \A i \in DOMAIN wire' : wire'[i] = e \/ (i \in DOMAIN wire /\ wire'[i] = wire[i])
    <2>1. PICK w : w = wire
      OBVIOUS
    <2> QED
      BY <1>5, <1>7, <2>1, AppendEntries
  <1>9. WireInv'
    BY <1>1, <1>3, <1>5, <1>6, <1>7, <1>8 DEF WireInv, SentFor, NoPrompt, NoUpdate
  <1>10. Switch!TypeOK'
    BY <1>1, <1>3, <1>8, SwitchTyped, SwitchTypes
  <1>11. Steady
    BY <1>1, SwitchTyped DEF Steady
  <1>12. RequestInv' /\ AttachInv'
    BY <1>1, <1>3, <1>11, PendingStep
  <1>13. BarrierInv'
    BY <1>1, <1>3 DEF SwitchInv, BarrierInv
  <1>14. Switch!RequestKept /\ Switch!RequestTried
    BY <1>1 DEF Switch!RequestKept, Switch!RequestTried
  <1> QED
    BY <1>9, <1>10, <1>12, <1>13, <1>14 DEF SwitchInv, SwitchStep

\* The update at the head of the wire: it is the shared one, and the last.
LEMMA UpdateFacts ==
  ASSUME SwitchInv, wire # <<>>, Head(wire).by = "op"
  PROVE  /\ op \in Update /\ op # None /\ op.phase = "updating"
         /\ Head(wire).folder = op.request.folder /\ Head(wire).folder \in Switch!AnyFolder
         /\ Tail(wire) \in Seq(Entry) /\ InOrderOn(Tail(wire)) /\ NoUpdate(Tail(wire))
         /\ prompt.pc # "turn"
         /\ prompt.pc # "sent" => NoPrompt(Tail(wire))
  <1>1. PICK w : w = wire
    OBVIOUS
  <1>2. w \in Seq(Entry) /\ w # <<>> /\ InOrderOn(w) /\ Head(w).by = "op" /\ SentFor(w, op, prompt.pc)
    BY <1>1, SwitchFacts
  <1>3. /\ Tail(w) \in Seq(Entry) /\ Head(w) \in Entry /\ 1 \in DOMAIN w /\ Head(w) = w[1]
        /\ InOrderOn(Tail(w)) /\ NoUpdate(Tail(w))
    BY <1>2, TailEntries
  <1>4. /\ op # None /\ op.phase = "updating" /\ Head(w).folder = op.request.folder
        /\ prompt.pc # "turn"
    BY <1>2, <1>3 DEF SentFor
  <1>5. prompt.pc # "sent" => NoPrompt(Tail(w))
    <2>1. SentFor(Tail(w), op, prompt.pc)
      BY <1>2, TailEntries
    <2> QED
      BY <2>1 DEF SentFor, NoPrompt
  <1>6. Head(w).folder \in Switch!AnyFolder
    BY <1>3, EntryFacts
  <1> QED
    BY <1>1, <1>3, <1>4, <1>5, <1>6, SwitchFacts

LEMMA CheckFailsKeeps ==
  ASSUME SwitchInv, Switch!CheckFails
  PROVE  SwitchStep
  <1>1. op # None /\ op.phase = "checking" /\ Switch!Abort(wire)
    BY DEF Switch!CheckFails
  <1>2. /\ wire \in Seq(Entry) /\ InOrderOn(wire) /\ NoUpdate(wire)
        /\ prompt.pc # "sent" => NoPrompt(wire)
    BY <1>1, SwitchFacts
  <1> QED
    BY <1>1, <1>2, AbortKeeps

LEMMA OpFailsKeeps ==
  ASSUME SwitchInv, Switch!OpFails
  PROVE  SwitchStep
  <1>1. wire # <<>> /\ Head(wire).by = "op" /\ Switch!Abort(Tail(wire))
    BY DEF Switch!OpFails
  <1>2. /\ op # None
        /\ Tail(wire) \in Seq(Entry) /\ InOrderOn(Tail(wire)) /\ NoUpdate(Tail(wire))
        /\ prompt.pc # "sent" => NoPrompt(Tail(wire))
    BY <1>1, UpdateFacts
  <1> QED
    BY <1>1, <1>2, AbortKeeps

LEMMA OpHandledKeeps ==
  ASSUME SwitchInv, Switch!OpHandled
  PROVE  SwitchStep
  <1>1. /\ wire # <<>> /\ Head(wire).by = "op"
        /\ cwd' = Head(wire).folder /\ shown' = Head(wire).folder
    BY DEF Switch!OpHandled
  <1>2. /\ op \in Update /\ op # None /\ op.phase = "updating"
        /\ Head(wire).folder = op.request.folder /\ Head(wire).folder \in Switch!AnyFolder
        /\ Tail(wire) \in Seq(Entry) /\ InOrderOn(Tail(wire)) /\ NoUpdate(Tail(wire))
        /\ prompt.pc # "turn"
        /\ prompt.pc # "sent" => NoPrompt(Tail(wire))
    BY <1>1, UpdateFacts
  <1>3. CASE Switch!FollowUp
    <2>1. /\ op' = [op EXCEPT !.phase = "checking", !.request = pending]
          /\ wire' = Tail(wire) /\ dirty' = TRUE
          /\ UNCHANGED <<running, pending, draining, intent, prompt, command, choice>>
      BY <1>3 DEF Switch!OpHandled
    <2>2. pending # None /\ pending \in Switch!Request
      BY <1>3, SwitchFacts DEF Switch!FollowUp
    <2>3. PICK n : n = [op EXCEPT !.phase = "checking", !.request = pending]
      OBVIOUS
    <2>4. n \in Update /\ n.request = pending /\ n.allowRunning = op.allowRunning
      BY <1>2, <2>2, <2>3 DEF Update
    <2>5. op' = n /\ n # None
      BY <2>1, <2>3, <2>4, RequestsFacts
    <2>6. Switch!TypeOK'
      BY <1>1, <1>2, <2>1, <2>4, <2>5, SwitchTyped, SwitchTypes
    <2>7. Steady
      BY <2>1, SwitchTyped DEF Steady
    <2>8. RequestInv' /\ AttachInv'
      BY <2>1, <2>2, <2>4, <2>5, <2>7, PendingStep
    <2>9. WireInv'
      BY <1>2, <2>1 DEF WireInv, SentFor, NoUpdate, NoPrompt
    <2>10. BarrierInv'
      BY <1>2, <2>1, <2>4, <2>5 DEF SwitchInv, BarrierInv
    <2>11. Switch!RequestKept /\ Switch!RequestTried
      BY <1>2, <2>1 DEF Switch!RequestKept, Switch!RequestTried
    <2> QED
      BY <2>6, <2>8, <2>9, <2>10, <2>11 DEF SwitchInv, SwitchStep
  <1>4. CASE ~Switch!FollowUp
    <2>1. PICK folder \in Switch!AnyFolder \cup {None} :
            folder = IF pending = None THEN None ELSE Head(wire).folder
      BY <1>2
    <2>2. Switch!Finish(Tail(wire), folder)
      BY <1>4, <2>1 DEF Switch!OpHandled
    <2>3. pending # None => shown' = pending.folder
      <3> SUFFICES ASSUME pending # None PROVE op.request.folder = pending.folder
        BY <1>1, <1>2
      <3>1. pending.id = op.request.id
        BY <1>4 DEF Switch!FollowUp
      <3>2. Genuine(pending) /\ Genuine(op.request)
        BY <1>2 DEF SwitchInv, RequestInv
      <3> QED
        BY <3>1, <3>2 DEF Genuine
    <2>4. shown' \in Switch!AnyFolder /\ cwd' \in Switch!AnyFolder
      BY <1>1, <1>2
    <2>5. PICK w : w = Tail(wire)
      OBVIOUS
    <2>6. /\ w \in Seq(Entry) /\ InOrderOn(w) /\ NoUpdate(w) /\ Switch!Finish(w, folder)
          /\ prompt.pc # "sent" => NoPrompt(w)
      BY <1>2, <2>2, <2>5
    <2> QED
      BY <1>2, <2>3, <2>4, <2>6, FinishKeeps
  <1> QED
    BY <1>3, <1>4

LEMMA ChoiceHandledKeeps ==
  ASSUME SwitchInv, NEW u \in Picks, Switch!ChoiceHandled(u)
  PROVE  SwitchStep
  <1>1. /\ wire # <<>> /\ wire' = Tail(wire)
        /\ choice' = [choice EXCEPT ![u].pc = "done"]
        /\ UNCHANGED <<running, pending, op, draining, intent, prompt, command>>
        /\ \/ cwd' = Head(wire).folder /\ shown' = Head(wire).folder /\ dirty' = TRUE
           \/ UNCHANGED <<cwd, shown, dirty>>
    BY DEF Switch!ChoiceHandled
  <1>2. PICK w, update, pc : w = wire /\ update = op /\ pc = prompt.pc
    OBVIOUS
  <1>3. w \in Seq(Entry) /\ w # <<>> /\ InOrderOn(w) /\ SentFor(w, update, pc)
    BY <1>1, <1>2, SwitchFacts
  <1>4. /\ Tail(w) \in Seq(Entry) /\ Head(w) \in Entry
        /\ InOrderOn(Tail(w)) /\ SentFor(Tail(w), update, pc)
    BY <1>3, TailEntries
  <1>5. Head(wire).folder \in Switch!AnyFolder
    BY <1>2, <1>4, EntryFacts
  <1>6. choice' \in [Picks -> [pc : {"idle", "waiting", "sent", "done"}, folder : Switch!AnyFolder]]
    <2>1. PICK n : n = [choice[u] EXCEPT !.pc = "done"]
      OBVIOUS
    <2>2. n \in [pc : {"idle", "waiting", "sent", "done"}, folder : Switch!AnyFolder]
      BY <2>1, SwitchTyped
    <2>3. choice' = [choice EXCEPT ![u] = n]
      BY <1>1, <2>1, SwitchTyped
    <2> QED
      BY <2>2, <2>3, SwitchTyped
  <1>7. Switch!TypeOK'
    <2>1. wire' \in Seq(Entry) /\ shown' \in Switch!AnyFolder /\ cwd' \in Switch!AnyFolder /\ dirty' \in BOOLEAN
      BY <1>1, <1>2, <1>4, <1>5, SwitchTyped
    <2> QED
      BY <1>1, <1>6, <2>1, SwitchTyped, SwitchTypes
  <1>8. RequestInv' /\ AttachInv'
    <2>1. Steady
      BY <1>1, SwitchTyped DEF Steady
    <2> QED
      BY <1>1, <2>1, PendingStep DEF SwitchInv, RequestInv
  <1>9. WireInv' /\ BarrierInv'
    BY <1>1, <1>2, <1>4 DEF SwitchInv, WireInv, BarrierInv
  <1>10. Switch!RequestKept /\ Switch!RequestTried
    BY <1>1 DEF Switch!RequestKept, Switch!RequestTried, Switch!Attempting
  <1> QED
    BY <1>7, <1>8, <1>9, <1>10 DEF SwitchInv, SwitchStep
LEMMA BeginKeeps ==
  ASSUME SwitchInv, Switch!Begin
  PROVE  SwitchStep
  <1>1. /\ prompt.pc = "none" /\ ~running /\ running' = TRUE /\ dirty' = TRUE
        /\ UNCHANGED <<pending, draining, intent, shown, cwd, command, choice>>
    BY DEF Switch!Begin
  <1>2. Steady
    BY <1>1, SwitchTyped DEF Steady
  <1>3. Switch!RequestKept /\ Switch!RequestTried
    BY <1>1 DEF Switch!RequestKept, Switch!RequestTried, Switch!Attempting
  <1>4. CASE op = None /\ pending = None
    <2>1. /\ prompt' = [pc |-> "sent", folder |-> shown]
          /\ wire' = Append(wire, Switch!PromptTo(shown)) /\ op' = op
      BY <1>4 DEF Switch!Begin
    <2>2. PICK e : e = Switch!PromptTo(shown)
      OBVIOUS
    <2>3. e \in Entry /\ e.by = "prompt"
      BY <2>2, SwitchFacts DEF Switch!PromptTo, Entry
    <2>4. PICK w : w = wire
      OBVIOUS
    <2>5. w \in Seq(Entry) /\ InOrderOn(w) /\ NoUpdate(w) /\ NoPrompt(w)
      BY <1>1, <1>4, <2>4, SwitchFacts
    <2>6. /\ Append(w, e) \in Seq(Entry) /\ InOrderOn(Append(w, e))
          /\ \A i \in DOMAIN Append(w, e) : \/ Append(w, e)[i] = e
                                            \/ i \in DOMAIN w /\ Append(w, e)[i] = w[i]
      BY <2>3, <2>5, AppendEntries
    <2>7. wire' \in Seq(Entry) /\ InOrderOn(wire') /\ NoUpdate(wire')
      BY <2>1, <2>2, <2>3, <2>4, <2>5, <2>6 DEF NoUpdate
    <2>8. prompt'.pc = "sent" /\ prompt' \in [pc : {"none", "barrier", "hydrating", "hydrated", "sent", "turn"},
                                              folder : Switch!AnyFolder]
      BY <2>1, SwitchFacts
    <2>9. Switch!TypeOK'
      BY <1>1, <2>1, <2>7, <2>8, SwitchTyped, SwitchTypes
    <2>10. RequestInv' /\ AttachInv'
      BY <1>1, <1>2, <1>4, <2>1, PendingStep DEF SwitchInv, RequestInv
    <2>11. WireInv'
      BY <2>7, <2>8 DEF WireInv, SentFor, NoUpdate
    <2>12. BarrierInv'
      BY <1>1, <1>4, <2>1 DEF BarrierInv
    <2> QED
      BY <1>3, <2>9, <2>10, <2>11, <2>12 DEF SwitchInv, SwitchStep
  <1>5. CASE ~(op = None /\ pending = None)
    <2>1. /\ prompt' = [prompt EXCEPT !.pc = "barrier"] /\ wire' = wire
          /\ op' = IF op # None THEN Switch!Joined(op.request, TRUE) ELSE Switch!Started(pending, TRUE)
      BY <1>5 DEF Switch!Begin
    <2>2. PICK request \in Switch!Request : request = IF op # None THEN op.request ELSE pending
      BY <1>5, SwitchFacts
    <2>3. PICK joined : joined = IF op # None THEN [op EXCEPT !.allowRunning = @ \/ TRUE]
                                 ELSE Switch!Started(request, TRUE)
      OBVIOUS
    <2>4. op' = joined
      BY <2>1, <2>2, <2>3 DEF Switch!Joined
    <2>5. /\ joined \in Update /\ joined # None
          /\ op # None => joined.request = op.request /\ joined.phase = op.phase
          /\ op = None => joined.request = request /\ joined.phase = "checking"
      BY <2>3, JoinedFacts
    <2>6. /\ prompt'.pc = "barrier"
          /\ prompt' \in [pc : {"none", "barrier", "hydrating", "hydrated", "sent", "turn"},
                          folder : Switch!AnyFolder]
      BY <2>1, SwitchTyped
    <2>7. Switch!TypeOK'
      BY <1>1, <2>1, <2>4, <2>5, <2>6, SwitchTyped, SwitchTypes
    <2>8. RequestInv' /\ AttachInv'
      <3>1. op' # None => \/ op # None /\ op'.request = op.request
                          \/ pending # None /\ op'.request = pending
        BY <1>5, <2>2, <2>4, <2>5
      <3> QED
        BY <1>1, <1>2, <2>4, <2>5, <3>1, PendingStep
    <2>9. WireInv'
      BY <1>1, <2>1, <2>4, <2>5, <2>6, WireStays
    <2>10. BarrierInv'
      BY <1>1, <2>6 DEF BarrierInv
    <2> QED
      BY <1>3, <2>7, <2>8, <2>9, <2>10 DEF SwitchInv, SwitchStep
  <1> QED
    BY <1>4, <1>5

LEMMA HydratesKeeps ==
  ASSUME SwitchInv, Switch!Hydrate
  PROVE  SwitchStep
  <1>1. /\ prompt.pc = "none" /\ ~running
        /\ UNCHANGED <<running, pending, draining, dirty, intent, shown, cwd, wire, command, choice>>
    BY DEF Switch!Hydrate
  <1>2. Steady
    BY <1>1, SwitchTyped DEF Steady
  <1>3. PICK pc \in {"hydrating", "hydrated"} :
          pc = IF op = None /\ pending = None THEN "hydrated" ELSE "hydrating"
    OBVIOUS
  <1>4. prompt' = [prompt EXCEPT !.pc = pc]
    BY <1>3 DEF Switch!Hydrate
  <1>5. /\ prompt'.pc = pc
        /\ prompt' \in [pc : {"none", "barrier", "hydrating", "hydrated", "sent", "turn"},
                        folder : Switch!AnyFolder]
    BY <1>4, SwitchTyped
  <1>6. op' = IF op # None \/ pending = None THEN op ELSE Switch!Started(pending, FALSE)
    BY DEF Switch!Hydrate
  <1>7. /\ op' \in Update \cup {None}
        /\ op # None => op' = op
        /\ op = None /\ pending # None =>
             /\ op' # None /\ op'.request = pending /\ op'.phase = "checking" /\ op'.allowRunning = FALSE
        /\ pending = None => op' = op
    <2>1. CASE op # None \/ pending = None
      BY <1>6, <2>1, SwitchTyped
    <2>2. CASE op = None /\ pending # None
      <3>1. PICK request \in Switch!Request : request = pending
        BY <2>2, SwitchFacts
      <3>2. op' = [phase |-> "checking", request |-> request, allowRunning |-> FALSE]
        BY <1>6, <2>2, <3>1 DEF Switch!Started
      <3>3. op' \in Update
        BY <3>2 DEF Update
      <3> QED
        BY <2>2, <3>1, <3>2, <3>3, RequestsFacts
    <2> QED
      BY <2>1, <2>2
  <1>8. Switch!TypeOK'
    BY <1>1, <1>5, <1>7, SwitchTyped, SwitchTypes
  <1>9. RequestInv' /\ AttachInv'
    BY <1>1, <1>2, <1>7, PendingStep DEF SwitchInv, RequestInv
  <1>10. WireInv'
    <2>1. \/ op = None \/ op.phase = "checking"
          \/ /\ op' # None /\ op'.phase = op.phase /\ op'.request = op.request
             /\ prompt'.pc # "turn" \/ prompt'.pc = prompt.pc
      BY <1>5, <1>7
    <2> QED
      BY <1>1, <2>1, WireStays
  <1>11. BarrierInv'
    BY <1>1, <1>5, <1>7 DEF SwitchInv, BarrierInv
  <1>12. Switch!RequestKept /\ Switch!RequestTried
    BY <1>1, <1>7 DEF Switch!RequestKept, Switch!RequestTried, Switch!Attempting
  <1> QED
    BY <1>8, <1>9, <1>10, <1>11, <1>12 DEF SwitchInv, SwitchStep

LEMMA CommitKeeps ==
  ASSUME SwitchInv, Switch!Commit
  PROVE  SwitchStep
  <1>1. /\ prompt.pc = "hydrated" /\ running' = TRUE /\ dirty' = TRUE
        /\ prompt' = [pc |-> "sent", folder |-> shown]
        /\ wire' = Append(wire, Switch!PromptTo(shown))
        /\ UNCHANGED <<pending, op, draining, intent, shown, cwd, command, choice>>
    BY DEF Switch!Commit
  <1>2. PICK e : e = Switch!PromptTo(shown)
    OBVIOUS
  <1>3. e \in Entry /\ e.by = "prompt"
    BY <1>2, SwitchFacts DEF Switch!PromptTo, Entry
  <1>4. PICK w, update, pc : w = wire /\ update = op /\ pc = prompt.pc
    OBVIOUS
  <1>5. w \in Seq(Entry) /\ InOrderOn(w) /\ NoPrompt(w) /\ SentFor(w, update, pc) /\ pc = "hydrated"
    BY <1>1, <1>4, SwitchFacts
  <1>6. Append(w, e) \in Seq(Entry) /\ InOrderOn(Append(w, e))
    BY <1>3, <1>5, AppendEntries
  <1>7. SentFor(Append(w, e), update, "sent")
    <2>1. SentFor(w, update, "sent")
      BY <1>5 DEF SentFor, NoPrompt
    <2> QED
      BY <1>3, <1>5, <2>1, AppendSentFor
  <1>8. /\ prompt'.pc = "sent"
        /\ prompt' \in [pc : {"none", "barrier", "hydrating", "hydrated", "sent", "turn"},
                        folder : Switch!AnyFolder]
    BY <1>1, SwitchFacts
  <1>9. wire' \in Seq(Entry) /\ InOrderOn(wire') /\ SentFor(wire', op', prompt'.pc)
    BY <1>1, <1>2, <1>4, <1>6, <1>7, <1>8
  <1>10. Switch!TypeOK'
    BY <1>1, <1>8, <1>9, SwitchTyped, SwitchTypes
  <1>11. RequestInv' /\ AttachInv'
    <2>1. Steady
      BY <1>1, SwitchTyped DEF Steady
    <2> QED
      BY <1>1, <2>1, PendingStep DEF SwitchInv, RequestInv
  <1>12. WireInv' /\ BarrierInv'
    BY <1>1, <1>8, <1>9 DEF SwitchInv, WireInv, BarrierInv
  <1>13. Switch!RequestKept /\ Switch!RequestTried
    BY <1>1 DEF Switch!RequestKept, Switch!RequestTried, Switch!Attempting
  <1> QED
    BY <1>10, <1>11, <1>12, <1>13 DEF SwitchInv, SwitchStep

LEMMA TurnStartsKeeps ==
  ASSUME SwitchInv, Switch!TurnStarts
  PROVE  SwitchStep
  <1>1. /\ wire # <<>> /\ Head(wire).by = "prompt" /\ wire' = Tail(wire)
        /\ cwd' = Head(wire).folder /\ prompt' = [prompt EXCEPT !.pc = "turn"]
        /\ UNCHANGED <<running, pending, op, draining, dirty, intent, shown, command, choice>>
    BY DEF Switch!TurnStarts
  <1>2. PICK w, update, pc : w = wire /\ update = op /\ pc = prompt.pc
    OBVIOUS
  <1>3. w \in Seq(Entry) /\ w # <<>> /\ InOrderOn(w) /\ SentFor(w, update, pc) /\ Head(w).by = "prompt"
    BY <1>1, <1>2, SwitchFacts
  <1>4. /\ Tail(w) \in Seq(Entry) /\ Head(w) \in Entry /\ 1 \in DOMAIN w /\ Head(w) = w[1]
        /\ InOrderOn(Tail(w)) /\ NoUpdate(Tail(w)) /\ NoPrompt(Tail(w))
    BY <1>3, TailEntries
  <1>5. prompt.pc = "sent"
    BY <1>2, <1>3, <1>4 DEF SentFor
  <1>6. Head(wire).folder \in Switch!AnyFolder
    BY <1>2, <1>4, EntryFacts
  <1>7. /\ prompt'.pc = "turn"
        /\ prompt' \in [pc : {"none", "barrier", "hydrating", "hydrated", "sent", "turn"},
                        folder : Switch!AnyFolder]
    BY <1>1, SwitchTyped
  <1>8. wire' \in Seq(Entry) /\ InOrderOn(wire') /\ NoUpdate(wire') /\ NoPrompt(wire')
    BY <1>1, <1>2, <1>4
  <1>9. Switch!TypeOK'
    BY <1>1, <1>6, <1>7, <1>8, SwitchTyped, SwitchTypes
  <1>10. RequestInv' /\ AttachInv'
    <2>1. Steady
      BY <1>1, SwitchTyped DEF Steady
    <2> QED
      BY <1>1, <2>1, PendingStep DEF SwitchInv, RequestInv
  <1>11. WireInv'
    BY <1>8 DEF WireInv, SentFor, NoUpdate, NoPrompt
  <1>12. BarrierInv'
    BY <1>1, <1>5, <1>7 DEF SwitchInv, BarrierInv
  <1>13. Switch!RequestKept /\ Switch!RequestTried
    BY <1>1 DEF Switch!RequestKept, Switch!RequestTried, Switch!Attempting
  <1> QED
    BY <1>9, <1>10, <1>11, <1>12, <1>13 DEF SwitchInv, SwitchStep

LEMMA TurnEndsKeeps ==
  ASSUME SwitchInv, Switch!TurnEnds
  PROVE  SwitchStep
  <1>1. /\ prompt.pc = "turn" /\ prompt' = [prompt EXCEPT !.pc = "none"]
        /\ running' = FALSE /\ dirty' = TRUE
        /\ UNCHANGED <<pending, op, draining, intent, shown, cwd, wire, command, choice>>
    BY DEF Switch!TurnEnds
  <1>2. /\ prompt'.pc = "none"
        /\ prompt' \in [pc : {"none", "barrier", "hydrating", "hydrated", "sent", "turn"},
                        folder : Switch!AnyFolder]
    BY <1>1, SwitchTyped
  <1>3. Switch!TypeOK'
    BY <1>1, <1>2, SwitchTyped, SwitchTypes
  <1>4. RequestInv' /\ AttachInv'
    <2>1. Steady
      BY <1>1, SwitchTyped DEF Steady
    <2> QED
      BY <1>1, <2>1, PendingStep DEF SwitchInv, RequestInv
  <1>5. WireInv'
    BY <1>1, <1>2, WireStays
  <1>6. BarrierInv'
    BY <1>1, <1>2 DEF SwitchInv, BarrierInv
  <1>7. Switch!RequestKept /\ Switch!RequestTried
    BY <1>1 DEF Switch!RequestKept, Switch!RequestTried, Switch!Attempting
  <1> QED
    BY <1>3, <1>4, <1>5, <1>6, <1>7 DEF SwitchInv, SwitchStep

LEMMA EmptyWire == <<>> \in Seq(Entry) /\ DOMAIN <<>> = {}
  <1>1. PICK w : w = <<>>
    OBVIOUS
  <1>2. w \in Seq(Entry) /\ Len(w) = 0
    BY <1>1, EmptySeq
  <1>3. DOMAIN w = 1 .. Len(w)
    BY <1>2
  <1> QED
    BY <1>1, <1>2, <1>3

LEMMA RestartKeeps ==
  ASSUME SwitchInv, Switch!Restart
  PROVE  SwitchStep
  <1>1. /\ running' = FALSE /\ dirty' = TRUE /\ op' = None /\ draining' = None
        /\ intent' = 0 /\ wire' = <<>> /\ pending' = pending
        /\ cwd' \in {cwd} \cup {wire[i].folder : i \in DOMAIN wire} /\ shown' = cwd'
        /\ prompt' = [prompt EXCEPT !.pc = "none"]
        /\ command' = [v \in Commands |->
             [command[v] EXCEPT !.pc = IF @ = "idle" THEN @ ELSE "failed", !.generation = 0]]
        /\ choice' = [u \in Picks |-> [choice[u] EXCEPT !.pc = IF @ = "idle" THEN @ ELSE "done"]]
    BY DEF Switch!Restart
  <1>2. /\ \A v \in Commands :
             /\ command'[v] \in [pc : {"idle", "attaching", "applying", "queued", "applied", "failed"},
                                 folder : Switch!AnyFolder, generation : Nat, attached : BOOLEAN]
             /\ command'[v].folder = command[v].folder /\ command'[v].generation = 0
             /\ command'[v].pc = IF command[v].pc = "idle" THEN "idle" ELSE "failed"
    <2> SUFFICES ASSUME NEW v \in Commands
                 PROVE  /\ command'[v] \in [pc : {"idle", "attaching", "applying", "queued", "applied", "failed"},
                                            folder : Switch!AnyFolder, generation : Nat, attached : BOOLEAN]
                        /\ command'[v].folder = command[v].folder /\ command'[v].generation = 0
                        /\ command'[v].pc = IF command[v].pc = "idle" THEN "idle" ELSE "failed"
      OBVIOUS
    <2>1. PICK pc \in {"idle", "failed"} : pc = IF command[v].pc = "idle" THEN "idle" ELSE "failed"
      OBVIOUS
    <2>2. command[v] \in [pc : {"idle", "attaching", "applying", "queued", "applied", "failed"},
                          folder : Switch!AnyFolder, generation : Nat, attached : BOOLEAN]
      BY SwitchTyped
    <2>3. PICK n : n = [pc |-> pc, folder |-> command[v].folder, generation |-> 0,
                        attached |-> command[v].attached]
      OBVIOUS
    <2>4. command'[v] = n
      BY <1>1, <2>1, <2>2, <2>3
    <2>5. n \in [pc : {"idle", "attaching", "applying", "queued", "applied", "failed"},
                 folder : Switch!AnyFolder, generation : Nat, attached : BOOLEAN]
      BY <2>2, <2>3
    <2> QED
      BY <2>1, <2>3, <2>4, <2>5
  <1>3. choice' \in [Picks -> [pc : {"idle", "waiting", "sent", "done"}, folder : Switch!AnyFolder]]
    <2>1. ASSUME NEW u \in Picks
          PROVE  choice'[u] \in [pc : {"idle", "waiting", "sent", "done"}, folder : Switch!AnyFolder]
      BY <1>1, SwitchTyped
    <2> QED
      BY <1>1, <2>1
  <1>4. cwd' \in Switch!AnyFolder
    <2>1. wire \in Seq(Entry)
      BY SwitchTyped
    <2>2. \A i \in DOMAIN wire : wire[i] \in Entry
      BY <2>1
    <2>3. ASSUME NEW i \in DOMAIN wire PROVE wire[i].folder \in Switch!AnyFolder
      <3>1. PICK e \in Entry : e = wire[i]
        BY <2>2
      <3> QED
        BY <3>1, EntryFacts
    <2>4. cwd' = cwd \/ \E i \in DOMAIN wire : cwd' = wire[i].folder
      BY <1>1
    <2> QED
      BY <2>3, <2>4, SwitchTyped
  <1>5. command' \in [Commands -> [pc : {"idle", "attaching", "applying", "queued", "applied", "failed"},
                                   folder : Switch!AnyFolder, generation : Nat, attached : BOOLEAN]]
    BY <1>1, <1>2
  <1>6. /\ prompt'.pc = "none"
        /\ prompt' \in [pc : {"none", "barrier", "hydrating", "hydrated", "sent", "turn"},
                        folder : Switch!AnyFolder]
    BY <1>1, SwitchTyped
  <1>7. Switch!TypeOK'
    <2>1. /\ running' \in BOOLEAN /\ dirty' \in BOOLEAN /\ pending' \in Switch!Request \cup {None}
          /\ op' \in Update \cup {None} /\ draining' \in Commands \cup {None}
          /\ intent' \in Nat /\ shown' \in Switch!AnyFolder
      BY <1>1, <1>4, SwitchTyped
    <2>2. wire' \in Seq(Entry)
      BY <1>1, EmptyWire
    <2> QED
      BY <1>3, <1>4, <1>5, <1>6, <2>1, <2>2, SwitchTypes
  <1>8. RequestInv'
    <2>1. pending # None => pending.id \in Commands /\ Genuine(pending)
      BY SwitchFacts, RequestsFacts DEF SwitchInv, RequestInv
    <2> QED
      BY <1>1, <1>2, <2>1 DEF RequestInv, Genuine
  <1>9. AttachInv'
    <2> SUFFICES ASSUME NEW v \in Commands
                 PROVE  /\ command'[v].pc # "idle" => command'[v].folder \in Folders
                        /\ command'[v].generation <= intent'
                        /\ command'[v].pc # "attaching"
      BY DEF AttachInv
    <2>1. command[v].pc # "idle" => command[v].folder \in Folders
      BY DEF SwitchInv, AttachInv
    <2>2. intent' = 0
      BY <1>1
    <2> QED
      BY <1>2, <2>1, <2>2
  <1>10. WireInv' /\ BarrierInv'
    <2>1. DOMAIN wire' = {}
      BY <1>1, EmptyWire
    <2> QED
      BY <1>1, <1>6, <2>1 DEF WireInv, InOrderOn, SentFor, BarrierInv
  <1>11. Switch!RequestKept /\ Switch!RequestTried
    BY <1>1 DEF Switch!RequestKept, Switch!RequestTried, Switch!Attempting
  <1> QED
    BY <1>7, <1>8, <1>9, <1>10, <1>11 DEF SwitchInv, SwitchStep
LEMMA SwitchStarts == Switch!Init => SwitchInv
  <1> SUFFICES ASSUME Switch!Init PROVE SwitchInv
    OBVIOUS
  <1>1. /\ running = FALSE /\ dirty = FALSE /\ pending = None /\ op = None /\ draining = None
        /\ intent = 0 /\ shown = Home /\ cwd = Home /\ wire = <<>>
        /\ prompt = [pc |-> "none", folder |-> Home]
        /\ command = [v \in Commands |-> [pc |-> "idle", folder |-> Home, generation |-> 0, attached |-> FALSE]]
        /\ choice = [u \in Picks |-> [pc |-> "idle", folder |-> Home]]
    BY DEF Switch!Init
  <1>2. Home \in Switch!AnyFolder
    BY DEF Switch!AnyFolder
  <1>3. wire \in Seq(Entry) /\ DOMAIN wire = {}
    BY <1>1, EmptyWire
  <1>4. \A v \in Commands : command[v] = [pc |-> "idle", folder |-> Home, generation |-> 0, attached |-> FALSE]
    BY <1>1
  <1>5. /\ prompt \in [pc : {"none", "barrier", "hydrating", "hydrated", "sent", "turn"},
                       folder : Switch!AnyFolder]
        /\ prompt.pc = "none"
    BY <1>1, <1>2
  <1>6. command \in [Commands -> [pc : {"idle", "attaching", "applying", "queued", "applied", "failed"},
                                  folder : Switch!AnyFolder, generation : Nat, attached : BOOLEAN]]
    <2>1. [pc |-> "idle", folder |-> Home, generation |-> 0, attached |-> FALSE]
            \in [pc : {"idle", "attaching", "applying", "queued", "applied", "failed"},
                 folder : Switch!AnyFolder, generation : Nat, attached : BOOLEAN]
      BY <1>2
    <2> QED
      BY <1>1, <2>1
  <1>7. choice \in [Picks -> [pc : {"idle", "waiting", "sent", "done"}, folder : Switch!AnyFolder]]
    BY <1>1, <1>2
  <1>8. Switch!TypeOK
    <2>1. /\ running \in BOOLEAN /\ dirty \in BOOLEAN /\ intent \in Nat
          /\ shown \in Switch!AnyFolder /\ cwd \in Switch!AnyFolder
          /\ pending \in Switch!Request \cup {None} /\ draining \in Commands \cup {None}
          /\ op \in Update \cup {None}
      BY <1>1, <1>2
    <2> QED
      BY <1>3, <1>5, <1>6, <1>7, <2>1 DEF Switch!TypeOK, Update, Entry
  <1>9. RequestInv /\ BarrierInv
    BY <1>1, <1>5 DEF RequestInv, BarrierInv
  <1>10. AttachInv
    BY <1>1, <1>4 DEF AttachInv
  <1>11. WireInv
    BY <1>3 DEF WireInv, InOrderOn, SentFor
  <1> QED
    BY <1>8, <1>9, <1>10, <1>11 DEF SwitchInv

LEMMA SwitchKeeps ==
  ASSUME SwitchInv, [Switch!Next]_(Switch!vars)
  PROVE  SwitchInv' /\ [Switch!RequestKept]_(Switch!vars) /\ [Switch!RequestTried]_(Switch!vars)
  <1>1. CASE UNCHANGED Switch!vars
    BY <1>1 DEF Switch!vars, SwitchInv, Switch!TypeOK, RequestInv, Genuine, AttachInv, WireInv,
                InOrderOn, SentFor, BarrierInv
  <1>2. CASE Switch!Next
    BY <1>2, DrainKeepsSwitch, ClaimKeeps, AttachedKeeps, AttachFailsKeeps, ChooseKeeps,
       ChoiceHandledKeeps, CheckedKeeps, CheckFailsKeeps, OpHandledKeeps, OpFailsKeeps,
       BeginKeeps, HydratesKeeps, CommitKeeps, TurnStartsKeeps, TurnEndsKeeps, RestartKeeps
       DEF Switch!Next, SwitchStep
  <1> QED
    BY <1>1, <1>2

LEMMA SwitchAlone == Switch!Spec => []SwitchInv /\ Switch!AcceptedKept /\ Switch!PendingWasTried
  BY SwitchStarts, SwitchKeeps, PTL DEF Switch!Spec, Switch!AcceptedKept, Switch!PendingWasTried

\* The update of an agent's request never reaches the backend after the prompt of the
\* next turn, whoever shares it (applyPendingSessionWorkspaceActivation looks at the chat
\* again before it sends).
THEOREM TurnKeepsFolder == ChatSpec => []NoSwitchUnderTurn
  <1>1. SwitchInv => NoSwitchUnderTurn
    BY DEF SwitchInv, WireInv, InOrderOn, SentFor, NoSwitchUnderTurn, Switch!NoSwitchUnderTurn
  <1> QED
    BY <1>1, PartsAlone, SwitchAlone, PTL

\* An accepted request of an agent is forgotten for one of the reasons the code has: it
\* is shown, superseded, reported as failed, or cleared by a superseded command.
THEOREM AcceptedRequestKept == ChatSpec => AcceptedKept
  BY PartsAlone, SwitchAlone, PTL DEF AcceptedKept

\* The drain leaves a request in an idle chat only after an attempt to apply it.
THEOREM PendingRequestTried == ChatSpec => PendingWasTried
  BY PartsAlone, SwitchAlone, PTL DEF PendingWasTried
----------------------------------------------------------------------------
(* Queues of messages, and writes of them *)

LEMMA ProperFacts ==
  ASSUME NEW known \in SUBSET Messages, NEW q, Proper(q, known)
  PROVE  /\ q \in Window!Queue
         /\ q # <<>> => /\ Tail(q) \in Window!Queue /\ Head(q) \in Window!Record /\ Head(q).id \in Window!Ids(q)
                        /\ Head(q).id \in known
         /\ \A i \in DOMAIN q : q[i] \in Window!Record /\ q[i].id \in known
         /\ Window!Ids(q) \subseteq known
  <1>1. q \in Seq(Window!Record)
    BY DEF Proper, Window!Queue
  <1>2. \A i \in DOMAIN q : q[i] \in Window!Record
    BY <1>1
  <1>3. \A i \in DOMAIN q : q[i].id \in Window!Ids(q)
    BY DEF Window!Ids
  <1>4. q # <<>> => Tail(q) \in Seq(Window!Record) /\ Head(q) = q[1] /\ 1 \in DOMAIN q
    BY <1>1
  <1> QED
    BY <1>1, <1>2, <1>3, <1>4 DEF Proper, Window!Queue

LEMMA ProperEmpty ==
  ASSUME NEW known
  PROVE  Proper(<<>>, known) /\ Window!Ids(<<>>) = {}
  <1>1. PICK q : q = <<>>
    OBVIOUS
  <1>2. q \in Seq(Window!Record) /\ Len(q) = 0
    BY <1>1, EmptySeq
  <1>3. DOMAIN q = {}
    BY <1>2
  <1> QED
    BY <1>1, <1>2, <1>3 DEF Proper, Window!Queue, Window!Ids

LEMMA ProperGrows ==
  ASSUME NEW q, NEW known, Proper(q, known), NEW more, known \subseteq more
  PROVE  Proper(q, more)
  BY DEF Proper

LEMMA ProperAppend ==
  ASSUME NEW known \in SUBSET Messages, NEW q, Proper(q, known), NEW m \in Messages \ known,
         NEW restored \in BOOLEAN, NEW r, r = [id |-> m, restored |-> restored]
  PROVE  /\ Proper(Append(q, r), known \cup {m})
         /\ Window!Ids(Append(q, r)) = Window!Ids(q) \cup {m}
  <1>1. r \in Window!Record /\ r.id = m
    BY DEF Window!Record
  <1>2. q \in Seq(Window!Record) /\ Window!Ids(q) \subseteq known
    BY DEF Proper, Window!Queue
  <1>3. PICK x : x = Append(q, r)
    OBVIOUS
  <1>4. /\ x \in Seq(Window!Record) /\ Len(q) \in Nat
        /\ DOMAIN q = 1 .. Len(q) /\ DOMAIN x = 1 .. Len(q) + 1
        /\ \A i \in 1 .. Len(q) : x[i] = q[i]
        /\ x[Len(q) + 1] = r
    BY <1>1, <1>2, <1>3
  <1>5. \A i \in DOMAIN x : (i \in DOMAIN q /\ x[i] = q[i]) \/ (i = Len(q) + 1 /\ x[i] = r)
    BY <1>4
  <1>6. \A i \in DOMAIN q : q[i].id \in known
    BY <1>2 DEF Window!Ids
  <1>7. Window!Ids(x) = Window!Ids(q) \cup {m}
    <2>1. Window!Ids(x) \subseteq Window!Ids(q) \cup {m}
      BY <1>1, <1>5 DEF Window!Ids
    <2>2. Window!Ids(q) \subseteq Window!Ids(x)
      BY <1>4 DEF Window!Ids
    <2>3. m \in Window!Ids(x)
      BY <1>1, <1>4 DEF Window!Ids
    <2> QED
      BY <2>1, <2>2, <2>3
  <1>8. \A i, j \in DOMAIN x : x[i].id = x[j].id => i = j
    BY <1>1, <1>5, <1>6 DEF Proper
  <1> QED
    BY <1>2, <1>3, <1>4, <1>7, <1>8 DEF Proper, Window!Queue

LEMMA ProperTail ==
  ASSUME NEW known, NEW q, Proper(q, known), q # <<>>
  PROVE  /\ Proper(Tail(q), known)
         /\ Window!Ids(Tail(q)) = Window!Ids(q) \ {Head(q).id}
  <1>1. q \in Seq(Window!Record) /\ Window!Ids(q) \subseteq known
    BY DEF Proper, Window!Queue
  <1>2. PICK t : t = Tail(q)
    OBVIOUS
  <1>3. /\ t \in Seq(Window!Record) /\ 1 \in DOMAIN q /\ Head(q) = q[1]
        /\ \A i \in DOMAIN t : i \in Nat /\ i >= 1 /\ i + 1 \in DOMAIN q /\ t[i] = q[i + 1]
        /\ \A i \in DOMAIN q : i \in Nat /\ (i = 1 \/ (i - 1 \in DOMAIN t /\ t[i - 1] = q[i]))
    BY <1>1, <1>2
  <1>4. Window!Ids(t) = Window!Ids(q) \ {Head(q).id}
    <2>1. ASSUME NEW i \in DOMAIN t PROVE t[i].id \in Window!Ids(q) /\ t[i].id # Head(q).id
      <3>1. i + 1 \in DOMAIN q /\ i + 1 # 1 /\ t[i] = q[i + 1]
        BY <1>3
      <3> QED
        BY <1>3, <3>1 DEF Proper, Window!Ids
    <2>2. ASSUME NEW i \in DOMAIN q, q[i].id # Head(q).id PROVE q[i].id \in Window!Ids(t)
      BY <1>3, <2>2 DEF Window!Ids
    <2> QED
      BY <2>1, <2>2 DEF Window!Ids
  <1>5. \A i, j \in DOMAIN t : t[i].id = t[j].id => i = j
    <2> SUFFICES ASSUME NEW i \in DOMAIN t, NEW j \in DOMAIN t, t[i].id = t[j].id PROVE i = j
      OBVIOUS
    <2>1. i + 1 = j + 1
      BY <1>3 DEF Proper
    <2> QED
      BY <1>3, <2>1
  <1> QED
    BY <1>1, <1>2, <1>3, <1>4, <1>5 DEF Proper, Window!Queue

\* A change of the flags alone.
LEMMA ProperFlags ==
  ASSUME NEW known, NEW q, Proper(q, known), NEW flag \in BOOLEAN, NEW x,
         x = [i \in DOMAIN q |-> [q[i] EXCEPT !.restored = flag]]
  PROVE  /\ Proper(x, known) /\ Window!Ids(x) = Window!Ids(q)
         /\ \A i \in DOMAIN x : x[i].restored = flag
  <1>1. q \in Seq(Window!Record) /\ Len(q) \in Nat /\ DOMAIN q = 1 .. Len(q)
    BY DEF Proper, Window!Queue
  <1>2. \A i \in DOMAIN q : q[i] \in Window!Record
    BY <1>1
  <1>3. \A i \in DOMAIN q : x[i] \in Window!Record /\ x[i].id = q[i].id /\ x[i].restored = flag
    BY <1>2 DEF Window!Record
  <1>4. DOMAIN x = DOMAIN q
    OBVIOUS
  <1>5. x \in Seq(Window!Record)
    BY <1>1, <1>3, <1>4
  <1>6. Window!Ids(x) = Window!Ids(q)
    BY <1>3, <1>4 DEF Window!Ids
  <1> QED
    BY <1>3, <1>4, <1>5, <1>6 DEF Proper, Window!Queue

LEMMA ProperRestored ==
  ASSUME NEW known, NEW q, Proper(q, known)
  PROVE  /\ Proper(Window!Restored(q), known) /\ Window!Ids(Window!Restored(q)) = Window!Ids(q)
         /\ AllRestored(Window!Restored(q))
  <1>1. PICK flag, x : flag \in BOOLEAN /\ flag = TRUE /\ x = [i \in DOMAIN q |-> [q[i] EXCEPT !.restored = flag]]
    OBVIOUS
  <1>2. flag \in BOOLEAN /\ x = [i \in DOMAIN q |-> [q[i] EXCEPT !.restored = flag]]
    BY <1>1
  <1>3. /\ Proper(x, known) /\ Window!Ids(x) = Window!Ids(q)
        /\ \A i \in DOMAIN x : x[i].restored = flag
    BY <1>2, ProperFlags
  <1> QED
    BY <1>1, <1>3 DEF Window!Restored, AllRestored

LEMMA ProperMarked ==
  ASSUME NEW known, NEW q, Proper(q, known)
  PROVE  Proper(Window!Marked(q), known) /\ Window!Ids(Window!Marked(q)) = Window!Ids(q)
  <1>1. PICK flag, x : flag \in BOOLEAN /\ flag = FALSE /\ x = [i \in DOMAIN q |-> [q[i] EXCEPT !.restored = flag]]
    OBVIOUS
  <1>2. Proper(x, known) /\ Window!Ids(x) = Window!Ids(q)
    BY <1>1, ProperFlags
  <1> QED
    BY <1>1, <1>2 DEF Window!Marked

\* What is kept stays kept while more is sent.
LEMMA KeepsFacts ==
  ASSUME NEW held, NEW q, NEW times
  PROVE  /\ Window!Ids(held) \subseteq Window!Ids(q) => Keeps(held, q, times)
         /\ \A x : Keeps(held, q, times) /\ Keeps(q, x, times) => Keeps(held, x, times)
         /\ \A x : Keeps(held, q, times) /\ Window!Ids(q) \subseteq Window!Ids(x) => Keeps(held, x, times)
  BY DEF Keeps

\* A message is sent once more, or none.
MoreSent == /\ sent \in [Messages -> Nat] /\ sent' \in [Messages -> Nat]
            /\ \A m \in Messages : sent'[m] >= sent[m]

LEMMA KeepsGrows ==
  ASSUME MoreSent, NEW known \in SUBSET Messages, NEW held, Proper(held, known), NEW q, Keeps(held, q, sent)
  PROVE  Keeps(held, q, sent')
  <1>1. Window!Ids(held) \subseteq Messages
    BY DEF Proper
  <1> QED
    BY <1>1 DEF Keeps, MoreSent

Writes == Seq(Window!Queue)

LEMMA ChainEmpty ==
  ASSUME NEW stored, NEW times
  PROVE  <<>> \in Writes /\ ChainKeeps(stored, <<>>, times) /\ LastIn(stored, <<>>) = stored
  <1>1. PICK q : q = <<>>
    OBVIOUS
  <1>2. q \in Writes /\ Len(q) = 0
    BY <1>1, EmptySeq DEF Writes
  <1>3. DOMAIN q = {}
    BY <1>2 DEF Writes
  <1> QED
    BY <1>1, <1>2, <1>3 DEF ChainKeeps, LastIn

LEMMA ChainAppend ==
  ASSUME NEW writes \in Writes, NEW stored, NEW times, ChainKeeps(stored, writes, times),
         NEW q \in Window!Queue, Keeps(LastIn(stored, writes), q, times)
  PROVE  /\ Append(writes, q) \in Writes /\ Append(writes, q) # <<>>
         /\ ChainKeeps(stored, Append(writes, q), times)
         /\ LastIn(stored, Append(writes, q)) = q
         /\ \A i \in DOMAIN Append(writes, q) :
              Append(writes, q)[i] = q \/ (i \in DOMAIN writes /\ Append(writes, q)[i] = writes[i])
  <1>1. PICK x : x = Append(writes, q)
    OBVIOUS
  <1>2. /\ x \in Writes /\ x # <<>> /\ Len(writes) \in Nat /\ Len(x) = Len(writes) + 1
        /\ DOMAIN writes = 1 .. Len(writes) /\ DOMAIN x = 1 .. Len(writes) + 1
        /\ \A i \in 1 .. Len(writes) : x[i] = writes[i]
        /\ x[Len(writes) + 1] = q
        /\ writes = <<>> <=> Len(writes) = 0
    BY <1>1 DEF Writes
  <1>3. LastIn(stored, x) = q
    BY <1>2 DEF LastIn
  <1>4. x # <<>> => Keeps(stored, x[1], times)
    <2>1. CASE writes = <<>>
      BY <1>2, <2>1 DEF LastIn
    <2>2. CASE writes # <<>>
      BY <1>2, <2>2 DEF ChainKeeps
    <2> QED
      BY <2>1, <2>2
  <1>5. ASSUME NEW i \in DOMAIN x, i + 1 \in DOMAIN x PROVE Keeps(x[i], x[i + 1], times)
    <2>1. CASE i = Len(writes)
      BY <1>2, <2>1 DEF LastIn
    <2>2. CASE i # Len(writes)
      <3>1. i \in DOMAIN writes /\ i + 1 \in DOMAIN writes
        BY <1>2, <1>5, <2>2
      <3> QED
        BY <1>2, <3>1 DEF ChainKeeps
    <2> QED
      BY <2>1, <2>2
  <1> QED
    BY <1>1, <1>2, <1>3, <1>4, <1>5 DEF ChainKeeps

\* A write of a chain keeps what it replaces, and the chain behind it.
LEMMA ChainTail ==
  ASSUME NEW writes \in Writes, writes # <<>>, NEW stored, NEW times
  PROVE  /\ Tail(writes) \in Writes /\ Head(writes) \in Window!Queue
         /\ 1 \in DOMAIN writes /\ Head(writes) = writes[1]
         /\ LastIn(Head(writes), Tail(writes)) = LastIn(stored, writes)
         /\ ChainKeeps(stored, writes, times) =>
              /\ Keeps(stored, Head(writes), times)
              /\ ChainKeeps(Head(writes), Tail(writes), times)
         /\ \A i \in DOMAIN Tail(writes) : i + 1 \in DOMAIN writes /\ Tail(writes)[i] = writes[i + 1]
  <1>1. PICK t : t = Tail(writes)
    OBVIOUS
  <1>2. /\ t \in Writes /\ Head(writes) \in Window!Queue /\ 1 \in DOMAIN writes /\ Head(writes) = writes[1]
        /\ Len(t) \in Nat /\ Len(writes) = Len(t) + 1
        /\ \A i \in DOMAIN t : i \in Nat /\ i + 1 \in DOMAIN writes /\ t[i] = writes[i + 1]
        /\ t # <<>> => 1 \in DOMAIN t /\ Len(t) \in DOMAIN t
        /\ t = <<>> => Len(t) = 0
    <2>1. /\ writes \in Seq(Window!Queue) /\ Len(writes) \in Nat /\ DOMAIN writes = 1 .. Len(writes)
          /\ Len(writes) # 0
      BY DEF Writes
    <2>2. /\ t \in Seq(Window!Queue) /\ Len(t) = Len(writes) - 1
          /\ \A i \in 1 .. Len(writes) - 1 : t[i] = writes[i + 1]
      BY <1>1, <2>1
    <2>3. DOMAIN t = 1 .. Len(t) /\ (t = <<>> <=> Len(t) = 0)
      BY <2>2
    <2>4. Head(writes) = writes[1] /\ 1 \in DOMAIN writes /\ Head(writes) \in Window!Queue
      BY <2>1
    <2> QED
      BY <2>1, <2>2, <2>3, <2>4 DEF Writes
  <1>3. LastIn(Head(writes), t) = LastIn(stored, writes)
    <2>1. CASE t = <<>>
      BY <1>2, <2>1 DEF LastIn
    <2>2. CASE t # <<>>
      BY <1>2, <2>2 DEF LastIn
    <2> QED
      BY <2>1, <2>2
  <1>4. ASSUME ChainKeeps(stored, writes, times)
        PROVE  Keeps(stored, Head(writes), times) /\ ChainKeeps(Head(writes), t, times)
    <2>1. Keeps(stored, writes[1], times)
      BY <1>4 DEF ChainKeeps
    <2>2. \A i \in DOMAIN writes : i + 1 \in DOMAIN writes => Keeps(writes[i], writes[i + 1], times)
      BY <1>4 DEF ChainKeeps
    <2>3. t # <<>> => Keeps(Head(writes), t[1], times)
      BY <1>2, <2>2
    <2>4. ASSUME NEW i \in DOMAIN t, i + 1 \in DOMAIN t PROVE Keeps(t[i], t[i + 1], times)
      BY <1>2, <2>2, <2>4
    <2> QED
      BY <1>2, <2>1, <2>3, <2>4 DEF ChainKeeps
  <1> QED
    BY <1>1, <1>2, <1>3, <1>4
----------------------------------------------------------------------------
(* The windows of a chat *)

LEMMA NextMessageFacts ==
  ASSUME accepted \in SUBSET Messages, accepted # Messages
  PROVE  Window!NextMessage \in Messages \ accepted
  <1>1. PICK T : T = Messages \ accepted
    OBVIOUS
  <1>2. T \subseteq Nat /\ T # {}
    BY <1>1, ChatAssumption
  <1>3. IsWellFoundedOn(OpToRel(<, Nat), Nat)
    BY NatLessThanWellFounded
  <1>4. PICK x \in T : \A y \in T : <<y, x>> \notin OpToRel(<, Nat)
    BY <1>2, <1>3, WFMin
  <1>5. \A y \in T : ~(y < x)
    BY <1>2, <1>4 DEF OpToRel
  <1>6. \A y \in T : x <= y
    BY <1>2, <1>5
  <1> QED
    BY <1>1, <1>6 DEF Window!NextMessage


Sending == [id : Messages, checked : BOOLEAN]
Turns == {"idle", "busy"}
Reclaims == [pc : {"none", "requested"}] \cup [pc : {"loaded"}, queue : Window!Queue]
Sources == [pc : {"off", "publish", "watching", "finishing"}, final : Window!Queue]
Phases == {"closed", "starting", "listing", "mirror", "recoverable", "ready"}

LEMMA WindowTyped ==
  ASSUME WindowInv
  PROVE  /\ registry \in Window!Modes /\ seen \in Window!Modes /\ news \in Seq(Window!Modes)
         /\ snapshot \in Window!Snapshot \cup {None} /\ source \in Sources
         /\ view \in BOOLEAN /\ phase \in Phases /\ fresh \in BOOLEAN
         /\ queued \in [Window!Renderers -> Window!Queue] /\ file \in Window!Queue /\ cache \in Window!Queue
         /\ chain \in [Window!Renderers -> Writes] /\ chat \in [Window!Renderers -> Turns]
         /\ attempt \in [Window!Renderers -> Sending \cup {None}] /\ reclaim \in Reclaims
         /\ exclusions \in SUBSET Messages /\ accepted \in SUBSET Messages
         /\ sent \in [Messages -> 0 .. MaxSent] /\ opens \in 0 .. MaxOpens /\ crashes \in 0 .. MaxCrashes
         /\ opened \in SUBSET Messages /\ crossed \in BOOLEAN
         /\ "main" \in Window!Renderers /\ "window" \in Window!Renderers
  BY DEF WindowInv, Window!TypeOK, Sources, Phases, Writes, Turns, Sending, Reclaims, Window!Renderers

LEMMA WindowTypes ==
  ASSUME registry' \in Window!Modes, seen' \in Window!Modes, news' \in Seq(Window!Modes),
         snapshot' \in Window!Snapshot \cup {None}, source' \in Sources,
         view' \in BOOLEAN, phase' \in Phases, fresh' \in BOOLEAN,
         queued' \in [Window!Renderers -> Window!Queue], file' \in Window!Queue, cache' \in Window!Queue,
         chain' \in [Window!Renderers -> Writes], chat' \in [Window!Renderers -> Turns],
         attempt' \in [Window!Renderers -> Sending \cup {None}], reclaim' \in Reclaims,
         exclusions' \in SUBSET Messages, accepted' \in SUBSET Messages,
         sent' \in [Messages -> 0 .. MaxSent], opens' \in 0 .. MaxOpens, crashes' \in 0 .. MaxCrashes,
         opened' \in SUBSET Messages, crossed' \in BOOLEAN
  PROVE  Window!TypeOK'
  BY DEF Window!TypeOK, Sources, Phases, Writes, Turns, Sending, Reclaims

LEMMA WindowFacts ==
  ASSUME WindowInv
  PROVE  /\ \A w \in Window!Renderers : Proper(queued[w], accepted)
         /\ Proper(file, accepted) /\ Proper(cache, accepted) /\ Proper(source.final, accepted)
         /\ snapshot # None => snapshot \in Window!Snapshot /\ Proper(snapshot.queue, accepted)
         /\ reclaim.pc = "loaded" => Proper(reclaim.queue, accepted) /\ AllRestored(reclaim.queue)
         /\ \A w \in Window!Renderers : attempt[w] # None => attempt[w] \in Sending
         /\ sent \in [Messages -> Nat]
  <1>1. MaxSent \in Nat
    BY ChatAssumption
  <1>2. sent \in [Messages -> Nat]
    BY <1>1, WindowTyped
  <1>3. ProperInv
    BY DEF WindowInv
  <1> QED
    BY <1>2, <1>3, WindowTyped DEF ProperInv

LEMMA IdsMessages ==
  ASSUME NEW q \in Window!Queue
  PROVE  Window!Ids(q) \subseteq Messages /\ \A i \in DOMAIN q : q[i].id \in Messages
  <1>1. \A i \in DOMAIN q : q[i] \in Window!Record
    BY DEF Window!Queue
  <1> QED
    BY <1>1 DEF Window!Ids, Window!Record

\* A change of the queue of one renderer.
LEMMA QueuedMoves ==
  ASSUME WindowInv, NEW w \in Window!Renderers, NEW q \in Window!Queue,
         queued' = [queued EXCEPT ![w] = q]
  PROVE  /\ queued' \in [Window!Renderers -> Window!Queue]
         /\ queued'[w] = q
         /\ \A v \in Window!Renderers : v # w => queued'[v] = queued[v]
         /\ w = "main" => queued'["main"] = q /\ queued'["window"] = queued["window"]
         /\ w = "window" => queued'["window"] = q /\ queued'["main"] = queued["main"]
  BY WindowTyped

\* A change of the attempt of one renderer.
LEMMA AttemptMoves ==
  ASSUME WindowInv, NEW w \in Window!Renderers, NEW n \in Sending \cup {None},
         attempt' = [attempt EXCEPT ![w] = n]
  PROVE  /\ attempt' \in [Window!Renderers -> Sending \cup {None}]
         /\ attempt'[w] = n
         /\ \A v \in Window!Renderers : v # w => attempt'[v] = attempt[v]
         /\ w = "main" => attempt'["main"] = n /\ attempt'["window"] = attempt["window"]
         /\ w = "window" => attempt'["window"] = n /\ attempt'["main"] = attempt["main"]
  BY WindowTyped

LEMMA ChatMoves ==
  ASSUME WindowInv, NEW w \in Window!Renderers, NEW n \in Turns,
         chat' = [chat EXCEPT ![w] = n]
  PROVE  chat' \in [Window!Renderers -> Turns]
  BY WindowTyped

\* What the registry tells.
LEMMA TellFacts ==
  ASSUME WindowInv, NEW mode \in Window!Modes, Window!Tell(mode)
  PROVE  /\ registry' = mode /\ registry' \in Window!Modes /\ news' \in Seq(Window!Modes) /\ news' # <<>>
         /\ LastIn(seen, news') = mode
         /\ news = <<>> => news'[1] = mode
         /\ news # <<>> => news'[1] = news[1]
         /\ registry # "owned" \/ mode = "none" =>
              /\ seen = "owned" => news'[1] = "none"
              /\ \A i \in DOMAIN news' : i + 1 \in DOMAIN news' /\ news'[i] = "owned" => news'[i + 1] = "none"
         /\ Window!ToSet(news') = Window!ToSet(news) \cup {mode}
  <1>1. PICK x : x = news'
    OBVIOUS
  <1>2. PICK old : old = news
    OBVIOUS
  <1>3. /\ old \in Seq(Window!Modes) /\ x = Append(old, mode) /\ registry' = mode
        /\ Len(old) \in Nat /\ DOMAIN old = 1 .. Len(old) /\ (old = <<>> <=> Len(old) = 0)
    BY <1>1, <1>2, WindowTyped DEF Window!Tell
  <1>4. /\ x \in Seq(Window!Modes) /\ x # <<>> /\ Len(x) = Len(old) + 1 /\ DOMAIN x = 1 .. Len(old) + 1
        /\ \A i \in 1 .. Len(old) : x[i] = old[i]
        /\ x[Len(old) + 1] = mode
    BY <1>3
  <1>5. /\ registry = LastIn(seen, old)
        /\ seen = "owned" /\ old # <<>> => old[1] = "none"
        /\ \A i \in DOMAIN old : i + 1 \in DOMAIN old /\ old[i] = "owned" => old[i + 1] = "none"
    BY <1>2 DEF WindowInv, NewsInv
  <1>6. LastIn(seen, x) = mode
    BY <1>4 DEF LastIn
  <1>7. (old = <<>> => x[1] = mode) /\ (old # <<>> => x[1] = old[1])
    BY <1>3, <1>4
  <1>9. ASSUME registry # "owned" \/ mode = "none"
        PROVE  /\ seen = "owned" => x[1] = "none"
               /\ \A i \in DOMAIN x : i + 1 \in DOMAIN x /\ x[i] = "owned" => x[i + 1] = "none"
    <2>1. seen = "owned" => x[1] = "none"
      BY <1>5, <1>7, <1>9 DEF LastIn
    <2>2. ASSUME NEW i \in DOMAIN x, i + 1 \in DOMAIN x, x[i] = "owned" PROVE x[i + 1] = "none"
      <3>1. CASE i + 1 \in DOMAIN old
        BY <1>3, <1>4, <1>5, <2>2, <3>1
      <3>2. CASE i + 1 \notin DOMAIN old
        <4>1. i = Len(old) /\ old # <<>>
          BY <1>3, <1>4, <2>2, <3>2
        <4>2. old[i] = "owned" /\ registry = "owned"
          BY <1>3, <1>4, <1>5, <2>2, <4>1 DEF LastIn
        <4> QED
          BY <1>4, <1>9, <4>1, <4>2
      <3> QED
        BY <3>1, <3>2
    <2> QED
      BY <2>1, <2>2
  <1>10. Window!ToSet(x) = Window!ToSet(old) \cup {mode}
    <2>1. \A i \in DOMAIN x : (i \in DOMAIN old /\ x[i] = old[i]) \/ x[i] = mode
      BY <1>3, <1>4
    <2>2. \A i \in DOMAIN old : i \in DOMAIN x /\ x[i] = old[i]
      BY <1>3, <1>4
    <2>3. Len(old) + 1 \in DOMAIN x
      BY <1>3, <1>4
    <2> QED
      BY <1>4, <2>1, <2>2, <2>3 DEF Window!ToSet
  <1> QED
    BY <1>1, <1>2, <1>3, <1>4, <1>6, <1>7, <1>9, <1>10
----------------------------------------------------------------------------
(* What a step of the windows keeps *)

WindowStep == WindowInv' /\ Window!KeepsUnsent /\ Window!SendsOnce

LEMMA WindowParts ==
  ASSUME WindowInv
  PROVE  Window!TypeOK /\ ProperInv /\ PhaseInv /\ NewsInv /\ StoredInv /\ HeldInv /\ AttemptInv
  BY DEF WindowInv

\* A step that writes nothing and sends nothing.
LEMMA NothingSent ==
  ASSUME WindowInv, UNCHANGED <<file, sent>>
  PROVE  Window!KeepsUnsent /\ Window!SendsOnce /\ MoreSent
  <1>1. sent \in [Messages -> Nat]
    BY WindowFacts
  <1>2. \A m \in Messages : ~(sent'[m] > sent[m]) /\ sent'[m] >= sent[m]
    BY <1>1
  <1> QED
    BY <1>1, <1>2 DEF Window!KeepsUnsent, Window!SendsOnce, MoreSent

LEMMA ProperStays ==
  ASSUME WindowInv, UNCHANGED <<queued, chain, file, cache, source, reclaim, sent, accepted>>,
         snapshot' \in {snapshot, None}
  PROVE  ProperInv'
  BY WindowParts DEF ProperInv

\* What another chain, or no chain, keeps.
LEMMA BehindFacts ==
  ASSUME WindowInv
  PROVE  /\ ~Window!Behind => seen # "owned" /\ reclaim = Window!Nothing
         /\ registry = "owned" => Window!Behind
         /\ \A i \in DOMAIN news : news[i] = "owned" => Window!Behind
  <1>1. \A i \in DOMAIN news : news[i] \in Window!ToSet(news)
    BY DEF Window!ToSet
  <1>2. news # <<>> => Len(news) \in DOMAIN news
    BY WindowTyped
  <1>3. registry = seen \/ \E i \in DOMAIN news : registry = news[i]
    BY <1>2, WindowParts DEF NewsInv, LastIn
  <1> QED
    BY <1>1, <1>3 DEF Window!Behind

\* The registry moves on: what happened before is not undone.
LEMMA BehindTells ==
  ASSUME WindowInv, NEW mode \in Window!Modes, Window!Tell(mode), UNCHANGED <<seen, reclaim>>
  PROVE  Window!Behind => Window!Behind'
  <1>1. Window!ToSet(news)' = Window!ToSet(news) \cup {mode}
    BY TellFacts
  <1> QED
    BY <1>1 DEF Window!Behind

LEMMA OpenWindowKeeps ==
  ASSUME WindowInv, Window!OpenWindow
  PROVE  WindowStep
  <1>1. PICK mode : mode \in {"joining", "owned"} /\ Window!Tell(mode)
    BY DEF Window!OpenWindow
  <1>2. mode \in Window!Modes
    BY <1>1 DEF Window!Modes
  <1>3. /\ registry' = mode /\ registry' \in Window!Modes /\ news' \in Seq(Window!Modes) /\ news' # <<>>
        /\ LastIn(seen, news') = mode
    BY <1>1, <1>2, TellFacts
  <1>4. /\ seen = "none" /\ registry = "none" /\ phase = "closed" /\ snapshot' = None
        /\ phase' = "starting" /\ fresh' = FALSE /\ opens' = opens + 1 /\ opens < MaxOpens
        /\ UNCHANGED <<seen, source, view, queued, chat, attempt, chain, file, cache, reclaim, exclusions,
                       accepted, sent, crashes, opened>>
    BY DEF Window!OpenWindow, Window!queues
  <1>5. crossed' = (crossed \/ attempt["main"] # None)
    BY DEF Window!OpenWindow, Window!Handled
  <1>6. crossed' \in BOOLEAN /\ (crossed => crossed') /\ (attempt["main"] # None => crossed')
    BY <1>5
  <1>7. Window!TypeOK'
    <2>1. opens' \in 0 .. MaxOpens
      BY <1>4, WindowTyped, ChatAssumption
    <2> QED
      BY <1>3, <1>4, <1>6, <2>1, WindowTyped, WindowTypes DEF Phases
  <1>8. ProperInv'
    BY <1>4, ProperStays
  <1>9. PhaseInv' /\ NewsInv'
    <2>1. PhaseInv'
      BY <1>1, <1>3, <1>4, WindowParts DEF PhaseInv
    <2>2. \A i \in DOMAIN news' : i + 1 \in DOMAIN news' /\ news'[i] = "owned" => news'[i + 1] = "none"
      BY <1>1, <1>2, <1>4, TellFacts
    <2> QED
      BY <1>3, <1>4, <2>1, <2>2, WindowParts DEF NewsInv
  <1>10. Window!Behind => Window!Behind'
    BY <1>1, <1>2, <1>4, BehindTells
  <1>11. StoredInv'
    BY <1>4, <1>6, <1>10, WindowParts DEF StoredInv, MainOwns, Taken, NewsInv
  <1>12. HeldInv'
    BY <1>4, <1>6, <1>10, WindowParts DEF HeldInv, MaySend, MainOwns, Taken, NewsInv
  <1>13. AttemptInv'
    BY <1>4, <1>6, WindowParts DEF AttemptInv, MaySend, PhaseInv, Window!Renderers
  <1> QED
    BY <1>4, <1>7, <1>8, <1>9, <1>11, <1>12, <1>13, NothingSent DEF WindowStep, WindowInv
----------------------------------------------------------------------------
(* The window *)

\* The queue that a renderer loads holds all that is stored.
LEMMA StoredFacts ==
  ASSUME WindowInv, NEW q, Window!Stored(q)
  PROVE  /\ Proper(q, accepted) /\ cache' \in Window!Queue /\ Proper(cache', accepted)
         /\ Proper(Window!Restored(q), accepted) /\ Window!Restored(q) \in Window!Queue
         /\ Window!Ids(Window!Restored(q)) = Window!Ids(q) /\ AllRestored(Window!Restored(q))
         /\ Keeps(file, Window!Restored(q), sent) /\ Window!Ids(q) \subseteq accepted
  <1>1. Proper(q, accepted) /\ cache' \in Window!Queue /\ Proper(cache', accepted)
    BY WindowFacts, WindowTyped DEF Window!Stored
  <1>2. Window!Ids(file) \subseteq Window!Ids(q)
    BY ProperEmpty DEF Window!Stored
  <1>3. /\ Proper(Window!Restored(q), accepted) /\ Window!Ids(Window!Restored(q)) = Window!Ids(q)
        /\ AllRestored(Window!Restored(q))
    BY <1>1, ProperRestored
  <1>4. Keeps(file, Window!Restored(q), sent)
    BY <1>2, <1>3 DEF Keeps
  <1> QED
    BY <1>1, <1>3, <1>4 DEF Proper

LEMMA LoadKeeps ==
  ASSUME WindowInv, Window!Load
  PROVE  WindowStep
  <1>1. PICK q : /\ q \in {file, cache} /\ Window!Stored(q)
                 /\ queued' = [queued EXCEPT !["window"] = Window!Restored(q)]
                 /\ opened' = opened \cup Window!Ids(q)
    BY DEF Window!Load
  <1>2. PICK x : x = Window!Restored(q)
    OBVIOUS
  <1>3. /\ Proper(q, accepted) /\ cache' \in Window!Queue /\ Proper(cache', accepted)
        /\ Proper(x, accepted) /\ x \in Window!Queue /\ Window!Ids(x) = Window!Ids(q)
        /\ Keeps(file, x, sent) /\ Window!Ids(q) \subseteq accepted
    BY <1>1, <1>2, StoredFacts
  <1>4. queued' = [queued EXCEPT !["window"] = x]
    BY <1>1, <1>2
  <1>5. /\ queued' \in [Window!Renderers -> Window!Queue]
        /\ queued'["window"] = x /\ queued'["main"] = queued["main"]
    BY <1>3, <1>4, WindowTyped
  <1>6. /\ phase = "starting" /\ phase' = "listing"
        /\ UNCHANGED <<registry, snapshot, news, seen, source, view, fresh, chat, attempt, chain, file, reclaim,
                       exclusions, accepted, sent, opens, crashes>>
    BY DEF Window!Load, Window!native
  <1>7. crossed' = (crossed \/ chain["main"] # <<>>)
    BY DEF Window!Load, Window!Crossing
  <1>8. crossed' \in BOOLEAN /\ (crossed => crossed') /\ (chain["main"] # <<>> => crossed')
    BY <1>7
  <1>9. opened' \in SUBSET Messages /\ opened \subseteq opened' /\ Window!Ids(x) \subseteq opened'
    BY <1>1, <1>3, WindowTyped
  <1>10. Window!TypeOK'
    BY <1>3, <1>5, <1>6, <1>8, <1>9, WindowTyped, WindowTypes DEF Phases
  <1>11. ProperInv'
    BY <1>3, <1>5, <1>6, WindowParts DEF ProperInv, Window!Renderers
  <1>12. PhaseInv' /\ NewsInv'
    BY <1>6, WindowParts DEF PhaseInv, NewsInv
  <1>13. MainOwns' <=> MainOwns
    BY <1>6 DEF MainOwns, Window!Behind
  <1>14. StoredInv'
    <2>1. chain["main"] = <<>> => LastIn(file, chain["main"]) = file
      BY DEF LastIn
    <2> QED
      BY <1>3, <1>5, <1>6, <1>8, <1>13, <2>1, WindowParts DEF StoredInv, Taken
  <1>15. HeldInv'
    BY <1>5, <1>6, <1>8, <1>9, <1>13, WindowParts DEF HeldInv, MaySend, Taken
  <1>16. AttemptInv'
    BY <1>6, <1>8, <1>9, WindowParts DEF AttemptInv, MaySend
  <1> QED
    BY <1>6, <1>10, <1>11, <1>12, <1>14, <1>15, <1>16, NothingSent DEF WindowStep, WindowInv

LEMMA JoinKeeps ==
  ASSUME WindowInv, Window!Join
  PROVE  WindowStep
  <1>1. /\ phase = "listing"
        /\ UNCHANGED <<snapshot, seen, source, view, fresh, queued, chat, attempt, chain, file, cache, reclaim,
                       exclusions, accepted, sent, opens, crashes, opened, crossed>>
    BY DEF Window!Join, Window!queues, Window!history
  <1>2. chain["window"] = <<>> /\ attempt["window"] = None /\ registry \in {"joining", "owned"}
    BY <1>1, WindowParts DEF PhaseInv
  <1>3. ProperInv'
    BY <1>1, ProperStays
  <1>4. AttemptInv' /\ (phase' = "ready" => registry' = "owned" /\ registry = "owned")
    BY <1>1, <1>2, WindowParts DEF AttemptInv, MaySend, Window!Join, Window!Tell
  <1>5. LastIn(file, chain["window"]) = file
    BY <1>2 DEF LastIn
  <1>6. CASE registry = "joining"
    <2>1. Window!Tell("handoff") /\ phase' = "mirror" /\ "handoff" \in Window!Modes
      BY <1>6 DEF Window!Join, Window!Modes
    <2>2. /\ registry' = "handoff" /\ registry' \in Window!Modes /\ news' \in Seq(Window!Modes) /\ news' # <<>>
          /\ LastIn(seen, news') = "handoff"
      BY <2>1, TellFacts
    <2>3. Window!TypeOK'
      BY <1>1, <2>1, <2>2, WindowTyped, WindowTypes DEF Phases
    <2>4. PhaseInv'
      BY <1>1, <1>6, <2>1, <2>2, WindowParts DEF PhaseInv
    <2>5. NewsInv'
      <3>1. /\ \A i \in DOMAIN news' : i + 1 \in DOMAIN news' /\ news'[i] = "owned" => news'[i + 1] = "none"
            /\ seen = "owned" => news'[1] = "none"
        BY <1>6, <2>1, TellFacts
      <3> QED
        BY <1>1, <2>2, <3>1, WindowParts DEF NewsInv
    <2>6. MainOwns' => MainOwns
      BY <1>1, <1>6, <2>1, BehindTells DEF MainOwns
    <2>7. StoredInv'
      BY <1>1, <2>1, <2>2, <2>6, WindowParts DEF StoredInv, Taken
    <2>8. HeldInv'
      BY <1>1, <2>1, <2>2, <2>6, WindowParts DEF HeldInv, MaySend, Taken
    <2> QED
      BY <1>1, <1>3, <1>4, <2>3, <2>4, <2>5, <2>7, <2>8, NothingSent DEF WindowStep, WindowInv
  <1>7. CASE registry = "owned"
    <2>1. phase' = "ready" /\ UNCHANGED <<registry, news>>
      BY <1>7 DEF Window!Join
    <2>2. Window!TypeOK'
      BY <1>1, <2>1, WindowTyped, WindowTypes DEF Phases
    <2>3. PhaseInv' /\ NewsInv'
      BY <1>1, <1>7, <2>1, WindowParts DEF PhaseInv, NewsInv
    <2>4. MainOwns' <=> MainOwns
      BY <1>1, <2>1 DEF MainOwns, Window!Behind
    <2>5. StoredInv'
      BY <1>1, <1>5, <1>7, <2>1, <2>4, WindowParts DEF StoredInv, Taken
    <2>6. HeldInv'
      BY <1>1, <2>1, <2>4, WindowParts DEF HeldInv, MaySend, Taken
    <2> QED
      BY <1>1, <1>3, <1>4, <2>2, <2>3, <2>5, <2>6, NothingSent DEF WindowStep, WindowInv
  <1> QED
    BY <1>2, <1>6, <1>7

LEMMA ReadSnapshotKeeps ==
  ASSUME WindowInv, Window!ReadSnapshot
  PROVE  WindowStep
  <1>1. PICK q : q = snapshot.queue
    OBVIOUS
  <1>2. /\ phase = "mirror" /\ fresh
        /\ queued' = [queued EXCEPT !["window"] = q]
        /\ UNCHANGED <<registry, snapshot, news, seen, source, view, attempt, chain, file, cache, reclaim,
                       exclusions, accepted, sent, opens, crashes, opened, crossed>>
    BY <1>1 DEF Window!ReadSnapshot, Window!native, Window!history
  <1>3. fresh' = FALSE
    BY DEF Window!ReadSnapshot
  <1>4. phase' = IF snapshot.final THEN "ready" ELSE phase
    BY DEF Window!ReadSnapshot
  <1>5. PICK n : n \in Turns /\ chat' = [chat EXCEPT !["window"] = n]
    BY DEF Window!ReadSnapshot, Turns
  <1>6. chat' \in [Window!Renderers -> Turns]
    BY <1>5, WindowTyped
  <1>7. snapshot # None /\ q \in Window!Queue /\ Proper(q, accepted)
    BY <1>1, <1>2, WindowParts, WindowFacts DEF PhaseInv, Proper
  <1>8. /\ queued' \in [Window!Renderers -> Window!Queue]
        /\ queued'["window"] = q /\ queued'["main"] = queued["main"]
    BY <1>2, <1>7, WindowTyped
  <1>9. phase' = "mirror" \/ (phase' = "ready" /\ registry = "owned")
    BY <1>2, <1>4, <1>7, WindowParts DEF PhaseInv
  <1>10. Window!TypeOK'
    BY <1>2, <1>3, <1>6, <1>8, <1>9, WindowTyped, WindowTypes DEF Phases
  <1>11. ProperInv'
    BY <1>2, <1>7, <1>8, WindowParts DEF ProperInv, Window!Renderers
  <1>12. PhaseInv' /\ NewsInv'
    <2>1. ~fresh'
      BY <1>3
    <2> QED
      BY <1>2, <1>9, <2>1, WindowParts DEF PhaseInv, NewsInv
  <1>13. MainOwns' <=> MainOwns
    BY <1>2 DEF MainOwns, Window!Behind
  <1>14. StoredInv'
    <2>1. LastIn(file, chain["window"]) = file
      BY <1>2, WindowParts DEF PhaseInv, LastIn
    <2> QED
      BY <1>1, <1>2, <1>8, <1>9, <1>13, <2>1, WindowParts DEF StoredInv, Taken
  <1>15. HeldInv'
    BY <1>1, <1>2, <1>8, <1>9, <1>13, WindowParts DEF HeldInv, MaySend, Taken
  <1>16. AttemptInv'
    BY <1>2, WindowParts DEF AttemptInv, MaySend
  <1> QED
    BY <1>2, <1>10, <1>11, <1>12, <1>14, <1>15, <1>16, NothingSent DEF WindowStep, WindowInv

LEMMA RecoveryTimerKeeps ==
  ASSUME WindowInv, Window!RecoveryTimer
  PROVE  WindowStep
  <1>1. /\ phase = "mirror" /\ phase' = "recoverable"
        /\ UNCHANGED <<registry, snapshot, news, seen, source, view, fresh, queued, chat, attempt, chain, file,
                       cache, reclaim, exclusions, accepted, sent, opens, crashes, opened, crossed>>
    BY DEF Window!RecoveryTimer, Window!native, Window!queues, Window!history
  <1>2. Window!TypeOK'
    BY <1>1, WindowTyped, WindowTypes DEF Phases
  <1>3. ProperInv'
    BY <1>1, ProperStays
  <1>4. PhaseInv' /\ NewsInv'
    BY <1>1, WindowParts DEF PhaseInv, NewsInv
  <1>5. MainOwns' <=> MainOwns
    BY <1>1 DEF MainOwns, Window!Behind
  <1>6. StoredInv'
    BY <1>1, <1>5, WindowParts DEF StoredInv, Taken
  <1>7. HeldInv' /\ AttemptInv'
    BY <1>1, <1>5, WindowParts DEF HeldInv, AttemptInv, MaySend, Taken
  <1> QED
    BY <1>1, <1>2, <1>3, <1>4, <1>6, <1>7, NothingSent DEF WindowStep, WindowInv

LEMMA ReloadKeeps ==
  ASSUME WindowInv, Window!Reload
  PROVE  WindowStep
  <1>1. /\ phase = "recoverable" /\ phase' = "ready"
        /\ opened' = opened \cup Window!Ids(queued["window"])
        /\ UNCHANGED <<seen, source, view, fresh, queued, chat, attempt, chain, file, cache, reclaim, exclusions,
                       accepted, sent, opens, crashes>>
    BY DEF Window!Reload, Window!queues
  <1>2. crossed' \in BOOLEAN
    BY DEF Window!Reload
  <1>3. /\ crossed => crossed'
        /\ ~crossed' => attempt["main"] = None /\ chain["main"] = <<>>
        /\ ~crossed' => Window!Ids(queued["main"]) = Window!Ids(queued["window"])
        /\ ~crossed' => ~(registry = "handoff" /\ Window!Behind)
    BY DEF Window!Reload
  <1>4. /\ chain["window"] = <<>> /\ attempt["window"] = None /\ registry \in {"handoff", "owned"}
        /\ LastIn(file, chain["window"]) = file
    BY <1>1, WindowParts DEF PhaseInv, LastIn
  <1>5. opened' \in SUBSET Messages /\ opened \subseteq opened' /\ Window!Ids(queued["window"]) \subseteq opened'
    BY <1>1, WindowTyped, IdsMessages
  <1>6. snapshot' \in {snapshot, None}
    BY DEF Window!Reload
  <1>7. ProperInv'
    BY <1>1, <1>6, ProperStays
  <1>8. ~crossed' => Keeps(file, queued["main"], sent) /\ Keeps(file, queued["window"], sent)
    <2> SUFFICES ASSUME ~crossed' PROVE Keeps(file, queued["main"], sent) /\ Keeps(file, queued["window"], sent)
      OBVIOUS
    <2>1. ~crossed /\ StoredInv
      BY <1>3, WindowParts
    <2>2. Keeps(file, queued["main"], sent)
      <3>1. CASE registry = "handoff"
        BY <1>3, <2>1, <3>1 DEF StoredInv, MainOwns, LastIn
      <3>2. CASE registry = "owned"
        BY <1>1, <2>1, <3>2 DEF StoredInv, Taken
      <3> QED
        BY <1>4, <3>1, <3>2
    <2> QED
      BY <1>3, <2>2 DEF Keeps
  <1>9. registry' = "owned" /\ registry' \in Window!Modes /\ news' \in Seq(Window!Modes) /\ NewsInv'
    <2>1. CASE registry = "handoff"
      <3>1. Window!Tell("owned") /\ "owned" \in Window!Modes
        BY <2>1 DEF Window!Reload, Window!Modes
      <3>2. /\ registry' = "owned" /\ registry' \in Window!Modes /\ news' \in Seq(Window!Modes) /\ news' # <<>>
            /\ LastIn(seen, news') = "owned"
            /\ seen = "owned" => news'[1] = "none"
            /\ \A i \in DOMAIN news' : i + 1 \in DOMAIN news' /\ news'[i] = "owned" => news'[i + 1] = "none"
        BY <2>1, <3>1, TellFacts
      <3> QED
        BY <1>1, <3>2, WindowParts DEF NewsInv
    <2>2. CASE registry = "owned"
      BY <1>1, <2>2, WindowTyped, WindowParts DEF Window!Reload, NewsInv
    <2> QED
      BY <1>4, <2>1, <2>2
  <1>10. Window!TypeOK'
    BY <1>1, <1>2, <1>5, <1>6, <1>9, WindowTyped, WindowTypes DEF Phases
  <1>11. PhaseInv'
    BY <1>1, <1>4, <1>9 DEF PhaseInv
  <1>12. StoredInv'
    BY <1>1, <1>3, <1>4, <1>8, <1>9, WindowParts DEF StoredInv, MainOwns, Taken
  <1>13. HeldInv'
    BY <1>1, <1>5, <1>9 DEF HeldInv, MainOwns, Taken, MaySend
  <1>14. AttemptInv'
    BY <1>1, <1>3, <1>4 DEF AttemptInv, Window!Renderers
  <1> QED
    BY <1>1, <1>7, <1>9, <1>10, <1>11, <1>12, <1>13, <1>14, NothingSent DEF WindowStep, WindowInv
LEMMA WindowLoadedKeeps ==
  ASSUME WindowInv, Window!WindowLoaded
  PROVE  WindowStep
  <1>1. PICK q : q = Window!Marked(queued["window"])
    OBVIOUS
  <1>2. /\ phase = "ready" /\ queued' = [queued EXCEPT !["window"] = q]
        /\ UNCHANGED <<registry, snapshot, news, seen, source, view, phase, fresh, chat, attempt, chain, file,
                       cache, reclaim, exclusions, accepted, sent, opens, crashes, opened, crossed>>
    BY <1>1 DEF Window!WindowLoaded, Window!native, Window!handover, Window!history
  <1>3. Proper(q, accepted) /\ q \in Window!Queue /\ Window!Ids(q) = Window!Ids(queued["window"])
    <2>1. PICK old : old = queued["window"]
      OBVIOUS
    <2>2. Proper(old, accepted)
      BY <2>1, WindowFacts, WindowTyped
    <2> QED
      BY <1>1, <2>1, <2>2, ProperMarked DEF Proper
  <1>4. /\ queued' \in [Window!Renderers -> Window!Queue]
        /\ queued'["window"] = q /\ queued'["main"] = queued["main"]
    BY <1>2, <1>3, WindowTyped
  <1>5. Window!TypeOK'
    BY <1>2, <1>4, WindowTyped, WindowTypes
  <1>6. ProperInv'
    BY <1>2, <1>3, <1>4, WindowParts DEF ProperInv, Window!Renderers
  <1>7. PhaseInv' /\ NewsInv'
    BY <1>2, WindowParts DEF PhaseInv, NewsInv
  <1>8. MainOwns' <=> MainOwns
    BY <1>2 DEF MainOwns, Window!Behind
  <1>9. StoredInv'
    <2>1. \A x : Keeps(x, queued["window"], sent) => Keeps(x, q, sent)
      BY <1>3 DEF Keeps
    <2> QED
      BY <1>2, <1>4, <1>8, <2>1, WindowParts DEF StoredInv, Taken
  <1>10. HeldInv' /\ AttemptInv'
    <2>1. HeldInv'
      BY <1>2, <1>3, <1>4, <1>8, WindowParts DEF HeldInv, MaySend, Taken
    <2> QED
      BY <1>2, <2>1, WindowParts DEF AttemptInv, MaySend
  <1> QED
    BY <1>2, <1>5, <1>6, <1>7, <1>9, <1>10, NothingSent DEF WindowStep, WindowInv

LEMMA CloseKeeps ==
  ASSUME WindowInv, Window!Close
  PROVE  WindowStep
  <1>1. /\ phase # "closed" /\ phase' = "closed"
        /\ Window!Tell("none") /\ snapshot' = None
        /\ file' \in {file} \cup {chain["window"][i] : i \in DOMAIN chain["window"] \cap {1}}
        /\ queued' = [queued EXCEPT !["window"] = <<>>]
        /\ chain' = [chain EXCEPT !["window"] = <<>>]
        /\ chat' = [chat EXCEPT !["window"] = "idle"]
        /\ attempt' = [attempt EXCEPT !["window"] = None]
        /\ UNCHANGED <<seen, source, view, cache, reclaim, exclusions, accepted, sent, opens, crashes, opened>>
    BY DEF Window!Close
  <1>2. fresh' = FALSE
    BY DEF Window!Close
  <1>3. crossed' = (crossed \/ reclaim.pc = "loaded")
    BY DEF Window!Close
  <1>4. crossed' \in BOOLEAN /\ (crossed => crossed') /\ (reclaim.pc = "loaded" => crossed')
    BY <1>3
  <1>5. "none" \in Window!Modes
    BY DEF Window!Modes
  <1>6. /\ registry' = "none" /\ registry' \in Window!Modes /\ news' \in Seq(Window!Modes) /\ news' # <<>>
        /\ LastIn(seen, news') = "none"
        /\ seen = "owned" => news'[1] = "none"
        /\ \A i \in DOMAIN news' : i + 1 \in DOMAIN news' /\ news'[i] = "owned" => news'[i + 1] = "none"
    BY <1>1, <1>5, TellFacts
  <1>7. PICK e : e = <<>>
    OBVIOUS
  <1>8. e \in Window!Queue /\ e \in Writes /\ DOMAIN e = {} /\ Proper(e, accepted)
    BY <1>7, ProperEmpty, ChainEmpty DEF Proper, Writes
  <1>9. /\ queued' \in [Window!Renderers -> Window!Queue]
        /\ queued'["window"] = e /\ queued'["main"] = queued["main"]
        /\ chain' \in [Window!Renderers -> Writes]
        /\ chain'["window"] = e /\ chain'["main"] = chain["main"]
        /\ chat' \in [Window!Renderers -> Turns]
        /\ attempt' \in [Window!Renderers -> Sending \cup {None}]
        /\ attempt'["window"] = None /\ attempt'["main"] = attempt["main"]
    BY <1>1, <1>7, <1>8, WindowTyped DEF Turns
  <1>10. file' = file \/ (chain["window"] # <<>> /\ 1 \in DOMAIN chain["window"] /\ file' = chain["window"][1])
    BY <1>1, <1>7, <1>8
  <1>11. file' \in Window!Queue /\ Proper(file', accepted)
    BY <1>10, WindowFacts, WindowParts, WindowTyped DEF ProperInv, Proper
  <1>12. Window!TypeOK'
    BY <1>1, <1>2, <1>4, <1>6, <1>9, <1>11, WindowTyped, WindowTypes DEF Phases
  <1>13. ProperInv'
    <2>1. \A w \in Window!Renderers : /\ Proper(queued'[w], accepted)
                                      /\ \A i \in DOMAIN chain'[w] : Proper(chain'[w][i], accepted)
      BY <1>8, <1>9, WindowParts DEF ProperInv, Window!Renderers
    <2> QED
      BY <1>1, <1>11, <2>1, WindowParts DEF ProperInv
  <1>14. PhaseInv' /\ NewsInv'
    <2>1. ~fresh'
      BY <1>2
    <2>2. PhaseInv'
      BY <1>1, <1>6, <1>7, <1>9, <2>1 DEF PhaseInv
    <2> QED
      BY <1>1, <1>6, <2>2, WindowParts DEF NewsInv
  <1>15. MainOwns' => MainOwns
    BY <1>1, <1>5, BehindTells, BehindFacts DEF MainOwns
  <1>16. MainOwns => file' = file
    BY <1>10, WindowParts DEF MainOwns, PhaseInv
  <1>17. StoredInv' /\ Window!KeepsUnsent
    <2>1. ASSUME ~crossed, file' # file
          PROVE  chain["main"] = <<>> /\ Keeps(file, file', sent)
      BY <1>10, <2>1, WindowParts DEF StoredInv, PhaseInv, ChainKeeps, Window!Renderers
    <2>2. Window!KeepsUnsent
      <3> SUFFICES ASSUME ~crossed, NEW m \in Window!Ids(file) \ Window!Ids(file') PROVE sent[m] > 0
        BY WindowTyped DEF Window!KeepsUnsent
      <3> QED
        BY <2>1 DEF Keeps
    <2>3. ~crossed => \A w \in Window!Renderers : ChainKeeps(file', chain'[w], sent)
      <3>1. ChainKeeps(file', <<>>, sent)
        BY ChainEmpty
      <3>2. ~crossed => ChainKeeps(file', chain["main"], sent)
        BY <2>1, <3>1, WindowParts DEF StoredInv, Window!Renderers
      <3> QED
        BY <1>7, <1>9, <3>1, <3>2 DEF Window!Renderers
    <2> QED
      BY <1>1, <1>4, <1>6, <1>9, <1>15, <1>16, <2>2, <2>3, WindowParts DEF StoredInv, Taken
  <1>18. HeldInv'
    BY <1>1, <1>4, <1>6, <1>9, <1>15, WindowParts DEF HeldInv, MaySend, Taken
  <1>19. AttemptInv'
    BY <1>1, <1>4, <1>6, <1>9, WindowParts DEF AttemptInv, MaySend, Window!Renderers
  <1>20. Window!SendsOnce
    <2>1. \A m \in Messages : ~(sent'[m] > sent[m])
      BY <1>1, WindowFacts
    <2> QED
      BY <2>1 DEF Window!SendsOnce
  <1> QED
    BY <1>12, <1>13, <1>14, <1>17, <1>18, <1>19, <1>20 DEF WindowStep, WindowInv

----------------------------------------------------------------------------
(* The main renderer and the registry *)

LEMMA NotedFacts ==
  ASSUME NEW q, NEW visible \in BOOLEAN, q \in Window!Queue, exclusions \in SUBSET Messages
  PROVE  /\ Window!Noted(q, visible) \in SUBSET Messages
         /\ ~visible => exclusions \subseteq Window!Noted(q, visible)
         /\ ~visible /\ AllRestored(q) => Window!Ids(q) \subseteq Window!Noted(q, visible)
  BY IdsMessages DEF Window!Noted, AllRestored, Window!Ids

\* What the main renderer hears next.
LEMMA NewsTail ==
  ASSUME WindowInv, news # <<>>
  PROVE  /\ Tail(news) \in Seq(Window!Modes) /\ Head(news) \in Window!Modes
         /\ registry = LastIn(Head(news), Tail(news))
         /\ Head(news) = "owned" /\ Tail(news) # <<>> => Tail(news)[1] = "none"
         /\ \A i \in DOMAIN Tail(news) : i + 1 \in DOMAIN Tail(news) /\ Tail(news)[i] = "owned" => Tail(news)[i + 1] = "none"
         /\ seen = "owned" => Head(news) = "none"
         /\ Window!ToSet(news) = {Head(news)} \cup Window!ToSet(Tail(news))
  <1>1. PICK old : old = news
    OBVIOUS
  <1>2. PICK t : t = Tail(old)
    OBVIOUS
  <1>3. old \in Seq(Window!Modes) /\ old # <<>>
    BY <1>1, WindowTyped
  <1>4. /\ registry = LastIn(seen, old)
        /\ seen = "owned" => old[1] = "none"
        /\ \A i \in DOMAIN old : i + 1 \in DOMAIN old /\ old[i] = "owned" => old[i + 1] = "none"
    BY <1>1, WindowParts DEF NewsInv
  <1>5. /\ t \in Seq(Window!Modes) /\ 1 \in DOMAIN old /\ Head(old) = old[1] /\ Head(old) \in Window!Modes
        /\ Len(t) \in Nat /\ Len(old) = Len(t) + 1
        /\ \A i \in DOMAIN t : i \in Nat /\ i >= 1 /\ i + 1 \in DOMAIN old /\ t[i] = old[i + 1]
        /\ \A i \in DOMAIN old : i \in Nat /\ (i = 1 \/ (i - 1 \in DOMAIN t /\ t[i - 1] = old[i]))
    BY <1>2, <1>3
  <1>6. (t # <<>> => 1 \in DOMAIN t /\ Len(t) \in DOMAIN t) /\ (t = <<>> => Len(t) = 0)
    BY <1>5
  <1>7. registry = LastIn(Head(old), t)
    <2>1. CASE t = <<>>
      BY <1>3, <1>4, <1>5, <1>6, <2>1 DEF LastIn
    <2>2. CASE t # <<>>
      BY <1>3, <1>4, <1>5, <1>6, <2>2 DEF LastIn
    <2> QED
      BY <2>1, <2>2
  <1>8. Head(old) = "owned" /\ t # <<>> => t[1] = "none"
    BY <1>4, <1>5, <1>6
  <1>9. ASSUME NEW i \in DOMAIN t, i + 1 \in DOMAIN t, t[i] = "owned" PROVE t[i + 1] = "none"
    BY <1>4, <1>5, <1>9
  <1>10. Window!ToSet(old) = {Head(old)} \cup Window!ToSet(t)
    <2>1. \A i \in DOMAIN old : old[i] = Head(old) \/ \E j \in DOMAIN t : old[i] = t[j]
      BY <1>5
    <2>2. \A j \in DOMAIN t : \E i \in DOMAIN old : old[i] = t[j]
      BY <1>5
    <2> QED
      BY <1>5, <2>1, <2>2 DEF Window!ToSet
  <1> QED
    BY <1>1, <1>2, <1>4, <1>5, <1>7, <1>8, <1>9, <1>10

LEMMA HandleNewsKeeps ==
  ASSUME WindowInv, Window!HandleNews
  PROVE  WindowStep
  <1>1. /\ news # <<>> /\ news' = Tail(news) /\ seen' = Head(news)
        /\ source' = IF Head(news) = "handoff" THEN [Window!Off EXCEPT !.pc = "publish"] ELSE Window!Off
        /\ UNCHANGED <<registry, snapshot, phase, fresh, queued, chat, attempt, chain, file, cache,
                       accepted, sent, opens, crashes, opened, crossed>>
    BY DEF Window!HandleNews, Window!history
  <1>2. view' = (view /\ Head(news) # "owned")
    BY DEF Window!HandleNews
  <1>3. view' \in BOOLEAN /\ (view' => view)
    BY <1>2
  <1>4. reclaim' = Window!Reclaimed(Head(news)) /\ exclusions' = Window!Noted(queued["main"], view')
    BY DEF Window!HandleNews
  <1>5. /\ news' \in Seq(Window!Modes) /\ seen' \in Window!Modes
        /\ registry = LastIn(seen', news')
        /\ seen' = "owned" /\ news' # <<>> => news'[1] = "none"
        /\ \A i \in DOMAIN news' : i + 1 \in DOMAIN news' /\ news'[i] = "owned" => news'[i + 1] = "none"
        /\ seen = "owned" => seen' = "none"
        /\ Window!ToSet(news) = {seen'} \cup Window!ToSet(news')
    BY <1>1, NewsTail
  <1>6. PICK e : e = <<>> /\ e \in Window!Queue /\ Proper(e, accepted)
    BY ProperEmpty DEF Proper
  <1>7. PICK s : s \in {"publish", "off"} /\ source' = [pc |-> s, final |-> e] /\ (s = "publish" => seen' = "handoff")
    <2>1. Window!Off = [pc |-> "off", final |-> e]
      BY <1>6 DEF Window!Off
    <2>2. [Window!Off EXCEPT !.pc = "publish"] = [pc |-> "publish", final |-> e]
      BY <2>1
    <2>3. CASE Head(news) = "handoff"
      BY <1>1, <2>2, <2>3
    <2>4. CASE Head(news) # "handoff"
      <3>1. source' = [pc |-> "off", final |-> e] /\ "off" # "publish"
        BY <1>1, <2>1, <2>4
      <3> QED
        BY <3>1
    <2> QED
      BY <2>3, <2>4
  <1>8. source' \in Sources /\ source'.pc = s /\ source'.final = e
    BY <1>6, <1>7 DEF Sources
  <1>9. /\ reclaim' = reclaim \/ (reclaim = Window!Nothing /\ reclaim' = [pc |-> "requested"])
        /\ reclaim' \in Reclaims
        /\ seen = "owned" => reclaim' # Window!Nothing
        /\ reclaim' = Window!Nothing => reclaim = Window!Nothing
        /\ reclaim'.pc = "loaded" => reclaim' = reclaim
    <2>1. reclaim' = reclaim \/ (reclaim = Window!Nothing /\ reclaim' = [pc |-> "requested"])
      BY <1>4 DEF Window!Reclaimed
    <2>2. seen = "owned" => reclaim' # Window!Nothing
      BY <1>1, <1>4, <1>5 DEF Window!Reclaimed, Window!Nothing
    <2>3. reclaim' \in Reclaims
      BY <2>1, WindowTyped DEF Reclaims
    <2> QED
      BY <2>1, <2>2, <2>3 DEF Window!Nothing
  <1>10. exclusions' \in SUBSET Messages /\ (~view' => exclusions \subseteq exclusions')
    BY <1>3, <1>4, NotedFacts, WindowTyped
  <1>11. Window!TypeOK'
    BY <1>1, <1>3, <1>5, <1>8, <1>9, <1>10, WindowTyped, WindowTypes
  <1>12. ProperInv'
    BY <1>1, <1>6, <1>8, <1>9, WindowParts DEF ProperInv
  <1>13. PhaseInv' /\ NewsInv'
    BY <1>1, <1>5, <1>7, <1>8, WindowParts DEF PhaseInv, NewsInv
  <1>14. MainOwns' => MainOwns
    BY <1>1, <1>5, <1>9 DEF MainOwns, Window!Behind
  <1>15. StoredInv'
    BY <1>1, <1>7, <1>8, <1>9, <1>14, WindowParts DEF StoredInv, Taken
  <1>16. HeldInv'
    BY <1>1, <1>3, <1>7, <1>8, <1>10, <1>14, WindowTyped, WindowParts DEF HeldInv, MaySend, Taken
  <1>17. AttemptInv'
    BY <1>1, <1>7, <1>8, WindowParts DEF AttemptInv, MaySend
  <1> QED
    BY <1>1, <1>11, <1>12, <1>13, <1>15, <1>16, <1>17, NothingSent DEF WindowStep, WindowInv
LEMMA PublishKeeps ==
  ASSUME WindowInv, Window!Publish
  PROVE  WindowStep
  <1>1. /\ source.pc \in {"publish", "watching"}
        /\ UNCHANGED <<registry, news, seen, view, phase, queued, chat, attempt, chain, file, cache, reclaim,
                       exclusions, accepted, sent, opens, crashes, opened, crossed>>
    BY DEF Window!Publish, Window!queues, Window!history
  <1>2. seen = "handoff" /\ source.pc # "finishing"
    BY <1>1, WindowParts DEF NewsInv
  <1>3. MainOwns' <=> MainOwns
    BY <1>1 DEF MainOwns, Window!Behind
  <1>4. PICK e : e = <<>> /\ e \in Window!Queue /\ Proper(e, accepted)
    BY ProperEmpty DEF Proper
  <1>5. CASE registry = "handoff"
    <2>1. PICK busy, q, r : busy \in BOOLEAN /\
            q = queued["main"] /\ r = [final |-> FALSE, busy |-> busy, queue |-> q] /\ snapshot' = r
      <3>1. (chat["main"] = "busy") \in BOOLEAN
        OBVIOUS
      <3> QED
        BY <1>5, <3>1 DEF Window!Publish
    <2>2. q \in Window!Queue /\ Proper(q, accepted)
      BY <2>1, WindowTyped, WindowFacts
    <2>3. r \in Window!Snapshot /\ r.queue = q /\ ~r.final
      BY <2>1, <2>2 DEF Window!Snapshot
    <2>4. snapshot' \in Window!Snapshot /\ snapshot'.queue = q /\ ~snapshot'.final /\ snapshot' # None
      BY <2>1, <2>3, ChatAssumption
    <2>5. fresh' = TRUE
      BY <1>5 DEF Window!Publish
    <2>6. fresh' \in BOOLEAN
      BY <2>5
    <2>7. source' = [source EXCEPT !.pc = "watching"]
      BY <1>5 DEF Window!Publish
    <2>8. source' \in Sources /\ source'.pc = "watching" /\ source'.final = source.final
      BY <2>7, WindowTyped DEF Sources
    <2>9. Window!TypeOK'
      BY <1>1, <2>4, <2>6, <2>8, WindowTyped, WindowTypes
    <2>10. ProperInv'
      BY <1>1, <2>2, <2>4, <2>8, WindowParts DEF ProperInv
    <2>11. PhaseInv' /\ NewsInv'
      BY <1>1, <1>2, <1>5, <2>4, <2>8, WindowParts DEF PhaseInv, NewsInv
    <2>12. StoredInv' /\ HeldInv'
      BY <1>1, <1>3, <1>5, <2>8, WindowParts DEF StoredInv, HeldInv, MaySend, Taken
    <2>13. AttemptInv'
      BY <1>1, <2>8, WindowParts DEF AttemptInv, MaySend
    <2> QED
      BY <1>1, <2>9, <2>10, <2>11, <2>12, <2>13, NothingSent DEF WindowStep, WindowInv
  <1>6. CASE registry # "handoff"
    <2>1. source' = Window!Off /\ UNCHANGED <<snapshot, fresh>>
      BY <1>6 DEF Window!Publish
    <2>2. source' = [pc |-> "off", final |-> e]
      BY <1>4, <2>1 DEF Window!Off
    <2>3. source' \in Sources /\ source'.pc = "off" /\ source'.final = e
      BY <1>4, <2>2 DEF Sources
    <2>4. Window!TypeOK'
      BY <1>1, <2>1, <2>3, WindowTyped, WindowTypes
    <2>5. ProperInv'
      BY <1>1, <1>4, <2>1, <2>3, WindowParts DEF ProperInv
    <2>6. PhaseInv' /\ NewsInv'
      BY <1>1, <2>1, <2>3, WindowParts DEF PhaseInv, NewsInv
    <2>7. StoredInv' /\ HeldInv'
      BY <1>1, <1>3, <2>1, <2>3, WindowParts DEF StoredInv, HeldInv, MaySend, Taken
    <2>8. AttemptInv'
      BY <1>1, <2>3, WindowParts DEF AttemptInv, MaySend
    <2> QED
      BY <1>1, <2>4, <2>5, <2>6, <2>7, <2>8, NothingSent DEF WindowStep, WindowInv
  <1> QED
    BY <1>5, <1>6

LEMMA FinishesKeeps ==
  ASSUME WindowInv, Window!Finish
  PROVE  WindowStep
  <1>1. PICK q : q = queued["main"]
    OBVIOUS
  <1>2. /\ source.pc = "watching" /\ source' = [pc |-> "finishing", final |-> q]
        /\ UNCHANGED <<registry, snapshot, news, seen, view, phase, fresh, queued, chat, attempt, chain, file,
                       cache, reclaim, exclusions, accepted, sent, opens, crashes, opened>>
    BY <1>1 DEF Window!Finish, Window!native, Window!queues
  <1>3. crossed' = (crossed \/ attempt["main"] # None)
    BY DEF Window!Finish, Window!Handled
  <1>4. crossed' \in BOOLEAN /\ (crossed => crossed') /\ (attempt["main"] # None => crossed')
    BY <1>3
  <1>5. q \in Window!Queue /\ Proper(q, accepted)
    BY <1>1, WindowTyped, WindowFacts
  <1>6. source' \in Sources /\ source'.pc = "finishing" /\ source'.final = q
    BY <1>2, <1>5 DEF Sources
  <1>7. Window!TypeOK'
    BY <1>2, <1>4, <1>6, WindowTyped, WindowTypes
  <1>8. ProperInv'
    BY <1>2, <1>5, <1>6, WindowParts DEF ProperInv
  <1>9. PhaseInv' /\ NewsInv'
    BY <1>2, <1>6, WindowParts DEF PhaseInv, NewsInv
  <1>10. MainOwns' <=> MainOwns
    BY <1>2 DEF MainOwns, Window!Behind
  <1>11. StoredInv'
    BY <1>1, <1>2, <1>4, <1>6, <1>10, WindowParts DEF StoredInv, Taken
  <1>12. HeldInv'
    BY <1>1, <1>2, <1>4, <1>6, <1>10, WindowParts DEF HeldInv, MaySend, Taken
  <1>13. AttemptInv'
    BY <1>2, <1>4, WindowParts DEF AttemptInv, MaySend
  <1> QED
    BY <1>2, <1>7, <1>8, <1>9, <1>11, <1>12, <1>13, NothingSent DEF WindowStep, WindowInv

LEMMA FinishedKeeps ==
  ASSUME WindowInv, Window!Finished
  PROVE  WindowStep
  <1>1. /\ source.pc = "finishing"
        /\ UNCHANGED <<seen, view, phase, queued, chat, attempt, chain, file, cache, reclaim, exclusions,
                       accepted, sent, opens, crashes>>
    BY DEF Window!Finished, Window!queues
  <1>2. seen = "handoff"
    BY <1>1, WindowParts DEF NewsInv
  <1>3. PICK e : e = <<>> /\ e \in Window!Queue /\ Proper(e, accepted)
    BY ProperEmpty DEF Proper
  <1>4. Window!Off = [pc |-> "off", final |-> e]
    BY <1>3 DEF Window!Off
  <1>5. CASE registry = "handoff"
    <2>1. PICK q : q = source.final
      OBVIOUS
    <2>2. PICK last, busy, r : /\ last \in BOOLEAN /\ busy \in BOOLEAN /\ r = [final |-> last, busy |-> busy, queue |-> q]
                               /\ r = [final |-> TRUE, busy |-> FALSE, queue |-> q]
      OBVIOUS
    <2>21. last \in BOOLEAN /\ busy \in BOOLEAN /\ r = [final |-> last, busy |-> busy, queue |-> q]
      BY <2>2
    <2>3. /\ Window!Tell("owned") /\ snapshot' = r /\ source' = Window!Off
          /\ opened' = opened \cup (exclusions \cap Window!Ids(q))
      BY <1>5, <2>1, <2>2 DEF Window!Finished
    <2>4. crossed' = (crossed \/ chain["main"] # <<>> \/ Window!Behind)
      BY <1>5 DEF Window!Finished
    <2>5. crossed' \in BOOLEAN /\ (crossed => crossed') /\ (~crossed' => chain["main"] = <<>> /\ ~Window!Behind)
      BY <2>4
    <2>6. fresh' = TRUE
      BY <1>5 DEF Window!Finished
    <2>7. fresh' \in BOOLEAN
      BY <2>6
    <2>8. q \in Window!Queue /\ Proper(q, accepted)
      BY <2>1, WindowTyped, WindowFacts DEF Proper
    <2>9. r \in Window!Snapshot /\ r.queue = q /\ r # None
      BY <2>8, <2>21, ChatAssumption DEF Window!Snapshot
    <2>10. source' \in Sources /\ source'.pc = "off" /\ source'.final = e
      BY <1>3, <1>4, <2>3 DEF Sources
    <2>11. "owned" \in Window!Modes
      BY DEF Window!Modes
    <2>12. /\ registry' = "owned" /\ registry' \in Window!Modes /\ news' \in Seq(Window!Modes) /\ news' # <<>>
           /\ LastIn(seen, news') = "owned"
           /\ seen = "owned" => news'[1] = "none"
           /\ \A i \in DOMAIN news' : i + 1 \in DOMAIN news' /\ news'[i] = "owned" => news'[i + 1] = "none"
      BY <1>5, <2>3, <2>11, TellFacts
    <2>13. opened' \in SUBSET Messages /\ opened \subseteq opened'
      BY <2>3, WindowTyped
    <2>14. Window!TypeOK'
      BY <1>1, <2>3, <2>5, <2>7, <2>9, <2>10, <2>12, <2>13, WindowTyped, WindowTypes
    <2>15. ProperInv'
      BY <1>1, <1>3, <2>3, <2>8, <2>9, <2>10, WindowParts DEF ProperInv
    <2>16. phase \in {"mirror", "recoverable"}
      BY <1>5, WindowTyped, WindowParts DEF PhaseInv, Phases
    <2>17. PhaseInv' /\ NewsInv'
      <3>1. PhaseInv'
        BY <1>1, <2>3, <2>9, <2>12, <2>16, WindowParts DEF PhaseInv
      <3> QED
        BY <1>1, <2>10, <2>12, <3>1, WindowParts DEF NewsInv
    <2>18. StoredInv'
      <3>1. chain["main"] = <<>> => LastIn(file, chain["main"]) = file
        BY DEF LastIn
      <3> QED
        BY <1>1, <1>5, <2>1, <2>3, <2>5, <2>9, <2>10, <2>12, <2>16, <3>1, WindowParts
           DEF StoredInv, Taken, MainOwns
    <2>19. HeldInv'
      <3>1. ~crossed' => \A m \in Window!Ids(q) : MaySend(m) \/ m \in exclusions
        BY <1>1, <1>5, <2>1, <2>5, WindowParts DEF HeldInv, MainOwns
      <3>2. ~crossed' => \A m \in Window!Ids(q) : MaySend(m)'
        BY <1>1, <2>3, <3>1 DEF MaySend
      <3> QED
        BY <1>1, <2>3, <2>9, <2>12, <2>16, <3>2 DEF HeldInv, Taken, MainOwns
    <2>20. AttemptInv'
      BY <1>1, <2>5, <2>13, WindowParts DEF AttemptInv, MaySend
    <2> QED
      BY <1>1, <2>14, <2>15, <2>17, <2>18, <2>19, <2>20, NothingSent DEF WindowStep, WindowInv
  <1>6. CASE registry # "handoff"
    <2>1. source' = [Window!Off EXCEPT !.pc = "watching"] /\ UNCHANGED <<registry, news, snapshot, fresh, crossed, opened>>
      BY <1>6 DEF Window!Finished
    <2>2. source' \in Sources /\ source'.pc = "watching" /\ source'.final = e
      BY <1>3, <1>4, <2>1 DEF Sources
    <2>3. MainOwns' <=> MainOwns
      BY <1>1, <2>1 DEF MainOwns, Window!Behind
    <2>4. Window!TypeOK'
      BY <1>1, <2>1, <2>2, WindowTyped, WindowTypes
    <2>5. ProperInv'
      BY <1>1, <1>3, <2>1, <2>2, WindowParts DEF ProperInv
    <2>6. PhaseInv' /\ NewsInv'
      BY <1>1, <1>2, <2>1, <2>2, WindowParts DEF PhaseInv, NewsInv
    <2>7. StoredInv' /\ HeldInv'
      BY <1>1, <2>1, <2>2, <2>3, WindowParts DEF StoredInv, HeldInv, MaySend, Taken
    <2>8. AttemptInv'
      BY <1>1, <2>1, <2>2, WindowParts DEF AttemptInv, MaySend
    <2> QED
      BY <1>1, <2>1, <2>4, <2>5, <2>6, <2>7, <2>8, NothingSent DEF WindowStep, WindowInv
  <1> QED
    BY <1>5, <1>6
LEMMA ReclaimLoadKeeps ==
  ASSUME WindowInv, Window!ReclaimLoad
  PROVE  WindowStep
  <1>1. PICK q : Window!Stored(q) /\ reclaim' = [pc |-> "loaded", queue |-> Window!Restored(q)]
    BY DEF Window!ReclaimLoad
  <1>2. PICK x : x = Window!Restored(q)
    OBVIOUS
  <1>3. /\ cache' \in Window!Queue /\ Proper(cache', accepted)
        /\ Proper(x, accepted) /\ x \in Window!Queue /\ AllRestored(x)
        /\ Keeps(file, x, sent)
    BY <1>1, <1>2, StoredFacts
  <1>4. reclaim' = [pc |-> "loaded", queue |-> x]
    BY <1>1, <1>2
  <1>5. /\ UNCHANGED <<registry, snapshot, news, seen, source, view, phase, fresh, queued, chat, attempt, chain,
                       file, exclusions, accepted, sent, opens, crashes, opened>>
    BY DEF Window!ReclaimLoad, Window!native, Window!handover
  <1>6. crossed' = (crossed \/ chain["main"] # <<>>)
    BY DEF Window!ReclaimLoad, Window!Crossing
  <1>7. crossed' \in BOOLEAN /\ (crossed => crossed') /\ (chain["main"] # <<>> => crossed')
    BY <1>6
  <1>8. reclaim' \in Reclaims /\ reclaim'.pc = "loaded" /\ reclaim'.queue = x /\ reclaim' # Window!Nothing
    BY <1>3, <1>4 DEF Reclaims, Window!Nothing
  <1>9. Window!TypeOK'
    BY <1>3, <1>5, <1>7, <1>8, WindowTyped, WindowTypes
  <1>10. ProperInv'
    BY <1>3, <1>5, <1>8, WindowParts DEF ProperInv
  <1>11. PhaseInv' /\ NewsInv'
    BY <1>5, WindowParts DEF PhaseInv, NewsInv
  <1>12. ~MainOwns'
    BY <1>8 DEF MainOwns, Window!Behind
  <1>13. StoredInv'
    <2>1. chain["main"] = <<>> => LastIn(file, chain["main"]) = file
      BY DEF LastIn
    <2> QED
      BY <1>3, <1>5, <1>7, <1>8, <1>12, <2>1, WindowParts DEF StoredInv, Taken
  <1>14. HeldInv' /\ AttemptInv'
    <2>1. HeldInv'
      BY <1>5, <1>7, <1>12, WindowParts DEF HeldInv, MaySend, Taken
    <2> QED
      BY <1>5, <1>7, <2>1, WindowParts DEF AttemptInv, MaySend
  <1> QED
    BY <1>5, <1>9, <1>10, <1>11, <1>13, <1>14, NothingSent DEF WindowStep, WindowInv

LEMMA ReclaimApplyKeeps ==
  ASSUME WindowInv, Window!ReclaimApply
  PROVE  WindowStep
  <1>1. /\ reclaim.pc = "loaded" /\ reclaim' = Window!Nothing
        /\ UNCHANGED <<registry, snapshot, news, seen, source, view, phase, fresh, chat, attempt, chain, file,
                       cache, accepted, sent, opens, crashes>>
    BY DEF Window!ReclaimApply, Window!native, Window!handover
  <1>2. crossed' = (crossed \/ seen \in {"joining", "handoff"})
    BY DEF Window!ReclaimApply
  <1>3. crossed' \in BOOLEAN /\ (crossed => crossed') /\ (~crossed' => seen \in {"none", "owned"})
    BY <1>2, WindowTyped DEF Window!Modes
  <1>4. reclaim' \in Reclaims /\ reclaim'.pc = "none"
    BY <1>1 DEF Reclaims, Window!Nothing
  <1>5. PhaseInv' /\ NewsInv'
    BY <1>1, WindowParts DEF PhaseInv, NewsInv
  <1>6. CASE seen = "none"
    <2>1. PICK q : q = reclaim.queue
      OBVIOUS
    <2>2. queued' = [queued EXCEPT !["main"] = q] /\ exclusions' = Window!Noted(q, view)
      BY <1>6, <2>1 DEF Window!ReclaimApply
    <2>3. opened' = IF view \/ phase # "closed" THEN opened \cup Window!Ids(q)
                    ELSE opened \ {m \in Window!Ids(q) : attempt["main"] = None \/ attempt["main"].id # m}
      BY <1>6, <2>1 DEF Window!ReclaimApply
    <2>4. Proper(q, accepted) /\ q \in Window!Queue /\ AllRestored(q) /\ Window!Ids(q) \subseteq Messages
      BY <1>1, <2>1, WindowFacts, WindowTyped DEF Proper
    <2>5. /\ queued' \in [Window!Renderers -> Window!Queue]
          /\ queued'["main"] = q /\ queued'["window"] = queued["window"]
      BY <2>2, <2>4, WindowTyped
    <2>6. exclusions' \in SUBSET Messages /\ (~view => Window!Ids(q) \subseteq exclusions')
      BY <2>2, <2>4, NotedFacts, WindowTyped
    <2>7. opened' \in SUBSET Messages
      BY <2>3, <2>4, WindowTyped
    <2>8. view \/ phase # "closed" => opened \subseteq opened' /\ Window!Ids(q) \subseteq opened'
      BY <2>3
    <2>9. attempt["main"] # None /\ attempt["main"].id \in opened => attempt["main"].id \in opened'
      BY <2>3
    <2>10. Window!TypeOK'
      BY <1>1, <1>3, <1>4, <2>5, <2>6, <2>7, WindowTyped, WindowTypes
    <2>11. ProperInv'
      BY <1>1, <1>4, <2>4, <2>5, WindowParts DEF ProperInv, Window!Renderers
    <2>12. source.pc # "finishing"
      BY <1>6, WindowParts DEF NewsInv
    <2>13. StoredInv'
      <3>1. phase # "ready" /\ ~crossed => Keeps(LastIn(file, chain["main"]), q, sent)
        BY <1>1, <2>1, WindowParts DEF StoredInv
      <3>2. chain["main"] = <<>> => LastIn(file, chain["main"]) = file
        BY DEF LastIn
      <3>3. registry # "owned" => phase # "ready"
        BY WindowParts DEF PhaseInv
      <3> QED
        BY <1>1, <1>3, <1>4, <2>5, <2>12, <3>1, <3>2, <3>3, WindowParts DEF StoredInv, Taken, MainOwns
    <2>14. HeldInv'
      <3>1. \A m \in Window!Ids(q) : m \in opened' \/ (~view /\ m \in exclusions')
        BY <2>6, <2>8, WindowTyped
      <3>2. phase # "closed" => \A m : MaySend(m) => MaySend(m)'
        BY <1>1, <2>8 DEF MaySend
      <3>3. registry = "owned" => phase # "closed"
        BY WindowParts DEF PhaseInv
      <3>4. \A m \in Window!Ids(q) : MaySend(m)' \/ (~view /\ m \in exclusions')
        BY <3>1 DEF MaySend
      <3> QED
        BY <1>1, <1>3, <2>5, <2>8, <2>12, <3>2, <3>3, <3>4, WindowParts DEF HeldInv, Taken
    <2>15. AttemptInv'
      <3>1. phase = "closed" => attempt["window"] = None
        BY WindowParts DEF PhaseInv
      <3>2. \A w \in Window!Renderers : attempt[w] # None /\ MaySend(attempt[w].id) => MaySend(attempt[w].id)'
        BY <1>1, <2>8, <2>9, <3>1 DEF MaySend, Window!Renderers
      <3> QED
        BY <1>1, <1>3, <3>2, WindowParts DEF AttemptInv
    <2> QED
      BY <1>1, <1>5, <2>10, <2>11, <2>13, <2>14, <2>15, NothingSent DEF WindowStep, WindowInv
  <1>7. CASE seen # "none"
    <2>1. UNCHANGED <<queued, exclusions, opened>>
      BY <1>7 DEF Window!ReclaimApply
    <2>2. ~crossed' => ~MainOwns'
      BY <1>1, <1>3, <1>7 DEF MainOwns, Window!Behind
    <2>3. Window!TypeOK'
      BY <1>1, <1>3, <1>4, <2>1, WindowTyped, WindowTypes
    <2>4. ProperInv'
      BY <1>1, <1>4, <2>1, WindowParts DEF ProperInv
    <2>5. StoredInv'
      BY <1>1, <1>3, <1>4, <2>1, <2>2, WindowParts DEF StoredInv, Taken
    <2>6. HeldInv'
      BY <1>1, <1>3, <2>1, <2>2, WindowParts DEF HeldInv, MaySend, Taken
    <2>7. AttemptInv'
      BY <1>1, <1>3, <2>1, WindowParts DEF AttemptInv, MaySend
    <2> QED
      BY <1>1, <1>5, <2>1, <2>3, <2>4, <2>5, <2>6, <2>7, NothingSent DEF WindowStep, WindowInv
  <1> QED
    BY <1>6, <1>7

LEMMA OpenChatKeeps ==
  ASSUME WindowInv, Window!OpenChat
  PROVE  WindowStep
  <1>1. /\ seen = "none" /\ exclusions' = {}
        /\ opened' = opened \cup Window!Ids(queued["main"])
        /\ UNCHANGED <<registry, snapshot, news, seen, source, phase, fresh, queued, chat, attempt, chain, file,
                       cache, reclaim, accepted, sent, opens, crashes, crossed>>
    BY DEF Window!OpenChat, Window!native
  <1>2. view' = TRUE
    BY DEF Window!OpenChat
  <1>3. view' \in BOOLEAN
    BY <1>2
  <1>4. opened' \in SUBSET Messages /\ opened \subseteq opened' /\ Window!Ids(queued["main"]) \subseteq opened'
    BY <1>1, WindowTyped, IdsMessages
  <1>5. source.pc # "finishing"
    BY <1>1, WindowParts DEF NewsInv
  <1>6. Window!TypeOK'
    BY <1>1, <1>3, <1>4, WindowTyped, WindowTypes
  <1>7. ProperInv'
    BY <1>1, ProperStays
  <1>8. PhaseInv' /\ NewsInv'
    BY <1>1, WindowParts DEF PhaseInv, NewsInv
  <1>9. MainOwns' <=> MainOwns
    BY <1>1 DEF MainOwns, Window!Behind
  <1>10. StoredInv'
    BY <1>1, <1>9, WindowParts DEF StoredInv, Taken
  <1>11. HeldInv'
    <2>1. \A m : MaySend(m) => MaySend(m)'
      BY <1>1, <1>4 DEF MaySend
    <2>2. \A m \in Window!Ids(queued["main"]) : MaySend(m)'
      BY <1>4 DEF MaySend
    <2> QED
      BY <1>1, <1>4, <1>5, <1>9, <2>1, <2>2, WindowParts DEF HeldInv, Taken
  <1>12. AttemptInv'
    BY <1>1, <1>4, WindowParts DEF AttemptInv, MaySend
  <1> QED
    BY <1>1, <1>6, <1>7, <1>8, <1>10, <1>11, <1>12, NothingSent DEF WindowStep, WindowInv

LEMMA LeaveChatKeeps ==
  ASSUME WindowInv, Window!LeaveChat
  PROVE  WindowStep
  <1>1. /\ view
        /\ UNCHANGED <<registry, snapshot, news, seen, source, phase, fresh, queued, chat, attempt, chain, file,
                       cache, reclaim, accepted, sent, opens, crashes, opened, crossed>>
    BY DEF Window!LeaveChat, Window!native, Window!history
  <1>2. PICK visible : visible = FALSE
    OBVIOUS
  <1>3. view' = visible /\ exclusions' = Window!Noted(queued["main"], visible)
    BY <1>2 DEF Window!LeaveChat
  <1>4. visible \in BOOLEAN /\ ~visible
    BY <1>2
  <1>5. view' \in BOOLEAN /\ exclusions' \in SUBSET Messages /\ exclusions \subseteq exclusions'
    BY <1>3, <1>4, NotedFacts, WindowTyped
  <1>6. Window!TypeOK'
    BY <1>1, <1>5, WindowTyped, WindowTypes
  <1>7. ProperInv'
    BY <1>1, ProperStays
  <1>8. PhaseInv' /\ NewsInv'
    BY <1>1, WindowParts DEF PhaseInv, NewsInv
  <1>9. MainOwns' <=> MainOwns
    BY <1>1 DEF MainOwns, Window!Behind
  <1>10. StoredInv'
    BY <1>1, <1>9, WindowParts DEF StoredInv, Taken
  <1>11. HeldInv' /\ AttemptInv'
    <2>1. HeldInv'
      BY <1>1, <1>5, <1>9, WindowParts DEF HeldInv, MaySend, Taken
    <2> QED
      BY <1>1, <2>1, WindowParts DEF AttemptInv, MaySend
  <1> QED
    BY <1>1, <1>6, <1>7, <1>8, <1>10, <1>11, NothingSent DEF WindowStep, WindowInv

LEMMA MainLoadedKeeps ==
  ASSUME WindowInv, Window!MainLoaded
  PROVE  WindowStep
  <1>1. PICK q, old : q = Window!Marked(old) /\ old = queued["main"]
    OBVIOUS
  <1>2. /\ queued' = [queued EXCEPT !["main"] = q]
        /\ UNCHANGED <<registry, snapshot, news, seen, source, view, phase, fresh, chat, attempt, chain, file,
                       cache, reclaim, exclusions, accepted, sent, opens, crashes, opened, crossed>>
    BY <1>1 DEF Window!MainLoaded, Window!native, Window!handover, Window!history
  <1>3. Proper(q, accepted) /\ q \in Window!Queue /\ Window!Ids(q) = Window!Ids(queued["main"])
    <2>1. Proper(old, accepted)
      BY <1>1, WindowFacts, WindowTyped
    <2> QED
      BY <1>1, <2>1, ProperMarked DEF Proper
  <1>4. /\ queued' \in [Window!Renderers -> Window!Queue]
        /\ queued'["main"] = q /\ queued'["window"] = queued["window"]
    BY <1>2, <1>3, WindowTyped
  <1>5. Window!TypeOK'
    BY <1>2, <1>4, WindowTyped, WindowTypes
  <1>6. ProperInv'
    BY <1>2, <1>3, <1>4, WindowParts DEF ProperInv, Window!Renderers
  <1>7. PhaseInv' /\ NewsInv'
    BY <1>2, WindowParts DEF PhaseInv, NewsInv
  <1>8. MainOwns' <=> MainOwns
    BY <1>2 DEF MainOwns, Window!Behind
  <1>9. StoredInv'
    <2>1. \A x : Keeps(x, queued["main"], sent) => Keeps(x, q, sent)
      BY <1>3 DEF Keeps
    <2> QED
      BY <1>2, <1>4, <1>8, <2>1, WindowParts DEF StoredInv, Taken
  <1>10. HeldInv' /\ AttemptInv'
    <2>1. HeldInv'
      BY <1>2, <1>3, <1>4, <1>8, WindowParts DEF HeldInv, MaySend, Taken
    <2> QED
      BY <1>2, <2>1, WindowParts DEF AttemptInv, MaySend
  <1> QED
    BY <1>2, <1>5, <1>6, <1>7, <1>9, <1>10, NothingSent DEF WindowStep, WindowInv
----------------------------------------------------------------------------
(* Messages *)

\* The main renderer uses its copy as its own, or the history notes that it does not.
LEMMA StraysFacts ==
  ASSUME WindowInv, NEW w \in Window!Renderers, Window!Strays(w)
  PROVE  /\ crossed' \in BOOLEAN /\ (crossed => crossed')
         /\ ~crossed' /\ w = "main" => MainOwns /\ registry # "owned" /\ source.pc # "finishing"
                                       /\ reclaim = Window!Nothing
  <1>1. crossed' = (crossed \/ (w = "main" /\ ~Window!MainHasChat))
    BY DEF Window!Strays
  <1>2. crossed' \in BOOLEAN /\ (crossed => crossed') /\ (~crossed' /\ w = "main" => Window!MainHasChat)
    BY <1>1
  <1> QED
    BY <1>2 DEF Window!MainHasChat, MainOwns, Window!Behind

\* While the window has writes under way the main renderer has none, and the other way
\* round.
LEMMA OneWriter ==
  ASSUME WindowInv, ~crossed
  PROVE  /\ chain["window"] # <<>> => chain["main"] = <<>> /\ phase = "ready" /\ registry = "owned"
         /\ chain["main"] # <<>> => chain["window"] = <<>> /\ phase # "ready" /\ ~Taken
                                    /\ ~(registry = "owned" /\ phase = "listing")
  BY WindowParts DEF PhaseInv, StoredInv, Taken

LEMMA WriteKeeps ==
  ASSUME WindowInv, NEW w \in Window!Renderers, Window!Write(w)
  PROVE  WindowStep
  <1>1. PICK writes : writes = chain[w]
    OBVIOUS
  <1>2. PICK h, t : h = Head(writes) /\ t = Tail(writes)
    OBVIOUS
  <1>3. /\ writes # <<>> /\ file' = h /\ chain' = [chain EXCEPT ![w] = t]
        /\ UNCHANGED <<registry, snapshot, news, seen, source, view, phase, fresh, queued, chat, attempt, cache,
                       reclaim, exclusions, accepted, sent, opens, crashes, opened, crossed>>
    BY <1>1, <1>2 DEF Window!Write, Window!native, Window!handover, Window!history
  <1>4. writes \in Writes
    BY <1>1, WindowTyped
  <1>5. /\ t \in Writes /\ h \in Window!Queue /\ 1 \in DOMAIN writes /\ h = writes[1]
        /\ LastIn(h, t) = LastIn(file, writes)
        /\ ChainKeeps(file, writes, sent) => Keeps(file, h, sent) /\ ChainKeeps(h, t, sent)
        /\ \A i \in DOMAIN t : i + 1 \in DOMAIN writes /\ t[i] = writes[i + 1]
    BY <1>2, <1>3, <1>4, ChainTail
  <1>6. /\ chain' \in [Window!Renderers -> Writes] /\ chain'[w] = t
        /\ \A v \in Window!Renderers : v # w => chain'[v] = chain[v]
    BY <1>3, <1>5, WindowTyped
  <1>7. \A i \in DOMAIN writes : Proper(writes[i], accepted)
    BY <1>1, WindowParts DEF ProperInv
  <1>8. Window!TypeOK'
    BY <1>3, <1>5, <1>6, WindowTyped, WindowTypes
  <1>9. ProperInv'
    <2>1. \A i \in DOMAIN t : Proper(t[i], accepted)
      BY <1>5, <1>7
    <2>2. \A v \in Window!Renderers : \A i \in DOMAIN chain'[v] : Proper(chain'[v][i], accepted)
      BY <1>6, <2>1, WindowParts DEF ProperInv
    <2> QED
      BY <1>3, <1>5, <1>7, <2>2, WindowParts DEF ProperInv
  <1>10. PhaseInv' /\ NewsInv'
    <2>1. chain'["window"] # <<>> => chain["window"] # <<>>
      BY <1>1, <1>3, <1>6, WindowTyped
    <2> QED
      BY <1>3, <2>1, WindowParts DEF PhaseInv, NewsInv
  <1>11. MainOwns' <=> MainOwns
    BY <1>3 DEF MainOwns, Window!Behind
  <1>12. StoredInv'
    <2> SUFFICES ASSUME ~crossed PROVE StoredInv'
      BY <1>3 DEF StoredInv
    <2>1. ChainKeeps(h, t, sent)
      BY <1>1, <1>5, WindowParts DEF StoredInv
    <2>2. \A v \in Window!Renderers : v # w => chain[v] = <<>>
      BY <1>1, <1>3, OneWriter DEF Window!Renderers
    <2>3. ChainKeeps(h, <<>>, sent)
      BY ChainEmpty
    <2>4. \A v \in Window!Renderers : ChainKeeps(file', chain'[v], sent)
      BY <1>3, <1>6, <2>1, <2>2, <2>3
    <2>5. CASE w = "main"
      <3>1. phase # "ready" /\ ~Taken /\ ~(registry = "owned" /\ phase = "listing")
        BY <1>1, <1>3, <2>5, OneWriter
      <3>2. LastIn(file', chain'["main"]) = LastIn(file, chain["main"])
        BY <1>1, <1>3, <1>5, <1>6, <2>5
      <3> QED
        BY <1>3, <1>11, <2>4, <3>1, <3>2, WindowParts DEF StoredInv, Taken
    <2>6. CASE w = "window"
      <3>1. phase = "ready" /\ registry = "owned" /\ chain["main"] = <<>> /\ chain'["main"] = <<>>
        BY <1>1, <1>3, <1>6, <2>6, WindowTyped, OneWriter
      <3>2. LastIn(file', chain'["window"]) = LastIn(file, chain["window"])
        BY <1>1, <1>3, <1>5, <1>6, <2>6
      <3> QED
        BY <1>3, <2>4, <3>1, <3>2, WindowParts DEF StoredInv, MainOwns, Taken
    <2> QED
      BY <2>5, <2>6 DEF Window!Renderers
  <1>13. HeldInv' /\ AttemptInv'
    <2>1. HeldInv'
      BY <1>3, <1>11, WindowParts DEF HeldInv, MaySend, Taken
    <2> QED
      BY <1>3, <2>1, WindowParts DEF AttemptInv, MaySend
  <1>14. Window!KeepsUnsent
    <2> SUFFICES ASSUME ~crossed, NEW m \in Window!Ids(file) \ Window!Ids(file') PROVE sent[m] > 0
      BY WindowTyped DEF Window!KeepsUnsent
    <2>1. Keeps(file, h, sent)
      BY <1>1, <1>5, WindowParts DEF StoredInv
    <2> QED
      BY <1>3, <2>1 DEF Keeps
  <1>15. Window!SendsOnce
    <2>1. \A m \in Messages : ~(sent'[m] > sent[m])
      BY <1>3, WindowFacts
    <2> QED
      BY <2>1 DEF Window!SendsOnce
  <1> QED
    BY <1>8, <1>9, <1>10, <1>12, <1>13, <1>14, <1>15 DEF WindowStep, WindowInv

LEMMA TurnOverKeeps ==
  ASSUME WindowInv, NEW w \in Window!Renderers, Window!TurnEnds(w)
  PROVE  WindowStep
  <1>1. /\ chat' = [chat EXCEPT ![w] = "idle"]
        /\ UNCHANGED <<registry, snapshot, news, seen, source, view, phase, fresh, queued, attempt, chain, file,
                       cache, reclaim, exclusions, accepted, sent, opens, crashes, opened, crossed>>
    BY DEF Window!TurnEnds, Window!native, Window!handover, Window!history
  <1>2. chat' \in [Window!Renderers -> Turns]
    BY <1>1, WindowTyped DEF Turns
  <1>3. Window!TypeOK'
    BY <1>1, <1>2, WindowTyped, WindowTypes
  <1>4. ProperInv'
    BY <1>1, ProperStays
  <1>5. PhaseInv' /\ NewsInv'
    BY <1>1, WindowParts DEF PhaseInv, NewsInv
  <1>6. MainOwns' <=> MainOwns
    BY <1>1 DEF MainOwns, Window!Behind
  <1>7. StoredInv'
    BY <1>1, <1>6, WindowParts DEF StoredInv, Taken
  <1>8. HeldInv' /\ AttemptInv'
    <2>1. HeldInv'
      BY <1>1, <1>6, WindowParts DEF HeldInv, MaySend, Taken
    <2> QED
      BY <1>1, <2>1, WindowParts DEF AttemptInv, MaySend
  <1> QED
    BY <1>1, <1>3, <1>4, <1>5, <1>7, <1>8, NothingSent DEF WindowStep, WindowInv

LEMMA BeginsKeeps ==
  ASSUME WindowInv, NEW w \in Window!Renderers, Window!Begin(w)
  PROVE  WindowStep
  <1>1. /\ attempt[w] = None /\ queued[w] # <<>> /\ Window!Claims(w, Head(queued[w])) /\ Window!Strays(w)
        /\ UNCHANGED <<registry, snapshot, news, seen, source, view, phase, fresh, queued, chat, chain, file,
                       cache, reclaim, exclusions, accepted, sent, opens, crashes, opened>>
    BY DEF Window!Begin, Window!native, Window!handover
  <1>2. PICK m, checked, n : /\ m = Head(queued[w]).id /\ checked = FALSE
                             /\ n = [id |-> m, checked |-> checked] /\ attempt' = [attempt EXCEPT ![w] = n]
    BY DEF Window!Begin
  <1>3. checked \in BOOLEAN /\ ~checked
    BY <1>2
  <1>4. n = [id |-> m, checked |-> checked] /\ attempt' = [attempt EXCEPT ![w] = n]
    BY <1>2
  <1>5. m \in Window!Ids(queued[w]) /\ m \in Messages
    <2>1. PICK q : q = queued[w]
      OBVIOUS
    <2>2. Proper(q, accepted) /\ q # <<>> /\ m = Head(q).id
      BY <1>1, <1>2, <2>1, WindowFacts
    <2> QED
      BY <2>1, <2>2, WindowTyped, ProperFacts
  <1>6. n \in Sending /\ n # None /\ n.id = m /\ ~n.checked
    BY <1>3, <1>4, <1>5, ChatAssumption DEF Sending
  <1>7. /\ attempt' \in [Window!Renderers -> Sending \cup {None}] /\ attempt'[w] = n
        /\ \A v \in Window!Renderers : v # w => attempt'[v] = attempt[v]
    BY <1>4, <1>6, WindowTyped
  <1>8. /\ crossed' \in BOOLEAN /\ (crossed => crossed')
        /\ ~crossed' /\ w = "main" => MainOwns /\ registry # "owned" /\ source.pc # "finishing"
    BY <1>1, StraysFacts
  <1>9. Window!TypeOK'
    BY <1>1, <1>7, <1>8, WindowTyped, WindowTypes
  <1>10. ProperInv'
    BY <1>1, ProperStays
  <1>11. w = "window" => phase = "ready"
    BY <1>1 DEF Window!Claims, Window!Foreground
  <1>12. PhaseInv' /\ NewsInv'
    <2>1. attempt'["window"] # None => attempt["window"] # None \/ phase = "ready"
      BY <1>7, <1>11, WindowTyped
    <2> QED
      BY <1>1, <2>1, WindowParts DEF PhaseInv, NewsInv
  <1>13. MainOwns' <=> MainOwns
    BY <1>1 DEF MainOwns, Window!Behind
  <1>14. StoredInv'
    BY <1>1, <1>8, <1>13, WindowParts DEF StoredInv, Taken
  <1>15. HeldInv'
    BY <1>1, <1>8, <1>13, WindowParts DEF HeldInv, MaySend, Taken
  <1>16. ~crossed' => m \in Deliveries \/ MaySend(m)
    <2> SUFFICES ASSUME ~crossed', m \notin Deliveries PROVE MaySend(m)
      OBVIOUS
    <2>1. Window!Unrestored(w, Head(queued[w]))
      BY <1>1, <1>2 DEF Window!Claims
    <2>2. CASE w = "main"
      <3>1. view \/ m \notin exclusions
        BY <1>2, <2>1, <2>2 DEF Window!Unrestored, Window!Foreground
      <3>2. MainOwns /\ ~crossed
        BY <1>8, <2>2
      <3> QED
        BY <1>5, <2>2, <3>1, <3>2, WindowParts DEF HeldInv
    <2>3. CASE w = "window"
      BY <1>5, <1>8, <1>11, <2>3, WindowParts DEF HeldInv
    <2> QED
      BY <2>2, <2>3 DEF Window!Renderers
  <1>17. AttemptInv'
    <2> SUFFICES ASSUME ~crossed' PROVE AttemptInv'
      BY DEF AttemptInv
    <2>1. attempt'["main"] # None => registry' # "owned" /\ source'.pc # "finishing"
      BY <1>1, <1>7, <1>8, WindowTyped, WindowParts DEF AttemptInv
    <2>2. MaySend(m)' <=> MaySend(m)
      BY <1>1 DEF MaySend
    <2>3. (\A v \in Window!Renderers : v # w /\ attempt[v] # None =>
            IF attempt[v].id \in Deliveries THEN attempt[v].checked => sent[attempt[v].id] = 0
            ELSE MaySend(attempt[v].id))'
      BY <1>1, <1>7, <1>8, WindowParts DEF AttemptInv, MaySend
    <2>4. (IF attempt[w].id \in Deliveries THEN attempt[w].checked => sent[attempt[w].id] = 0
           ELSE MaySend(attempt[w].id))'
      BY <1>6, <1>7, <1>16, <2>2
    <2> QED
      BY <2>1, <2>3, <2>4 DEF AttemptInv
  <1> QED
    BY <1>1, <1>9, <1>10, <1>12, <1>14, <1>15, <1>17, NothingSent DEF WindowStep, WindowInv
\* A change of a queue is written behind what the renderer wrote before.
LEMMA PersistFacts ==
  ASSUME WindowInv, NEW w \in Window!Renderers, NEW q \in Window!Queue, Window!Persist(w, q)
  PROVE  /\ queued' \in [Window!Renderers -> Window!Queue] /\ queued'[w] = q
         /\ \A v \in Window!Renderers : v # w => queued'[v] = queued[v]
         /\ chain' \in [Window!Renderers -> Writes] /\ chain'[w] = Append(chain[w], q)
         /\ \A v \in Window!Renderers : v # w => chain'[v] = chain[v]
         /\ \A i \in DOMAIN chain'[w] : chain'[w][i] = q \/ (i \in DOMAIN chain[w] /\ chain'[w][i] = chain[w][i])
         /\ cache' = q
         /\ crossed' \in BOOLEAN /\ (crossed => crossed')
         /\ ~crossed' /\ w = "main" => MainOwns /\ registry # "owned" /\ source.pc # "finishing"
                                       /\ reclaim = Window!Nothing
  <1>1. /\ queued' = [queued EXCEPT ![w] = q] /\ chain' = [chain EXCEPT ![w] = Append(chain[w], q)]
        /\ cache' = q
    BY DEF Window!Persist
  <1>2. PICK writes, x : writes = chain[w] /\ x = Append(writes, q)
    OBVIOUS
  <1>3. writes \in Writes
    BY <1>2, WindowTyped
  <1>4. /\ x \in Writes
        /\ \A i \in DOMAIN x : x[i] = q \/ (i \in DOMAIN writes /\ x[i] = writes[i])
    <2>1. writes \in Seq(Window!Queue)
      BY <1>3 DEF Writes
    <2>2. /\ x \in Seq(Window!Queue) /\ Len(writes) \in Nat /\ DOMAIN writes = 1 .. Len(writes)
          /\ DOMAIN x = 1 .. Len(writes) + 1 /\ x[Len(writes) + 1] = q
          /\ \A i \in 1 .. Len(writes) : x[i] = writes[i]
      BY <1>2, <2>1
    <2> QED
      BY <2>2 DEF Writes
  <1>5. chain' = [chain EXCEPT ![w] = x]
    BY <1>1, <1>2
  <1>6. Window!Strays(w)
    BY DEF Window!Persist
  <1>7. /\ crossed' \in BOOLEAN /\ (crossed => crossed')
        /\ ~crossed' /\ w = "main" => MainOwns /\ registry # "owned" /\ source.pc # "finishing"
                                      /\ reclaim = Window!Nothing
    BY <1>6, StraysFacts
  <1> QED
    BY <1>1, <1>2, <1>4, <1>5, <1>7, WindowTyped

LEMMA ChainGrows ==
  ASSUME MoreSent, NEW known \in SUBSET Messages, NEW stored, Proper(stored, known), NEW writes,
         \A i \in DOMAIN writes : Proper(writes[i], known), ChainKeeps(stored, writes, sent)
  PROVE  ChainKeeps(stored, writes, sent')
  <1>1. writes # <<>> => Keeps(stored, writes[1], sent')
    BY KeepsGrows DEF ChainKeeps
  <1>2. ASSUME NEW i \in DOMAIN writes, i + 1 \in DOMAIN writes
        PROVE  Keeps(writes[i], writes[i + 1], sent')
    <2>1. Proper(writes[i], known) /\ Keeps(writes[i], writes[i + 1], sent)
      BY <1>2 DEF ChainKeeps
    <2> QED
      BY <2>1, KeepsGrows
  <1> QED
    BY <1>1, <1>2 DEF ChainKeeps

\* A renderer that has the chat persists its queue: nothing unsent is lost.
LEMMA PersistStored ==
  ASSUME WindowInv, MoreSent, NEW w \in Window!Renderers, NEW q \in Window!Queue, Window!Persist(w, q),
         Keeps(queued[w], q, sent'), w = "window" => phase = "ready",
         UNCHANGED <<registry, snapshot, news, seen, source, phase, reclaim, file>>
  PROVE  StoredInv'
  <1> SUFFICES ASSUME ~crossed' PROVE StoredInv'
    BY DEF StoredInv
  <1>1. /\ queued'[w] = q
        /\ chain'[w] = Append(chain[w], q)
        /\ \A v \in Window!Renderers : v # w => chain'[v] = chain[v]
        /\ ~crossed
        /\ w = "main" => MainOwns /\ registry # "owned" /\ source.pc # "finishing" /\ reclaim = Window!Nothing
    BY PersistFacts
  <1>2. PICK writes, x, stored, old :
          writes = chain[w] /\ x = chain'[w] /\ stored = file /\ old = queued[w]
    OBVIOUS
  <1>3. writes \in Writes /\ x = Append(writes, q) /\ accepted \in SUBSET Messages
    BY <1>1, <1>2, WindowTyped
  <1>4. /\ Proper(stored, accepted) /\ Proper(old, accepted)
        /\ \A i \in DOMAIN writes : Proper(writes[i], accepted)
    BY <1>2, WindowFacts, WindowParts DEF ProperInv
  <1>5. ChainKeeps(stored, writes, sent)
    BY <1>1, <1>2, WindowParts DEF StoredInv
  <1>6. Keeps(LastIn(stored, writes), old, sent)
    <2>1. CASE w = "main"
      BY <1>1, <1>2, <2>1, WindowParts DEF StoredInv
    <2>2. CASE w = "window"
      BY <1>1, <1>2, <2>2, WindowParts DEF StoredInv
    <2> QED
      BY <2>1, <2>2 DEF Window!Renderers
  <1>7. ChainKeeps(stored, writes, sent')
    BY <1>3, <1>4, <1>5, ChainGrows
  <1>8. Proper(LastIn(stored, writes), accepted)
    <2>1. CASE writes = <<>>
      BY <1>4, <2>1 DEF LastIn
    <2>2. CASE writes # <<>>
      <3>1. writes \in Seq(Window!Queue)
        BY <1>3 DEF Writes
      <3>2. Len(writes) \in DOMAIN writes
        BY <2>2, <3>1
      <3> QED
        BY <1>4, <2>2, <3>2 DEF LastIn
    <2> QED
      BY <2>1, <2>2
  <1>9. Keeps(LastIn(stored, writes), q, sent')
    <2>1. PICK last : last = LastIn(stored, writes)
      OBVIOUS
    <2>2. Keeps(last, old, sent')
      BY <1>3, <1>6, <1>8, <2>1, KeepsGrows
    <2>3. Keeps(old, q, sent')
      BY <1>2
    <2> QED
      BY <2>1, <2>2, <2>3 DEF Keeps
  <1>10. ChainKeeps(stored, x, sent') /\ LastIn(stored, x) = q
    BY <1>3, <1>7, <1>9, ChainAppend
  <1>11. Keeps(q, q, sent')
    BY DEF Keeps
  <1>12. CASE w = "main"
    <2>1. MainOwns /\ registry # "owned" /\ source.pc # "finishing" /\ reclaim.pc # "loaded" /\ phase # "ready"
      BY <1>1, <1>12, WindowParts DEF Window!Nothing, PhaseInv
    <2>2. chain'["window"] = <<>>
      BY <1>1, <1>12, <2>1, WindowTyped, WindowParts DEF PhaseInv
    <2>3. \A v \in Window!Renderers : ChainKeeps(file', chain'[v], sent')
      BY <1>2, <1>10, <1>12, <2>2, ChainEmpty DEF Window!Renderers
    <2>4. Keeps(LastIn(file', chain'["main"]), queued'["main"], sent')
      BY <1>1, <1>2, <1>10, <1>11, <1>12
    <2> QED
      BY <2>1, <2>3, <2>4 DEF StoredInv, Taken
  <1>13. CASE w = "window"
    <2>1. phase = "ready" /\ registry = "owned" /\ chain["main"] = <<>>
      BY <1>1, <1>13, WindowParts DEF StoredInv, PhaseInv
    <2>2. chain'["main"] = <<>>
      BY <1>1, <1>13, <2>1, WindowTyped
    <2>3. \A v \in Window!Renderers : ChainKeeps(file', chain'[v], sent')
      BY <1>2, <1>10, <1>13, <2>2, ChainEmpty DEF Window!Renderers
    <2>4. Keeps(LastIn(file', chain'["window"]), queued'["window"], sent')
      BY <1>1, <1>2, <1>10, <1>11, <1>13
    <2> QED
      BY <2>1, <2>2, <2>3, <2>4 DEF StoredInv, MainOwns, Taken
  <1> QED
    BY <1>12, <1>13 DEF Window!Renderers

\* The queue, the chain and the copy of a renderer that persists.
LEMMA PersistProper ==
  ASSUME WindowInv, NEW w \in Window!Renderers, NEW q \in Window!Queue, Window!Persist(w, q),
         accepted \subseteq accepted', Proper(q, accepted'),
         \A m \in Messages : sent'[m] > 0 => m \in accepted',
         UNCHANGED <<snapshot, source, reclaim, file>>
  PROVE  ProperInv'
  <1>1. /\ queued'[w] = q /\ cache' = q
        /\ \A v \in Window!Renderers : v # w => queued'[v] = queued[v]
        /\ \A v \in Window!Renderers : v # w => chain'[v] = chain[v]
        /\ \A i \in DOMAIN chain'[w] : chain'[w][i] = q \/ (i \in DOMAIN chain[w] /\ chain'[w][i] = chain[w][i])
    BY PersistFacts
  <1>2. \A x : Proper(x, accepted) => Proper(x, accepted')
    BY ProperGrows
  <1>3. \A v \in Window!Renderers : \A i \in DOMAIN chain'[v] : Proper(chain'[v][i], accepted')
    <2> SUFFICES ASSUME NEW v \in Window!Renderers, NEW i \in DOMAIN chain'[v]
                 PROVE  Proper(chain'[v][i], accepted')
      OBVIOUS
    <2>1. CASE v = w
      BY <1>1, <1>2, <2>1, WindowParts DEF ProperInv
    <2>2. CASE v # w
      BY <1>1, <1>2, <2>2, WindowParts DEF ProperInv
    <2> QED
      BY <2>1, <2>2
  <1>4. \A v \in Window!Renderers : Proper(queued'[v], accepted')
    BY <1>1, <1>2, WindowParts DEF ProperInv
  <1>5. Proper(file', accepted') /\ Proper(cache', accepted') /\ Proper(source'.final, accepted')
    BY <1>1, <1>2, WindowParts DEF ProperInv
  <1>6. snapshot' # None => Proper(snapshot'.queue, accepted')
    BY <1>2, WindowParts DEF ProperInv
  <1>7. reclaim'.pc = "loaded" => Proper(reclaim'.queue, accepted') /\ AllRestored(reclaim'.queue)
    BY <1>2, WindowParts DEF ProperInv
  <1> QED
    BY <1>3, <1>4, <1>5, <1>6, <1>7 DEF ProperInv
LEMMA AcceptKeeps ==
  ASSUME WindowInv, NEW w \in Window!Renderers, Window!Accept(w)
  PROVE  WindowStep
  <1>1. PICK m, flag, old, r, q :
          /\ m = Window!NextMessage /\ flag = FALSE /\ old = queued[w]
          /\ r = [id |-> m, restored |-> flag] /\ q = Append(old, r)
    OBVIOUS
  <1>2. /\ accepted # Messages /\ Window!MayAccept(w, m) /\ accepted' = accepted \cup {m}
        /\ Window!Persist(w, q)
        /\ UNCHANGED <<registry, snapshot, news, seen, source, view, phase, fresh, chat, attempt, file, reclaim,
                       exclusions, sent, opens, crashes, opened>>
    BY <1>1 DEF Window!Accept, Window!native, Window!handover
  <1>3. m \in Messages \ accepted /\ flag \in BOOLEAN /\ r = [id |-> m, restored |-> flag] /\ q = Append(old, r)
    BY <1>1, <1>2, NextMessageFacts, WindowTyped
  <1>4. Proper(old, accepted) /\ accepted \in SUBSET Messages
    BY <1>1, WindowFacts, WindowTyped
  <1>5. /\ Proper(q, accepted \cup {m}) /\ q \in Window!Queue
        /\ Window!Ids(q) = Window!Ids(old) \cup {m}
    <2>1. PICK known : known = accepted
      OBVIOUS
    <2>2. /\ known \in SUBSET Messages /\ Proper(old, known) /\ m \in Messages \ known
          /\ flag \in BOOLEAN /\ r = [id |-> m, restored |-> flag]
      BY <1>3, <1>4, <2>1
    <2>3. Proper(Append(old, r), known \cup {m}) /\ Window!Ids(Append(old, r)) = Window!Ids(old) \cup {m}
      BY <2>2, ProperAppend
    <2>4. Proper(q, accepted \cup {m}) /\ Window!Ids(q) = Window!Ids(old) \cup {m}
      BY <1>3, <2>1, <2>3
    <2> QED
      BY <2>4 DEF Proper
  <1>6. /\ queued' \in [Window!Renderers -> Window!Queue] /\ queued'[w] = q
        /\ \A v \in Window!Renderers : v # w => queued'[v] = queued[v]
        /\ chain' \in [Window!Renderers -> Writes]
        /\ \A v \in Window!Renderers : v # w => chain'[v] = chain[v]
        /\ cache' = q
        /\ crossed' \in BOOLEAN /\ (crossed => crossed')
        /\ ~crossed' /\ w = "main" => MainOwns /\ registry # "owned" /\ source.pc # "finishing"
    BY <1>2, <1>5, PersistFacts
  <1>7. accepted' \in SUBSET Messages /\ accepted \subseteq accepted' /\ Proper(q, accepted')
    BY <1>2, <1>3, <1>5, WindowTyped
  <1>8. Window!TypeOK'
    BY <1>2, <1>5, <1>6, <1>7, WindowTyped, WindowTypes
  <1>9. \A n \in Messages : sent'[n] > 0 => n \in accepted'
    BY <1>2, <1>7, WindowParts DEF ProperInv
  <1>10. ProperInv'
    BY <1>2, <1>5, <1>7, <1>9, PersistProper
  <1>11. w = "window" => phase = "ready"
    BY <1>2 DEF Window!MayAccept
  <1>12. PhaseInv' /\ NewsInv'
    <2>1. chain'["window"] # <<>> => chain["window"] # <<>> \/ phase = "ready"
      BY <1>6, <1>11 DEF Window!Renderers
    <2> QED
      BY <1>2, <2>1, WindowParts DEF PhaseInv, NewsInv
  <1>13. MainOwns' <=> MainOwns
    BY <1>2 DEF MainOwns, Window!Behind
  <1>14. StoredInv'
    <2>1. Keeps(queued[w], q, sent')
      BY <1>1, <1>5 DEF Keeps
    <2>2. MoreSent
      BY <1>2, NothingSent
    <2> QED
      BY <1>2, <1>5, <1>11, <2>1, <2>2, PersistStored
  <1>15. \A n : MaySend(n)' <=> MaySend(n)
    BY <1>2 DEF MaySend
  <1>16. MaySend(m)
    <2>1. sent[m] \in Nat /\ ~(sent[m] > 0)
      BY <1>3, WindowFacts, WindowParts DEF ProperInv
    <2>2. sent[m] = 0
      BY <2>1
    <2> QED
      BY <2>2 DEF MaySend
  <1>17. HeldInv'
    <2> SUFFICES ASSUME ~crossed' PROVE HeldInv'
      BY DEF HeldInv
    <2>1. ~crossed /\ HeldInv
      BY <1>6, WindowParts
    <2>2. CASE w = "main"
      <3>1. MainOwns /\ registry # "owned" /\ source.pc # "finishing" /\ phase # "ready"
        BY <1>6, <2>2, WindowParts DEF PhaseInv
      <3>2. \A n \in Window!Ids(queued'["main"]) : MaySend(n) \/ (~view /\ n \in exclusions)
        BY <1>1, <1>5, <1>6, <1>16, <2>1, <2>2, <3>1 DEF HeldInv
      <3>3. queued'["window"] = queued["window"]
        BY <1>6, <2>2 DEF Window!Renderers
      <3> QED
        BY <1>2, <1>15, <2>1, <3>1, <3>2, <3>3 DEF HeldInv, Taken
    <2>3. CASE w = "window"
      <3>1. phase = "ready" /\ registry = "owned"
        BY <1>11, <2>3, WindowParts DEF PhaseInv
      <3>2. \A n \in Window!Ids(queued'["window"]) : MaySend(n)
        BY <1>1, <1>5, <1>6, <1>16, <2>1, <2>3, <3>1 DEF HeldInv
      <3> QED
        BY <1>2, <1>15, <3>1, <3>2 DEF HeldInv, Taken, MainOwns
    <2> QED
      BY <2>2, <2>3 DEF Window!Renderers
  <1>18. AttemptInv'
    BY <1>2, <1>6, WindowParts DEF AttemptInv, MaySend
  <1> QED
    BY <1>2, <1>8, <1>10, <1>12, <1>14, <1>17, <1>18, NothingSent DEF WindowStep, WindowInv

\* The renderer that prepares a message has it at the head of its queue, and takes it out.
LEMMA HeadGoes ==
  ASSUME WindowInv, NEW w \in Window!Renderers, queued[w] # <<>>, NEW m, Head(queued[w]).id = m
  PROVE  /\ Tail(queued[w]) \in Window!Queue /\ Proper(Tail(queued[w]), accepted)
         /\ Window!Ids(Tail(queued[w])) = Window!Ids(queued[w]) \ {m}
         /\ m \in accepted /\ m \in Messages
  <1>1. PICK q : q = queued[w]
    OBVIOUS
  <1>2. Proper(q, accepted) /\ q # <<>> /\ Head(q).id = m /\ accepted \in SUBSET Messages
    BY <1>1, WindowFacts, WindowTyped
  <1> QED
    BY <1>1, <1>2, ProperFacts, ProperTail

\* An attempt ends, or goes on, without a change of the queues.
LEMMA AttemptAlone ==
  ASSUME WindowInv, NEW w \in Window!Renderers, attempt[w] # None, NEW n \in Sending \cup {None},
         attempt' = [attempt EXCEPT ![w] = n],
         n # None => n.id = attempt[w].id
                     /\ (n.id \in Deliveries /\ n.checked => sent[n.id] = 0),
         UNCHANGED <<registry, snapshot, news, seen, source, view, phase, fresh, queued, chat, chain, file, cache,
                     reclaim, exclusions, accepted, sent, opens, crashes, opened, crossed>>
  PROVE  WindowStep
  <1>1. /\ attempt' \in [Window!Renderers -> Sending \cup {None}] /\ attempt'[w] = n
        /\ \A v \in Window!Renderers : v # w => attempt'[v] = attempt[v]
    BY WindowTyped
  <1>2. Window!TypeOK'
    BY <1>1, WindowTyped, WindowTypes
  <1>3. ProperInv'
    BY ProperStays
  <1>4. PhaseInv' /\ NewsInv'
    <2>1. attempt'["window"] # None => attempt["window"] # None
      BY <1>1, WindowTyped
    <2> QED
      BY <2>1, WindowParts DEF PhaseInv, NewsInv
  <1>5. MainOwns' <=> MainOwns
    BY DEF MainOwns, Window!Behind
  <1>6. StoredInv' /\ HeldInv'
    <2>1. StoredInv'
      BY <1>5, WindowParts DEF StoredInv, Taken
    <2> QED
      BY <1>5, <2>1, WindowParts DEF HeldInv, MaySend, Taken
  <1>7. AttemptInv'
    <2> SUFFICES ASSUME ~crossed PROVE AttemptInv'
      BY DEF AttemptInv
    <2>1. attempt'["main"] # None => attempt["main"] # None
      BY <1>1, WindowTyped
    <2>2. \A v \in Window!Renderers : v # w => attempt'[v] = attempt[v]
      BY <1>1
    <2>3. AttemptInv
      BY WindowParts
    <2>4. n # None => (IF n.id \in Deliveries THEN n.checked => sent[n.id] = 0 ELSE MaySend(n.id))
      BY <2>3 DEF AttemptInv
    <2>5. \A x : MaySend(x)' <=> MaySend(x)
      BY DEF MaySend
    <2> QED
      BY <1>1, <2>1, <2>2, <2>3, <2>4, <2>5 DEF AttemptInv
  <1> QED
    BY <1>2, <1>3, <1>4, <1>6, <1>7, NothingSent DEF WindowStep, WindowInv

LEMMA CheckKeeps ==
  ASSUME WindowInv, NEW w \in Window!Renderers, Window!Check(w)
  PROVE  WindowStep
  <1>1. /\ attempt[w] # None
        /\ UNCHANGED <<registry, snapshot, news, seen, source, view, phase, fresh, chat, file, reclaim, exclusions,
                       accepted, sent, opens, crashes, opened>>
    BY DEF Window!Check, Window!native, Window!handover
  <1>2. PICK m : m = attempt[w].id
    OBVIOUS
  <1>3. attempt[w] \in Sending /\ m \in Messages
    BY <1>1, <1>2, WindowFacts DEF Sending
  <1>4. CASE m \in Deliveries /\ Window!Delivered(m)
    <2>1. attempt' = [attempt EXCEPT ![w] = None]
      BY <1>2, <1>4 DEF Window!Check
    <2>2. CASE queued[w] # <<>> /\ Head(queued[w]).id = m
      <3>1. PICK q : q = Tail(queued[w])
        OBVIOUS
      <3>2. Window!Persist(w, q)
        BY <1>2, <1>4, <2>2, <3>1 DEF Window!Check
      <3>3. q \in Window!Queue /\ Proper(q, accepted) /\ Window!Ids(q) = Window!Ids(queued[w]) \ {m}
        BY <2>2, <3>1, HeadGoes
      <3>4. /\ queued' \in [Window!Renderers -> Window!Queue] /\ queued'[w] = q
            /\ \A v \in Window!Renderers : v # w => queued'[v] = queued[v]
            /\ chain' \in [Window!Renderers -> Writes]
            /\ \A v \in Window!Renderers : v # w => chain'[v] = chain[v]
            /\ cache' = q
            /\ crossed' \in BOOLEAN /\ (crossed => crossed')
        BY <3>2, <3>3, PersistFacts
      <3>5. /\ attempt' \in [Window!Renderers -> Sending \cup {None}] /\ attempt'[w] = None
            /\ \A v \in Window!Renderers : v # w => attempt'[v] = attempt[v]
        BY <2>1, WindowTyped
      <3>6. Window!TypeOK'
        BY <1>1, <3>3, <3>4, <3>5, WindowTyped, WindowTypes
      <3>7. ProperInv'
        <4>1. \A x \in Messages : sent'[x] > 0 => x \in accepted'
          BY <1>1, WindowParts DEF ProperInv
        <4> QED
          BY <1>1, <3>2, <3>3, <4>1, PersistProper
      <3>8. w = "window" => phase = "ready"
        BY <1>1, WindowParts DEF PhaseInv
      <3>9. PhaseInv' /\ NewsInv'
        <4>1. attempt'["window"] # None \/ chain'["window"] # <<>> => phase = "ready"
          BY <3>4, <3>5, <3>8, WindowParts DEF PhaseInv, Window!Renderers
        <4> QED
          BY <1>1, <4>1, WindowParts DEF PhaseInv, NewsInv
      <3>10. StoredInv'
        <4>1. Keeps(queued[w], q, sent')
          BY <1>1, <1>4, <3>3 DEF Keeps, Window!Delivered
        <4>2. MoreSent
          BY <1>1, NothingSent
        <4> QED
          BY <1>1, <3>2, <3>3, <3>8, <4>1, <4>2, PersistStored
      <3>11. MainOwns' <=> MainOwns
        BY <1>1 DEF MainOwns, Window!Behind
      <3>12. HeldInv'
        <4>1. \A v \in Window!Renderers : Window!Ids(queued'[v]) \subseteq Window!Ids(queued[v])
          BY <3>3, <3>4
        <4>2. /\ Window!Ids(queued'["main"]) \subseteq Window!Ids(queued["main"])
              /\ Window!Ids(queued'["window"]) \subseteq Window!Ids(queued["window"])
          BY <4>1, WindowTyped
        <4>3. \A x : MaySend(x)' <=> MaySend(x)
          BY <1>1 DEF MaySend
        <4> QED
          BY <1>1, <3>4, <3>11, <4>2, <4>3, WindowParts DEF HeldInv, Taken
      <3>13. AttemptInv'
        BY <1>1, <3>4, <3>5, WindowTyped, WindowParts DEF AttemptInv, MaySend
      <3> QED
        BY <1>1, <3>6, <3>7, <3>9, <3>10, <3>12, <3>13, NothingSent DEF WindowStep, WindowInv
    <2>3. CASE ~(queued[w] # <<>> /\ Head(queued[w]).id = m)
      <3>1. UNCHANGED <<queued, chain, cache, crossed>>
        BY <1>2, <1>4, <2>3 DEF Window!Check
      <3> QED
        BY <1>1, <2>1, <3>1, AttemptAlone
    <2> QED
      BY <2>2, <2>3
  <1>5. CASE ~(m \in Deliveries /\ Window!Delivered(m))
    <2>1. attempt' = [attempt EXCEPT ![w].checked = TRUE] /\ UNCHANGED <<queued, chain, cache, crossed>>
      BY <1>2, <1>5 DEF Window!Check
    <2>2. PICK n, checked : checked = TRUE /\ n = [id |-> m, checked |-> checked]
      OBVIOUS
    <2>3. checked \in BOOLEAN /\ n = [id |-> m, checked |-> checked]
      BY <2>2
    <2>4. n \in Sending /\ n.id = m
      BY <1>3, <2>3 DEF Sending
    <2>5. attempt' = [attempt EXCEPT ![w] = n]
      <3>1. attempt' = [attempt EXCEPT ![w] = [attempt[w] EXCEPT !.checked = checked]]
        BY <2>1, <2>2
      <3>2. [attempt[w] EXCEPT !.checked = checked] = n
        BY <1>2, <1>3, <2>3 DEF Sending
      <3> QED
        BY <3>1, <3>2
    <2>6. m \in Deliveries => sent[m] = 0
      <3>1. sent[m] \in Nat
        BY <1>3, WindowFacts
      <3>2. ~(sent[m] > 0) => sent[m] = 0
        BY <3>1
      <3> QED
        BY <1>5, <3>2 DEF Window!Delivered
    <2> QED
      BY <1>1, <1>2, <2>1, <2>4, <2>5, <2>6, AttemptAlone
  <1> QED
    BY <1>4, <1>5
LEMMA SendsKeeps ==
  ASSUME WindowInv, NEW w \in Window!Renderers, Window!Commit(w)
  PROVE  WindowStep
  <1>1. /\ attempt[w] # None /\ attempt[w].checked /\ attempt' = [attempt EXCEPT ![w] = None]
        /\ UNCHANGED <<registry, snapshot, news, seen, source, view, phase, fresh, file, reclaim, exclusions,
                       accepted, opens, crashes, opened>>
    BY DEF Window!Commit, Window!native, Window!handover
  <1>2. PICK m : m = attempt[w].id
    OBVIOUS
  <1>3. CASE ~Window!Owned(w)
    <2>1. UNCHANGED <<sent, chat, queued, chain, cache, crossed>>
      BY <1>3 DEF Window!Commit
    <2> QED
      BY <1>1, <2>1, AttemptAlone
  <1>4. CASE Window!Owned(w)
    <2>1. PICK q : q = Tail(queued[w])
      OBVIOUS
    <2>2. queued[w] # <<>> /\ Head(queued[w]).id = m
      BY <1>2, <1>4 DEF Window!Owned
    <2>3. /\ sent[m] < MaxSent /\ sent' = [sent EXCEPT ![m] = sent[m] + 1]
          /\ chat' = [chat EXCEPT ![w] = "busy"] /\ Window!Persist(w, q)
      BY <1>2, <1>4, <2>1 DEF Window!Commit
    <2>4. /\ q \in Window!Queue /\ Proper(q, accepted) /\ Window!Ids(q) = Window!Ids(queued[w]) \ {m}
          /\ m \in accepted /\ m \in Messages
      BY <2>1, <2>2, HeadGoes
    <2>5. /\ queued' \in [Window!Renderers -> Window!Queue] /\ queued'[w] = q
          /\ \A v \in Window!Renderers : v # w => queued'[v] = queued[v]
          /\ chain' \in [Window!Renderers -> Writes]
          /\ \A v \in Window!Renderers : v # w => chain'[v] = chain[v]
          /\ cache' = q
          /\ crossed' \in BOOLEAN /\ (crossed => crossed')
          /\ ~crossed' /\ w = "main" => MainOwns /\ registry # "owned" /\ source.pc # "finishing"
      BY <2>3, <2>4, PersistFacts
    <2>6. /\ attempt' \in [Window!Renderers -> Sending \cup {None}] /\ attempt'[w] = None
          /\ \A v \in Window!Renderers : v # w => attempt'[v] = attempt[v]
      BY <1>1, WindowTyped
    <2>7. /\ sent' \in [Messages -> 0 .. MaxSent] /\ sent'[m] = sent[m] + 1
          /\ \A x \in Messages : x # m => sent'[x] = sent[x]
      <3>1. sent[m] \in 0 .. MaxSent /\ sent[m] + 1 \in 0 .. MaxSent
        BY <2>3, <2>4, WindowTyped, ChatAssumption
      <3> QED
        BY <2>3, <2>4, <3>1, WindowTyped
    <2>8. MoreSent
      <3>1. sent \in [Messages -> Nat] /\ sent' \in [Messages -> Nat]
        BY <2>7, WindowFacts, ChatAssumption
      <3>2. \A x \in Messages : sent'[x] >= sent[x]
        BY <2>7, <3>1
      <3> QED
        BY <3>1, <3>2 DEF MoreSent
    <2>9. chat' \in [Window!Renderers -> Turns]
      BY <2>3, WindowTyped DEF Turns
    <2>10. Window!TypeOK'
      BY <1>1, <2>4, <2>5, <2>6, <2>7, <2>9, WindowTyped, WindowTypes
    <2>11. ProperInv'
      <3>1. \A x \in Messages : sent'[x] > 0 => x \in accepted'
        BY <1>1, <2>4, <2>7, WindowParts DEF ProperInv
      <3> QED
        BY <1>1, <2>3, <2>4, <3>1, PersistProper
    <2>12. w = "window" => phase = "ready"
      BY <1>1, WindowParts DEF PhaseInv
    <2>13. PhaseInv' /\ NewsInv'
      <3>1. attempt'["window"] # None \/ chain'["window"] # <<>> => phase = "ready"
        BY <2>5, <2>6, <2>12, WindowParts DEF PhaseInv, Window!Renderers
      <3> QED
        BY <1>1, <3>1, WindowParts DEF PhaseInv, NewsInv
    <2>14. StoredInv'
      <3>1. Keeps(queued[w], q, sent')
        <4>1. sent[m] \in Nat /\ sent'[m] > 0
          BY <2>4, <2>7, WindowFacts
        <4> QED
          BY <2>4, <4>1 DEF Keeps
      <3> QED
        BY <1>1, <2>3, <2>4, <2>8, <2>12, <3>1, PersistStored
    <2>15. MainOwns' <=> MainOwns
      BY <1>1 DEF MainOwns, Window!Behind
    <2>16. \A x : MaySend(x) /\ x \in Messages /\ x # m => MaySend(x)'
      BY <1>1, <2>7 DEF MaySend
    <2>17. \A x \in Window!Ids(q) : x \in Window!Ids(queued[w]) /\ x \in Messages /\ x # m
      BY <2>4, IdsMessages
    <2>18. HeldInv'
      <3> SUFFICES ASSUME ~crossed' PROVE HeldInv'
        BY DEF HeldInv
      <3>1. ~crossed /\ HeldInv
        BY <2>5, WindowParts
      <3>2. CASE w = "main"
        <4>1. MainOwns /\ registry # "owned" /\ source.pc # "finishing" /\ phase # "ready"
          BY <2>5, <3>2, WindowParts DEF PhaseInv
        <4>2. \A x \in Window!Ids(q) : MaySend(x) \/ (~view /\ x \in exclusions)
          BY <2>17, <3>1, <3>2, <4>1 DEF HeldInv
        <4>3. \A x \in Window!Ids(q) : MaySend(x)' \/ (~view' /\ x \in exclusions')
          BY <1>1, <2>16, <2>17, <4>2
        <4>4. queued'["main"] = q /\ queued'["window"] = queued["window"]
          BY <2>5, <3>2 DEF Window!Renderers
        <4> QED
          BY <1>1, <3>1, <4>1, <4>3, <4>4 DEF HeldInv, Taken
      <3>3. CASE w = "window"
        <4>1. phase = "ready" /\ registry = "owned"
          BY <2>12, <3>3, WindowParts DEF PhaseInv
        <4>2. \A x \in Window!Ids(q) : MaySend(x)
          BY <2>17, <3>1, <3>3, <4>1 DEF HeldInv
        <4>3. \A x \in Window!Ids(queued'["window"]) : MaySend(x)'
          BY <2>5, <2>16, <2>17, <3>3, <4>2
        <4> QED
          BY <1>1, <4>1, <4>3 DEF HeldInv, Taken, MainOwns
      <3> QED
        BY <3>2, <3>3 DEF Window!Renderers
    <2>19. AttemptInv'
      <3> SUFFICES ASSUME ~crossed', NEW v \in Window!Renderers, v # w PROVE attempt'[v] = None
        BY <2>6 DEF AttemptInv, Window!Renderers
      <3>1. CASE w = "main"
        BY <2>5, <2>6, <3>1, WindowParts DEF PhaseInv, Window!Renderers
      <3>2. CASE w = "window"
        BY <2>5, <2>6, <2>12, <3>2, WindowParts DEF PhaseInv, AttemptInv, Window!Renderers
      <3> QED
        BY <3>1, <3>2 DEF Window!Renderers
    <2>20. Window!KeepsUnsent
      BY <1>1 DEF Window!KeepsUnsent
    <2>21. Window!SendsOnce
      <3> SUFFICES ASSUME ~crossed', NEW x \in Messages, sent[x] > 0, sent'[x] > sent[x] PROVE x \in opened
        BY <2>5 DEF Window!SendsOnce
      <3>1. x = m
        <4>1. sent[x] \in Nat /\ ~(sent[x] > sent[x])
          BY WindowFacts
        <4> QED
          BY <2>7, <4>1
      <3>2. sent[x] # 0
        BY WindowFacts
      <3> QED
        BY <1>1, <1>2, <2>5, <3>1, <3>2, WindowParts DEF AttemptInv, MaySend
    <2> QED
      BY <2>10, <2>11, <2>13, <2>14, <2>18, <2>19, <2>20, <2>21 DEF WindowStep, WindowInv
  <1> QED
    BY <1>3, <1>4

\* After a restart the main renderer has what is stored, and sends none of it unasked.
LEMMA WindowsCrashKeeps ==
  ASSUME WindowInv, Window!Crash
  PROVE  WindowStep
  <1>1. PICK q : /\ Window!Stored(q) /\ exclusions' = Window!Ids(q) /\ opened' = opened \ Window!Ids(q)
                 /\ queued' = [main |-> Window!Restored(q), window |-> <<>>]
    BY DEF Window!Crash
  <1>2. PICK x, e : x = Window!Restored(q) /\ e = <<>>
    OBVIOUS
  <1>3. /\ cache' \in Window!Queue /\ Proper(cache', accepted)
        /\ Proper(x, accepted) /\ x \in Window!Queue /\ Window!Ids(x) = Window!Ids(q)
        /\ Keeps(file, x, sent) /\ Window!Ids(q) \subseteq accepted
    BY <1>1, <1>2, StoredFacts
  <1>4. /\ e \in Window!Queue /\ e \in Writes /\ DOMAIN e = {} /\ Proper(e, accepted)
        /\ ChainKeeps(file, e, sent) /\ LastIn(file, e) = file
    BY <1>2, ProperEmpty, ChainEmpty DEF Proper, Writes
  <1>5. /\ registry' = "none" /\ snapshot' = None /\ news' = e /\ seen' = "none" /\ source' = Window!Off
        /\ phase' = "closed" /\ crashes < MaxCrashes /\ crashes' = crashes + 1
        /\ chain' = [w \in Window!Renderers |-> e] /\ chat' = [w \in Window!Renderers |-> "idle"]
        /\ attempt' = [w \in Window!Renderers |-> None] /\ reclaim' = Window!Nothing
        /\ UNCHANGED <<file, accepted, sent, opens, crossed>>
    BY <1>2 DEF Window!Crash
  <1>6. view' = FALSE /\ fresh' = FALSE
    BY DEF Window!Crash
  <1>7. view' \in BOOLEAN /\ fresh' \in BOOLEAN /\ ~view' /\ ~fresh'
    BY <1>6
  <1>8. queued' = [main |-> x, window |-> e]
    BY <1>1, <1>2
  <1>9. queued' \in [Window!Renderers -> Window!Queue] /\ queued'["main"] = x /\ queued'["window"] = e
    BY <1>3, <1>4, <1>8 DEF Window!Renderers
  <1>10. /\ chain' \in [Window!Renderers -> Writes] /\ \A w \in Window!Renderers : chain'[w] = e
         /\ chat' \in [Window!Renderers -> Turns]
         /\ attempt' \in [Window!Renderers -> Sending \cup {None}]
         /\ \A w \in Window!Renderers : attempt'[w] = None
    BY <1>4, <1>5 DEF Turns
  <1>11. source' \in Sources /\ source'.pc = "off" /\ source'.final = e
    <2>1. source' = [pc |-> "off", final |-> e]
      BY <1>2, <1>5 DEF Window!Off
    <2> QED
      BY <1>4, <2>1 DEF Sources
  <1>12. reclaim' \in Reclaims /\ reclaim'.pc = "none"
    BY <1>5 DEF Reclaims, Window!Nothing
  <1>13. Window!TypeOK'
    <2>1. crashes' \in 0 .. MaxCrashes
      BY <1>5, WindowTyped, ChatAssumption
    <2>2. news' \in Seq(Window!Modes)
      BY <1>2, <1>5
    <2>3. exclusions' \in SUBSET Messages /\ opened' \in SUBSET Messages
      BY <1>1, <1>3, WindowTyped
    <2>4. registry' \in Window!Modes /\ seen' \in Window!Modes /\ phase' \in Phases
      BY <1>5 DEF Window!Modes, Phases
    <2> QED
      BY <1>3, <1>5, <1>7, <1>9, <1>10, <1>11, <1>12, <2>1, <2>2, <2>3, <2>4, WindowTyped, WindowTypes
  <1>14. ProperInv'
    <2>1. \A w \in Window!Renderers : /\ Proper(queued'[w], accepted)
                                      /\ \A i \in DOMAIN chain'[w] : Proper(chain'[w][i], accepted)
      BY <1>3, <1>4, <1>9, <1>10 DEF Window!Renderers
    <2> QED
      BY <1>3, <1>4, <1>5, <1>11, <1>12, <2>1, WindowParts DEF ProperInv
  <1>15. PhaseInv' /\ NewsInv'
    <2>1. attempt'["window"] = None /\ chain'["window"] = <<>>
      BY <1>2, <1>10, WindowTyped
    <2>2. PhaseInv'
      BY <1>5, <1>7, <2>1 DEF PhaseInv
    <2>3. LastIn(seen', news') = "none"
      BY <1>2, <1>5 DEF LastIn
    <2> QED
      BY <1>4, <1>5, <1>11, <2>2, <2>3 DEF NewsInv
  <1>16. StoredInv'
    <2>1. \A w \in Window!Renderers : ChainKeeps(file', chain'[w], sent')
      BY <1>4, <1>5, <1>10
    <2>2. Keeps(LastIn(file', chain'["main"]), queued'["main"], sent')
      BY <1>3, <1>4, <1>5, <1>9, <1>10, WindowTyped
    <2> QED
      BY <1>5, <1>11, <1>12, <2>1, <2>2 DEF StoredInv, Taken
  <1>17. HeldInv' /\ AttemptInv'
    <2>1. \A m \in Window!Ids(queued'["main"]) : m \in exclusions'
      BY <1>1, <1>3, <1>9
    <2>2. HeldInv'
      BY <1>5, <1>7, <1>11, <2>1 DEF HeldInv, Taken
    <2>3. AttemptInv'
      BY <1>10, WindowTyped DEF AttemptInv
    <2> QED
      BY <2>2, <2>3
  <1> QED
    BY <1>5, <1>13, <1>14, <1>15, <1>16, <1>17, NothingSent DEF WindowStep, WindowInv

LEMMA WindowStarts == Window!Init => WindowInv
  <1> SUFFICES ASSUME Window!Init PROVE WindowInv
    OBVIOUS
  <1>1. PICK e : e = <<>>
    OBVIOUS
  <1>2. /\ e \in Window!Queue /\ e \in Writes /\ DOMAIN e = {} /\ Proper(e, accepted) /\ Window!Ids(e) = {}
        /\ ChainKeeps(e, e, sent) /\ LastIn(e, e) = e /\ Keeps(e, e, sent)
    BY <1>1, ProperEmpty, ChainEmpty DEF Proper, Writes, Keeps
  <1>3. /\ registry = "none" /\ snapshot = None /\ news = e /\ seen = "none" /\ source = Window!Off
        /\ phase = "closed" /\ file = e /\ cache = e /\ reclaim = Window!Nothing /\ exclusions = {}
        /\ accepted = {} /\ sent = [m \in Messages |-> 0] /\ opens = 0 /\ crashes = 0 /\ opened = {}
        /\ queued = [w \in Window!Renderers |-> e] /\ chain = [w \in Window!Renderers |-> e]
        /\ attempt = [w \in Window!Renderers |-> None]
        /\ chat = [w \in Window!Renderers |-> IF w = "main" THEN "busy" ELSE "idle"]
    BY <1>1 DEF Window!Init
  <1>4. view = TRUE /\ fresh = FALSE /\ crossed = FALSE
    BY DEF Window!Init
  <1>5. view \in BOOLEAN /\ fresh \in BOOLEAN /\ crossed \in BOOLEAN /\ ~fresh
    BY <1>4
  <1>6. /\ \A w \in Window!Renderers : queued[w] = e /\ chain[w] = e /\ attempt[w] = None
        /\ "main" \in Window!Renderers /\ "window" \in Window!Renderers
    BY <1>3 DEF Window!Renderers
  <1>7. source \in Sources /\ source.pc = "off" /\ source.final = e
    <2>1. source = [pc |-> "off", final |-> e]
      BY <1>1, <1>3 DEF Window!Off
    <2> QED
      BY <1>2, <2>1 DEF Sources
  <1>8. reclaim \in Reclaims /\ reclaim.pc = "none"
    BY <1>3 DEF Reclaims, Window!Nothing
  <1>9. Window!TypeOK
    <2>1. /\ registry \in Window!Modes /\ seen \in Window!Modes /\ phase \in Phases
          /\ news \in Seq(Window!Modes)
      BY <1>1, <1>3 DEF Window!Modes, Phases
    <2>2. /\ queued \in [Window!Renderers -> Window!Queue] /\ chain \in [Window!Renderers -> Writes]
          /\ attempt \in [Window!Renderers -> Sending \cup {None}] /\ chat \in [Window!Renderers -> Turns]
      BY <1>2, <1>3 DEF Turns
    <2>3. sent \in [Messages -> 0 .. MaxSent] /\ opens \in 0 .. MaxOpens /\ crashes \in 0 .. MaxCrashes
      BY <1>3, ChatAssumption
    <2> QED
      BY <1>2, <1>3, <1>5, <1>7, <1>8, <2>1, <2>2, <2>3
         DEF Window!TypeOK, Sources, Phases, Writes, Turns, Sending, Reclaims
  <1>10. ProperInv
    <2>1. \A m \in Messages : ~(sent[m] > 0)
      BY <1>3
    <2> QED
      BY <1>2, <1>3, <1>6, <1>7, <1>8, <2>1 DEF ProperInv
  <1>11. PhaseInv
    BY <1>1, <1>3, <1>5, <1>6 DEF PhaseInv
  <1>12. NewsInv
    <2>1. LastIn(seen, news) = "none"
      BY <1>1, <1>3 DEF LastIn
    <2> QED
      BY <1>2, <1>3, <1>7, <2>1 DEF NewsInv
  <1>13. StoredInv
    BY <1>2, <1>3, <1>6, <1>7, <1>8 DEF StoredInv, Taken
  <1>14. HeldInv /\ AttemptInv
    BY <1>2, <1>3, <1>6, <1>7 DEF HeldInv, AttemptInv, Taken
  <1> QED
    BY <1>9, <1>10, <1>11, <1>12, <1>13, <1>14 DEF WindowInv

LEMMA WindowKeeps ==
  ASSUME WindowInv, [Window!Next]_(Window!vars)
  PROVE  WindowInv' /\ [Window!KeepsUnsent]_(Window!vars) /\ [Window!SendsOnce]_(Window!vars)
  <1>1. CASE UNCHANGED Window!vars
    <2>1. UNCHANGED <<registry, snapshot, news, seen, source, view, phase, fresh, queued, chat, attempt, chain,
                      file, cache, reclaim, exclusions, accepted, sent, opens, crashes, opened, crossed>>
      BY <1>1 DEF Window!vars, Window!native, Window!handover, Window!queues, Window!history
    <2>2. Window!TypeOK'
      BY <2>1, WindowTyped, WindowTypes
    <2>3. ProperInv' /\ PhaseInv' /\ NewsInv'
      BY <2>1, WindowParts DEF ProperInv, PhaseInv, NewsInv
    <2>4. MainOwns' <=> MainOwns
      BY <2>1 DEF MainOwns, Window!Behind
    <2>5. StoredInv' /\ HeldInv' /\ AttemptInv'
      BY <2>1, <2>4, WindowParts DEF StoredInv, HeldInv, AttemptInv, MaySend, Taken
    <2> QED
      BY <1>1, <2>2, <2>3, <2>5 DEF WindowInv
  <1>2. CASE Window!Next
    BY <1>2, OpenWindowKeeps, WindowsCrashKeeps, LoadKeeps, JoinKeeps, ReadSnapshotKeeps, RecoveryTimerKeeps,
       ReloadKeeps, WindowLoadedKeeps, CloseKeeps, HandleNewsKeeps, PublishKeeps, FinishesKeeps, FinishedKeeps,
       ReclaimLoadKeeps, ReclaimApplyKeeps, OpenChatKeeps, LeaveChatKeeps, MainLoadedKeeps, WriteKeeps,
       AcceptKeeps, BeginsKeeps, CheckKeeps, SendsKeeps, TurnOverKeeps
       DEF Window!Next, WindowStep
  <1> QED
    BY <1>1, <1>2

LEMMA WindowAlone == Window!Spec => []WindowInv /\ Window!FileForgetsSent /\ Window!NoReplay
  BY WindowStarts, WindowKeeps, PTL DEF Window!Spec, Window!FileForgetsSent, Window!NoReplay

\* A renderer takes out of the file of queues only what it sent or what was handed to
\* it: neither a late write of a window nor the copy of the main renderer loses a message
\* (queuePersistence.ts, window_session.rs).
THEOREM UnsentStays == ChatSpec => FileForgetsSent
  BY PartsAlone, WindowAlone, PTL DEF FileForgetsSent

\* A message whose turn was made is not sent again by a window, a restart or a
\* reconciliation alone (restoredExclusionsBySession, reclaimedQueueReconciliation.ts).
THEOREM NothingReplayed == ChatSpec => NoReplay
  BY PartsAlone, WindowAlone, PTL DEF NoReplay

----------------------------------------------------------------------------
(* All parts of a chat *)

\* The parts of a chat keep their types (SessionTarget, WorkspaceSend, WorkspaceSwitch and
\* SessionWindows).
THEOREM ChatTypeCorrect == ChatSpec => []ChatTypes
  <1>1. TypeOK /\ SendInv /\ SwitchInv /\ WindowInv => ChatTypes
    BY DEF SendInv, SwitchInv, WindowInv, ChatTypes
  <1> QED
    BY <1>1, PartsAlone, TypeCorrect, SendAlone, SwitchAlone, WindowAlone, PTL

\* A prompt of the chat routes on the selection it was hydrated for, whatever the other
\* parts of the chat do meanwhile.
THEOREM ChatRouteKept == ChatSpec => []RouteInv
  BY PartsAlone, RouteKept, PTL
=============================================================================

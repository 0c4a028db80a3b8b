------------------------ MODULE RemoteBackend_proofs ------------------------
(***************************************************************************)
(* What RemoteBackend promises, for any number of connect calls, tunnels,  *)
(* slots, disconnects and attempts: every tunnel that runs is owned, every *)
(* slot that is not at rest is attended, no tunnel is left behind for a    *)
(* host that was forgotten, and the reconnect budget is never exceeded.    *)
(***************************************************************************)
EXTENDS RemoteBackend, TLAPS

(***************************************************************************)
(* The inductive invariant, one part for each thing that can go wrong.     *)
(***************************************************************************)

\* What a call and a supervisor can be doing.  A task that is not idle works for a slot
\* that was made, for a generation the slot has had; only a task that starts a tunnel
\* has one of its own, and only a supervisor has spent attempts.
CallerSteps == {"idle", "waiting", "admitted", "announced", "establishing", "starting",
                "ok", "superseded", "failed"}
SupervisorSteps == {"idle", "establishing", "starting", "watching", "retrying", "backoff", "gone"}

TaskOK(k) ==
  /\ task[k].pc \in IF k \in Callers THEN CallerSteps ELSE SupervisorSteps
  /\ task[k].pc = "idle" => task[k] = Idle
  /\ task[k].pc # "idle" => /\ task[k].slot \in 1..made
                            /\ task[k].generation <= slots[task[k].slot].generation
  /\ IF task[k].pc = "starting" THEN task[k].own \in Tunnels ELSE task[k].own = 0
  /\ task[k].pc \in {"watching", "backoff", "establishing", "starting"} => task[k].attempt <= MaxAttempts
  /\ k \in Callers => task[k].attempt = 0

TasksOK == \A k \in Tasks : TaskOK(k)

\* The connect lock of a slot is with the task that works on its connection, or with the
\* shutdown that asks its daemon to stop.
Working == {"admitted", "announced", "establishing", "starting"}
Held ==
  /\ \A k \in Tasks : task[k].pc \in Working => connectLock[task[k].slot] = k
  /\ stopping.pc # "idle" => stopping.slot \in Slots
  /\ stopping.pc = "asking" => connectLock[stopping.slot] = Stopper

Owning == {"establishing", "starting", "watching", "retrying", "backoff"}

\* A tunnel that has not come up has no supervisor, and no two supervisors own one
\* generation of a slot.
Watchers ==
  /\ \A t \in Tunnels : tunnel[t] \in {"none", "starting"} => task[t].pc = "idle"
  /\ \A t, u \in Tunnels :
       /\ task[t].pc \in Owning /\ task[u].pc \in Owning
       /\ task[t].slot = task[u].slot /\ task[t].generation = task[u].generation
       => t = u

\* A disconnect publishes for a generation the slot has had.
ClosingOK ==
  \A d \in closing : d[1] \in Slots /\ d[2] <= slots[d[1]].generation

\* A tunnel that is being started is its task's, under the lock.
Started(t) == tunnel[t] = "starting" =>
  \E k \in Tasks : task[k].own = t /\ connectLock[task[k].slot] = k

\* While a tunnel is up its slot is Ready for it, and nobody is about to take the slot
\* over: no disconnect has its generation to publish, no connect call has found the slot
\* disconnected, and no establish owns the generation.
Serving(t) == tunnel[t] = "up" =>
  /\ task[t].pc = "watching" /\ Current(t)
  /\ slots[task[t].slot].pid = t /\ slots[task[t].slot].port
  /\ slots[task[t].slot].state = "ready"
  /\ <<task[t].slot, task[t].generation>> \notin closing

Establishing == {"establishing", "starting"}
Undisturbed(t, k) == tunnel[t] = "up" /\ task[k].slot = task[t].slot =>
  /\ task[k].pc \notin {"admitted", "announced"}
  /\ ~(task[k].pc \in Establishing /\ Current(k))

TunnelsOK ==
  /\ \A t \in Tunnels : Started(t) /\ Serving(t)
  /\ \A t \in Tunnels, k \in Tasks : Undisturbed(t, k)

\* A slot the registry does not have was forgotten, and whoever still owns the current
\* generation of a forgotten slot read it after the tombstone.
Removed ==
  /\ forgetting # 0 => slots[forgetting].forgotten
  /\ \A s \in 1..made : s # registered => slots[s].forgotten

Informed(k) ==
  task[k].pc \in Owning /\ Current(k) /\ slots[task[k].slot].forgotten => task[k].slot \in late
AllInformed == \A k \in Tasks : Informed(k)

\* The owner of a generation has spent an attempt for every tunnel in a row that died
\* young, and one more while it has no tunnel.
Spending == {"establishing", "starting", "retrying", "backoff"}
Spends(t) ==
  task[t].pc \in Owning /\ Current(t) /\ ~task[t].stable =>
    /\ task[t].pc = "watching" => unstable[task[t].slot] <= task[t].attempt
    /\ task[t].pc \in Spending => unstable[task[t].slot] < task[t].attempt
Budget == \A t \in Tunnels : Spends(t)

\* Who keeps a slot from being left in a state that is not at rest.
Claims(k, s) ==
  /\ task[k].slot = s
  /\ Attending(k) \/ (k \in Callers /\ task[k].pc \in {"admitted", "announced"})
Active == {"connecting", "reconnecting", "ready"}
AttendedAt(s) ==
  slots[s].state \in Active =>
    (\E k \in Tasks : Claims(k, s)) \/ <<s, slots[s].generation>> \in closing
Attends == \A s \in Slots : AttendedAt(s)

IInv == /\ TypeOK /\ TasksOK /\ Held /\ Watchers /\ ClosingOK /\ TunnelsOK
        /\ Removed /\ AllInformed /\ Budget /\ BudgetHolds /\ Attends

-----------------------------------------------------------------------------
(***************************************************************************)
(* What a step does, field by field: the proofs below reason about these   *)
(* facts and not about the records of the definitions.                     *)
(***************************************************************************)

Types ==
  /\ task \in [Tasks -> Task] /\ slots \in [Slots -> Slot]
  /\ connectLock \in [Slots -> Tasks \cup {NoTask, Stopper}]
  /\ tunnel \in [Tunnels -> {"none", "starting", "up", "dead"}]
  /\ unstable \in [Slots -> Nat]

\* The other tasks, and what task k carries from one step to the next.
OthersOf(k) == \A j \in Tasks : j # k => task'[j] = task[j]
Carries(k) ==
  /\ task'[k].slot = task[k].slot /\ task'[k].generation = task[k].generation
  /\ task'[k].own = task[k].own /\ task'[k].attempt = task[k].attempt
  /\ task'[k].stable = task[k].stable
Reaches(k, pc) ==
  /\ task' \in [Tasks -> Task] /\ OthersOf(k) /\ Carries(k) /\ task'[k].pc = pc

\* Slot s in another state, or with a new generation and no tunnel.
OtherSlots(s) == slots' \in [Slots -> Slot] /\ \A r \in Slots : r # s => slots'[r] = slots[r]
InState(s, state) ==
  /\ OtherSlots(s)
  /\ slots'[s].forgotten = slots[s].forgotten /\ slots'[s].generation = slots[s].generation
  /\ slots'[s].port = slots[s].port /\ slots'[s].pid = slots[s].pid
  /\ slots'[s].state = state
Superseded(s) ==
  /\ OtherSlots(s)
  /\ slots'[s].forgotten = slots[s].forgotten /\ slots'[s].state = slots[s].state
  /\ slots'[s].generation = slots[s].generation + 1

Locks(s, k) ==
  /\ connectLock' \in [Slots -> Tasks \cup {NoTask, Stopper}]
  /\ connectLock'[s] = k /\ \A r \in Slots : r # s => connectLock'[r] = connectLock[r]

Tunnelled(t, state) ==
  /\ tunnel' \in [Tunnels -> {"none", "starting", "up", "dead"}]
  /\ tunnel'[t] = state /\ \A u \in Tunnels : u # t => tunnel'[u] = tunnel[u]
Kills(s) ==
  /\ tunnel' \in [Tunnels -> {"none", "starting", "up", "dead"}]
  /\ \A u \in Tunnels : tunnel'[u] = IF u = slots[s].pid THEN "dead" ELSE tunnel[u]

LEMMA GoesEffect ==
  ASSUME Types, NEW k \in Tasks, NEW pc, task' = Goes(k, pc),
         pc \in CallerSteps \cup SupervisorSteps
  PROVE  Reaches(k, pc)
<1> DEFINE r == [task[k] EXCEPT !.pc = pc]
<1>1. r \in Task /\ r.pc = pc
  BY DEF Types, Task, CallerSteps, SupervisorSteps
<1>2. /\ r.slot = task[k].slot /\ r.generation = task[k].generation /\ r.own = task[k].own
      /\ r.attempt = task[k].attempt /\ r.stable = task[k].stable
  BY DEF Types, Task
<1>3. task' = [task EXCEPT ![k] = r]
  BY DEF Goes
<1> HIDE DEF r
<1> QED
  BY <1>1, <1>2, <1>3 DEF Reaches, Carries, OthersOf, Types

LEMMA StateEffect ==
  ASSUME Types, NEW s \in Slots, NEW state, slots' = StateIs(s, state),
         state \in {"connecting", "ready", "reconnecting", "disconnected", "failed"}
  PROVE  InState(s, state)
<1> DEFINE r == [slots[s] EXCEPT !.state = state]
<1>1. r \in Slot /\ r.state = state
  BY DEF Types, Slot
<1>2. /\ r.forgotten = slots[s].forgotten /\ r.generation = slots[s].generation
      /\ r.port = slots[s].port /\ r.pid = slots[s].pid
  BY DEF Types, Slot
<1>3. slots' = [slots EXCEPT ![s] = r]
  BY DEF StateIs
<1> HIDE DEF r
<1> QED
  BY <1>1, <1>2, <1>3 DEF InState, OtherSlots, Types

LEMMA LockEffect ==
  ASSUME Types, NEW s \in Slots, NEW k \in Tasks \cup {NoTask, Stopper},
         connectLock' = [connectLock EXCEPT ![s] = k]
  PROVE  Locks(s, k)
BY DEF Types, Locks

LEMMA TunnelEffect ==
  ASSUME Types, NEW t \in Tunnels, NEW state \in {"none", "starting", "up", "dead"},
         tunnel' = [tunnel EXCEPT ![t] = state]
  PROVE  Tunnelled(t, state)
BY DEF Types, Tunnelled

LEMMA KilledEffect ==
  ASSUME Types, NEW s \in Slots, RemoteAssumption, tunnel' = Killed(s)
  PROVE  Kills(s)
<1>1. slots[s].pid \in Tunnels \cup {0} /\ 0 \notin Tunnels
  BY DEF Types, Slot, RemoteAssumption, Tunnels
<1>2. CASE slots[s].pid = 0
  BY <1>1, <1>2 DEF Killed, Kills, Types
<1>3. CASE slots[s].pid \in Tunnels
  BY <1>1, <1>3 DEF Killed, Kills, Types
<1> QED
  BY <1>1, <1>2, <1>3

LEMMA BumpedEffect ==
  ASSUME Types, NEW s \in Slots, slots' = Bumped(s)
  PROVE  Superseded(s)
<1> DEFINE r == [slots[s] EXCEPT !.generation = @ + 1, !.pid = 0, !.port = FALSE]
<1>1. slots[s].generation + 1 \in Generations
  BY DEF Types, Slot, Generations
<1>a. r.generation = slots[s].generation + 1
  BY DEF Types, Slot
<1>b. r \in Slot
  BY <1>1 DEF Types, Slot
<1>2. r.forgotten = slots[s].forgotten /\ r.state = slots[s].state
  BY DEF Types, Slot
<1>3. slots' = [slots EXCEPT ![s] = r]
  BY DEF Bumped
<1> HIDE DEF r
<1> QED
  BY <1>a, <1>b, <1>2, <1>3 DEF Superseded, OtherSlots, Types

\* What a step leaves alone.
Rest == <<made, registered, closing, closes, forgetting, stopping, unstable, late>>

\* Task k gets a new record.
LEMMA TaskEffect ==
  ASSUME Types, NEW k \in Tasks, NEW r \in Task, task' = [task EXCEPT ![k] = r]
  PROVE  task' \in [Tasks -> Task] /\ OthersOf(k) /\ task'[k] = r
BY DEF Types, OthersOf

LEMMA SlotEffect ==
  ASSUME Types, NEW s \in Slots, NEW r \in Slot, slots' = [slots EXCEPT ![s] = r]
  PROVE  OtherSlots(s) /\ slots'[s] = r
BY DEF Types, OtherSlots

\* The slot a request or a shutdown asks for.
LEMMA SlotMadeEffect ==
  ASSUME SlotMade, made \in 0..MaxSlots, registered \in 0..made, RemoteAssumption
  PROVE  /\ registered' \in Slots /\ made' \in 0..MaxSlots /\ registered' \in 0..made'
         /\ SlotUsed = registered'
         /\ \/ registered = 0 /\ made' = made + 1 /\ registered' = made + 1
            \/ registered # 0 /\ made' = made /\ registered' = registered
BY DEF SlotMade, SlotUsed, Slots, RemoteAssumption

LEMMA RequestEffect ==
  ASSUME Types, TasksOK, NEW c \in Callers, NEW path \in Paths \cup {"none"}, Request(c, path),
         registered' \in Slots, SlotUsed = registered'
  PROVE  /\ task[c].pc = "idle" /\ task' \in [Tasks -> Task] /\ OthersOf(c)
         /\ task'[c].pc = "waiting" /\ task'[c].slot = registered'
         /\ task'[c].generation = 0 /\ task'[c].own = 0 /\ task'[c].attempt = 0
<1> DEFINE r == [task[c] EXCEPT !.pc = "waiting", !.slot = registered', !.path = path]
<1>1. c \in Tasks /\ task[c] = Idle /\ task[c] \in Task /\ task[c].pc = "idle"
  BY DEF Request, TasksOK, TaskOK, Tasks, Types
<1>2. r \in Task /\ r.pc = "waiting" /\ r.slot = registered'
  BY <1>1 DEF Task
<1>3. r.generation = 0 /\ r.own = 0 /\ r.attempt = 0
  BY <1>1 DEF Task, Idle
<1>4. task' = [task EXCEPT ![c] = r]
  BY DEF Request
<1> HIDE DEF r
<1> QED
  BY <1>1, <1>2, <1>3, <1>4, TaskEffect

\* The three outcomes of an admission.
Refused(c) ==
  /\ slots[task[c].slot].forgotten /\ Reaches(c, "superseded")
  /\ UNCHANGED <<slots, connectLock, tunnel>>
FromCache(c) ==
  /\ task' \in [Tasks -> Task] /\ OthersOf(c)
  /\ task'[c].pc = "ok" /\ task'[c].slot = task[c].slot
  /\ task'[c].generation = slots[task[c].slot].generation
  /\ task'[c].own = task[c].own /\ task'[c].attempt = task[c].attempt
  /\ UNCHANGED <<slots, connectLock, tunnel>>
Admitted(c) ==
  LET s == task[c].slot IN
  /\ Reaches(c, "admitted") /\ Locks(s, c)
  /\ \/ ~(slots[s].state = "ready" /\ slots[s].port) /\ UNCHANGED <<slots, tunnel>>
     \/ Superseded(s) /\ Kills(s)

LEMMA AdmitEffect ==
  ASSUME Types, NEW c \in Callers, task[c].slot \in Slots, Admit(c), RemoteAssumption
  PROVE  /\ task[c].pc = "waiting" /\ connectLock[task[c].slot] = NoTask
         /\ Refused(c) \/ FromCache(c) \/ Admitted(c)
         /\ UNCHANGED Rest
<1> DEFINE s == task[c].slot
<1>1. c \in Tasks /\ s \in Slots
  BY DEF Tasks
<1>2. task[c].pc = "waiting" /\ connectLock[s] = NoTask /\ UNCHANGED Rest
  BY DEF Admit, Free, Rest
<1>3. CASE slots[s].forgotten
  <2>1. task' = Goes(c, "superseded") /\ UNCHANGED <<slots, connectLock, tunnel>>
    BY <1>3 DEF Admit
  <2> QED
    BY <1>1, <1>2, <1>3, <2>1, GoesEffect DEF Refused, CallerSteps
<1>4. CASE ~slots[s].forgotten /\ Cached(s, task[c].path)
  <2> DEFINE r == [task[c] EXCEPT !.pc = "ok", !.generation = slots[s].generation]
  <2>1. task' = [task EXCEPT ![c] = r] /\ UNCHANGED <<slots, connectLock, tunnel>>
    BY <1>4 DEF Admit
  <2>a. slots[s].generation \in Generations /\ task[c] \in Task
    BY <1>1 DEF Types, Slot
  <2>2. r \in Task /\ r.pc = "ok" /\ r.generation = slots[s].generation
    BY <2>a DEF Task
  <2>3. r.slot = task[c].slot /\ r.own = task[c].own /\ r.attempt = task[c].attempt
    BY <1>1 DEF Types, Task
  <2> HIDE DEF r
  <2>4. task' \in [Tasks -> Task] /\ OthersOf(c) /\ task'[c] = r
    BY <1>1, <2>1, <2>2, TaskEffect
  <2> QED
    BY <1>2, <2>1, <2>2, <2>3, <2>4 DEF FromCache
<1>5. CASE ~slots[s].forgotten /\ ~Cached(s, task[c].path)
  <2>1. /\ slots' = Restarted(s, task[c].path) /\ connectLock' = Locked(s, c)
        /\ tunnel' = IF slots[s].path = task[c].path THEN tunnel ELSE Killed(s)
        /\ task' = Goes(c, "admitted")
    BY <1>5 DEF Admit
  <2>2. Reaches(c, "admitted") /\ Locks(s, c)
    BY <1>1, <2>1, GoesEffect, LockEffect DEF CallerSteps, Locked
  <2>3. CASE slots[s].path = task[c].path
    BY <1>2, <1>5, <2>1, <2>2, <2>3 DEF Admitted, Restarted, Cached
  <2>4. CASE slots[s].path # task[c].path
    <3> DEFINE r == [slots[s] EXCEPT !.generation = @ + 1, !.pid = 0, !.port = FALSE,
                                     !.path = task[c].path]
    <3>1. slots[s].generation + 1 \in Generations /\ task[c].path \in Paths \cup {"none"}
      BY <1>1 DEF Types, Slot, Task, Generations
    <3>2. r \in Slot /\ r.generation = slots[s].generation + 1
      BY <1>1, <3>1 DEF Types, Slot
    <3>3. r.forgotten = slots[s].forgotten /\ r.state = slots[s].state
      BY <1>1 DEF Types, Slot
    <3>4. slots' = [slots EXCEPT ![s] = r] /\ tunnel' = Killed(s)
      BY <2>1, <2>4 DEF Restarted
    <3> HIDE DEF r
    <3>5. Superseded(s)
      BY <1>1, <3>2, <3>3, <3>4, SlotEffect DEF Superseded
    <3>6. Kills(s)
      BY <1>1, <3>4, KilledEffect
    <3> QED
      BY <1>2, <2>2, <3>5, <3>6 DEF Admitted
  <2> QED
    BY <2>3, <2>4
<1> QED
  BY <1>3, <1>4, <1>5

LEMMA AnnounceEffect ==
  ASSUME Types, NEW c \in Callers, task[c].slot \in Slots, Announce(c)
  PROVE  /\ task[c].pc = "admitted" /\ Reaches(c, "announced")
         /\ InState(task[c].slot, "connecting")
         /\ UNCHANGED Rest /\ UNCHANGED <<connectLock, tunnel>>
BY GoesEffect, StateEffect DEF Announce, Tasks, CallerSteps, Rest

LEMMA OwnEffect ==
  ASSUME Types, NEW c \in Callers, task[c].slot \in Slots, Own(c)
  PROVE  /\ task[c].pc = "announced" /\ task' \in [Tasks -> Task] /\ OthersOf(c)
         /\ task'[c].pc = "establishing" /\ task'[c].slot = task[c].slot
         /\ task'[c].generation = slots[task[c].slot].generation
         /\ task'[c].own = task[c].own /\ task'[c].attempt = task[c].attempt
         /\ late' = IF slots[task[c].slot].forgotten THEN late \cup {task[c].slot} ELSE late
         /\ UNCHANGED <<slots, made, registered, connectLock, tunnel, closing, closes, forgetting,
                        stopping, unstable>>
<1> DEFINE s == task[c].slot
           r == [task[c] EXCEPT !.pc = "establishing", !.generation = slots[s].generation]
<1>1. c \in Tasks /\ task[c] \in Task /\ slots[s].generation \in Generations
  BY DEF Tasks, Types, Slot
<1>2. r \in Task /\ r.pc = "establishing" /\ r.generation = slots[s].generation
  BY <1>1 DEF Task
<1>3. r.slot = task[c].slot /\ r.own = task[c].own /\ r.attempt = task[c].attempt
  BY <1>1 DEF Types, Task
<1>4. task' = [task EXCEPT ![c] = r]
  BY DEF Own
<1> HIDE DEF r
<1>5. task' \in [Tasks -> Task] /\ OthersOf(c) /\ task'[c] = r
  BY <1>1, <1>2, <1>4, TaskEffect
<1> QED
  BY <1>2, <1>3, <1>5 DEF Own

LEMMA SpawnEffect ==
  ASSUME Types, NEW k \in Tasks, Spawn(k)
  PROVE  \E t \in Tunnels :
           /\ task[k].pc = "establishing" /\ tunnel[t] = "none" /\ Tunnelled(t, "starting")
           /\ task' \in [Tasks -> Task] /\ OthersOf(k)
           /\ task'[k].pc = "starting" /\ task'[k].own = t
           /\ task'[k].slot = task[k].slot /\ task'[k].generation = task[k].generation
           /\ task'[k].attempt = task[k].attempt /\ task'[k].stable = task[k].stable
           /\ UNCHANGED Rest /\ UNCHANGED <<slots, connectLock>>
<1>1. PICK t \in Tunnels :
        /\ task[k].pc = "establishing" /\ tunnel[t] = "none"
        /\ tunnel' = [tunnel EXCEPT ![t] = "starting"]
        /\ task' = [task EXCEPT ![k].pc = "starting", ![k].own = t]
        /\ UNCHANGED Rest /\ UNCHANGED <<slots, connectLock>>
  BY DEF Spawn, Rest
<1> DEFINE r == [task[k] EXCEPT !.pc = "starting", !.own = t]
<1>2. r \in Task /\ r.pc = "starting" /\ r.own = t
  BY DEF Types, Task
<1>3. /\ r.slot = task[k].slot /\ r.generation = task[k].generation
      /\ r.attempt = task[k].attempt /\ r.stable = task[k].stable
  BY DEF Types, Task
<1>4. task' = [task EXCEPT ![k] = r]
  BY <1>1
<1> HIDE DEF r
<1>5. task' \in [Tasks -> Task] /\ OthersOf(k) /\ task'[k] = r
  BY <1>2, <1>4, TaskEffect
<1>6. Tunnelled(t, "starting")
  BY <1>1, TunnelEffect
<1> QED
  BY <1>1, <1>2, <1>3, <1>5, <1>6

\* The tunnel answered: its task publishes it, or finds itself superseded.
After(k) == IF k \in Callers THEN "ok" ELSE "gone"
Published(k) ==
  LET s == task[k].slot  t == task[k].own  g == slots[s].generation + 1 IN
  /\ slots[s].generation = task[k].generation
  /\ OtherSlots(s)
  /\ slots'[s].generation = g /\ slots'[s].state = "ready" /\ slots'[s].port /\ slots'[s].pid = t
  /\ slots'[s].forgotten = slots[s].forgotten
  /\ Tunnelled(t, "up")
  /\ task' \in [Tasks -> Task]
  /\ \A j \in Tasks : j # k /\ j # t => task'[j] = task[j]
  /\ task'[k].attempt = task[k].attempt
  /\ task'[k].pc = After(k) /\ task'[k].slot = s /\ task'[k].own = 0 /\ task'[k].generation = g
  /\ task'[t].pc = "watching" /\ task'[t].slot = s /\ task'[t].own = 0 /\ task'[t].generation = g
  /\ task'[t].attempt = task[k].attempt /\ ~task'[t].stable
  /\ unstable' \in [Slots -> Nat]
  /\ unstable'[s] = IF k \in Callers \/ task[k].stable THEN 0 ELSE unstable[s] + 1
  /\ \A r \in Slots : r # s => unstable'[r] = unstable[r]
Stale(k, after) ==
  /\ slots[task[k].slot].generation # task[k].generation
  /\ task' \in [Tasks -> Task] /\ OthersOf(k)
  /\ task'[k].pc = after /\ task'[k].own = 0 /\ task'[k].slot = task[k].slot
  /\ task'[k].generation = task[k].generation /\ task'[k].attempt = task[k].attempt

LEMMA AnsweredEffect ==
  ASSUME Types, NEW k \in Tasks, task[k].slot \in Slots, task[k].own \in Tunnels,
         task[task[k].own].pc = "idle", Answered(k), RemoteAssumption
  PROVE  /\ task[k].pc = "starting" /\ tunnel[task[k].own] = "starting"
         /\ Locks(task[k].slot, NoTask)
         /\ \/ Published(k)
            \/ /\ Stale(k, IF k \in Callers THEN "superseded" ELSE "gone")
               /\ Tunnelled(task[k].own, "dead") /\ UNCHANGED <<slots, unstable>>
         /\ UNCHANGED <<made, registered, closing, closes, forgetting, stopping, late>>
<1> DEFINE s == task[k].slot
           t == task[k].own
<1>1. /\ task[k].pc = "starting" /\ tunnel[t] = "starting" /\ connectLock' = Unlocked(s)
      /\ UNCHANGED <<made, registered, closing, closes, forgetting, stopping, late>>
  BY DEF Answered
<1>2. Locks(s, NoTask)
  BY <1>1, LockEffect DEF Unlocked
<1>3. t \in Tasks /\ t # k /\ slots[s].generation \in Nat /\ task[k] \in Task
  BY <1>1 DEF Tasks, Types, Slot, Generations
<1>4. CASE Owns(k)
  <2> DEFINE g == slots[s].generation + 1
             slot == [slots[s] EXCEPT !.generation = @ + 1, !.state = "ready", !.port = TRUE, !.pid = t]
             mine == [task[k] EXCEPT !.pc = After(k), !.generation = g, !.own = 0]
             its == Supervising(k)
  <2>1. /\ slots' = [slots EXCEPT ![s] = slot]
        /\ tunnel' = [tunnel EXCEPT ![t] = "up"]
        /\ task' = [task EXCEPT ![k].pc = After(k), ![k].generation = g, ![k].own = 0,
                                ![t] = Supervising(k)]
        /\ unstable' = [unstable EXCEPT ![s] = IF k \in Callers \/ task[k].stable THEN 0 ELSE @ + 1]
    BY <1>4 DEF Answered, After
  <2>2. g \in Generations /\ g \in Nat
    BY <1>3 DEF Generations
  <2>3. slot \in Slot /\ slot.generation = g
    BY <2>2 DEF Types, Slot
  <2>4. slot.state = "ready" /\ slot.port /\ slot.pid = t /\ slot.forgotten = slots[s].forgotten
    BY DEF Types, Slot
  <2>5. /\ mine \in Task /\ mine.pc = After(k) /\ mine.generation = g /\ mine.own = 0
        /\ mine.slot = s /\ mine.attempt = task[k].attempt
    <3>1. After(k) \in {"ok", "gone"}
      BY DEF After
    <3> HIDE DEF g
    <3> QED
      BY <3>1, <2>2, <1>3 DEF Task
  <2>6. /\ its \in Task /\ its.pc = "watching" /\ its.generation = g /\ its.own = 0
        /\ its.slot = s /\ its.attempt = task[k].attempt /\ ~its.stable
    <3>1. task[k].attempt \in 0..MaxAttempts + 1 /\ s \in Slots \cup {0}
      BY <1>3 DEF Task
    <3>2. Idle \in Task
      BY RemoteAssumption DEF Idle, Task, Generations, RemoteAssumption
    <3>3. its = [Idle EXCEPT !.pc = "watching", !.slot = s, !.attempt = task[k].attempt, !.generation = g]
      BY DEF Supervising, Spent
    <3>4. Idle.own = 0 /\ Idle.stable = FALSE
      BY DEF Idle
    <3> HIDE DEF g, its, s
    <3> QED
      BY <3>1, <3>2, <3>3, <3>4, <2>2 DEF Task
  <2>7. task' = [[task EXCEPT ![k] = mine] EXCEPT ![t] = its]
    BY <2>1, <1>3 DEF Types
  <2>8. OtherSlots(s) /\ slots'[s] = slot
    BY <2>1, <2>3, SlotEffect
  <2>9. Tunnelled(t, "up")
    BY <2>1, TunnelEffect
  <2>10. /\ task' \in [Tasks -> Task] /\ task'[k] = mine /\ task'[t] = its
         /\ \A j \in Tasks : j # k /\ j # t => task'[j] = task[j]
    <3> HIDE DEF mine, its
    <3> QED
      BY <2>5, <2>6, <2>7, <1>3 DEF Types
  <2>11. /\ unstable' \in [Slots -> Nat]
         /\ unstable'[s] = IF k \in Callers \/ task[k].stable THEN 0 ELSE unstable[s] + 1
         /\ \A r \in Slots : r # s => unstable'[r] = unstable[r]
    BY <2>1 DEF Types
  <2>12. slots[s].generation = task[k].generation
    BY <1>4 DEF Owns, Current
  <2> HIDE DEF slot, mine, its
  <2> QED
    BY <1>1, <1>2, <2>3, <2>4, <2>5, <2>6, <2>8, <2>9, <2>10, <2>11, <2>12 DEF Published
<1>5. CASE ~Owns(k)
  <2> DEFINE after == IF k \in Callers THEN "superseded" ELSE "gone"
             mine == [task[k] EXCEPT !.pc = after, !.own = 0]
  <2>1. /\ tunnel' = [tunnel EXCEPT ![t] = "dead"] /\ UNCHANGED <<slots, unstable>>
        /\ task' = [task EXCEPT ![k] = mine]
    BY <1>5 DEF Answered
  <2>2. after \in {"superseded", "gone"}
    OBVIOUS
  <2> HIDE DEF after
  <2>3. mine \in Task /\ mine.pc = after /\ mine.own = 0
    BY <1>3, <2>2 DEF Task
  <2>4. mine.slot = s /\ mine.generation = task[k].generation /\ mine.attempt = task[k].attempt
    BY <1>3 DEF Task
  <2> HIDE DEF mine
  <2>5. task' \in [Tasks -> Task] /\ OthersOf(k) /\ task'[k] = mine
    BY <2>1, <2>3, TaskEffect
  <2>6. Tunnelled(t, "dead")
    BY <2>1, TunnelEffect
  <2>7. Stale(k, after)
    BY <1>5, <2>3, <2>4, <2>5 DEF Stale, Owns, Current
  <2> QED
    BY <1>1, <1>2, <2>1, <2>6, <2>7 DEF after
<1> QED
  BY <1>4, <1>5

\* The establish of k failed.
Reaped(k) ==
  IF task[k].own = 0 THEN UNCHANGED tunnel ELSE Tunnelled(task[k].own, "dead")
Reported(s, k, state) ==
  IF slots[s].generation = task[k].generation THEN InState(s, state) ELSE UNCHANGED slots
Failed(k) ==
  /\ task' \in [Tasks -> Task] /\ OthersOf(k)
  /\ task'[k].own = 0 /\ task'[k].slot = task[k].slot
  /\ task'[k].generation = task[k].generation /\ task'[k].stable = task[k].stable

LEMMA EstablishFailsEffect ==
  ASSUME Types, NEW k \in Tasks, task[k].slot \in Slots, EstablishFails(k), RemoteAssumption,
         task[k].attempt <= MaxAttempts
  PROVE  /\ task[k].pc \in Establishing /\ Locks(task[k].slot, NoTask) /\ Reaped(k) /\ Failed(k)
         /\ \/ /\ k \in Callers /\ task'[k].pc = "failed" /\ task'[k].attempt = task[k].attempt
               /\ Reported(task[k].slot, k, "failed")
            \/ /\ k \notin Callers /\ UNCHANGED slots
               /\ task'[k].attempt = task[k].attempt + 1
               /\ task'[k].pc = IF Current(k) THEN "retrying" ELSE "gone"
         /\ UNCHANGED Rest
<1> DEFINE s == task[k].slot
<1>1. /\ task[k].pc \in Establishing /\ connectLock' = Unlocked(s) /\ UNCHANGED Rest
      /\ tunnel' = IF task[k].own = 0 THEN tunnel ELSE [tunnel EXCEPT ![task[k].own] = "dead"]
  BY DEF EstablishFails, Establishing, Rest
<1>2. Locks(s, NoTask)
  BY <1>1, LockEffect DEF Unlocked
<1>3. /\ task[k] \in Task /\ task[k].own \in Tunnels \cup {0} /\ 0 \notin Tunnels
      /\ task[k].attempt \in 0..MaxAttempts + 1
  BY DEF Types, Task, Tunnels, RemoteAssumption
<1>4. Reaped(k)
  BY <1>1, <1>3, TunnelEffect DEF Reaped
<1>5. CASE k \in Callers
  <2> DEFINE mine == [task[k] EXCEPT !.pc = "failed", !.own = 0]
  <2>1. /\ slots' = StateIfCurrent(s, task[k].generation, "failed")
        /\ task' = [task EXCEPT ![k] = mine]
    BY <1>5 DEF EstablishFails
  <2>2. mine \in Task /\ mine.pc = "failed" /\ mine.own = 0
    BY <1>3 DEF Task
  <2>3. /\ mine.slot = s /\ mine.generation = task[k].generation
        /\ mine.stable = task[k].stable /\ mine.attempt = task[k].attempt
    BY <1>3 DEF Task
  <2> HIDE DEF mine
  <2>4. Failed(k) /\ task'[k].pc = "failed" /\ task'[k].attempt = task[k].attempt
    BY <2>1, <2>2, <2>3, TaskEffect DEF Failed
  <2>5. Reported(s, k, "failed")
    BY <2>1, StateEffect DEF StateIfCurrent, Reported
  <2> QED
    BY <1>1, <1>2, <1>4, <1>5, <2>4, <2>5
<1>6. CASE k \notin Callers
  <2> DEFINE pc == IF Current(k) THEN "retrying" ELSE "gone"
             mine == [task[k] EXCEPT !.pc = pc, !.own = 0, !.attempt = @ + 1]
  <2>1. UNCHANGED slots /\ task' = [task EXCEPT ![k] = mine]
    BY <1>6 DEF EstablishFails
  <2>2. pc \in {"retrying", "gone"} /\ task[k].attempt + 1 \in 0..MaxAttempts + 1
    BY <1>3 DEF RemoteAssumption
  <2> HIDE DEF pc
  <2>3. mine.attempt = task[k].attempt + 1
    BY <1>3 DEF Task
  <2>4. mine \in Task /\ mine.pc = pc /\ mine.own = 0
    BY <1>3, <2>2 DEF Task
  <2>5. mine.slot = s /\ mine.generation = task[k].generation /\ mine.stable = task[k].stable
    BY <1>3 DEF Task
  <2> HIDE DEF mine
  <2>6. Failed(k) /\ task'[k].pc = pc /\ task'[k].attempt = task[k].attempt + 1
    BY <2>1, <2>3, <2>4, <2>5, TaskEffect DEF Failed
  <2> QED
    BY <1>1, <1>2, <1>4, <1>6, <2>1, <2>6 DEF pc
<1> QED
  BY <1>5, <1>6

LEMMA StabiliseEffect ==
  ASSUME Types, NEW t \in Tunnels, Stabilise(t)
  PROVE  /\ task[t].pc = "watching" /\ task' \in [Tasks -> Task] /\ OthersOf(t)
         /\ task'[t].pc = "watching" /\ task'[t].stable
         /\ task'[t].slot = task[t].slot /\ task'[t].generation = task[t].generation
         /\ task'[t].own = task[t].own /\ task'[t].attempt = task[t].attempt
<1> DEFINE r == [task[t] EXCEPT !.stable = TRUE]
<1>1. t \in Tasks /\ task[t] \in Task /\ task[t].pc = "watching" /\ task' = [task EXCEPT ![t] = r]
  BY DEF Stabilise, Types, Tasks
<1>2. /\ r \in Task /\ r.stable /\ r.pc = task[t].pc /\ r.slot = task[t].slot
      /\ r.generation = task[t].generation /\ r.own = task[t].own /\ r.attempt = task[t].attempt
  BY <1>1 DEF Task
<1> HIDE DEF r
<1> QED
  BY <1>1, <1>2, TaskEffect

LEMMA LostEffect ==
  ASSUME Types, NEW t \in Tunnels, task[t].slot \in Slots, Lost(t), RemoteAssumption,
         task[t].attempt <= MaxAttempts
  PROVE  /\ task[t].pc = "watching" /\ tunnel[t] = "dead"
         /\ task' \in [Tasks -> Task] /\ OthersOf(t)
         /\ task'[t].slot = task[t].slot /\ task'[t].generation = task[t].generation
         /\ task'[t].own = task[t].own /\ task'[t].stable = task[t].stable
         /\ \/ /\ ~Current(t) /\ task'[t].pc = "gone" /\ UNCHANGED slots
            \/ /\ Current(t) /\ task'[t].pc = "retrying"
               /\ ~task[t].stable => task'[t].attempt = task[t].attempt + 1
               /\ OtherSlots(task[t].slot)
               /\ slots'[task[t].slot].state = slots[task[t].slot].state
               /\ slots'[task[t].slot].forgotten = slots[task[t].slot].forgotten
               /\ slots'[task[t].slot].generation = slots[task[t].slot].generation
               /\ slots'[task[t].slot].port = slots[task[t].slot].port
               /\ slots[task[t].slot].pid # t => slots'[task[t].slot].pid = slots[task[t].slot].pid
<1> DEFINE s == task[t].slot
<1>1. /\ t \in Tasks /\ task[t] \in Task /\ task[t].attempt \in 0..MaxAttempts + 1
      /\ task[t].pc = "watching" /\ tunnel[t] = "dead"
  BY DEF Lost, Types, Task, Tasks
<1>2. CASE ~Current(t)
  BY <1>1, <1>2, GoesEffect DEF Lost, Reaches, Carries, SupervisorSteps
<1>3. CASE Current(t)
  <2> DEFINE n == IF task[t].stable THEN 1 ELSE task[t].attempt + 1
             r == [task[t] EXCEPT !.pc = "retrying", !.attempt = n]
             slot == [slots[s] EXCEPT !.pid = 0]
  <2>1. /\ slots' = IF slots[s].pid = t THEN [slots EXCEPT ![s] = slot] ELSE slots
        /\ task' = [task EXCEPT ![t] = r]
    BY <1>3 DEF Lost
  <2>2. n \in 0..MaxAttempts + 1 /\ (~task[t].stable => n = task[t].attempt + 1)
    BY <1>1 DEF RemoteAssumption
  <2> HIDE DEF n
  <2>3. r \in Task /\ r.pc = "retrying" /\ r.attempt = n
    BY <1>1, <2>2 DEF Task
  <2>4. /\ r.slot = task[t].slot /\ r.generation = task[t].generation
        /\ r.own = task[t].own /\ r.stable = task[t].stable
    BY <1>1 DEF Task
  <2> HIDE DEF r
  <2>5. task' \in [Tasks -> Task] /\ OthersOf(t) /\ task'[t] = r
    BY <1>1, <2>1, <2>3, TaskEffect
  <2>6. /\ slot \in Slot /\ slot.state = slots[s].state /\ slot.forgotten = slots[s].forgotten
        /\ slot.generation = slots[s].generation /\ slot.port = slots[s].port
    BY DEF Types, Slot
  <2> HIDE DEF slot
  <2>7. CASE slots[s].pid = t
    <3>1. OtherSlots(s) /\ slots'[s] = slot
      BY <2>1, <2>6, <2>7, SlotEffect
    <3> QED
      BY <1>1, <1>3, <2>2, <2>3, <2>4, <2>5, <2>6, <2>7, <3>1
  <2>8. CASE slots[s].pid # t
    <3>1. UNCHANGED slots /\ OtherSlots(s)
      BY <2>1, <2>8 DEF OtherSlots, Types
    <3> QED
      BY <1>1, <1>3, <2>2, <2>3, <2>4, <2>5, <2>8, <3>1
  <2> QED
    BY <2>7, <2>8
<1> QED
  BY <1>2, <1>3

LEMMA RetryEffect ==
  ASSUME Types, NEW t \in Tunnels, task[t].slot \in Slots, Retry(t)
  PROVE  /\ task[t].pc = "retrying"
         /\ \/ Reaches(t, "gone") /\ Reported(task[t].slot, t, "disconnected")
            \/ /\ Reaches(t, IF Current(t) THEN "backoff" ELSE "gone")
               /\ Reported(task[t].slot, t, "reconnecting") /\ ~(task[t].attempt > MaxAttempts)
<1>1. t \in Tasks /\ task[t].pc = "retrying"
  BY DEF Retry, Tasks
<1>2. CASE task[t].attempt > MaxAttempts
  <2>1. /\ slots' = StateIfCurrent(task[t].slot, task[t].generation, "disconnected")
        /\ task' = Goes(t, "gone")
    BY <1>2 DEF Retry, Exhausted
  <2>2. Reaches(t, "gone")
    BY <1>1, <2>1, GoesEffect DEF SupervisorSteps
  <2> QED
    BY <1>1, <2>1, <2>2, StateEffect DEF StateIfCurrent, Reported
<1>3. CASE ~(task[t].attempt > MaxAttempts)
  <2> DEFINE pc == IF Current(t) THEN "backoff" ELSE "gone"
  <2>1. /\ slots' = StateIfCurrent(task[t].slot, task[t].generation, "reconnecting")
        /\ task' = Goes(t, pc)
    BY <1>3 DEF Retry
  <2>2. pc \in SupervisorSteps
    BY DEF SupervisorSteps
  <2> HIDE DEF pc
  <2>3. Reaches(t, pc)
    BY <1>1, <2>1, <2>2, GoesEffect
  <2>4. Reported(task[t].slot, t, "reconnecting")
    BY <2>1, StateEffect DEF StateIfCurrent, Reported
  <2> QED
    BY <1>1, <1>3, <2>3, <2>4 DEF pc
<1> QED
  BY <1>2, <1>3

LEMMA ResumeEffect ==
  ASSUME Types, NEW t \in Tunnels, task[t].slot \in Slots, Resume(t)
  PROVE  /\ task[t].pc = "backoff" /\ connectLock[task[t].slot] = NoTask
         /\ \/ Current(t) /\ Reaches(t, "establishing") /\ Locks(task[t].slot, t)
            \/ ~Current(t) /\ Reaches(t, "gone") /\ UNCHANGED connectLock
<1>1. t \in Tasks /\ task[t].pc = "backoff" /\ connectLock[task[t].slot] = NoTask
  BY DEF Resume, Free, Tasks
<1>2. CASE Current(t)
  BY <1>1, <1>2, GoesEffect, LockEffect DEF Resume, Locked, SupervisorSteps
<1>3. CASE ~Current(t)
  BY <1>1, <1>3, GoesEffect DEF Resume, SupervisorSteps
<1> QED
  BY <1>2, <1>3

\* A disconnect, or a daemon that stopped.
LEMMA ClosedEffect ==
  ASSUME Types, NEW expected, Closed(expected), registered \in 0..MaxSlots, RemoteAssumption
  PROVE  /\ registered \in Slots /\ Superseded(registered) /\ Kills(registered)
         /\ closing' = closing \cup {<<registered, slots[registered].generation + 1>>}
<1>1. registered \in Slots /\ slots' = Bumped(registered) /\ tunnel' = Killed(registered)
  BY DEF Closed, Slots, RemoteAssumption
<1> QED
  BY <1>1, BumpedEffect, KilledEffect DEF Closed

LEMMA PublishEffect ==
  ASSUME Types, NEW d \in closing, d[1] \in Slots, PublishDisconnected(d)
  PROVE  IF slots[d[1]].generation = d[2] THEN InState(d[1], "disconnected") ELSE UNCHANGED slots
BY StateEffect DEF PublishDisconnected, StateIfCurrent

LEMMA ForgetEffect ==
  ASSUME Types, Forget, registered \in 0..MaxSlots, RemoteAssumption
  PROVE  /\ registered \in Slots /\ OtherSlots(registered)
         /\ slots[registered].state \in {"disconnected", "failed"}
         /\ slots'[registered].state = slots[registered].state
         /\ slots'[registered].forgotten
         /\ slots'[registered].generation = slots[registered].generation + 1
<1> DEFINE s == registered
           r == [slots[s] EXCEPT !.forgotten = TRUE, !.generation = @ + 1]
<1>1. s \in Slots /\ slots[s].state \in {"disconnected", "failed"}
  BY DEF Forget, Inactive, Slots, RemoteAssumption
<1>a. slots' = [slots EXCEPT ![s] = r]
  BY DEF Forget
<1>2. slots[s] \in Slot /\ slots[s].generation + 1 \in Generations
  BY <1>1 DEF Types, Slot, Generations
<1>3. r.generation = slots[s].generation + 1
  BY <1>2 DEF Slot
<1>4. r \in Slot /\ r.forgotten /\ r.state = slots[s].state
  BY <1>2 DEF Slot
<1> HIDE DEF r
<1> QED
  BY <1>1, <1>a, <1>3, <1>4, SlotEffect

-----------------------------------------------------------------------------
(***************************************************************************)
(* What a step does not touch stays as it should be.                       *)
(***************************************************************************)

LEMMA TypesHold ==
  ASSUME TypeOK
  PROVE  Types
BY DEF TypeOK, Types

\* Where a task is, by what it is doing.
LEMMA TaskPlace ==
  ASSUME Types, NEW k \in Tasks, TaskOK(k), task[k].pc # "idle"
  PROVE  /\ task[k].slot \in Slots /\ task[k].slot \in 1..made
         /\ task[k].generation \in Nat /\ slots[task[k].slot].generation \in Nat
         /\ task[k].generation <= slots[task[k].slot].generation
<1>1. /\ task[k].slot \in Slots \cup {0} /\ task[k].generation \in Nat
      /\ task[k].slot \in 1..made /\ task[k].generation <= slots[task[k].slot].generation
  BY DEF Types, Task, Generations, TaskOK
<1>2. task[k].slot \in Slots
  BY <1>1
<1>3. slots[task[k].slot].generation \in Nat
  BY <1>2 DEF Types, Slot, Generations
<1> QED
  BY <1>1, <1>2, <1>3

\* The generation of a slot stays or grows.
SameGeneration(s) == slots'[s].generation = slots[s].generation
Grown(s) == slots'[s].generation \in Nat /\ slots'[s].generation > slots[s].generation

LEMMA TaskKept ==
  ASSUME Types, NEW k \in Tasks, TaskOK(k), task'[k] = task[k],
         made \in Nat, made' \in Nat, made' >= made,
         task[k].pc # "idle" => SameGeneration(task[k].slot) \/ Grown(task[k].slot)
  PROVE  TaskOK(k)'
<1>1. CASE task[k].pc = "idle"
  BY <1>1 DEF TaskOK
<1>2. CASE task[k].pc # "idle"
  <2>1. task'[k].slot \in 1..made' /\ task'[k].generation <= slots'[task'[k].slot].generation
    BY <1>2, TaskPlace DEF SameGeneration, Grown
  <2> QED
    BY <1>2, <2>1 DEF TaskOK
<1> QED
  BY <1>1, <1>2

LEMMA SpendsKept ==
  ASSUME Types, NEW t \in Tunnels, TaskOK(t), Spends(t), task'[t] = task[t],
         task[t].pc # "idle" =>
           \/ SameGeneration(task[t].slot) /\ unstable'[task[t].slot] = unstable[task[t].slot]
           \/ Grown(task[t].slot)
  PROVE  Spends(t)'
<1>1. CASE task[t].pc \notin Owning
  BY <1>1 DEF Spends
<1>2. CASE task[t].pc \in Owning /\ SameGeneration(task[t].slot) /\ unstable'[task[t].slot] = unstable[task[t].slot]
  BY <1>2 DEF Spends, SameGeneration, Current
<1>3. CASE task[t].pc \in Owning /\ Grown(task[t].slot)
  <2>1. slots'[task[t].slot].generation # task[t].generation
    BY <1>3, TaskPlace DEF Grown, Owning, Tasks
  <2> QED
    BY <2>1 DEF Spends, Current
<1> QED
  BY <1>1, <1>2, <1>3 DEF Owning

LEMMA InformedKept ==
  ASSUME Types, NEW k \in Tasks, TaskOK(k), Informed(k), task'[k] = task[k], late \subseteq late',
         task[k].pc # "idle" =>
           \/ SameGeneration(task[k].slot) /\ slots'[task[k].slot].forgotten = slots[task[k].slot].forgotten
           \/ Grown(task[k].slot)
  PROVE  Informed(k)'
<1>1. CASE task[k].pc \notin Owning
  BY <1>1 DEF Informed
<1>2. CASE task[k].pc \in Owning /\ SameGeneration(task[k].slot) /\ slots'[task[k].slot].forgotten = slots[task[k].slot].forgotten
  BY <1>2 DEF Informed, SameGeneration, Current
<1>3. CASE task[k].pc \in Owning /\ Grown(task[k].slot)
  <2>1. slots'[task[k].slot].generation # task[k].generation
    BY <1>3, TaskPlace DEF Grown, Owning
  <2> QED
    BY <2>1 DEF Informed, Current
<1> QED
  BY <1>1, <1>2, <1>3 DEF Owning

LEMMA UndisturbedKept ==
  ASSUME Types, NEW t \in Tunnels, NEW k \in Tasks, TaskOK(k), Undisturbed(t, k),
         task'[k] = task[k], tunnel'[t] = "up" => tunnel[t] = "up" /\ task'[t].slot = task[t].slot,
         task[k].pc # "idle" => SameGeneration(task[k].slot) \/ Grown(task[k].slot)
  PROVE  Undisturbed(t, k)'
<1>1. task[k].pc \in Establishing /\ ~Current(k) => ~Current(k)'
  BY TaskPlace DEF Establishing, SameGeneration, Grown, Current
<1> QED
  BY <1>1 DEF Undisturbed, Establishing, Current

LEMMA ServingKept ==
  ASSUME NEW t \in Tunnels, Serving(t), task'[t] = task[t], tunnel'[t] = "up" => tunnel[t] = "up",
         tunnel[t] = "up" => /\ slots'[task[t].slot] = slots[task[t].slot]
                             /\ <<task[t].slot, task[t].generation>> \notin closing' \ closing
  PROVE  Serving(t)'
BY DEF Serving, Current

LEMMA ClaimKept ==
  ASSUME NEW k \in Tasks, NEW s, Claims(k, s), task'[k] = task[k], SameGeneration(s)
  PROVE  Claims(k, s)'
BY DEF Claims, Attending, Current, SameGeneration

\* A slot that keeps its generation stays attended while the tasks that attend it do.
LEMMA AttendedKept ==
  ASSUME NEW s \in Slots, AttendedAt(s), SameGeneration(s),
         slots'[s].state \in Active => slots[s].state \in Active,
         \A k \in Tasks : Claims(k, s) => task'[k] = task[k] \/ \E j \in Tasks : Claims(j, s)',
         <<s, slots[s].generation>> \in closing => <<s, slots[s].generation>> \in closing'
  PROVE  AttendedAt(s)'
<1>1. ASSUME NEW k \in Tasks, Claims(k, s)
      PROVE  \E j \in Tasks : Claims(j, s)'
  BY <1>1, ClaimKept
<1> QED
  BY <1>1 DEF AttendedAt, SameGeneration

LEMMA WatchersKept ==
  ASSUME Watchers,
         \A t \in Tunnels : tunnel'[t] \in {"none", "starting"} => task'[t].pc = "idle",
         \A t \in Tunnels : task'[t].pc \in Owning =>
           /\ task[t].pc \in Owning
           /\ task'[t].slot = task[t].slot /\ task'[t].generation = task[t].generation
  PROVE  Watchers'
BY DEF Watchers

LEMMA StartedKept ==
  ASSUME NEW t \in Tunnels, Started(t), tunnel'[t] = "starting" => tunnel[t] = "starting",
         \A k \in Tasks : task[k].own = t /\ connectLock[task[k].slot] = k =>
           task'[k].own = t /\ connectLock'[task'[k].slot] = k
  PROVE  Started(t)'
BY DEF Started

\* The parts of the invariant a step starts from.
Facts ==
  /\ Types /\ Held /\ Watchers /\ ClosingOK
  /\ made \in 0..MaxSlots /\ made \in Nat /\ registered \in 0..made /\ registered \in 0..MaxSlots
  /\ \A k \in Tasks : TaskOK(k) /\ Informed(k)
  /\ \A t \in Tunnels : Started(t) /\ Serving(t) /\ Spends(t) /\ t \in Tasks
  /\ \A t \in Tunnels, k \in Tasks : Undisturbed(t, k)
  /\ \A s \in Slots : AttendedAt(s) /\ slots[s].generation \in Nat
  /\ \A c \in Callers : c \in Tasks /\ c \notin Tunnels
  /\ NoTask \notin Tasks /\ Stopper \notin Tasks /\ Stopper # NoTask
  /\ Removed /\ forgetting \in 0..made /\ MaxSlots \in Nat

LEMMA FactsHold ==
  ASSUME IInv, RemoteAssumption
  PROVE  Facts
<1>1. TypeOK /\ Types /\ Held /\ Watchers /\ ClosingOK
  BY TypesHold DEF IInv
<1>2. made \in 0..MaxSlots /\ made \in Nat /\ registered \in 0..made /\ registered \in 0..MaxSlots
  BY <1>1 DEF TypeOK, RemoteAssumption
<1>a. Removed /\ forgetting \in 0..made /\ MaxSlots \in Nat
  BY DEF IInv, TypeOK, RemoteAssumption
<1>3. /\ \A k \in Tasks : TaskOK(k) /\ Informed(k)
      /\ \A t \in Tunnels : Started(t) /\ Serving(t) /\ Spends(t)
      /\ \A t \in Tunnels, k \in Tasks : Undisturbed(t, k)
      /\ \A s \in Slots : AttendedAt(s)
  BY DEF IInv, TasksOK, AllInformed, TunnelsOK, Budget, Attends
<1>4. \A s \in Slots : slots[s].generation \in Nat
  BY <1>1 DEF Types, Slot, Generations
<1>5. /\ \A c \in Callers : c \in Tasks /\ c \notin Tunnels
      /\ \A t \in Tunnels : t \in Tasks
      /\ NoTask \notin Tasks /\ Stopper \notin Tasks /\ Stopper # NoTask
  BY DEF Tasks, Tunnels, NoTask, Stopper, RemoteAssumption
<1> QED
  BY <1>1, <1>2, <1>3, <1>4, <1>5, <1>a DEF Facts

LEMMA RemovedKept ==
  ASSUME Facts, UNCHANGED <<forgetting, made, registered>>,
         \A r \in Slots : slots[r].forgotten => slots'[r].forgotten
  PROVE  Removed'
<1>1. ASSUME NEW r \in 1..made
      PROVE  r \in Slots
  BY DEF Facts, Slots
<1>2. forgetting # 0 => forgetting \in Slots
  BY DEF Facts, Slots
<1> QED
  BY <1>1, <1>2 DEF Removed, Facts

(***************************************************************************)
(* Most steps are of one task, k, or of none, and concern one slot, s, or  *)
(* none.                                                                   *)
(***************************************************************************)
Frame(k, s) ==
  /\ \A j \in Tasks : j # k => task'[j] = task[j]
  /\ \A r \in Slots : r # s => slots'[r] = slots[r] /\ unstable'[r] = unstable[r]
  /\ s \in Slots =>
       \/ /\ SameGeneration(s) /\ slots'[s].forgotten = slots[s].forgotten
          /\ unstable'[s] = unstable[s]
       \/ Grown(s)
  /\ made' \in Nat /\ made' >= made
  /\ late \subseteq late'

LEMMA OtherTasks ==
  ASSUME Facts, NEW k, NEW s, Frame(k, s)
  PROVE  /\ \A j \in Tasks : j # k => TaskOK(j)' /\ Informed(j)'
         /\ \A t \in Tunnels : t # k => Spends(t)'
<1>1. ASSUME NEW j \in Tasks, j # k, task[j].pc # "idle"
      PROVE  /\ task[j].slot \in Slots
             /\ \/ /\ SameGeneration(task[j].slot)
                   /\ slots'[task[j].slot].forgotten = slots[task[j].slot].forgotten
                   /\ unstable'[task[j].slot] = unstable[task[j].slot]
                \/ Grown(task[j].slot)
  <2>1. task[j].slot \in Slots
    BY <1>1, TaskPlace DEF Facts
  <2> QED
    BY <2>1 DEF Frame, SameGeneration
<1>2. ASSUME NEW j \in Tasks, j # k
      PROVE  TaskOK(j)' /\ Informed(j)'
  <2>1. Types /\ TaskOK(j) /\ Informed(j) /\ task'[j] = task[j]
    BY <1>2 DEF Facts, Frame
  <2>2. made \in Nat /\ made' \in Nat /\ made' >= made /\ late \subseteq late'
    BY DEF Facts, Frame
  <2>3. TaskOK(j)'
    BY <1>1, <1>2, <2>1, <2>2, TaskKept
  <2>4. Informed(j)'
    BY <1>1, <1>2, <2>1, <2>2, InformedKept
  <2> QED
    BY <2>3, <2>4
<1>3. ASSUME NEW t \in Tunnels, t # k
      PROVE  Spends(t)'
  <2>1. t \in Tasks /\ Types /\ TaskOK(t) /\ Spends(t) /\ task'[t] = task[t]
    BY <1>3 DEF Facts, Frame
  <2> QED
    BY <1>1, <1>3, <2>1, SpendsKept
<1> QED
  BY <1>2, <1>3

LEMMA OthersUndisturbed ==
  ASSUME Facts, NEW k, NEW s, Frame(k, s), NEW t \in Tunnels, NEW j \in Tasks, j # k,
         tunnel'[t] = "up" => tunnel[t] = "up" /\ task'[t].slot = task[t].slot
  PROVE  Undisturbed(t, j)'
<1>1. Types /\ TaskOK(j) /\ Undisturbed(t, j) /\ task'[j] = task[j]
  BY DEF Facts, Frame
<1>2. ASSUME task[j].pc # "idle"
      PROVE  SameGeneration(task[j].slot) \/ Grown(task[j].slot)
  <2>1. task[j].slot \in Slots
    BY <1>1, <1>2, TaskPlace
  <2> QED
    BY <2>1 DEF Frame, SameGeneration
<1> QED
  BY <1>1, <1>2, UndisturbedKept

LEMMA OthersServe ==
  ASSUME Facts, NEW k, NEW s, Frame(k, s), NEW t \in Tunnels, t # k,
         tunnel'[t] = "up" => tunnel[t] = "up",
         tunnel'[t] = "up" /\ task[t].slot = s => slots'[s] = slots[s],
         \A d \in closing' : d \in closing \/ d[1] # task[t].slot
  PROVE  Serving(t)'
<1> SUFFICES ASSUME tunnel'[t] = "up" PROVE Serving(t)'
  BY DEF Serving
<1>1. t \in Tasks /\ Types /\ TaskOK(t) /\ Serving(t) /\ task'[t] = task[t] /\ tunnel[t] = "up"
  BY DEF Facts, Frame
<1>2. task[t].slot \in Slots
  BY <1>1, TaskPlace DEF Serving
<1>3. slots'[task[t].slot] = slots[task[t].slot]
  BY <1>2 DEF Frame
<1>4. <<task[t].slot, task[t].generation>> \notin closing' \ closing
  OBVIOUS
<1> QED
  BY <1>1, <1>3, <1>4, ServingKept

LEMMA OthersAttend ==
  ASSUME Facts, NEW k, NEW s, Frame(k, s), NEW r \in Slots, r # s,
         k \in Tasks => ~Claims(k, r) \/ Claims(k, r)',
         \A d \in closing : d[1] = r => d \in closing'
  PROVE  AttendedAt(r)'
<1>1. AttendedAt(r) /\ slots'[r] = slots[r] /\ SameGeneration(r)
  BY DEF Facts, Frame, SameGeneration
<1>2. ASSUME NEW j \in Tasks, Claims(j, r)
      PROVE  task'[j] = task[j] \/ \E i \in Tasks : Claims(i, r)'
  BY <1>2 DEF Frame
<1>3. <<r, slots[r].generation>> \in closing => <<r, slots[r].generation>> \in closing'
  OBVIOUS
<1> QED
  BY <1>1, <1>2, <1>3, AttendedKept

-----------------------------------------------------------------------------
(***************************************************************************)
(* Every step keeps the invariant.                                         *)
(***************************************************************************)

LEMMA AnnounceKeeps ==
  ASSUME RemoteAssumption, IInv, NEW c \in Callers, Announce(c)
  PROVE  IInv'
<1>0. Facts /\ c \in Tasks /\ c \notin Tunnels
  BY FactsHold DEF Facts
<1>1. PICK s \in Slots : s = task[c].slot /\ task[c].pc = "admitted" /\ connectLock[s] = c
  <2>1. task[c].pc = "admitted"
    BY DEF Announce
  <2> QED
    BY <1>0, <2>1, TaskPlace DEF Held, Working, Facts
<1>2. /\ Reaches(c, "announced") /\ InState(s, "connecting")
      /\ UNCHANGED Rest /\ UNCHANGED <<connectLock, tunnel>>
  BY <1>0, <1>1, AnnounceEffect DEF Facts
<1>3. task'[c].pc = "announced" /\ task'[c].slot = s /\ Frame(c, s)
  BY <1>0, <1>1, <1>2 DEF Reaches, OthersOf, Carries, InState, OtherSlots, SameGeneration, Frame, Rest, Facts
<1>4. TypeOK'
  BY <1>2 DEF IInv, TypeOK, Rest, Reaches, InState, OtherSlots
<1>5. TasksOK' /\ AllInformed' /\ Budget'
  <2>1. TaskOK(c)'
    BY <1>0, <1>1, <1>2, TaskPlace DEF TaskOK, Reaches, Carries, InState, CallerSteps, Rest, Facts
  <2>2. Informed(c)'
    BY <1>3 DEF Informed, Owning
  <2> QED
    BY <1>0, <1>3, <2>1, <2>2, OtherTasks DEF TasksOK, AllInformed, Budget
<1>6. Held'
  BY <1>0, <1>1, <1>2, <1>3 DEF Held, Working, Rest, Facts, Frame
<1>7. Watchers'
  BY <1>0, <1>2, <1>3, WatchersKept DEF Watchers, Facts, Frame
<1>8. ClosingOK'
  BY <1>0, <1>2 DEF ClosingOK, Rest, InState, OtherSlots, Facts
<1>9. TunnelsOK'
  <2>1. ASSUME NEW t \in Tunnels
        PROVE  Started(t)'
    BY <1>0, <1>2, <1>3, StartedKept DEF Reaches, Carries, OthersOf, Facts
  <2>2. ASSUME NEW t \in Tunnels, tunnel[t] = "up"
        PROVE  task[t].slot # s
    BY <1>0, <1>1, <2>2 DEF Undisturbed, Facts
  <2>3. ASSUME NEW t \in Tunnels
        PROVE  Serving(t)'
    BY <1>0, <1>2, <1>3, <2>2, OthersServe DEF Rest
  <2>4. ASSUME NEW t \in Tunnels, NEW k \in Tasks
        PROVE  Undisturbed(t, k)'
    <3>1. task'[t] = task[t]
      BY <1>0, <1>3 DEF Frame, Facts
    <3>2. CASE k = c
      BY <1>2, <1>3, <2>2, <3>1, <3>2 DEF Undisturbed
    <3>3. CASE k # c
      BY <1>0, <1>2, <1>3, <3>1, <3>3, OthersUndisturbed
    <3> QED
      BY <3>2, <3>3
  <2> QED
    BY <2>1, <2>3, <2>4 DEF TunnelsOK
<1>10. Removed' /\ BudgetHolds'
  <2>1. Removed'
    BY <1>0, <1>2, RemovedKept DEF Rest, InState, OtherSlots
  <2> QED
    BY <1>2, <2>1 DEF IInv, BudgetHolds, Rest
<1>11. Attends'
  <2>1. AttendedAt(s)'
    BY <1>0, <1>3 DEF AttendedAt, Claims
  <2>2. ASSUME NEW r \in Slots, r # s
        PROVE  AttendedAt(r)'
    BY <1>0, <1>1, <1>2, <1>3, <2>2, OthersAttend DEF Claims, Rest
  <2> QED
    BY <2>1, <2>2 DEF Attends
<1> QED
  BY <1>4, <1>5, <1>6, <1>7, <1>8, <1>9, <1>10, <1>11 DEF IInv

LEMMA RequestKeeps ==
  ASSUME RemoteAssumption, IInv, NEW c \in Callers, NEW path \in Paths \cup {"none"}, Request(c, path)
  PROVE  IInv'
<1>0. Facts /\ c \in Tasks /\ c \notin Tunnels
  BY FactsHold DEF Facts
<1>1. /\ registered' \in Slots /\ made' \in 0..MaxSlots /\ registered' \in 0..made' /\ SlotUsed = registered'
      /\ \/ registered = 0 /\ made' = made + 1 /\ registered' = made + 1
         \/ registered # 0 /\ made' = made /\ registered' = registered
  BY <1>0, SlotMadeEffect DEF Request, Facts
<1>2. /\ task[c].pc = "idle" /\ task' \in [Tasks -> Task] /\ OthersOf(c)
      /\ task'[c].pc = "waiting" /\ task'[c].slot = registered'
      /\ task'[c].generation = 0 /\ task'[c].own = 0 /\ task'[c].attempt = 0
  BY <1>0, <1>1, RequestEffect DEF Facts, TasksOK
<1>3. UNCHANGED <<slots, connectLock, tunnel, closing, closes, forgetting, stopping, unstable, late>>
  BY DEF Request
<1>4. Frame(c, 0) /\ made' >= made /\ made' \in Nat /\ 0 \notin Slots
  BY <1>0, <1>1, <1>2, <1>3 DEF Frame, OthersOf, Facts, Slots
<1>5. TypeOK'
  <2>1. forgetting' \in 0..made' /\ stopping'.slot \in 0..made'
    BY <1>0, <1>3, <1>4 DEF Facts, IInv, TypeOK
  <2>2. stopping' \in [pc : {"idle", "waiting", "asking"}, slot : 0..made',
                       expected : Generations \cup {NoGeneration}]
    BY <1>3, <2>1 DEF IInv, TypeOK
  <2> QED
    BY <1>1, <1>2, <1>3, <2>1, <2>2 DEF IInv, TypeOK
<1>6. TasksOK' /\ AllInformed' /\ Budget'
  <2>1. registered' \in 1..made' /\ 0 <= slots'[registered'].generation
    BY <1>0, <1>1, <1>3 DEF Facts, Slots
  <2>2. TaskOK(c)'
    BY <1>2, <2>1 DEF TaskOK, CallerSteps
  <2>3. Informed(c)'
    BY <1>2 DEF Informed, Owning
  <2> QED
    BY <1>0, <1>4, <2>2, <2>3, OtherTasks DEF TasksOK, AllInformed, Budget
<1>7. Held'
  BY <1>0, <1>2, <1>3 DEF Held, Working, Facts, OthersOf
<1>8. Watchers'
  BY <1>0, <1>2, <1>3, WatchersKept DEF Watchers, Facts, OthersOf
<1>9. ClosingOK'
  BY <1>0, <1>3 DEF ClosingOK, Facts
<1>10. TunnelsOK'
  <2>1. task[c].own = 0
    BY <1>0, <1>2 DEF Facts, TaskOK
  <2>2. ASSUME NEW t \in Tunnels
        PROVE  Started(t)'
    <3>1. t # 0
      BY DEF Tunnels
    <3> QED
      BY <1>0, <1>2, <1>3, <2>1, <3>1, StartedKept DEF OthersOf, Facts
  <2>3. ASSUME NEW t \in Tunnels
        PROVE  Serving(t)'
    BY <1>0, <1>3, <1>4, OthersServe
  <2>4. ASSUME NEW t \in Tunnels, NEW k \in Tasks
        PROVE  Undisturbed(t, k)'
    <3>1. task'[t] = task[t]
      BY <1>0, <1>4 DEF Frame, Facts
    <3>2. CASE k = c
      BY <1>2, <3>2 DEF Undisturbed, Establishing
    <3>3. CASE k # c
      BY <1>0, <1>3, <1>4, <3>1, <3>3, OthersUndisturbed
    <3> QED
      BY <3>2, <3>3
  <2> QED
    BY <2>2, <2>3, <2>4 DEF TunnelsOK
<1>11. Removed' /\ BudgetHolds'
  <2>1. \A r \in 1..made' : r # registered' => r \in 1..made /\ r # registered
    BY <1>0, <1>1 DEF Facts
  <2> QED
    BY <1>0, <1>3, <2>1 DEF Facts, Removed, IInv, BudgetHolds
<1>12. Attends'
  BY <1>0, <1>2, <1>3, <1>4, OthersAttend DEF Claims, Attending, Attends
<1> QED
  BY <1>5, <1>6, <1>7, <1>8, <1>9, <1>10, <1>11, <1>12 DEF IInv

LEMMA OwnKeeps ==
  ASSUME RemoteAssumption, IInv, NEW c \in Callers, Own(c)
  PROVE  IInv'
<1>0. Facts /\ c \in Tasks /\ c \notin Tunnels
  BY FactsHold DEF Facts
<1>1. PICK s \in Slots : s = task[c].slot /\ task[c].pc = "announced" /\ connectLock[s] = c
  <2>1. task[c].pc = "announced"
    BY DEF Own
  <2> QED
    BY <1>0, <2>1, TaskPlace DEF Held, Working, Facts
<1>2. /\ task' \in [Tasks -> Task] /\ OthersOf(c)
      /\ task'[c].pc = "establishing" /\ task'[c].slot = s
      /\ task'[c].generation = slots[s].generation
      /\ task'[c].own = task[c].own /\ task'[c].attempt = task[c].attempt
      /\ late' = IF slots[s].forgotten THEN late \cup {s} ELSE late
      /\ UNCHANGED <<slots, made, registered, connectLock, tunnel, closing, closes, forgetting,
                     stopping, unstable>>
  BY <1>0, <1>1, OwnEffect DEF Facts
<1>3. Frame(c, 0) /\ 0 \notin Slots
  BY <1>0, <1>2 DEF Frame, OthersOf, Facts, Slots
<1>4. TypeOK'
  BY <1>1, <1>2 DEF IInv, TypeOK
<1>5. TasksOK' /\ AllInformed' /\ Budget'
  <2>1. task[c].attempt <= MaxAttempts /\ task[c].own = 0 /\ s \in 1..made
    <3>1. s \in 1..made /\ task[c].own = 0
      BY <1>0, <1>1 DEF Facts, TaskOK
    <3>2. task[c].attempt = 0
      BY <1>0, <1>1 DEF Facts, TaskOK
    <3> QED
      BY <3>1, <3>2 DEF RemoteAssumption
  <2>2. TaskOK(c)'
    BY <1>0, <1>2, <2>1 DEF TaskOK, CallerSteps, Facts
  <2>3. Informed(c)'
    BY <1>2 DEF Informed, Owning
  <2> QED
    BY <1>0, <1>3, <2>2, <2>3, OtherTasks DEF TasksOK, AllInformed, Budget
<1>6. Held'
  BY <1>0, <1>1, <1>2 DEF Held, Working, Facts, OthersOf
<1>7. Watchers'
  BY <1>0, <1>2, WatchersKept DEF Watchers, Facts, OthersOf
<1>8. ClosingOK'
  BY <1>0, <1>2 DEF ClosingOK, Facts
<1>9. TunnelsOK'
  <2>1. ASSUME NEW t \in Tunnels
        PROVE  Started(t)'
    BY <1>0, <1>1, <1>2, StartedKept DEF OthersOf, Facts
  <2>2. ASSUME NEW t \in Tunnels
        PROVE  Serving(t)'
    BY <1>0, <1>2, <1>3, OthersServe
  <2>3. ASSUME NEW t \in Tunnels, NEW k \in Tasks
        PROVE  Undisturbed(t, k)'
    <3>1. task'[t] = task[t]
      BY <1>0, <1>3 DEF Frame, Facts
    <3>2. CASE k = c
      BY <1>0, <1>1, <1>2, <3>1, <3>2 DEF Undisturbed, Facts
    <3>3. CASE k # c
      BY <1>0, <1>2, <1>3, <3>1, <3>3, OthersUndisturbed
    <3> QED
      BY <3>2, <3>3
  <2> QED
    BY <2>1, <2>2, <2>3 DEF TunnelsOK
<1>10. Removed' /\ BudgetHolds'
  BY <1>0, <1>2, RemovedKept DEF IInv, BudgetHolds
<1>11. Attends'
  <2>1. \A r \in Slots : Claims(c, r) => Claims(c, r)'
    BY <1>1, <1>2 DEF Claims, Attending, Finished, Current
  <2> QED
    BY <1>0, <1>2, <1>3, <2>1, OthersAttend DEF Attends
<1> QED
  BY <1>4, <1>5, <1>6, <1>7, <1>8, <1>9, <1>10, <1>11 DEF IInv

LEMMA SpawnKeeps ==
  ASSUME RemoteAssumption, IInv, NEW k \in Tasks, Spawn(k)
  PROVE  IInv'
<1>0. Facts
  BY FactsHold
<1>1. PICK t \in Tunnels :
        /\ task[k].pc = "establishing" /\ tunnel[t] = "none" /\ Tunnelled(t, "starting")
        /\ task' \in [Tasks -> Task] /\ OthersOf(k)
        /\ task'[k].pc = "starting" /\ task'[k].own = t
        /\ task'[k].slot = task[k].slot /\ task'[k].generation = task[k].generation
        /\ task'[k].attempt = task[k].attempt /\ task'[k].stable = task[k].stable
        /\ UNCHANGED Rest /\ UNCHANGED <<slots, connectLock>>
  BY <1>0, SpawnEffect DEF Facts
<1>2. PICK s \in Slots : s = task[k].slot /\ connectLock[s] = k
  BY <1>0, <1>1, TaskPlace DEF Held, Working, Facts
<1>3. Frame(k, 0) /\ 0 \notin Slots
  BY <1>0, <1>1 DEF Frame, OthersOf, Facts, Slots, Rest
<1>4. TypeOK'
  BY <1>1 DEF IInv, TypeOK, Tunnelled, Rest
<1>5. TasksOK' /\ AllInformed' /\ Budget'
  <2>1. TaskOK(k)'
    BY <1>0, <1>1 DEF TaskOK, CallerSteps, SupervisorSteps, Facts, Rest
  <2>2. Informed(k)'
    BY <1>0, <1>1 DEF Informed, Owning, Facts, Rest, Current
  <2>3. k \in Tunnels => Spends(k)'
    BY <1>0, <1>1 DEF Spends, Owning, Spending, Facts, Rest, Current
  <2> QED
    BY <1>0, <1>3, <2>1, <2>2, <2>3, OtherTasks DEF TasksOK, AllInformed, Budget
<1>6. Held'
  BY <1>0, <1>1, <1>2 DEF Held, Working, Facts, OthersOf, Rest
<1>7. Watchers'
  <2>1. k # t
    BY <1>0, <1>1 DEF Watchers, Facts
  <2>2. ASSUME NEW u \in Tunnels, tunnel'[u] \in {"none", "starting"}
        PROVE  task'[u].pc = "idle"
    <3>1. tunnel[u] \in {"none", "starting"}
      BY <1>1, <2>2 DEF Tunnelled
    <3>2. u # k /\ u \in Tasks /\ task[u].pc = "idle"
      BY <1>0, <1>1, <3>1 DEF Watchers, Facts
    <3> QED
      BY <1>1, <3>2 DEF OthersOf
  <2>3. ASSUME NEW u \in Tunnels, task'[u].pc \in Owning
        PROVE  /\ task[u].pc \in Owning
               /\ task'[u].slot = task[u].slot /\ task'[u].generation = task[u].generation
    BY <1>0, <1>1, <2>3 DEF OthersOf, Owning, Facts
  <2> QED
    BY <1>0, <2>2, <2>3, WatchersKept DEF Facts
<1>8. ClosingOK'
  BY <1>0, <1>1 DEF ClosingOK, Facts, Rest
<1>9. TunnelsOK'
  <2>1. ASSUME NEW u \in Tunnels
        PROVE  Started(u)'
    <3>1. CASE u = t
      BY <1>1, <1>2, <3>1 DEF Started
    <3>2. CASE u # t
      <4>1. task[k].own = 0 /\ u # 0
        BY <1>0, <1>1 DEF Facts, TaskOK, Tunnels
      <4> QED
        BY <1>0, <1>1, <3>2, <4>1, StartedKept DEF OthersOf, Facts, Tunnelled
    <3> QED
      BY <3>1, <3>2
  <2>2. ASSUME NEW u \in Tunnels
        PROVE  tunnel'[u] = "up" => tunnel[u] = "up" /\ task'[u].slot = task[u].slot /\ u # k
    <3>1. tunnel'[u] = "up" => tunnel[u] = "up"
      BY <1>1 DEF Tunnelled
    <3>2. tunnel[u] = "up" => u # k
      BY <1>0, <1>1 DEF Serving, Facts
    <3> QED
      BY <1>0, <1>1, <3>1, <3>2 DEF OthersOf, Facts
  <2>3. ASSUME NEW u \in Tunnels
        PROVE  Serving(u)'
    <3>1. CASE tunnel'[u] = "up"
      BY <1>0, <1>1, <1>3, <2>2, <3>1, OthersServe DEF Rest
    <3> QED
      BY <3>1 DEF Serving
  <2>4. ASSUME NEW u \in Tunnels, NEW j \in Tasks
        PROVE  Undisturbed(u, j)'
    <3>1. CASE j = k
      BY <1>0, <1>1, <2>2, <3>1 DEF Undisturbed, Establishing, Current, Facts
    <3>2. CASE j # k
      BY <1>0, <1>3, <2>2, <3>2, OthersUndisturbed
    <3> QED
      BY <3>1, <3>2
  <2> QED
    BY <2>1, <2>3, <2>4 DEF TunnelsOK
<1>10. Removed' /\ BudgetHolds'
  BY <1>0, <1>1, RemovedKept DEF IInv, BudgetHolds, Rest
<1>11. Attends'
  <2>1. \A r \in Slots : Claims(k, r) => Claims(k, r)'
    BY <1>1 DEF Claims, Attending, Finished, Current
  <2> QED
    BY <1>0, <1>1, <1>3, <2>1, OthersAttend DEF Attends, Rest
<1> QED
  BY <1>4, <1>5, <1>6, <1>7, <1>8, <1>9, <1>10, <1>11 DEF IInv

LEMMA AdmitKeeps ==
  ASSUME RemoteAssumption, IInv, NEW c \in Callers, Admit(c)
  PROVE  IInv'
<1>0. Facts /\ c \in Tasks /\ c \notin Tunnels
  BY FactsHold DEF Facts
<1>1. PICK s \in Slots : s = task[c].slot /\ task[c].pc = "waiting"
  <2>1. task[c].pc = "waiting"
    BY DEF Admit
  <2> QED
    BY <1>0, <2>1, TaskPlace DEF Facts
<1>2. /\ connectLock[s] = NoTask
      /\ Refused(c) \/ FromCache(c) \/ Admitted(c)
      /\ UNCHANGED Rest
  BY <1>0, <1>1, AdmitEffect DEF Facts
<1>3. \/ /\ task'[c].pc \in {"superseded", "ok"} /\ UNCHANGED <<slots, connectLock, tunnel>>
      \/ task'[c].pc = "admitted" /\ Admitted(c)
  BY <1>2 DEF Refused, FromCache, Admitted, Reaches
<1>4. /\ task' \in [Tasks -> Task] /\ OthersOf(c)
      /\ task'[c].slot = s /\ task'[c].own = task[c].own /\ task'[c].attempt = task[c].attempt
      /\ task'[c].generation \in {task[c].generation, slots[s].generation}
  BY <1>1, <1>2 DEF Refused, FromCache, Admitted, Reaches, Carries
<1>5. ASSUME Admitted(c)
      PROVE  /\ Locks(s, c)
             /\ \/ ~(slots[s].state = "ready" /\ slots[s].port) /\ UNCHANGED <<slots, tunnel>>
                \/ Superseded(s) /\ Kills(s)
  BY <1>1, <1>5 DEF Admitted
<1>6. /\ slots' \in [Slots -> Slot] /\ connectLock' \in [Slots -> Tasks \cup {NoTask, Stopper}]
      /\ tunnel' \in [Tunnels -> {"none", "starting", "up", "dead"}]
  BY <1>0, <1>3, <1>5 DEF Facts, Types, Superseded, OtherSlots, Kills, Locks
<1>7. Frame(c, s)
  <2>1. Superseded(s) => Grown(s)
    BY <1>0 DEF Superseded, Grown, Facts
  <2> QED
    BY <1>0, <1>2, <1>3, <1>4, <1>5, <2>1 DEF Frame, OthersOf, Facts, SameGeneration, Superseded, OtherSlots, Rest
<1>8. TypeOK'
  BY <1>2, <1>4, <1>6 DEF IInv, TypeOK, Rest
<1>9. TasksOK' /\ AllInformed' /\ Budget'
  <2>1. slots'[s].generation \in Nat /\ slots'[s].generation >= slots[s].generation
    BY <1>0, <1>7 DEF Frame, Facts, SameGeneration, Grown
  <2>2. /\ s \in 1..made /\ task[c].own = 0 /\ task[c].attempt = 0
        /\ task[c].generation \in Nat /\ task[c].generation <= slots[s].generation
        /\ slots[s].generation \in Nat
    <3>1. TaskOK(c) /\ Types
      BY <1>0 DEF Facts
    <3> QED
      BY <1>0, <1>1, <3>1, TaskPlace DEF TaskOK
  <2>3. task'[c].generation \in Nat /\ task'[c].generation <= slots'[s].generation
    BY <1>4, <2>1, <2>2
  <2>4. TaskOK(c)'
    BY <1>2, <1>3, <1>4, <2>2, <2>3 DEF TaskOK, CallerSteps, Rest
  <2>5. Informed(c)'
    BY <1>3 DEF Informed, Owning
  <2> QED
    BY <1>0, <1>7, <2>4, <2>5, OtherTasks DEF TasksOK, AllInformed, Budget
<1>10. Held'
  <2>1. \A k \in Tasks : k # c /\ task[k].pc \in Working => connectLock'[task[k].slot] = k
    <3>1. \A k \in Tasks : k # c /\ task[k].pc \in Working => connectLock[task[k].slot] = k /\ k # NoTask
      BY <1>0 DEF Held, Facts
    <3>2. \A k \in Tasks : k # c /\ task[k].pc \in Working => task[k].slot \in Slots /\ task[k].slot # s
      BY <1>0, <1>2, <3>1, TaskPlace DEF Working, Facts
    <3> QED
      BY <1>3, <1>5, <3>1, <3>2 DEF Locks
  <2>2. task'[c].pc \in Working => connectLock'[s] = c
    BY <1>3, <1>5 DEF Working, Locks
  <2>3. stopping.pc = "asking" => connectLock'[stopping.slot] = Stopper
    BY <1>0, <1>2, <1>3, <1>5 DEF Held, Locks, Facts
  <2> QED
    BY <1>0, <1>2, <1>4, <2>1, <2>2, <2>3 DEF Held, OthersOf, Facts, Rest
<1>11. ASSUME NEW t \in Tunnels
       PROVE  /\ tunnel'[t] = "up" => tunnel[t] = "up"
              /\ tunnel'[t] \in {"none", "starting"} => tunnel'[t] = tunnel[t]
              /\ Admitted(c) /\ tunnel'[t] = "up" => task[t].slot # s
              /\ task'[t] = task[t]
  <2>1. task'[t] = task[t]
    BY <1>0, <1>4 DEF OthersOf, Facts
  <2>2. CASE tunnel'[t] = tunnel[t]
    <3>1. ASSUME Admitted(c), tunnel'[t] = "up", task[t].slot = s
          PROVE  FALSE
      <4>1. slots[s].pid = t /\ slots[s].state = "ready" /\ slots[s].port
        BY <1>0, <2>2, <3>1 DEF Serving, Facts
      <4> QED
        BY <1>5, <3>1, <4>1 DEF Kills
    <3> QED
      BY <2>1, <2>2, <3>1
  <2>3. CASE tunnel'[t] # tunnel[t]
    BY <1>3, <1>5, <2>1, <2>3 DEF Kills
  <2> QED
    BY <2>2, <2>3
<1>12. Watchers'
  BY <1>0, <1>11, WatchersKept DEF Watchers, Facts
<1>13. ClosingOK'
  <2>1. \A d \in closing : d[1] \in Slots /\ d[2] \in Nat /\ d[2] <= slots[d[1]].generation
    BY <1>0 DEF ClosingOK, Facts, IInv, TypeOK, Generations
  <2>2. \A r \in Slots : slots'[r].generation \in Nat /\ slots'[r].generation >= slots[r].generation /\ slots[r].generation \in Nat
    BY <1>0, <1>7 DEF Frame, Facts, SameGeneration, Grown
  <2> QED
    BY <1>2, <2>1, <2>2 DEF ClosingOK, Rest
<1>14. TunnelsOK'
  <2>1. ASSUME NEW t \in Tunnels
        PROVE  Started(t)'
    <3>1. tunnel'[t] = "starting" => tunnel[t] = "starting"
      BY <1>11
    <3>2. ASSUME NEW k \in Tasks, task[k].own = t, connectLock[task[k].slot] = k
          PROVE  task'[k].own = t /\ connectLock'[task'[k].slot] = k
      <4>1. k # c /\ task[k].pc = "starting"
        BY <1>0, <1>1, <3>2 DEF Facts, TaskOK, Tunnels
      <4>2. task'[k] = task[k] /\ task'[k].pc \in Working
        BY <1>4, <4>1 DEF OthersOf, Working
      <4> QED
        BY <1>10, <3>2, <4>2 DEF Held
    <3> QED
      BY <1>0, <3>1, <3>2, StartedKept DEF Facts
  <2>2. ASSUME NEW t \in Tunnels
        PROVE  Serving(t)'
    <3>1. t # c /\ closing' = closing
      BY <1>0, <1>2 DEF Rest
    <3>2. tunnel'[t] = "up" /\ task[t].slot = s => slots'[s] = slots[s]
      BY <1>3, <1>11
    <3> QED
      BY <1>0, <1>7, <1>11, <3>1, <3>2, OthersServe
  <2>3. ASSUME NEW t \in Tunnels, NEW k \in Tasks
        PROVE  Undisturbed(t, k)'
    <3>1. CASE k = c
      BY <1>3, <1>4, <1>11, <3>1 DEF Undisturbed, Establishing
    <3>2. CASE k # c
      BY <1>0, <1>7, <1>11, <3>2, OthersUndisturbed
    <3> QED
      BY <3>1, <3>2
  <2> QED
    BY <2>1, <2>2, <2>3 DEF TunnelsOK
<1>15. Removed' /\ BudgetHolds'
  <2>1. \A r \in Slots : slots[r].forgotten => slots'[r].forgotten
    BY <1>3, <1>5 DEF Superseded, OtherSlots
  <2> QED
    BY <1>0, <1>2, <2>1, RemovedKept DEF IInv, BudgetHolds, Rest
<1>16. Attends'
  <2>1. ASSUME NEW r \in Slots, r # s
        PROVE  AttendedAt(r)'
    BY <1>0, <1>1, <1>2, <1>7, <2>1, OthersAttend DEF Claims, Rest
  <2>2. AttendedAt(s)'
    <3>1. CASE task'[c].pc = "admitted"
      <4>1. Claims(c, s)'
        BY <1>4, <3>1 DEF Claims
      <4> QED
        BY <1>0, <4>1 DEF AttendedAt
    <3>2. CASE task'[c].pc # "admitted"
      <4>1. UNCHANGED slots /\ SameGeneration(s) /\ UNCHANGED closing
        BY <1>2, <1>3, <3>2 DEF SameGeneration, Rest
      <4>2. ~Claims(c, s)
        BY <1>1 DEF Claims, Attending
      <4> QED
        BY <1>0, <1>4, <4>1, <4>2, AttendedKept DEF OthersOf, Facts
    <3> QED
      BY <3>1, <3>2
  <2> QED
    BY <2>1, <2>2 DEF Attends
<1> QED
  BY <1>8, <1>9, <1>10, <1>12, <1>13, <1>14, <1>15, <1>16 DEF IInv

LEMMA EstablishFailsKeeps ==
  ASSUME RemoteAssumption, IInv, NEW k \in Tasks, EstablishFails(k)
  PROVE  IInv'
<1>0. Facts /\ TaskOK(k)
  BY FactsHold DEF Facts
<1>1. PICK s \in Slots : s = task[k].slot /\ task[k].pc \in Establishing /\ connectLock[s] = k
  <2>1. task[k].pc \in Establishing
    BY DEF EstablishFails, Establishing
  <2> QED
    BY <1>0, <2>1, TaskPlace DEF Held, Working, Establishing, Facts
<1>2. /\ Locks(s, NoTask) /\ Reaped(k) /\ Failed(k) /\ UNCHANGED Rest
      /\ \/ /\ k \in Callers /\ task'[k].pc = "failed" /\ task'[k].attempt = task[k].attempt
            /\ Reported(s, k, "failed")
         \/ /\ k \notin Callers /\ UNCHANGED slots
            /\ task'[k].attempt = task[k].attempt + 1
            /\ task'[k].pc = IF Current(k) THEN "retrying" ELSE "gone"
  <2>1. task[k].attempt <= MaxAttempts
    BY <1>0, <1>1 DEF TaskOK, Establishing
  <2> QED
    BY <1>0, <1>1, <2>1, EstablishFailsEffect DEF Facts
<1>3. /\ task'[k].slot = s /\ task'[k].own = 0 /\ task' \in [Tasks -> Task]
      /\ \A j \in Tasks : j # k => task'[j] = task[j]
      /\ task'[k].generation = task[k].generation /\ task'[k].stable = task[k].stable
      /\ task'[k].pc \in {"failed", "retrying", "gone"}
  BY <1>1, <1>2 DEF Failed, OthersOf
<1>4. /\ slots' \in [Slots -> Slot] /\ \A r \in Slots : r # s => slots'[r] = slots[r]
      /\ SameGeneration(s) /\ slots'[s].forgotten = slots[s].forgotten
  BY <1>0, <1>1, <1>2 DEF Reported, InState, OtherSlots, SameGeneration, Facts, Types
<1>5. Frame(k, s)
  BY <1>0, <1>2, <1>3, <1>4 DEF Frame, Rest, Facts
<1>6. TypeOK'
  <2>1. tunnel' \in [Tunnels -> {"none", "starting", "up", "dead"}]
    BY <1>0, <1>2 DEF Reaped, Tunnelled, Facts, Types
  <2> QED
    BY <1>2, <1>3, <1>4, <2>1 DEF IInv, TypeOK, Locks, Rest
<1>7. TasksOK' /\ AllInformed' /\ Budget'
  <2>1. TaskOK(k)'
    <3>1. task'[k].pc \in IF k \in Callers THEN CallerSteps ELSE SupervisorSteps
      BY <1>2 DEF CallerSteps, SupervisorSteps
    <3>2. s \in 1..made' /\ task'[k].generation <= slots'[s].generation
      BY <1>0, <1>1, <1>2, <1>3, <1>4, TaskPlace DEF SameGeneration, Rest, Facts, Establishing
    <3> QED
      BY <1>0, <1>2, <1>3, <3>1, <3>2 DEF TaskOK
  <2>2. Informed(k)'
    BY <1>0, <1>1, <1>2, <1>3, <1>4 DEF Informed, Owning, Establishing, Current, SameGeneration, Facts, Rest
  <2>3. ASSUME k \in Tunnels
        PROVE  Spends(k)'
    <3>1. /\ task'[k].pc = "retrying" => Current(k) /\ task'[k].attempt = task[k].attempt + 1
          /\ unstable[s] \in Nat /\ task[k].attempt \in Int
      BY <1>0, <1>2, <2>3 DEF Facts, Types, Task
    <3>2. Current(k) /\ ~task[k].stable => unstable[s] < task[k].attempt
      BY <1>0, <1>1, <2>3 DEF Facts, Spends, Owning, Spending, Establishing
    <3>3. unstable' = unstable
      BY <1>2 DEF Rest
    <3>4. task'[k].pc = "retrying" /\ ~task'[k].stable => unstable'[s] < task'[k].attempt
      BY <1>3, <3>1, <3>2, <3>3
    <3> QED
      BY <1>3, <3>4 DEF Spends, Owning, Spending
  <2> QED
    BY <1>0, <1>5, <2>1, <2>2, <2>3, OtherTasks DEF TasksOK, AllInformed, Budget
<1>8. Held'
  <2>1. ASSUME NEW j \in Tasks, task'[j].pc \in Working
        PROVE  connectLock'[task'[j].slot] = j
    <3>1. j # k /\ task'[j] = task[j]
      BY <1>3, <2>1 DEF Working
    <3>2. connectLock[task[j].slot] = j /\ task[j].slot \in Slots /\ task[j].slot # s
      BY <1>0, <1>1, <2>1, <3>1, TaskPlace DEF Held, Working, Facts
    <3> QED
      BY <1>2, <3>1, <3>2 DEF Locks
  <2>2. stopping.pc = "asking" => stopping.slot \in Slots /\ stopping.slot # s
    BY <1>0, <1>1 DEF Held, Facts
  <2> QED
    BY <1>0, <1>2, <2>1, <2>2 DEF Held, Locks, Facts, Rest
<1>9. ASSUME NEW t \in Tunnels
      PROVE  /\ tunnel'[t] \in {"dead", tunnel[t]} /\ t \in Tasks
             /\ tunnel[t] = "up" => task'[t] = task[t] /\ t # k
             /\ tunnel[t] = "up" /\ Current(k) => task[t].slot # s
  <2>1. tunnel'[t] \in {"dead", tunnel[t]}
    BY <1>2 DEF Reaped, Tunnelled
  <2>2. tunnel[t] = "up" => t # k
    BY <1>0, <1>1 DEF Serving, Facts, Establishing
  <2>3. tunnel[t] = "up" /\ Current(k) => task[t].slot # s
    BY <1>0, <1>1 DEF Undisturbed, Facts
  <2> QED
    BY <1>0, <1>3, <2>1, <2>2, <2>3 DEF Facts
<1>10. Watchers'
  <2>1. ASSUME NEW t \in Tunnels, tunnel'[t] \in {"none", "starting"}
        PROVE  task'[t].pc = "idle"
    <3>1. tunnel[t] \in {"none", "starting"} /\ t \in Tasks
      BY <1>9, <2>1
    <3>2. task[t].pc = "idle" /\ t # k
      BY <1>0, <1>1, <3>1 DEF Watchers, Facts, Establishing
    <3> QED
      BY <1>3, <3>1, <3>2
  <2>2. ASSUME NEW t \in Tunnels, task'[t].pc \in Owning
        PROVE  /\ task[t].pc \in Owning
               /\ task'[t].slot = task[t].slot /\ task'[t].generation = task[t].generation
    BY <1>1, <1>3, <1>9, <2>2 DEF Owning, Establishing
  <2> QED
    BY <1>0, <2>1, <2>2, WatchersKept DEF Facts
<1>11. ClosingOK'
  BY <1>0, <1>2, <1>4 DEF ClosingOK, SameGeneration, Facts, Rest
<1>12. TunnelsOK'
  <2>1. ASSUME NEW t \in Tunnels
        PROVE  Started(t)'
    <3>1. CASE t = task[k].own
      <4>1. tunnel'[t] # "starting"
        BY <1>0, <1>2, <3>1 DEF Reaped, Tunnelled, Tunnels
      <4> QED
        BY <4>1 DEF Started
    <3>2. CASE t # task[k].own
      <4>1. ASSUME NEW j \in Tasks, task[j].own = t, connectLock[task[j].slot] = j
            PROVE  task'[j].own = t /\ connectLock'[task'[j].slot] = j
        <5>1. j # k /\ task[j].pc = "starting"
          BY <1>0, <3>2, <4>1 DEF Facts, TaskOK, Tunnels
        <5>2. task'[j] = task[j] /\ task'[j].pc \in Working
          BY <1>3, <5>1 DEF Working
        <5> QED
          BY <1>8, <4>1, <5>2 DEF Held
      <4> QED
        BY <1>0, <1>9, <4>1, StartedKept DEF Facts
    <3> QED
      BY <3>1, <3>2
  <2>2. ASSUME NEW t \in Tunnels
        PROVE  Serving(t)'
    <3>1. CASE tunnel'[t] = "up"
      <4>1. tunnel[t] = "up" /\ t # k
        BY <1>9, <3>1
      <4>2. task[t].slot = s => slots'[s] = slots[s]
        BY <1>1, <1>2, <1>9, <4>1 DEF Reported, Current
      <4>3. closing' = closing
        BY <1>2 DEF Rest
      <4> QED
        BY <1>0, <1>5, <4>1, <4>2, <4>3, OthersServe
    <3> QED
      BY <3>1 DEF Serving
  <2>3. ASSUME NEW t \in Tunnels, NEW j \in Tasks
        PROVE  Undisturbed(t, j)'
    <3>1. CASE j = k
      BY <1>3, <3>1 DEF Undisturbed, Establishing
    <3>2. CASE j # k
      <4>1. tunnel'[t] = "up" => tunnel[t] = "up" /\ task'[t].slot = task[t].slot
        BY <1>9
      <4> QED
        BY <1>0, <1>5, <3>2, <4>1, OthersUndisturbed
    <3> QED
      BY <3>1, <3>2
  <2> QED
    BY <2>1, <2>2, <2>3 DEF TunnelsOK
<1>13. Removed' /\ BudgetHolds'
  <2>1. \A r \in Slots : slots[r].forgotten => slots'[r].forgotten
    BY <1>4
  <2> QED
    BY <1>0, <1>2, <2>1, RemovedKept DEF IInv, BudgetHolds, Rest
<1>14. Attends'
  <2>1. ASSUME NEW r \in Slots, r # s
        PROVE  AttendedAt(r)'
    BY <1>0, <1>1, <1>2, <1>5, <2>1, OthersAttend DEF Claims, Rest
  <2>2. AttendedAt(s)'
    <3>1. CASE Current(k) /\ k \in Callers
      BY <1>1, <1>2, <3>1 DEF Reported, Current, InState, AttendedAt, Active
    <3>2. CASE Current(k) /\ k \notin Callers
      <4>1. Claims(k, s)'
        BY <1>1, <1>2, <1>3, <1>4, <3>2 DEF Claims, Attending, Finished, Current, SameGeneration
      <4> QED
        BY <4>1 DEF AttendedAt
    <3>3. CASE ~Current(k)
      <4>1. UNCHANGED slots /\ UNCHANGED closing
        BY <1>1, <1>2, <3>3 DEF Reported, Current, Rest
      <4>2. ~Claims(k, s)
        BY <1>1, <3>3 DEF Claims, Attending, Establishing
      <4> QED
        BY <1>0, <1>3, <1>4, <4>1, <4>2, AttendedKept DEF Facts
    <3> QED
      BY <3>1, <3>2, <3>3
  <2> QED
    BY <2>1, <2>2 DEF Attends
<1> QED
  BY <1>6, <1>7, <1>8, <1>10, <1>11, <1>12, <1>13, <1>14 DEF IInv

\* The two outcomes of an answer: nobody else owns the generation that is published.
LEMMA PublishedKeeps ==
  ASSUME RemoteAssumption, IInv, NEW k \in Tasks, NEW s \in Slots, NEW t \in Tunnels,
         task[k].pc = "starting", task[k].slot = s, task[k].own = t, tunnel[t] = "starting",
         connectLock[s] = k, Locks(s, NoTask), Published(k),
         UNCHANGED <<made, registered, closing, closes, forgetting, stopping, late>>
  PROVE  IInv'
<1>0. Facts /\ TaskOK(k) /\ t \in Tasks /\ t # k /\ t # 0 /\ task[t].pc = "idle" /\ task[t].own = 0
  <2>1. Facts /\ TaskOK(k) /\ t \in Tasks /\ task[t].pc = "idle" /\ t # 0
    BY FactsHold DEF Facts, Watchers, Tunnels
  <2> QED
    BY <2>1 DEF Facts, TaskOK
<1> DEFINE g == slots[s].generation + 1
<1>1. /\ slots[s].generation = task[k].generation /\ slots[s].generation \in Nat
      /\ slots'[s].generation = g /\ slots'[s].state = "ready" /\ slots'[s].port /\ slots'[s].pid = t
      /\ slots'[s].forgotten = slots[s].forgotten
      /\ slots' \in [Slots -> Slot] /\ \A r \in Slots : r # s => slots'[r] = slots[r]
  BY <1>0 DEF Published, OtherSlots, Facts
<1>2. /\ task' \in [Tasks -> Task]
      /\ \A j \in Tasks : j # k /\ j # t => task'[j] = task[j]
      /\ task'[k].pc = After(k) /\ task'[k].slot = s /\ task'[k].own = 0 /\ task'[k].generation = g
      /\ task'[k].attempt = task[k].attempt
      /\ task'[t].pc = "watching" /\ task'[t].slot = s /\ task'[t].own = 0 /\ task'[t].generation = g
      /\ task'[t].attempt = task[k].attempt /\ ~task'[t].stable
  BY DEF Published
<1>3. /\ tunnel' \in [Tunnels -> {"none", "starting", "up", "dead"}]
      /\ tunnel'[t] = "up" /\ \A u \in Tunnels : u # t => tunnel'[u] = tunnel[u]
  BY DEF Published, Tunnelled
<1>4. /\ unstable' \in [Slots -> Nat]
      /\ unstable'[s] = IF k \in Callers \/ task[k].stable THEN 0 ELSE unstable[s] + 1
      /\ \A r \in Slots : r # s => unstable'[r] = unstable[r]
  BY DEF Published
<1>5. g \in Nat /\ g > slots[s].generation /\ Grown(s) /\ After(k) \in {"ok", "gone"}
  BY <1>1 DEF Grown, After
<1> HIDE DEF g
<1>6. ASSUME NEW j \in Tasks, j # k, j # t
      PROVE  /\ TaskOK(j)' /\ Informed(j)' /\ (j \in Tunnels => Spends(j)')
             /\ task'[j] = task[j]
             /\ task[j].pc # "idle" => SameGeneration(task[j].slot) \/ Grown(task[j].slot)
             /\ task[j].pc # "idle" /\ task[j].slot = s => task[j].generation # g
  <2>1. Types /\ TaskOK(j) /\ Informed(j) /\ task'[j] = task[j] /\ (j \in Tunnels => Spends(j))
    BY <1>0, <1>2, <1>6 DEF Facts
  <2>2. task[j].pc # "idle" =>
          /\ task[j].slot \in Slots
          /\ \/ /\ SameGeneration(task[j].slot)
                /\ slots'[task[j].slot].forgotten = slots[task[j].slot].forgotten
                /\ unstable'[task[j].slot] = unstable[task[j].slot]
             \/ Grown(task[j].slot)
    <3> SUFFICES ASSUME task[j].pc # "idle" PROVE <2>2!2
      OBVIOUS
    <3>1. task[j].slot \in Slots
      BY <2>1, TaskPlace
    <3>2. CASE task[j].slot = s
      BY <1>5, <3>1, <3>2
    <3>3. CASE task[j].slot # s
      BY <1>1, <1>4, <3>1, <3>3 DEF SameGeneration
    <3> QED
      BY <3>2, <3>3
  <2>3. task[j].pc # "idle" /\ task[j].slot = s => task[j].generation # g
    BY <1>5, <2>1, TaskPlace
  <2>4. made' = made /\ made \in Nat /\ late' = late
    BY <1>0 DEF Facts
  <2>5. TaskOK(j)'
    BY <2>1, <2>2, <2>4, TaskKept
  <2>6. Informed(j)'
    BY <2>1, <2>2, <2>4, InformedKept
  <2>7. j \in Tunnels => Spends(j)'
    BY <2>1, <2>2, SpendsKept
  <2> QED
    BY <2>1, <2>2, <2>3, <2>5, <2>6, <2>7
<1>7. /\ task[k].attempt \in Nat /\ task[k].attempt <= MaxAttempts /\ unstable[s] \in Nat
      /\ k \notin Callers /\ ~task[k].stable => unstable[s] < task[k].attempt
  <2>1. /\ task[k].attempt <= MaxAttempts /\ task[k].attempt \in 0..MaxAttempts + 1
        /\ unstable[s] \in Nat
    BY <1>0 DEF TaskOK, Facts, Types, Task
  <2>2. task[k].attempt \in Nat
    BY <2>1
  <2>3. k \notin Callers => Spends(k)
    BY <1>0 DEF Facts, Tasks
  <2>4. k \notin Callers /\ ~task[k].stable => unstable[s] < task[k].attempt
    BY <1>1, <2>3 DEF Spends, Owning, Spending, Current
  <2> QED
    BY <2>1, <2>2, <2>4
<1>8. unstable'[s] \in Nat /\ unstable'[s] <= task[k].attempt
  BY <1>4, <1>7
<1>9. TypeOK'
  BY <1>1, <1>2, <1>3, <1>4 DEF IInv, TypeOK, Locks
<1>10. TasksOK'
  <2>1. s \in 1..made /\ (k \in Callers => task[k].attempt = 0)
    BY <1>0 DEF TaskOK
  <2>2. TaskOK(k)'
    <3>1. After(k) \in IF k \in Callers THEN CallerSteps ELSE SupervisorSteps
      BY DEF After, CallerSteps, SupervisorSteps
    <3> QED
      BY <1>1, <1>2, <1>5, <2>1, <3>1 DEF TaskOK
  <2>3. t \notin Callers
    BY <1>0 DEF Facts
  <2>4. TaskOK(t)'
    BY <1>1, <1>2, <1>5, <1>7, <2>1, <2>3 DEF TaskOK, SupervisorSteps
  <2> QED
    BY <1>6, <2>2, <2>4 DEF TasksOK
<1>11. AllInformed'
  <2>1. Informed(k)'
    BY <1>2, <1>5 DEF Informed, Owning
  <2>2. slots[s].forgotten => s \in late
    BY <1>0, <1>1 DEF Facts, Informed, Owning, Current
  <2>3. Informed(t)'
    BY <1>1, <1>2, <2>2 DEF Informed
  <2> QED
    BY <1>6, <2>1, <2>3 DEF AllInformed
<1>12. Budget'
  <2>1. Spends(t)'
    BY <1>2, <1>8 DEF Spends, Spending
  <2>2. k \in Tunnels => Spends(k)'
    BY <1>2, <1>5 DEF Spends, Owning
  <2>3. \A j \in Tunnels : j \in Tasks
    BY <1>0 DEF Facts
  <2> QED
    BY <1>6, <2>1, <2>2, <2>3 DEF Budget
<1>13. BudgetHolds'
  <2>1. \A r \in Slots : r # s => unstable'[r] <= MaxAttempts
    BY <1>4 DEF IInv, BudgetHolds
  <2>2. unstable'[s] <= MaxAttempts
    BY <1>7, <1>8 DEF RemoteAssumption
  <2> QED
    BY <2>1, <2>2 DEF BudgetHolds
<1>14. Held'
  <2>1. ASSUME NEW j \in Tasks, task'[j].pc \in Working
        PROVE  connectLock'[task'[j].slot] = j
    <3>1. j # k /\ j # t /\ task'[j] = task[j]
      BY <1>2, <1>5, <2>1 DEF Working
    <3>2. connectLock[task[j].slot] = j /\ task[j].slot \in Slots /\ task[j].slot # s
      BY <1>0, <2>1, <3>1, TaskPlace DEF Held, Working, Facts
    <3> QED
      BY <3>1, <3>2 DEF Locks
  <2>2. stopping.pc = "asking" => stopping.slot \in Slots /\ stopping.slot # s
    BY <1>0 DEF Held, Facts
  <2> QED
    BY <1>0, <2>1, <2>2 DEF Held, Locks, Facts
<1>15. Watchers'
  <2>1. ASSUME NEW u \in Tunnels, tunnel'[u] \in {"none", "starting"}
        PROVE  task'[u].pc = "idle"
    <3>1. u # t /\ tunnel[u] \in {"none", "starting"} /\ u \in Tasks
      BY <1>0, <1>3, <2>1 DEF Facts
    <3>2. task[u].pc = "idle" /\ u # k
      BY <1>0, <3>1 DEF Watchers, Facts
    <3> QED
      BY <1>2, <3>1, <3>2
  <2>2. ASSUME NEW u \in Tunnels, NEW w \in Tunnels,
               task'[u].pc \in Owning, task'[w].pc \in Owning,
               task'[u].slot = task'[w].slot, task'[u].generation = task'[w].generation
        PROVE  u = w
    <3>1. u # k /\ w # k /\ u \in Tasks /\ w \in Tasks
      BY <1>0, <1>2, <1>5, <2>2 DEF Owning, Facts
    <3>2. CASE u # t /\ w # t
      BY <1>0, <1>2, <2>2, <3>1, <3>2 DEF Watchers, Facts
    <3>3. CASE u = t /\ w # t
      BY <1>2, <1>6, <2>2, <3>1, <3>3 DEF Owning
    <3>4. CASE w = t /\ u # t
      BY <1>2, <1>6, <2>2, <3>1, <3>4 DEF Owning
    <3> QED
      BY <3>2, <3>3, <3>4
  <2> QED
    BY <2>1, <2>2 DEF Watchers
<1>16. ClosingOK' /\ <<s, g>> \notin closing'
  <2>1. \A d \in closing : d[1] \in Slots /\ d[2] \in Nat /\ d[2] <= slots[d[1]].generation
    BY <1>0 DEF ClosingOK, Facts, IInv, TypeOK, Generations
  <2>2. \A r \in Slots : slots'[r].generation \in Nat /\ slots'[r].generation >= slots[r].generation /\ slots[r].generation \in Nat
    BY <1>0, <1>1, <1>5 DEF Facts
  <2>3. <<s, g>> \notin closing
    BY <1>1, <1>5, <2>1
  <2> QED
    BY <2>1, <2>2, <2>3 DEF ClosingOK
<1>17. TunnelsOK'
  <2>1. ASSUME NEW u \in Tunnels, u # t, tunnel[u] = "up"
        PROVE  task[u].slot \in Slots /\ task[u].slot # s /\ u # k /\ u \in Tasks
    <3>1. u \in Tasks /\ Types /\ TaskOK(u) /\ task[u].pc = "watching" /\ Undisturbed(u, k)
      BY <1>0, <2>1 DEF Serving, Facts
    <3>2. task[u].slot \in Slots /\ u # k
      BY <3>1, TaskPlace
    <3>3. task[u].slot # s
      BY <1>1, <2>1, <3>1 DEF Undisturbed, Establishing, Current
    <3> QED
      BY <3>1, <3>2, <3>3
  <2>2. ASSUME NEW u \in Tunnels
        PROVE  Started(u)'
    <3>1. CASE u = t
      BY <1>3, <3>1 DEF Started
    <3>2. CASE u # t
      <4>1. ASSUME NEW j \in Tasks, task[j].own = u, connectLock[task[j].slot] = j
            PROVE  task'[j].own = u /\ connectLock'[task'[j].slot] = j
        <5>1. j # k /\ j # t /\ task[j].pc = "starting"
          BY <1>0, <3>2, <4>1 DEF Facts, TaskOK, Tunnels
        <5>2. task'[j] = task[j] /\ task'[j].pc \in Working
          BY <1>2, <5>1 DEF Working
        <5> QED
          BY <1>14, <4>1, <5>2 DEF Held
      <4> QED
        BY <1>0, <1>3, <3>2, <4>1, StartedKept DEF Facts
    <3> QED
      BY <3>1, <3>2
  <2>3. ASSUME NEW u \in Tunnels
        PROVE  Serving(u)'
    <3>1. CASE u = t
      BY <1>1, <1>2, <1>16, <3>1 DEF Serving, Current
    <3>2. CASE u # t
      <4>1. tunnel'[u] = tunnel[u] /\ Serving(u)
        BY <1>0, <1>3, <3>2 DEF Facts
      <4>2. tunnel[u] = "up" => task'[u] = task[u] /\ slots'[task[u].slot] = slots[task[u].slot]
        BY <1>1, <1>2, <2>1, <3>2
      <4> QED
        BY <4>1, <4>2 DEF Serving, Current
    <3> QED
      BY <3>1, <3>2
  <2>4. ASSUME NEW u \in Tunnels, NEW j \in Tasks
        PROVE  Undisturbed(u, j)'
    <3>1. CASE j = k \/ j = t
      BY <1>2, <1>5, <3>1 DEF Undisturbed, Establishing
    <3>2. CASE j # k /\ j # t /\ u # t
      <4>1. tunnel'[u] = "up" => tunnel[u] = "up" /\ task'[u].slot = task[u].slot
        BY <1>2, <1>3, <2>1, <3>2
      <4>2. Types /\ TaskOK(j) /\ Undisturbed(u, j)
        BY <1>0 DEF Facts
      <4> QED
        BY <1>6, <3>2, <4>1, <4>2, UndisturbedKept
    <3>3. CASE j # k /\ j # t /\ u = t
      <4>1. task'[j] = task[j] /\ (task[j].pc \in Working => task[j].slot # s)
        BY <1>0, <1>6, <3>3 DEF Held, Facts
      <4> QED
        BY <1>2, <3>3, <4>1 DEF Undisturbed, Working, Establishing
    <3> QED
      BY <3>1, <3>2, <3>3
  <2> QED
    BY <2>2, <2>3, <2>4 DEF TunnelsOK
<1>18. Removed'
  BY <1>0, <1>1, RemovedKept
<1>19. Attends'
  <2>1. AttendedAt(s)'
    <3>1. Claims(t, s)'
      BY <1>1, <1>2 DEF Claims, Attending, Finished, Current
    <3> QED
      BY <1>0, <3>1 DEF AttendedAt
  <2>2. ASSUME NEW r \in Slots, r # s
        PROVE  AttendedAt(r)'
    <3>1. \A j \in Tasks : Claims(j, r) => task'[j] = task[j]
      BY <1>0, <1>2, <2>2 DEF Claims, Attending
    <3>2. slots'[r] = slots[r] /\ SameGeneration(r) /\ AttendedAt(r)
      BY <1>0, <1>1, <2>2 DEF SameGeneration, Facts
    <3> QED
      BY <3>1, <3>2, AttendedKept
  <2> QED
    BY <2>1, <2>2 DEF Attends
<1> QED
  BY <1>9, <1>10, <1>11, <1>12, <1>13, <1>14, <1>15, <1>16, <1>17, <1>18, <1>19 DEF IInv

LEMMA StaleKeeps ==
  ASSUME RemoteAssumption, IInv, NEW k \in Tasks, NEW s \in Slots, NEW t \in Tunnels,
         task[k].pc = "starting", task[k].slot = s, task[k].own = t,
         connectLock[s] = k, Locks(s, NoTask), Tunnelled(t, "dead"),
         Stale(k, IF k \in Callers THEN "superseded" ELSE "gone"),
         UNCHANGED <<slots, unstable>>,
         UNCHANGED <<made, registered, closing, closes, forgetting, stopping, late>>
  PROVE  IInv'
<1>0. Facts /\ TaskOK(k) /\ 0 \notin Slots
  BY FactsHold DEF Facts, Slots
<1>1. /\ slots[s].generation # task[k].generation
      /\ task' \in [Tasks -> Task] /\ \A j \in Tasks : j # k => task'[j] = task[j]
      /\ task'[k].pc = IF k \in Callers THEN "superseded" ELSE "gone"
      /\ task'[k].own = 0 /\ task'[k].slot = s /\ task'[k].generation = task[k].generation
      /\ task'[k].attempt = task[k].attempt
  BY DEF Stale, OthersOf
<1>2. Frame(k, 0)
  BY <1>0, <1>1 DEF Frame, Facts
<1>3. TypeOK'
  BY <1>1 DEF IInv, TypeOK, Locks, Tunnelled
<1>4. TasksOK' /\ AllInformed' /\ Budget'
  <2>1. TaskOK(k)'
    BY <1>0, <1>1 DEF TaskOK, CallerSteps, SupervisorSteps
  <2>2. Informed(k)' /\ Spends(k)'
    BY <1>1 DEF Informed, Spends, Owning
  <2> QED
    BY <1>0, <1>2, <2>1, <2>2, OtherTasks DEF TasksOK, AllInformed, Budget
<1>5. Held'
  <2>1. ASSUME NEW j \in Tasks, task'[j].pc \in Working
        PROVE  connectLock'[task'[j].slot] = j
    <3>1. j # k /\ task'[j] = task[j]
      BY <1>1, <2>1 DEF Working
    <3>2. connectLock[task[j].slot] = j /\ task[j].slot \in Slots /\ task[j].slot # s
      BY <1>0, <2>1, <3>1, TaskPlace DEF Held, Working, Facts
    <3> QED
      BY <3>1, <3>2 DEF Locks
  <2>2. stopping.pc = "asking" => stopping.slot \in Slots /\ stopping.slot # s
    BY <1>0 DEF Held, Facts
  <2> QED
    BY <1>0, <2>1, <2>2 DEF Held, Locks, Facts
<1>6. ASSUME NEW u \in Tunnels
      PROVE  /\ tunnel'[u] \in {"dead", tunnel[u]} /\ u \in Tasks
             /\ tunnel[u] = "up" => task'[u] = task[u] /\ u # k
  <2>1. tunnel'[u] \in {"dead", tunnel[u]}
    BY DEF Tunnelled
  <2>2. tunnel[u] = "up" => u # k
    BY <1>0 DEF Serving, Facts
  <2> QED
    BY <1>0, <1>1, <2>1, <2>2 DEF Facts
<1>7. Watchers'
  <2>1. ASSUME NEW u \in Tunnels, tunnel'[u] \in {"none", "starting"}
        PROVE  task'[u].pc = "idle"
    BY <1>0, <1>1, <1>6, <2>1 DEF Watchers, Facts
  <2>2. ASSUME NEW u \in Tunnels, task'[u].pc \in Owning
        PROVE  /\ task[u].pc \in Owning
               /\ task'[u].slot = task[u].slot /\ task'[u].generation = task[u].generation
    BY <1>1, <1>6, <2>2 DEF Owning
  <2> QED
    BY <1>0, <2>1, <2>2, WatchersKept DEF Facts
<1>8. ClosingOK'
  BY <1>0 DEF ClosingOK, Facts
<1>9. TunnelsOK'
  <2>1. ASSUME NEW u \in Tunnels
        PROVE  Started(u)'
    <3>1. CASE u = t
      BY <3>1 DEF Started, Tunnelled
    <3>2. CASE u # t
      <4>1. ASSUME NEW j \in Tasks, task[j].own = u, connectLock[task[j].slot] = j
            PROVE  task'[j].own = u /\ connectLock'[task'[j].slot] = j
        <5>1. j # k /\ task[j].pc = "starting"
          BY <1>0, <3>2, <4>1 DEF Facts, TaskOK, Tunnels
        <5>2. task'[j] = task[j] /\ task'[j].pc \in Working
          BY <1>1, <5>1 DEF Working
        <5> QED
          BY <1>5, <4>1, <5>2 DEF Held
      <4> QED
        BY <1>0, <1>6, <4>1, StartedKept DEF Facts
    <3> QED
      BY <3>1, <3>2
  <2>2. ASSUME NEW u \in Tunnels
        PROVE  Serving(u)'
    <3>1. CASE tunnel'[u] = "up"
      BY <1>0, <1>2, <1>6, <3>1, OthersServe
    <3> QED
      BY <3>1 DEF Serving
  <2>3. ASSUME NEW u \in Tunnels, NEW j \in Tasks
        PROVE  Undisturbed(u, j)'
    <3>1. CASE j = k
      BY <1>1, <3>1 DEF Undisturbed, Establishing
    <3>2. CASE j # k
      BY <1>0, <1>2, <1>6, <3>2, OthersUndisturbed
    <3> QED
      BY <3>1, <3>2
  <2> QED
    BY <2>1, <2>2, <2>3 DEF TunnelsOK
<1>10. Removed' /\ BudgetHolds'
  BY <1>0, RemovedKept DEF IInv, BudgetHolds
<1>11. Attends'
  <2>1. \A r \in Slots : ~Claims(k, r)
    BY <1>1 DEF Claims, Attending, Current
  <2> QED
    BY <1>0, <1>2, <2>1, OthersAttend DEF Attends
<1> QED
  BY <1>3, <1>4, <1>5, <1>7, <1>8, <1>9, <1>10, <1>11 DEF IInv

LEMMA AnsweredKeeps ==
  ASSUME RemoteAssumption, IInv, NEW k \in Tasks, Answered(k)
  PROVE  IInv'
<1>1. Facts /\ TaskOK(k) /\ task[k].pc = "starting" /\ tunnel[task[k].own] = "starting"
  BY FactsHold DEF Facts, Answered
<1>2. PICK s \in Slots, t \in Tunnels :
        s = task[k].slot /\ t = task[k].own /\ connectLock[s] = k /\ task[t].pc = "idle"
  <2>1. task[k].slot \in Slots /\ task[k].own \in Tunnels
    BY <1>1, TaskPlace DEF Facts, TaskOK
  <2>2. connectLock[task[k].slot] = k /\ task[task[k].own].pc = "idle"
    BY <1>1, <2>1 DEF Facts, Held, Working, Watchers
  <2> QED
    BY <2>1, <2>2
<1>3. /\ Locks(s, NoTask)
      /\ \/ Published(k)
         \/ /\ Stale(k, IF k \in Callers THEN "superseded" ELSE "gone")
            /\ Tunnelled(t, "dead") /\ UNCHANGED <<slots, unstable>>
      /\ UNCHANGED <<made, registered, closing, closes, forgetting, stopping, late>>
  BY <1>1, <1>2, AnsweredEffect DEF Facts
<1> QED
  BY <1>1, <1>2, <1>3, PublishedKeeps, StaleKeeps

\* A tunnel that is not up, or no longer, is nobody's concern.
LEMMA DieKeeps ==
  ASSUME RemoteAssumption, IInv, NEW t \in Tunnels, Die(t)
  PROVE  IInv'
<1>0. Facts
  BY FactsHold
<1>1. /\ tunnel[t] = "up" /\ Tunnelled(t, "dead")
      /\ UNCHANGED <<slots, made, registered, connectLock, task, closing, closes, forgetting,
                     stopping, unstable, late>>
  BY <1>0, TunnelEffect DEF Die, Facts
<1>2. \A u \in Tunnels : tunnel'[u] \in {"dead", tunnel[u]}
  BY <1>1 DEF Tunnelled
<1>3. TypeOK'
  BY <1>1 DEF IInv, TypeOK, Tunnelled
<1>4. TasksOK' /\ AllInformed' /\ Budget' /\ BudgetHolds' /\ Held' /\ ClosingOK' /\ Removed'
  <2>1. TasksOK' /\ Held' /\ ClosingOK' /\ BudgetHolds' /\ Removed'
    BY <1>1 DEF IInv, TasksOK, TaskOK, Held, ClosingOK, BudgetHolds, Removed
  <2>2. AllInformed' /\ Budget'
    BY <1>1 DEF IInv, AllInformed, Informed, Budget, Spends, Current
  <2> QED
    BY <2>1, <2>2
<1>5. Watchers'
  BY <1>0, <1>1, <1>2 DEF Facts, Watchers
<1>6. TunnelsOK'
  BY <1>1, <1>2 DEF IInv, TunnelsOK, Started, Serving, Undisturbed, Current
<1>7. Attends'
  BY <1>1 DEF IInv, Attends, AttendedAt, Claims, Attending, Current
<1> QED
  BY <1>3, <1>4, <1>5, <1>6, <1>7 DEF IInv

LEMMA StabiliseKeeps ==
  ASSUME RemoteAssumption, IInv, NEW t \in Tunnels, Stabilise(t)
  PROVE  IInv'
<1>0. Facts /\ t \in Tasks /\ 0 \notin Slots /\ TaskOK(t)
  BY FactsHold DEF Facts, Slots
<1>1. /\ task[t].pc = "watching" /\ task' \in [Tasks -> Task] /\ OthersOf(t)
      /\ task'[t].pc = "watching" /\ task'[t].stable
      /\ task'[t].slot = task[t].slot /\ task'[t].generation = task[t].generation
      /\ task'[t].own = task[t].own /\ task'[t].attempt = task[t].attempt
  BY <1>0, StabiliseEffect DEF Facts
<1>2. UNCHANGED <<slots, made, registered, connectLock, tunnel, closing, closes, forgetting,
                  stopping, unstable, late>>
  BY DEF Stabilise
<1>3. Frame(t, 0)
  BY <1>0, <1>1, <1>2 DEF Frame, OthersOf, Facts
<1>4. TypeOK'
  BY <1>1, <1>2 DEF IInv, TypeOK
<1>5. TasksOK' /\ AllInformed' /\ Budget'
  <2>1. TaskOK(t)'
    BY <1>0, <1>1, <1>2 DEF TaskOK
  <2>2. Informed(t)' /\ Spends(t)'
    BY <1>0, <1>1, <1>2 DEF Facts, Informed, Spends, Current
  <2> QED
    BY <1>0, <1>3, <2>1, <2>2, OtherTasks DEF TasksOK, AllInformed, Budget
<1>6. Held'
  BY <1>0, <1>1, <1>2 DEF Held, Working, Facts, OthersOf
<1>7. Watchers'
  BY <1>0, <1>1, <1>2, WatchersKept DEF Watchers, Facts, OthersOf
<1>8. ClosingOK'
  BY <1>0, <1>2 DEF ClosingOK, Facts
<1>9. TunnelsOK'
  <2>1. ASSUME NEW u \in Tunnels
        PROVE  Started(u)' /\ (tunnel'[u] = "up" => tunnel[u] = "up" /\ task'[u].slot = task[u].slot)
    BY <1>0, <1>1, <1>2, StartedKept DEF OthersOf, Facts
  <2>2. ASSUME NEW u \in Tunnels
        PROVE  Serving(u)'
    <3>1. CASE u = t
      BY <1>0, <1>1, <1>2, <3>1 DEF Serving, Current, Facts
    <3>2. CASE u # t
      BY <1>0, <1>2, <1>3, <3>2, OthersServe
    <3> QED
      BY <3>1, <3>2
  <2>3. ASSUME NEW u \in Tunnels, NEW j \in Tasks
        PROVE  Undisturbed(u, j)'
    <3>1. CASE j = t
      BY <1>1, <3>1 DEF Undisturbed, Establishing
    <3>2. CASE j # t
      BY <1>0, <1>3, <2>1, <3>2, OthersUndisturbed
    <3> QED
      BY <3>1, <3>2
  <2> QED
    BY <2>1, <2>2, <2>3 DEF TunnelsOK
<1>10. Removed' /\ BudgetHolds'
  BY <1>0, <1>2, RemovedKept DEF IInv, BudgetHolds
<1>11. Attends'
  <2>1. \A r \in Slots : Claims(t, r) => Claims(t, r)'
    BY <1>1, <1>2 DEF Claims, Attending, Finished, Current
  <2> QED
    BY <1>0, <1>2, <1>3, <2>1, OthersAttend DEF Attends
<1> QED
  BY <1>4, <1>5, <1>6, <1>7, <1>8, <1>9, <1>10, <1>11 DEF IInv

\* A supervisor without a tunnel does not own the generation another one serves.
LEMMA OneOwner ==
  ASSUME Facts, NEW t \in Tunnels, NEW u \in Tunnels, tunnel[u] = "up",
         task[t].pc \in {"retrying", "backoff"}
  PROVE  u # t /\ u \in Tasks /\ (task[u].slot = task[t].slot => ~Current(t))
<1>1. u \in Tasks /\ task[u].pc = "watching" /\ Current(u) /\ Watchers
  BY DEF Facts, Serving
<1>2. u # t
  BY <1>1
<1>3. ASSUME task[u].slot = task[t].slot, Current(t)
      PROVE  task[u].generation = task[t].generation
  BY <1>1, <1>3 DEF Current
<1>4. task[t].pc \in Owning /\ task[u].pc \in Owning
  BY <1>1 DEF Owning
<1> QED
  BY <1>1, <1>2, <1>3, <1>4 DEF Watchers

LEMMA LostKeeps ==
  ASSUME RemoteAssumption, IInv, NEW t \in Tunnels, Lost(t)
  PROVE  IInv'
<1>0. Facts /\ t \in Tasks /\ t \notin Callers /\ TaskOK(t)
  BY FactsHold DEF Facts
<1>1. PICK s \in Slots : s = task[t].slot /\ task[t].pc = "watching" /\ tunnel[t] = "dead"
  <2>1. task[t].pc = "watching" /\ tunnel[t] = "dead"
    BY DEF Lost
  <2> QED
    BY <1>0, <2>1, TaskPlace DEF Facts
<1>2. /\ task' \in [Tasks -> Task] /\ OthersOf(t)
      /\ task'[t].slot = s /\ task'[t].generation = task[t].generation
      /\ task'[t].own = task[t].own /\ task'[t].stable = task[t].stable
      /\ \/ /\ ~Current(t) /\ task'[t].pc = "gone" /\ UNCHANGED slots
         \/ /\ Current(t) /\ task'[t].pc = "retrying"
            /\ ~task[t].stable => task'[t].attempt = task[t].attempt + 1
            /\ OtherSlots(s)
            /\ slots'[s].state = slots[s].state /\ slots'[s].forgotten = slots[s].forgotten
            /\ slots'[s].generation = slots[s].generation /\ slots'[s].port = slots[s].port
            /\ slots[s].pid # t => slots'[s].pid = slots[s].pid
  <2>1. task[t].attempt <= MaxAttempts
    BY <1>0, <1>1 DEF TaskOK
  <2> QED
    BY <1>0, <1>1, <2>1, LostEffect DEF Facts
<1>3. UNCHANGED <<made, registered, connectLock, tunnel, closing, closes, forgetting, stopping,
                  unstable, late>>
  BY DEF Lost
<1>4. /\ slots' \in [Slots -> Slot] /\ \A r \in Slots : r # s => slots'[r] = slots[r]
      /\ SameGeneration(s) /\ slots'[s].forgotten = slots[s].forgotten /\ slots'[s].state = slots[s].state
      /\ \A r \in Slots : slots'[r].generation = slots[r].generation
  BY <1>0, <1>2 DEF OtherSlots, SameGeneration, Facts, Types
<1>5. Frame(t, s)
  BY <1>0, <1>2, <1>3, <1>4 DEF Frame, OthersOf, Facts
<1>6. TypeOK'
  BY <1>2, <1>3, <1>4 DEF IInv, TypeOK
<1>7. TasksOK' /\ AllInformed' /\ Budget'
  <2>1. TaskOK(t)'
    BY <1>0, <1>1, <1>2, <1>3, <1>4 DEF TaskOK, SupervisorSteps
  <2>2. Informed(t)'
    BY <1>0, <1>1, <1>2, <1>3, <1>4 DEF Informed, Owning, Current, Facts
  <2>3. Spends(t)'
    <3>1. CASE task'[t].pc = "gone"
      BY <3>1 DEF Spends, Owning
    <3>2. CASE Current(t) /\ task'[t].pc = "retrying"
      <4>1. ~task[t].stable => unstable[s] <= task[t].attempt
        BY <1>0, <1>1, <3>2 DEF Facts, Spends, Owning
      <4>2. unstable[s] \in Int /\ task[t].attempt \in Int
        BY <1>0 DEF Facts, Types, Task
      <4>3. ~task'[t].stable => unstable'[s] < task'[t].attempt
        BY <1>2, <1>3, <3>2, <4>1, <4>2
      <4> QED
        BY <1>2, <3>2, <4>3 DEF Spends
    <3> QED
      BY <1>2, <3>1, <3>2
  <2> QED
    BY <1>0, <1>5, <2>1, <2>2, <2>3, OtherTasks DEF TasksOK, AllInformed, Budget
<1>8. Held'
  BY <1>0, <1>2, <1>3 DEF Held, Working, Facts, OthersOf
<1>9. Watchers'
  BY <1>0, <1>1, <1>2, <1>3, WatchersKept DEF Watchers, Facts, OthersOf, Owning
<1>10. ClosingOK'
  BY <1>0, <1>3, <1>4 DEF ClosingOK, Facts
<1>11. TunnelsOK'
  <2>1. ASSUME NEW u \in Tunnels
        PROVE  /\ Started(u)'
               /\ tunnel'[u] = "up" => tunnel[u] = "up" /\ task'[u].slot = task[u].slot /\ u # t
    BY <1>0, <1>1, <1>2, <1>3, StartedKept DEF OthersOf, Facts
  <2>2. ASSUME NEW u \in Tunnels, tunnel[u] = "up"
        PROVE  Serving(u)'
    <3>1. /\ u # t /\ task'[u] = task[u] /\ task[u].pc = "watching" /\ Current(u) /\ task[u].slot \in Slots
          /\ slots[task[u].slot].pid = u /\ slots[task[u].slot].port
          /\ slots[task[u].slot].state = "ready" /\ <<task[u].slot, task[u].generation>> \notin closing
      <4>1. Types /\ u \in Tasks /\ TaskOK(u) /\ Serving(u) /\ u # t
        BY <1>0, <1>1, <2>2 DEF Facts
      <4>2. task[u].slot \in Slots
        BY <2>2, <4>1, TaskPlace DEF Serving
      <4> QED
        BY <1>2, <2>2, <4>1, <4>2 DEF Serving, OthersOf
    <3>2. ~(Current(t) /\ task[u].slot = s)
      BY <1>0, <1>1, <3>1 DEF Facts, Watchers, Owning, Current
    <3>3. slots'[task[u].slot] = slots[task[u].slot]
      BY <1>2, <1>4, <3>1, <3>2
    <3> QED
      BY <1>3, <3>1, <3>3 DEF Serving, Current
  <2>3. ASSUME NEW u \in Tunnels
        PROVE  Serving(u)'
    BY <1>3, <2>2 DEF Serving
  <2>4. ASSUME NEW u \in Tunnels, NEW j \in Tasks
        PROVE  Undisturbed(u, j)'
    <3>1. CASE j = t
      BY <1>2, <3>1 DEF Undisturbed, Establishing
    <3>2. CASE j # t
      BY <1>0, <1>5, <2>1, <3>2, OthersUndisturbed
    <3> QED
      BY <3>1, <3>2
  <2> QED
    BY <2>1, <2>3, <2>4 DEF TunnelsOK
<1>12. Removed' /\ BudgetHolds'
  BY <1>0, <1>3, <1>4, RemovedKept DEF IInv, BudgetHolds
<1>13. Attends'
  <2>1. ASSUME NEW r \in Slots, r # s
        PROVE  AttendedAt(r)'
    BY <1>0, <1>1, <1>3, <1>5, <2>1, OthersAttend DEF Claims
  <2>2. Claims(t, s) => Claims(t, s)'
    BY <1>0, <1>1, <1>2, <1>4 DEF Claims, Attending, Finished, Current, SameGeneration
  <2>3. AttendedAt(s)'
    BY <1>0, <1>2, <1>3, <1>4, <2>2, AttendedKept DEF OthersOf, Facts
  <2> QED
    BY <2>1, <2>3 DEF Attends
<1> QED
  BY <1>6, <1>7, <1>8, <1>9, <1>10, <1>11, <1>12, <1>13 DEF IInv

LEMMA RetryKeeps ==
  ASSUME RemoteAssumption, IInv, NEW t \in Tunnels, Retry(t)
  PROVE  IInv'
<1>0. Facts /\ t \in Tasks /\ t \notin Callers /\ TaskOK(t)
  BY FactsHold DEF Facts
<1>1. PICK s \in Slots : s = task[t].slot /\ task[t].pc = "retrying"
  <2>1. task[t].pc = "retrying"
    BY DEF Retry
  <2> QED
    BY <1>0, <2>1, TaskPlace DEF Facts
<1>2. \/ Reaches(t, "gone") /\ Reported(s, t, "disconnected")
      \/ /\ Reaches(t, IF Current(t) THEN "backoff" ELSE "gone")
         /\ Reported(s, t, "reconnecting") /\ ~(task[t].attempt > MaxAttempts)
  BY <1>0, <1>1, RetryEffect DEF Facts
<1>3. UNCHANGED <<made, registered, connectLock, tunnel, closing, closes, forgetting, stopping,
                  unstable, late>>
  BY DEF Retry
<1>4. /\ task' \in [Tasks -> Task] /\ OthersOf(t) /\ task'[t].slot = s
      /\ task'[t].generation = task[t].generation /\ task'[t].own = task[t].own
      /\ task'[t].stable = task[t].stable /\ task'[t].attempt = task[t].attempt
      /\ task'[t].pc \in {"gone", "backoff"}
  BY <1>1, <1>2 DEF Reaches, Carries
<1>5. /\ slots' \in [Slots -> Slot] /\ \A r \in Slots : r # s => slots'[r] = slots[r]
      /\ SameGeneration(s) /\ slots'[s].forgotten = slots[s].forgotten
      /\ \A r \in Slots : slots'[r].generation = slots[r].generation
      /\ ~Current(t) => slots' = slots
  BY <1>0, <1>1, <1>2 DEF Reported, InState, OtherSlots, SameGeneration, Facts, Types, Current
<1>6. Frame(t, s)
  BY <1>0, <1>3, <1>4, <1>5 DEF Frame, OthersOf, Facts
<1>7. TypeOK'
  BY <1>3, <1>4, <1>5 DEF IInv, TypeOK
<1>8. TasksOK' /\ AllInformed' /\ Budget'
  <2>1. task'[t].pc = "backoff" => task[t].attempt <= MaxAttempts
    <3>1. task[t].attempt \in Int /\ MaxAttempts \in Int
      BY <1>0 DEF Facts, Types, Task, RemoteAssumption
    <3> QED
      BY <1>2, <3>1 DEF Reaches
  <2>2. TaskOK(t)'
    BY <1>0, <1>1, <1>3, <1>4, <1>5, <2>1 DEF TaskOK, SupervisorSteps
  <2>3. Informed(t)'
    BY <1>0, <1>1, <1>3, <1>4, <1>5 DEF Informed, Owning, Current, Facts
  <2>4. Spends(t)'
    BY <1>0, <1>1, <1>3, <1>4, <1>5 DEF Spends, Owning, Spending, Current, Facts
  <2> QED
    BY <1>0, <1>6, <2>2, <2>3, <2>4, OtherTasks DEF TasksOK, AllInformed, Budget
<1>9. Held'
  BY <1>0, <1>3, <1>4 DEF Held, Working, Facts, OthersOf
<1>10. Watchers'
  BY <1>0, <1>1, <1>3, <1>4, WatchersKept DEF Watchers, Facts, OthersOf, Owning
<1>11. ClosingOK'
  BY <1>0, <1>3, <1>5 DEF ClosingOK, Facts
<1>12. TunnelsOK'
  <2>1. ASSUME NEW u \in Tunnels
        PROVE  /\ Started(u)'
               /\ tunnel'[u] = "up" => /\ tunnel[u] = "up" /\ task'[u].slot = task[u].slot /\ u # t
                                       /\ task[u].slot = s => ~Current(t)
    <3>1. tunnel[u] = "up" => u # t /\ (task[u].slot = s => ~Current(t))
      BY <1>0, <1>1, OneOwner
    <3> QED
      BY <1>0, <1>1, <1>3, <1>4, <3>1, StartedKept DEF OthersOf, Facts
  <2>2. ASSUME NEW u \in Tunnels
        PROVE  Serving(u)'
    <3>1. CASE tunnel'[u] = "up"
      BY <1>0, <1>3, <1>5, <1>6, <2>1, <3>1, OthersServe
    <3> QED
      BY <3>1 DEF Serving
  <2>3. ASSUME NEW u \in Tunnels, NEW j \in Tasks
        PROVE  Undisturbed(u, j)'
    <3>1. CASE j = t
      BY <1>4, <3>1 DEF Undisturbed, Establishing
    <3>2. CASE j # t
      BY <1>0, <1>6, <2>1, <3>2, OthersUndisturbed
    <3> QED
      BY <3>1, <3>2
  <2> QED
    BY <2>1, <2>2, <2>3 DEF TunnelsOK
<1>13. Removed' /\ BudgetHolds'
  BY <1>0, <1>3, <1>5, RemovedKept DEF IInv, BudgetHolds
<1>14. Attends'
  <2>1. ASSUME NEW r \in Slots, r # s
        PROVE  AttendedAt(r)'
    BY <1>0, <1>1, <1>3, <1>6, <2>1, OthersAttend DEF Claims
  <2>2. AttendedAt(s)'
    <3>1. CASE ~Current(t)
      <4>1. ~Claims(t, s)
        BY <1>0, <1>1, <3>1 DEF Claims, Attending
      <4> QED
        BY <1>0, <1>3, <1>4, <1>5, <3>1, <4>1, AttendedKept DEF OthersOf, Facts
    <3>2. CASE Current(t) /\ task'[t].pc = "backoff"
      <4>1. Claims(t, s)'
        BY <1>1, <1>4, <1>5, <3>2 DEF Claims, Attending, Finished, Current, SameGeneration
      <4> QED
        BY <1>0, <4>1 DEF AttendedAt
    <3>3. CASE Current(t) /\ task'[t].pc = "gone"
      <4>1. slots'[s].state = "disconnected"
        BY <1>1, <1>2, <3>3 DEF Reaches, Reported, InState, Current
      <4> QED
        BY <4>1 DEF AttendedAt, Active
    <3> QED
      BY <1>4, <3>1, <3>2, <3>3
  <2> QED
    BY <2>1, <2>2 DEF Attends
<1> QED
  BY <1>7, <1>8, <1>9, <1>10, <1>11, <1>12, <1>13, <1>14 DEF IInv

LEMMA ResumeKeeps ==
  ASSUME RemoteAssumption, IInv, NEW t \in Tunnels, Resume(t)
  PROVE  IInv'
<1>0. Facts /\ t \in Tasks /\ t \notin Callers /\ TaskOK(t) /\ 0 \notin Slots
  BY FactsHold DEF Facts, Slots
<1>1. PICK s \in Slots : s = task[t].slot /\ task[t].pc = "backoff"
  <2>1. task[t].pc = "backoff"
    BY DEF Resume
  <2> QED
    BY <1>0, <2>1, TaskPlace DEF Facts
<1>2. /\ connectLock[s] = NoTask
      /\ \/ Current(t) /\ Reaches(t, "establishing") /\ Locks(s, t)
         \/ ~Current(t) /\ Reaches(t, "gone") /\ UNCHANGED connectLock
  BY <1>0, <1>1, ResumeEffect DEF Facts
<1>3. UNCHANGED <<slots, made, registered, tunnel, closing, closes, forgetting, stopping, unstable, late>>
  BY DEF Resume
<1>4. /\ task' \in [Tasks -> Task] /\ OthersOf(t) /\ task'[t].slot = s
      /\ task'[t].generation = task[t].generation /\ task'[t].own = task[t].own
      /\ task'[t].stable = task[t].stable /\ task'[t].attempt = task[t].attempt
      /\ task'[t].pc = IF Current(t) THEN "establishing" ELSE "gone"
  BY <1>1, <1>2 DEF Reaches, Carries
<1>5. Frame(t, 0)
  BY <1>0, <1>3, <1>4 DEF Frame, OthersOf, Facts
<1>6. TypeOK'
  <2>1. connectLock' \in [Slots -> Tasks \cup {NoTask, Stopper}]
    BY <1>0, <1>2 DEF Locks, Facts, Types
  <2> QED
    BY <1>3, <1>4, <2>1 DEF IInv, TypeOK
<1>7. TasksOK' /\ AllInformed' /\ Budget'
  <2>1. TaskOK(t)'
    BY <1>0, <1>1, <1>3, <1>4 DEF TaskOK, SupervisorSteps
  <2>2. Informed(t)'
    BY <1>0, <1>1, <1>3, <1>4 DEF Informed, Owning, Current, Facts
  <2>3. Spends(t)'
    BY <1>0, <1>1, <1>3, <1>4 DEF Spends, Owning, Spending, Current, Facts
  <2> QED
    BY <1>0, <1>5, <2>1, <2>2, <2>3, OtherTasks DEF TasksOK, AllInformed, Budget
<1>8. Held'
  <2>1. ASSUME NEW j \in Tasks, task'[j].pc \in Working
        PROVE  connectLock'[task'[j].slot] = j
    <3>1. CASE j = t
      BY <1>2, <1>4, <2>1, <3>1 DEF Working, Locks
    <3>2. CASE j # t
      <4>1. task'[j] = task[j] /\ connectLock[task[j].slot] = j /\ task[j].slot \in Slots
        BY <1>0, <1>4, <2>1, <3>2, TaskPlace DEF Held, Working, Facts, OthersOf
      <4>2. task[j].slot # s
        BY <1>0, <1>2, <4>1 DEF Facts
      <4> QED
        BY <1>2, <4>1, <4>2 DEF Locks
    <3> QED
      BY <3>1, <3>2
  <2>2. stopping.pc = "asking" => connectLock'[stopping.slot] = Stopper
    BY <1>0, <1>2 DEF Held, Facts, Locks
  <2> QED
    BY <1>0, <1>3, <2>1, <2>2 DEF Held, Facts
<1>9. Watchers'
  BY <1>0, <1>1, <1>3, <1>4, WatchersKept DEF Watchers, Facts, OthersOf, Owning
<1>10. ClosingOK'
  BY <1>0, <1>3 DEF ClosingOK, Facts
<1>11. TunnelsOK'
  <2>1. ASSUME NEW u \in Tunnels
        PROVE  Started(u)'
    <3>1. ASSUME NEW j \in Tasks, task[j].own = u, connectLock[task[j].slot] = j
          PROVE  task'[j].own = u /\ connectLock'[task'[j].slot] = j
      <4>1. j # t /\ task[j].pc = "starting"
        BY <1>0, <1>1, <3>1 DEF Facts, TaskOK, Tunnels
      <4>2. task'[j] = task[j] /\ task'[j].pc \in Working
        BY <1>4, <4>1 DEF Working, OthersOf
      <4> QED
        BY <1>8, <3>1, <4>2 DEF Held
    <3> QED
      BY <1>0, <1>3, <3>1, StartedKept DEF Facts
  <2>2. ASSUME NEW u \in Tunnels, tunnel[u] = "up"
        PROVE  task'[u] = task[u] /\ u # t /\ (task[u].slot = s => ~Current(t))
    BY <1>0, <1>1, <1>4, <2>2, OneOwner DEF OthersOf
  <2>3. ASSUME NEW u \in Tunnels
        PROVE  Serving(u)'
    <3>1. CASE tunnel'[u] = "up"
      BY <1>0, <1>3, <1>5, <2>2, <3>1, OthersServe
    <3> QED
      BY <3>1 DEF Serving
  <2>4. ASSUME NEW u \in Tunnels, NEW j \in Tasks
        PROVE  Undisturbed(u, j)'
    <3>1. CASE j = t
      BY <1>3, <1>4, <2>2, <3>1 DEF Undisturbed, Establishing
    <3>2. CASE j # t
      <4>1. tunnel'[u] = "up" => tunnel[u] = "up" /\ task'[u].slot = task[u].slot
        BY <1>3, <2>2
      <4> QED
        BY <1>0, <1>5, <3>2, <4>1, OthersUndisturbed
    <3> QED
      BY <3>1, <3>2
  <2> QED
    BY <2>1, <2>3, <2>4 DEF TunnelsOK
<1>12. Removed' /\ BudgetHolds'
  BY <1>0, <1>3, RemovedKept DEF IInv, BudgetHolds
<1>13. Attends'
  <2>1. \A r \in Slots : Claims(t, r) => Claims(t, r)'
    BY <1>0, <1>1, <1>3, <1>4 DEF Claims, Attending, Finished, Current
  <2> QED
    BY <1>0, <1>3, <1>5, <2>1, OthersAttend DEF Attends
<1> QED
  BY <1>6, <1>7, <1>8, <1>9, <1>10, <1>11, <1>12, <1>13 DEF IInv

\* The tunnel of a slot is dropped and its generation with it.
LEMMA ClosedKeeps ==
  ASSUME RemoteAssumption, IInv, NEW expected, Closed(expected),
         UNCHANGED <<made, registered, task, forgetting, unstable, late>>
  PROVE  /\ slots' \in [Slots -> Slot] /\ tunnel' \in [Tunnels -> {"none", "starting", "up", "dead"}]
         /\ closing' \subseteq Slots \X Generations
         /\ TasksOK' /\ Watchers' /\ ClosingOK' /\ Removed' /\ AllInformed' /\ Budget' /\ BudgetHolds'
         /\ \A t \in Tunnels : tunnel'[t] = "starting" => tunnel[t] = "starting"
         /\ \A t \in Tunnels : Serving(t)'
         /\ \A t \in Tunnels, k \in Tasks : Undisturbed(t, k)'
         /\ Attends'
<1>0. Facts /\ NoTask \notin Tasks
  BY FactsHold DEF Facts
<1>1. PICK s \in Slots :
        /\ s = registered /\ Superseded(s) /\ Kills(s)
        /\ closing' = closing \cup {<<s, slots[s].generation + 1>>}
  BY <1>0, ClosedEffect DEF Facts
<1>2. /\ slots' \in [Slots -> Slot] /\ \A r \in Slots : r # s => slots'[r] = slots[r]
      /\ slots'[s].forgotten = slots[s].forgotten /\ slots'[s].state = slots[s].state
      /\ slots'[s].generation = slots[s].generation + 1 /\ slots[s].generation \in Nat
      /\ Grown(s)
  BY <1>0, <1>1 DEF Superseded, OtherSlots, Facts, Grown
<1>3. Frame(NoTask, s)
  BY <1>0, <1>2 DEF Frame, Facts
<1>4. tunnel' \in [Tunnels -> {"none", "starting", "up", "dead"}]
  BY <1>1 DEF Kills
<1>5. \A t \in Tunnels : t \in Tasks /\ t # NoTask /\ tunnel'[t] \in {"dead", tunnel[t]}
  BY <1>0, <1>1 DEF Facts, Kills
<1>6. closing' \subseteq Slots \X Generations
  BY <1>1, <1>2 DEF IInv, TypeOK, Generations
<1>7. TasksOK' /\ AllInformed' /\ Budget' /\ BudgetHolds'
  BY <1>0, <1>3, <1>5, OtherTasks DEF TasksOK, AllInformed, Budget, BudgetHolds, IInv
<1>8. Watchers'
  BY <1>0, <1>5 DEF Watchers, Facts
<1>9. ClosingOK'
  <2>1. \A d \in closing : d[1] \in Slots /\ d[2] \in Nat /\ d[2] <= slots[d[1]].generation
    BY <1>0 DEF ClosingOK, Facts, IInv, TypeOK, Generations
  <2>2. \A r \in Slots : /\ slots'[r].generation \in Nat /\ slots[r].generation \in Nat
                         /\ slots'[r].generation >= slots[r].generation
    BY <1>0, <1>2 DEF Facts
  <2> QED
    BY <1>1, <1>2, <2>1, <2>2 DEF ClosingOK
<1>10. ASSUME NEW t \in Tunnels
       PROVE  tunnel'[t] = "up" => tunnel[t] = "up" /\ task[t].slot # s
  <2>1. tunnel[t] = "up" /\ task[t].slot = s => slots[s].pid = t
    BY <1>0 DEF Facts, Serving
  <2> QED
    BY <1>1, <1>5, <2>1 DEF Kills
<1>11. ASSUME NEW t \in Tunnels
       PROVE  Serving(t)'
  <2>1. CASE tunnel'[t] = "up"
    <3>1. \A d \in closing' : d \in closing \/ d[1] # task[t].slot
      BY <1>1, <1>10, <2>1
    <3> QED
      BY <1>0, <1>3, <1>5, <1>10, <2>1, <3>1, OthersServe
  <2> QED
    BY <2>1 DEF Serving
<1>12. ASSUME NEW t \in Tunnels, NEW k \in Tasks
       PROVE  Undisturbed(t, k)'
  BY <1>0, <1>3, <1>10, OthersUndisturbed
<1>13. Removed'
  BY <1>0, <1>2, RemovedKept
<1>14. Attends'
  <2>1. AttendedAt(s)'
    BY <1>1, <1>2 DEF AttendedAt
  <2>2. ASSUME NEW r \in Slots, r # s
        PROVE  AttendedAt(r)'
    BY <1>0, <1>1, <1>3, <2>2, OthersAttend
  <2> QED
    BY <2>1, <2>2 DEF Attends
<1> QED
  BY <1>2, <1>4, <1>5, <1>6, <1>7, <1>8, <1>9, <1>11, <1>12, <1>13, <1>14

LEMMA DisconnectKeeps ==
  ASSUME RemoteAssumption, IInv, NEW expected \in Known, Disconnect(expected)
  PROVE  IInv'
<1>1. /\ closes < MaxCloses /\ closes' = closes + 1 /\ Closed(expected)
      /\ UNCHANGED <<made, registered, connectLock, task, forgetting, stopping, unstable, late>>
  BY DEF Disconnect
<1>2. /\ slots' \in [Slots -> Slot] /\ tunnel' \in [Tunnels -> {"none", "starting", "up", "dead"}]
      /\ closing' \subseteq Slots \X Generations
      /\ TasksOK' /\ Watchers' /\ ClosingOK' /\ Removed' /\ AllInformed' /\ Budget' /\ BudgetHolds'
      /\ \A t \in Tunnels : tunnel'[t] = "starting" => tunnel[t] = "starting"
      /\ \A t \in Tunnels : Serving(t)'
      /\ \A t \in Tunnels, k \in Tasks : Undisturbed(t, k)'
      /\ Attends'
  BY <1>1, ClosedKeeps
<1>3. TypeOK'
  <2>1. closes' \in 0..MaxCloses
    BY <1>1 DEF IInv, TypeOK, RemoteAssumption
  <2> QED
    BY <1>1, <1>2, <2>1 DEF IInv, TypeOK
<1>4. Held'
  BY <1>1 DEF IInv, Held
<1>5. TunnelsOK'
  <2>1. ASSUME NEW t \in Tunnels
        PROVE  Started(t)'
    BY <1>1, <1>2 DEF IInv, TunnelsOK, Started
  <2> QED
    BY <1>2, <2>1 DEF TunnelsOK
<1> QED
  BY <1>2, <1>3, <1>4, <1>5 DEF IInv

LEMMA PublishDisconnectedKeeps ==
  ASSUME RemoteAssumption, IInv, NEW d \in closing, PublishDisconnected(d)
  PROVE  IInv'
<1>0. Facts /\ NoTask \notin Tasks
  BY FactsHold DEF Facts
<1>1. PICK s \in Slots, g \in Nat : d = <<s, g>> /\ d[1] = s /\ d[2] = g
  BY DEF IInv, TypeOK, Generations
<1>2. /\ closing' = closing \ {<<s, g>>}
      /\ UNCHANGED <<made, registered, connectLock, tunnel, task, closes, forgetting, stopping,
                     unstable, late>>
      /\ IF slots[s].generation = g THEN InState(s, "disconnected") ELSE UNCHANGED slots
  BY <1>0, <1>1, PublishEffect DEF PublishDisconnected, Facts
<1>3. /\ slots' \in [Slots -> Slot] /\ \A r \in Slots : r # s => slots'[r] = slots[r]
      /\ SameGeneration(s) /\ slots'[s].forgotten = slots[s].forgotten
      /\ slots'[s] = slots[s] \/ (slots[s].generation = g /\ slots'[s].state = "disconnected")
      /\ \A r \in Slots : slots'[r].generation = slots[r].generation
  BY <1>0, <1>2 DEF InState, OtherSlots, SameGeneration, Facts, Types
<1>4. Frame(NoTask, s)
  BY <1>0, <1>2, <1>3 DEF Frame, Facts
<1>5. TypeOK'
  BY <1>2, <1>3 DEF IInv, TypeOK
<1>6. TasksOK' /\ AllInformed' /\ Budget' /\ BudgetHolds'
  <2>1. \A t \in Tunnels : t # NoTask
    BY <1>0 DEF Facts
  <2> QED
    BY <1>0, <1>2, <1>4, <2>1, OtherTasks DEF TasksOK, AllInformed, Budget, BudgetHolds, IInv
<1>7. Held' /\ Watchers'
  BY <1>2 DEF IInv, Held, Watchers
<1>8. ClosingOK'
  BY <1>0, <1>2, <1>3 DEF ClosingOK, Facts
<1>9. TunnelsOK'
  <2>1. ASSUME NEW t \in Tunnels
        PROVE  Started(t)'
    BY <1>2 DEF IInv, TunnelsOK, Started
  <2>2. ASSUME NEW t \in Tunnels
        PROVE  Serving(t)'
    <3>1. tunnel[t] = "up" /\ task[t].slot = s => slots[s].generation # g
      <4>1. <<s, g>> \in closing
        BY <1>1
      <4>2. tunnel[t] = "up" => /\ slots[task[t].slot].generation = task[t].generation
                               /\ <<task[t].slot, task[t].generation>> \notin closing
        BY <1>0 DEF Facts, Serving, Current
      <4> QED
        BY <4>1, <4>2
    <3>2. t # NoTask /\ \A e \in closing' : e \in closing
      BY <1>0, <1>2 DEF Facts
    <3> QED
      BY <1>0, <1>2, <1>3, <1>4, <3>1, <3>2, OthersServe
  <2>3. ASSUME NEW t \in Tunnels, NEW k \in Tasks
        PROVE  Undisturbed(t, k)'
    BY <1>0, <1>2, <1>4, OthersUndisturbed
  <2> QED
    BY <2>1, <2>2, <2>3 DEF TunnelsOK
<1>10. Removed'
  BY <1>0, <1>2, <1>3, RemovedKept
<1>11. Attends'
  <2>1. AttendedAt(s)'
    <3>1. CASE slots[s].generation = g
      BY <1>2, <3>1 DEF InState, AttendedAt, Active
    <3>2. CASE slots[s].generation # g
      <4>1. <<s, slots[s].generation>> \in closing => <<s, slots[s].generation>> \in closing'
        BY <1>2, <3>2
      <4> QED
        BY <1>0, <1>2, <1>3, <3>2, <4>1, AttendedKept DEF Facts
    <3> QED
      BY <3>1, <3>2
  <2>2. ASSUME NEW r \in Slots, r # s
        PROVE  AttendedAt(r)'
    <3>1. \A e \in closing : e[1] = r => e \in closing'
      BY <1>2, <2>2
    <3> QED
      BY <1>0, <1>4, <2>2, <3>1, OthersAttend
  <2> QED
    BY <2>1, <2>2 DEF Attends
<1> QED
  BY <1>5, <1>6, <1>7, <1>8, <1>9, <1>10, <1>11 DEF IInv

LEMMA ForgetKeeps ==
  ASSUME RemoteAssumption, IInv, Forget
  PROVE  IInv'
<1>0. Facts /\ NoTask \notin Tasks
  BY FactsHold DEF Facts
<1>1. PICK s \in Slots :
        /\ s = registered /\ OtherSlots(s)
        /\ slots[s].state \in {"disconnected", "failed"}
        /\ slots'[s].state = slots[s].state /\ slots'[s].forgotten
        /\ slots'[s].generation = slots[s].generation + 1
  BY <1>0, ForgetEffect DEF Facts
<1>2. /\ forgetting' = s
      /\ UNCHANGED <<made, registered, connectLock, tunnel, task, closing, closes, stopping,
                     unstable, late>>
  BY <1>1 DEF Forget
<1>3. /\ slots' \in [Slots -> Slot] /\ \A r \in Slots : r # s => slots'[r] = slots[r]
      /\ slots[s].generation \in Nat /\ Grown(s)
  BY <1>0, <1>1 DEF OtherSlots, Facts, Grown
<1>4. Frame(NoTask, s)
  BY <1>0, <1>2, <1>3 DEF Frame, Facts
<1>5. TypeOK'
  BY <1>0, <1>1, <1>2, <1>3 DEF IInv, TypeOK, Facts
<1>6. TasksOK' /\ AllInformed' /\ Budget' /\ BudgetHolds'
  <2>1. \A t \in Tunnels : t # NoTask
    BY <1>0 DEF Facts
  <2> QED
    BY <1>0, <1>2, <1>4, <2>1, OtherTasks DEF TasksOK, AllInformed, Budget, BudgetHolds, IInv
<1>7. Held' /\ Watchers'
  BY <1>2 DEF IInv, Held, Watchers
<1>8. ClosingOK'
  <2>1. \A e \in closing : e[1] \in Slots /\ e[2] \in Nat /\ e[2] <= slots[e[1]].generation
    BY <1>0 DEF ClosingOK, Facts, IInv, TypeOK, Generations
  <2>2. \A r \in Slots : /\ slots'[r].generation \in Nat /\ slots[r].generation \in Nat
                         /\ slots'[r].generation >= slots[r].generation
    BY <1>0, <1>1, <1>3 DEF Facts
  <2> QED
    BY <1>2, <2>1, <2>2 DEF ClosingOK
<1>9. TunnelsOK'
  <2>1. ASSUME NEW t \in Tunnels
        PROVE  Started(t)'
    BY <1>2 DEF IInv, TunnelsOK, Started
  <2>2. ASSUME NEW t \in Tunnels
        PROVE  Serving(t)'
    <3>1. tunnel[t] = "up" => task[t].slot # s
      BY <1>0, <1>1 DEF Facts, Serving
    <3>2. t # NoTask
      BY <1>0 DEF Facts
    <3> QED
      BY <1>0, <1>2, <1>4, <3>1, <3>2, OthersServe
  <2>3. ASSUME NEW t \in Tunnels, NEW k \in Tasks
        PROVE  Undisturbed(t, k)'
    BY <1>0, <1>2, <1>4, OthersUndisturbed
  <2> QED
    BY <2>1, <2>2, <2>3 DEF TunnelsOK
<1>10. Removed'
  <2>1. \A r \in 1..made : r \in Slots
    BY <1>0 DEF Facts, Slots
  <2> QED
    BY <1>0, <1>1, <1>2, <1>3, <2>1 DEF Removed, Facts
<1>11. Attends'
  <2>1. AttendedAt(s)'
    BY <1>1 DEF AttendedAt, Active
  <2>2. ASSUME NEW r \in Slots, r # s
        PROVE  AttendedAt(r)'
    BY <1>0, <1>2, <1>4, <2>2, OthersAttend
  <2> QED
    BY <2>1, <2>2 DEF Attends
<1> QED
  BY <1>5, <1>6, <1>7, <1>8, <1>9, <1>10, <1>11 DEF IInv


\* A step that is neither of a task nor of a slot: at most a lock no task has changes.
LEMMA QuietKeeps ==
  ASSUME RemoteAssumption, IInv, UNCHANGED <<slots, tunnel, task, closing, unstable, late>>,
         made' \in Nat, made' >= made,
         \A s \in Slots : connectLock[s] \in Tasks => connectLock'[s] = connectLock[s]
  PROVE  /\ TasksOK' /\ Watchers' /\ ClosingOK' /\ TunnelsOK' /\ AllInformed'
         /\ Budget' /\ BudgetHolds' /\ Attends'
         /\ \A k \in Tasks : task'[k].pc \in Working => connectLock'[task'[k].slot] = k
<1>0. Facts /\ NoTask \notin Tasks /\ 0 \notin Slots /\ \A t \in Tunnels : t # NoTask
  BY FactsHold DEF Facts, Slots
<1>1. Frame(NoTask, 0)
  BY <1>0 DEF Frame
<1>2. TasksOK' /\ AllInformed' /\ Budget' /\ BudgetHolds'
  BY <1>0, <1>1, OtherTasks DEF TasksOK, AllInformed, Budget, BudgetHolds, IInv
<1>3. Watchers' /\ ClosingOK' /\ Attends'
  BY DEF IInv, Watchers, ClosingOK, Attends, AttendedAt, Claims, Attending, Current
<1>4. ASSUME NEW k \in Tasks, task[k].pc # "idle", connectLock[task[k].slot] = k
      PROVE  connectLock'[task[k].slot] = k
  BY <1>0, <1>4, TaskPlace DEF Facts
<1>5. \A k \in Tasks : task'[k].pc \in Working => connectLock'[task'[k].slot] = k
  BY <1>0, <1>4 DEF Facts, Held, Working
<1>6. TunnelsOK'
  <2>1. ASSUME NEW t \in Tunnels
        PROVE  Started(t)'
    <3>1. ASSUME NEW k \in Tasks, task[k].own = t
          PROVE  task[k].pc # "idle"
      BY <1>0, <3>1 DEF Facts, TaskOK, Tunnels
    <3> QED
      BY <1>0, <1>4, <3>1, StartedKept DEF Facts
  <2>2. ASSUME NEW t \in Tunnels
        PROVE  Serving(t)'
    BY <1>0, <1>1, OthersServe
  <2>3. ASSUME NEW t \in Tunnels, NEW k \in Tasks
        PROVE  Undisturbed(t, k)'
    BY <1>0, <1>1, OthersUndisturbed
  <2> QED
    BY <2>1, <2>2, <2>3 DEF TunnelsOK
<1> QED
  BY <1>2, <1>3, <1>5, <1>6

LEMMA ShutdownKeeps ==
  ASSUME RemoteAssumption, IInv, NEW expected \in Known, Shutdown(expected)
  PROVE  IInv'
<1>0. Facts
  BY FactsHold
<1>1. /\ registered' \in Slots /\ made' \in 0..MaxSlots /\ registered' \in 0..made'
      /\ SlotUsed = registered'
      /\ \/ registered = 0 /\ made' = made + 1 /\ registered' = made + 1
         \/ registered # 0 /\ made' = made /\ registered' = registered
  BY <1>0, SlotMadeEffect DEF Shutdown, Facts
<1>2. /\ closes < MaxCloses /\ closes' = closes + 1
      /\ stopping' = [pc |-> "waiting", slot |-> registered', expected |-> expected]
      /\ UNCHANGED <<slots, connectLock, tunnel, task, closing, forgetting, unstable, late>>
  BY <1>1 DEF Shutdown
<1>3. made' \in Nat /\ made' >= made
  BY <1>0, <1>1 DEF Facts
<1>4. /\ TasksOK' /\ Watchers' /\ ClosingOK' /\ TunnelsOK' /\ AllInformed'
      /\ Budget' /\ BudgetHolds' /\ Attends'
      /\ \A k \in Tasks : task'[k].pc \in Working => connectLock'[task'[k].slot] = k
  BY <1>2, <1>3, QuietKeeps
<1>5. TypeOK'
  <2>1. expected \in Generations \cup {NoGeneration}
    BY DEF IInv, TypeOK, Known, Task
  <2>2. closes' \in 0..MaxCloses /\ forgetting' \in 0..made'
    BY <1>0, <1>2, <1>3 DEF IInv, TypeOK, RemoteAssumption, Facts
  <2>3. stopping' \in [pc : {"idle", "waiting", "asking"}, slot : 0..made',
                       expected : Generations \cup {NoGeneration}]
    BY <1>1, <1>2, <2>1
  <2> QED
    BY <1>1, <1>2, <2>2, <2>3 DEF IInv, TypeOK
<1>6. Held'
  BY <1>1, <1>2, <1>4 DEF Held
<1>7. Removed'
  <2>1. \A r \in 1..made' : r # registered' => r \in 1..made /\ r # registered
    BY <1>0, <1>1 DEF Facts
  <2> QED
    BY <1>0, <1>2, <2>1 DEF Facts, Removed
<1> QED
  BY <1>4, <1>5, <1>6, <1>7 DEF IInv

LEMMA ShutdownAdmittedKeeps ==
  ASSUME RemoteAssumption, IInv, ShutdownAdmitted
  PROVE  IInv'
<1>0. Facts
  BY FactsHold
<1>1. PICK s \in Slots : s = stopping.slot
  BY <1>0 DEF Facts, Held, ShutdownAdmitted
<1>2. /\ connectLock[s] = NoTask
      /\ UNCHANGED <<slots, made, registered, tunnel, task, closing, closes, forgetting, unstable, late>>
      /\ \/ stopping' = [stopping EXCEPT !.pc = "asking"] /\ Locks(s, Stopper)
         \/ stopping' = NotStopping /\ UNCHANGED connectLock
  BY <1>0, <1>1, LockEffect DEF ShutdownAdmitted, Free, Locked, Facts
<1>3. /\ TasksOK' /\ Watchers' /\ ClosingOK' /\ TunnelsOK' /\ AllInformed'
      /\ Budget' /\ BudgetHolds' /\ Attends'
      /\ \A k \in Tasks : task'[k].pc \in Working => connectLock'[task'[k].slot] = k
  <2>1. \A r \in Slots : connectLock[r] \in Tasks => connectLock'[r] = connectLock[r]
    BY <1>0, <1>2 DEF Locks, Facts
  <2>2. made' \in Nat /\ made' >= made
    BY <1>0, <1>2 DEF Facts
  <2> QED
    BY <1>2, <2>1, <2>2, QuietKeeps
<1>4. TypeOK' /\ Held'
  <2>1. CASE stopping' = [stopping EXCEPT !.pc = "asking"] /\ Locks(s, Stopper)
    <3>1. /\ stopping' \in [pc : {"idle", "waiting", "asking"}, slot : 0..made,
                            expected : Generations \cup {NoGeneration}]
          /\ stopping'.slot = s
      BY <1>1, <2>1 DEF IInv, TypeOK
    <3> QED
      BY <1>2, <1>3, <2>1, <3>1 DEF IInv, TypeOK, Locks, Held
  <2>2. CASE stopping' = NotStopping /\ UNCHANGED connectLock
    <3>1. /\ stopping' \in [pc : {"idle", "waiting", "asking"}, slot : 0..made,
                            expected : Generations \cup {NoGeneration}]
          /\ stopping'.pc = "idle"
      BY <1>0, <2>2 DEF NotStopping, Facts
    <3> QED
      BY <1>2, <1>3, <2>2, <3>1 DEF IInv, TypeOK, Held
  <2> QED
    BY <1>2, <2>1, <2>2
<1>5. Removed'
  BY <1>2 DEF IInv, Removed
<1> QED
  BY <1>3, <1>4, <1>5 DEF IInv

\* The lock of a shutdown that ends is free again.
LEMMA StopperLeaves ==
  ASSUME RemoteAssumption, IInv, stopping.pc = "asking", stopping' = NotStopping,
         connectLock' = Unlocked(stopping.slot)
  PROVE  /\ connectLock' \in [Slots -> Tasks \cup {NoTask, Stopper}]
         /\ stopping'.pc = "idle"
         /\ stopping' \in [pc : {"idle", "waiting", "asking"}, slot : 0..made,
                           expected : Generations \cup {NoGeneration}]
         /\ \A s \in Slots : connectLock[s] \in Tasks => connectLock'[s] = connectLock[s]
<1>0. Facts
  BY FactsHold
<1>1. PICK s \in Slots : s = stopping.slot /\ connectLock[s] = Stopper
  BY <1>0 DEF Facts, Held
<1>2. Locks(s, NoTask)
  BY <1>0, <1>1, LockEffect DEF Unlocked, Facts
<1>3. /\ connectLock' \in [Slots -> Tasks \cup {NoTask, Stopper}]
      /\ \A r \in Slots : connectLock[r] \in Tasks => connectLock'[r] = connectLock[r]
  BY <1>0, <1>1, <1>2 DEF Locks, Facts
<1> QED
  BY <1>0, <1>3 DEF NotStopping, Facts

LEMMA ShutdownFailsKeeps ==
  ASSUME RemoteAssumption, IInv, stopping.pc = "asking", stopping' = NotStopping,
         connectLock' = Unlocked(stopping.slot),
         UNCHANGED <<slots, made, registered, tunnel, task, closing, closes, forgetting, unstable, late>>
  PROVE  IInv'
<1>0. Facts
  BY FactsHold
<1>1. /\ connectLock' \in [Slots -> Tasks \cup {NoTask, Stopper}]
      /\ stopping'.pc = "idle"
      /\ stopping' \in [pc : {"idle", "waiting", "asking"}, slot : 0..made,
                        expected : Generations \cup {NoGeneration}]
      /\ \A s \in Slots : connectLock[s] \in Tasks => connectLock'[s] = connectLock[s]
  BY StopperLeaves
<1>2. made' \in Nat /\ made' >= made
  BY <1>0 DEF Facts
<1>3. /\ TasksOK' /\ Watchers' /\ ClosingOK' /\ TunnelsOK' /\ AllInformed'
      /\ Budget' /\ BudgetHolds' /\ Attends'
      /\ \A k \in Tasks : task'[k].pc \in Working => connectLock'[task'[k].slot] = k
  BY <1>1, <1>2, QuietKeeps
<1>4. TypeOK' /\ Held' /\ Removed'
  BY <1>1, <1>3 DEF IInv, TypeOK, Held, Removed
<1> QED
  BY <1>3, <1>4 DEF IInv

LEMMA DaemonStoppedKeeps ==
  ASSUME RemoteAssumption, IInv, DaemonStopped
  PROVE  IInv'
<1>0. Facts
  BY FactsHold
<1>1. /\ stopping.pc = "asking" /\ stopping' = NotStopping
      /\ connectLock' = Unlocked(stopping.slot)
      /\ UNCHANGED <<made, registered, task, closes, forgetting, unstable, late>>
  BY DEF DaemonStopped
<1>2. CASE Closed(stopping.expected)
  <2>1. /\ slots' \in [Slots -> Slot] /\ tunnel' \in [Tunnels -> {"none", "starting", "up", "dead"}]
        /\ closing' \subseteq Slots \X Generations
        /\ TasksOK' /\ Watchers' /\ ClosingOK' /\ Removed' /\ AllInformed' /\ Budget' /\ BudgetHolds'
        /\ \A t \in Tunnels : tunnel'[t] = "starting" => tunnel[t] = "starting"
        /\ \A t \in Tunnels : Serving(t)'
        /\ \A t \in Tunnels, k \in Tasks : Undisturbed(t, k)'
        /\ Attends'
    BY <1>1, <1>2, ClosedKeeps
  <2>2. /\ connectLock' \in [Slots -> Tasks \cup {NoTask, Stopper}]
        /\ stopping'.pc = "idle"
        /\ stopping' \in [pc : {"idle", "waiting", "asking"}, slot : 0..made,
                          expected : Generations \cup {NoGeneration}]
        /\ \A s \in Slots : connectLock[s] \in Tasks => connectLock'[s] = connectLock[s]
    BY <1>1, StopperLeaves
  <2>3. TypeOK'
    BY <1>1, <2>1, <2>2 DEF IInv, TypeOK
  <2>4. ASSUME NEW k \in Tasks, task[k].pc # "idle", connectLock[task[k].slot] = k
        PROVE  connectLock'[task[k].slot] = k
    BY <1>0, <2>2, <2>4, TaskPlace DEF Facts
  <2>5. Held'
    BY <1>0, <1>1, <2>2, <2>4 DEF Facts, Held, Working
  <2>6. ASSUME NEW t \in Tunnels
        PROVE  Started(t)'
    <3>1. ASSUME NEW k \in Tasks, task[k].own = t
          PROVE  task[k].pc # "idle"
      BY <1>0, <3>1 DEF Facts, TaskOK, Tunnels
    <3> QED
      BY <1>0, <1>1, <2>1, <2>4, <3>1, StartedKept DEF Facts
  <2>7. TunnelsOK'
    BY <2>1, <2>6 DEF TunnelsOK
  <2> QED
    BY <2>1, <2>3, <2>5, <2>7 DEF IInv
<1>3. CASE UNCHANGED <<slots, tunnel, closing>>
  BY <1>1, <1>3, ShutdownFailsKeeps
<1> QED
  BY <1>2, <1>3 DEF DaemonStopped

LEMMA ForgottenKeeps ==
  ASSUME RemoteAssumption, IInv, Forgotten
  PROVE  IInv'
<1>0. Facts
  BY FactsHold
<1>1. /\ forgetting # 0 /\ forgetting' = 0
      /\ registered' = IF registered = forgetting THEN 0 ELSE registered
      /\ UNCHANGED <<slots, made, connectLock, tunnel, task, closing, closes, stopping, unstable, late>>
  BY DEF Forgotten
<1>2. made' \in Nat /\ made' >= made
  BY <1>0, <1>1 DEF Facts
<1>3. /\ TasksOK' /\ Watchers' /\ ClosingOK' /\ TunnelsOK' /\ AllInformed'
      /\ Budget' /\ BudgetHolds' /\ Attends'
      /\ \A k \in Tasks : task'[k].pc \in Working => connectLock'[task'[k].slot] = k
  BY <1>1, <1>2, QuietKeeps
<1>4. TypeOK' /\ Held'
  <2>1. registered' \in 0..made' /\ forgetting' \in 0..made'
    BY <1>0, <1>1 DEF Facts
  <2> QED
    BY <1>1, <1>3, <2>1 DEF IInv, TypeOK, Held
<1>5. Removed'
  BY <1>1 DEF IInv, Removed
<1> QED
  BY <1>3, <1>4, <1>5 DEF IInv

LEMMA StutterKeeps ==
  ASSUME RemoteAssumption, IInv, UNCHANGED vars
  PROVE  IInv'
<1>0. Facts
  BY FactsHold
<1>1. UNCHANGED <<slots, made, registered, connectLock, tunnel, task, closing, closes, forgetting,
                  stopping, unstable, late>>
  BY DEF vars
<1>2. made' \in Nat /\ made' >= made
  BY <1>0, <1>1 DEF Facts
<1>3. /\ TasksOK' /\ Watchers' /\ ClosingOK' /\ TunnelsOK' /\ AllInformed'
      /\ Budget' /\ BudgetHolds' /\ Attends'
      /\ \A k \in Tasks : task'[k].pc \in Working => connectLock'[task'[k].slot] = k
  BY <1>1, <1>2, QuietKeeps
<1>4. TypeOK' /\ Held' /\ Removed'
  BY <1>1, <1>3 DEF IInv, TypeOK, Held, Removed
<1> QED
  BY <1>3, <1>4 DEF IInv

-----------------------------------------------------------------------------
(***************************************************************************)
(* The invariant holds from the start and every step preserves it.         *)
(***************************************************************************)

LEMMA InitInv ==
  ASSUME RemoteAssumption, Init
  PROVE  IInv
<1>0. 0 \notin Tunnels /\ 0 \notin 1..made /\ made = 0 /\ MaxSlots \in Nat /\ MaxAttempts \in Nat /\ MaxCloses \in Nat
  BY DEF Tunnels, Init, RemoteAssumption
<1>1. /\ \A k \in Tasks : task[k] = Idle
      /\ \A t \in Tunnels : tunnel[t] = "none" /\ t \in Tasks
      /\ \A s \in Slots : slots[s] = Fresh /\ unstable[s] = 0
  BY DEF Init, Tasks
<1>2. Fresh \in Slot /\ Fresh.state = "disconnected" /\ Fresh.generation = 0
  BY DEF Fresh, Slot, Generations
<1>3. Idle \in Task /\ Idle.pc = "idle" /\ Idle.own = 0 /\ Idle.attempt = 0
  BY <1>0 DEF Idle, Task, Generations
<1>4. TypeOK
  <2>1. stopping \in [pc : {"idle", "waiting", "asking"}, slot : 0..made,
                      expected : Generations \cup {NoGeneration}]
    BY <1>0 DEF Init, NotStopping
  <2>2. task \in [Tasks -> Task] /\ slots \in [Slots -> Slot]
    BY <1>2, <1>3 DEF Init
  <2>3. unstable \in [Slots -> Nat]
    BY DEF Init
  <2> QED
    BY <1>0, <2>1, <2>2, <2>3 DEF Init, TypeOK
<1>5. TasksOK
  BY <1>1, <1>3 DEF TasksOK, TaskOK, CallerSteps, SupervisorSteps
<1>6. Held /\ Watchers /\ ClosingOK
  BY <1>1, <1>3 DEF Held, Working, Watchers, Owning, ClosingOK, Init, NotStopping
<1>7. TunnelsOK
  BY <1>1 DEF TunnelsOK, Started, Serving, Undisturbed
<1>8. Removed
  BY <1>0 DEF Removed, Init
<1>9. AllInformed /\ Budget
  BY <1>1, <1>3 DEF AllInformed, Informed, Budget, Spends, Owning
<1>10. BudgetHolds
  BY <1>0, <1>1 DEF BudgetHolds
<1>11. Attends
  BY <1>1, <1>2 DEF Attends, AttendedAt, Active
<1> QED
  BY <1>4, <1>5, <1>6, <1>7, <1>8, <1>9, <1>10, <1>11 DEF IInv

LEMMA NextInv ==
  ASSUME RemoteAssumption, IInv, [Next]_vars
  PROVE  IInv'
<1>1. ASSUME NEW c \in Callers, NEW path \in Paths \cup {"none"}, Request(c, path)
      PROVE  IInv'
  BY <1>1, RequestKeeps
<1>2. ASSUME NEW c \in Callers, Admit(c) \/ Announce(c) \/ Own(c)
      PROVE  IInv'
  BY <1>2, AdmitKeeps, AnnounceKeeps, OwnKeeps
<1>3. ASSUME NEW k \in Tasks, Spawn(k) \/ Answered(k) \/ EstablishFails(k)
      PROVE  IInv'
  BY <1>3, SpawnKeeps, AnsweredKeeps, EstablishFailsKeeps
<1>4. ASSUME NEW t \in Tunnels, Die(t) \/ Stabilise(t) \/ Lost(t) \/ Retry(t) \/ Resume(t)
      PROVE  IInv'
  BY <1>4, DieKeeps, StabiliseKeeps, LostKeeps, RetryKeeps, ResumeKeeps
<1>5. ASSUME NEW expected \in Known, Disconnect(expected) \/ Shutdown(expected)
      PROVE  IInv'
  BY <1>5, DisconnectKeeps, ShutdownKeeps
<1>6. ASSUME NEW d \in closing, PublishDisconnected(d)
      PROVE  IInv'
  BY <1>6, PublishDisconnectedKeeps
<1>7. CASE ShutdownAdmitted \/ DaemonStopped
  BY <1>7, ShutdownAdmittedKeeps, DaemonStoppedKeeps
<1>8. CASE ShutdownFails
  BY <1>8, ShutdownFailsKeeps DEF ShutdownFails
<1>9. CASE Forget \/ Forgotten
  BY <1>9, ForgetKeeps, ForgottenKeeps
<1>10. CASE UNCHANGED vars
  BY <1>10, StutterKeeps
<1> QED
  BY <1>1, <1>2, <1>3, <1>4, <1>5, <1>6, <1>7, <1>8, <1>9, <1>10 DEF Next

LEMMA Invariance ==
  ASSUME RemoteAssumption
  PROVE  Spec => []IInv
<1>1. Init => IInv
  BY InitInv
<1>2. IInv /\ [Next]_vars => IInv'
  BY NextInv
<1> QED
  BY <1>1, <1>2, PTL DEF Spec

-----------------------------------------------------------------------------
(***************************************************************************)
(* What the invariant says of tunnels, slots and budgets.                  *)
(***************************************************************************)

LEMMA OwnedByInv ==
  ASSUME IInv
  PROVE  TunnelsOwned
BY DEF IInv, TunnelsOK, Started, Serving, TunnelsOwned

LEMMA AttendedByInv ==
  ASSUME IInv
  PROVE  Attended
<1> SUFFICES ASSUME NEW s \in Slots, slots[s].state \in Active
             PROVE  \/ \E k \in Tasks : task[k].slot = s /\ Attending(k)
                    \/ \E c \in Callers : task[c].slot = s /\ task[c].pc \in {"admitted", "announced"}
                    \/ <<s, slots[s].generation>> \in closing
  BY DEF Attended, Active
<1>1. AttendedAt(s)
  BY DEF IInv, Attends
<1> QED
  BY <1>1 DEF AttendedAt, Claims

LEMMA NoOrphanByInv ==
  ASSUME RemoteAssumption, IInv
  PROVE  NoOrphan
<1> SUFFICES ASSUME NEW t \in Tunnels, tunnel[t] = "up", registered # task[t].slot
             PROVE  task[t].slot \in late
  BY DEF NoOrphan
<1>0. Facts /\ t \in Tasks
  BY FactsHold DEF Facts
<1>1. task[t].pc = "watching" /\ Current(t)
  BY <1>0 DEF Facts, Serving
<1>2. task[t].slot \in 1..made
  BY <1>0, <1>1, TaskPlace DEF Facts
<1>3. slots[task[t].slot].forgotten
  BY <1>0, <1>2 DEF Facts, Removed
<1>4. Informed(t)
  BY <1>0 DEF Facts
<1> QED
  BY <1>1, <1>3, <1>4 DEF Informed, Owning

\* Every variable of the remote host's slots keeps its type: generations only count up,
\* a slot that is used was made, a supervisor's attempt never passes the limit by more
\* than the one that ends it.
THEOREM TypeCorrect ==
  ASSUME RemoteAssumption
  PROVE  Spec => []TypeOK
<1>1. IInv => TypeOK
  BY DEF IInv
<1> QED
  BY <1>1, Invariance, PTL

\* However connects, reconnects, disconnects, shutdowns and forgets interleave, a tunnel
\* that runs is started under the lock of its slot or is the one its slot is Ready with:
\* the generation checks of establish and disconnect leave no ssh process behind.
THEOREM EveryTunnelOwned ==
  ASSUME RemoteAssumption
  PROVE  Spec => []TunnelsOwned
<1>1. IInv => TunnelsOwned
  BY OwnedByInv
<1> QED
  BY <1>1, Invariance, PTL

\* A slot shown as Connecting, Reconnecting or Ready always has someone who will move it
\* on: the connect call or the supervisor that owns its generation, or the disconnect that
\* has yet to publish.
THEOREM EverySlotAttended ==
  ASSUME RemoteAssumption
  PROVE  Spec => []Attended
<1>1. IInv => Attended
  BY AttendedByInv
<1> QED
  BY <1>1, Invariance, PTL

\* No tunnel runs for a slot the registry has lost, but for the connect call that read
\* the slot's generation after the tombstone it had looked for before.
THEOREM NoTunnelForgotten ==
  ASSUME RemoteAssumption
  PROVE  Spec => []NoOrphan
<1>1. IInv => NoOrphan
  BY NoOrphanByInv
<1> QED
  BY <1>1, Invariance, PTL

\* However many tunnels in a row die before they are stable, supervisors establish no
\* more of them than the reconnect attempts allow.
THEOREM BudgetKept ==
  ASSUME RemoteAssumption
  PROVE  Spec => []BudgetHolds
<1>1. IInv => BudgetHolds
  BY DEF IInv
<1> QED
  BY <1>1, Invariance, PTL
=====

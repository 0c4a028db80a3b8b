--------------------------- MODULE RemoteBackend ---------------------------
(* The desktop process's side of a remote host: one slot per host, the      *)
(* connect calls and the supervisors that establish ssh tunnels for it, and *)
(* the disconnects, shutdowns and forgets that race with them               *)
(* (src/src-tauri/src/services/remote_backend/mod.rs).                      *)
(*                                                                          *)
(* The commands run on a thread pool: the steps of a call interleave with   *)
(* those of the others wherever the code leaves the mutex of the slot.      *)
EXTENDS Integers

CONSTANTS
  Callers,      \* the calls of `connect` an instance can make
  Paths,        \* the overrides of the goose binary a call can ask for
  MaxAttempts,  \* MAX_RECONNECT_ATTEMPTS
  MaxSlots,     \* bound: the slots the host can have, one after the other
  MaxTunnels,   \* bound: the tunnels started
  MaxCloses     \* bound: disconnects and shutdowns

\* What an instance must be: the holders of a connect lock are told apart.
RemoteAssumption ==
  /\ MaxAttempts \in Nat /\ MaxSlots \in Nat /\ MaxTunnels \in Nat /\ MaxCloses \in Nat
  /\ Callers \cap 0..(MaxTunnels + 1) = {}
  /\ "none" \notin Paths

VARIABLES
  slots,        \* SlotShared of every slot made for the host
  made,         \* how many were made
  registered,   \* the slot in the registry, 0 if none
  connectLock,  \* who holds the connect lock of a slot
  tunnel,       \* the ssh processes
  task,         \* the connect calls, and the supervisor of every tunnel
  closing,      \* disconnects that have yet to publish Disconnected
  closes,       \* disconnects and shutdowns begun
  forgetting,   \* the slot a forget waits to remove, 0 if none
  stopping,     \* the shutdown in progress
  unstable,     \* history: short-lived tunnels in a row that supervisors established
  late          \* history: slots a connect took over after their tombstone

vars == <<slots, made, registered, connectLock, tunnel, task, closing, closes,
          forgetting, stopping, unstable, late>>

Slots == 1..MaxSlots
Tunnels == 1..MaxTunnels
Tasks == Callers \cup Tunnels
NoTask == 0
Stopper == MaxTunnels + 1     \* the shutdown, as a holder of the lock
NoGeneration == -1
Generations == Nat

Slot == [state : {"connecting", "ready", "reconnecting", "disconnected", "failed"},
         forgotten : BOOLEAN, generation : Generations, port : BOOLEAN,
         pid : Tunnels \cup {0}, path : Paths \cup {"none"}]

Fresh == [state |-> "disconnected", forgotten |-> FALSE, generation |-> 0,
          port |-> FALSE, pid |-> 0, path |-> "none"]

\* `generation`: what a caller expects or was given, what a supervisor owns; `attempt`:
\* the reconnect budget already spent; `own`: the tunnel the task is starting.
Task == [pc : {"idle", "waiting", "admitted", "announced", "establishing", "starting",
               "ok", "superseded", "failed", "watching", "retrying", "backoff", "gone"},
         slot : Slots \cup {0}, path : Paths \cup {"none"}, generation : Generations,
         attempt : 0..MaxAttempts + 1, own : Tunnels \cup {0}, stable : BOOLEAN]

Idle == [pc |-> "idle", slot |-> 0, path |-> "none", generation |-> 0,
         attempt |-> 0, own |-> 0, stable |-> FALSE]

TypeOK ==
  /\ slots \in [Slots -> Slot]
  /\ made \in 0..MaxSlots /\ registered \in 0..made
  /\ connectLock \in [Slots -> Tasks \cup {NoTask, Stopper}]
  /\ tunnel \in [Tunnels -> {"none", "starting", "up", "dead"}]
  /\ task \in [Tasks -> Task]
  /\ closing \subseteq Slots \X Generations
  /\ closes \in 0..MaxCloses
  /\ forgetting \in 0..made
  /\ stopping \in [pc : {"idle", "waiting", "asking"}, slot : 0..made,
                   expected : Generations \cup {NoGeneration}]
  /\ unstable \in [Slots -> Nat]
  /\ late \subseteq Slots

Current(k) == slots[task[k].slot].generation = task[k].generation
Finished == {"ok", "superseded", "failed", "gone"}
Unlocked(s) == [connectLock EXCEPT ![s] = NoTask]
Locked(s, k) == [connectLock EXCEPT ![s] = k]
Free(s) == connectLock[s] = NoTask
\* Mutant: the tunnel of a generation that is over is left running.
LeftRunning(s) == tunnel
Killed(s) == IF slots[s].pid = 0 THEN tunnel ELSE [tunnel EXCEPT ![slots[s].pid] = "dead"]
Goes(k, pc) == [task EXCEPT ![k].pc = pc]
StateIs(s, state) == [slots EXCEPT ![s].state = state]

\* A transition is published only while its generation owns the slot.
StateIfCurrent(s, generation, state) ==
  IF slots[s].generation = generation THEN StateIs(s, state) ELSE slots

\* The slot of the host, made when it has none.
SlotUsed == IF registered = 0 THEN made + 1 ELSE registered
SlotMade == /\ SlotUsed \in Slots
            /\ registered' = SlotUsed
            /\ made' = IF registered = 0 THEN made + 1 ELSE made

----------------------------------------------------------------------------
(* connect: admission, the check of the cached connection, Connecting.      *)

Request(c, path) ==
  /\ task[c].pc = "idle"
  /\ SlotMade
  /\ task' = [task EXCEPT ![c].pc = "waiting", ![c].slot = SlotUsed, ![c].path = path]
  /\ UNCHANGED <<slots, connectLock, tunnel, closing, closes, forgetting, stopping, unstable, late>>

Cached(s, path) == slots[s].state = "ready" /\ slots[s].port /\ slots[s].path = path

\* Another binary restarts the daemon: the current tunnel is history.
Restarted(s, path) ==
  IF slots[s].path = path THEN slots
  ELSE [slots EXCEPT ![s].generation = @ + 1, ![s].pid = 0, ![s].port = FALSE, ![s].path = path]

Admit(c) ==
  LET s == task[c].slot IN
  /\ task[c].pc = "waiting" /\ Free(s)
  /\ IF slots[s].forgotten
       THEN task' = Goes(c, "superseded") /\ UNCHANGED <<slots, connectLock, tunnel>>
     ELSE IF Cached(s, task[c].path)
       THEN /\ task' = [task EXCEPT ![c].pc = "ok", ![c].generation = slots[s].generation]
            /\ UNCHANGED <<slots, connectLock, tunnel>>
     ELSE /\ slots' = Restarted(s, task[c].path)
          /\ tunnel' = IF slots[s].path = task[c].path THEN tunnel ELSE Killed(s)
          /\ connectLock' = Locked(s, c)
          /\ task' = Goes(c, "admitted")
  /\ UNCHANGED <<made, registered, closing, closes, forgetting, stopping, unstable, late>>

\* set_state does not look at the tombstone again.
Announce(c) ==
  LET s == task[c].slot IN
  /\ task[c].pc = "admitted"
  /\ slots' = StateIs(s, "connecting")
  /\ task' = Goes(c, "announced")
  /\ UNCHANGED <<made, registered, connectLock, tunnel, closing, closes, forgetting, stopping, unstable, late>>

Own(c) ==
  LET s == task[c].slot IN
  /\ task[c].pc = "announced"
  /\ task' = [task EXCEPT ![c].pc = "establishing", ![c].generation = slots[s].generation]
  /\ late' = IF slots[s].forgotten THEN late \cup {s} ELSE late
  /\ UNCHANGED <<slots, made, registered, connectLock, tunnel, closing, closes, forgetting, stopping, unstable>>

----------------------------------------------------------------------------
(* establish, for a connect call or a supervisor that holds the lock.       *)

Spawn(k) ==
  \E t \in Tunnels :
    /\ task[k].pc = "establishing"
    /\ tunnel[t] = "none" /\ \A u \in 1..(t - 1) : tunnel[u] # "none"
    /\ tunnel' = [tunnel EXCEPT ![t] = "starting"]
    /\ task' = [task EXCEPT ![k].pc = "starting", ![k].own = t]
    /\ UNCHANGED <<slots, made, registered, connectLock, closing, closes, forgetting, stopping, unstable, late>>

\* Mutant: a reconnect starts with a fresh budget.
NoneSpent(k) == 0
Spent(k) == task[k].attempt

Supervising(k) ==
  [Idle EXCEPT !.pc = "watching", !.slot = task[k].slot, !.attempt = Spent(k),
               !.generation = slots[task[k].slot].generation + 1]

\* Mutant: the tunnel is published whoever owns the slot.
AlwaysOwns(k) == TRUE
Owns(k) == Current(k)

Answered(k) ==
  LET s == task[k].slot  t == task[k].own IN
  /\ task[k].pc = "starting" /\ tunnel[t] = "starting"
  /\ connectLock' = Unlocked(s)
  /\ IF Owns(k)
       THEN /\ slots' = [slots EXCEPT ![s].generation = @ + 1, ![s].state = "ready",
                                      ![s].port = TRUE, ![s].pid = t]
            /\ tunnel' = [tunnel EXCEPT ![t] = "up"]
            /\ task' = [task EXCEPT ![k].pc = IF k \in Callers THEN "ok" ELSE "gone",
                                    ![k].generation = slots[s].generation + 1,
                                    ![k].own = 0,
                                    ![t] = Supervising(k)]
            /\ unstable' = [unstable EXCEPT ![s] = IF k \in Callers \/ task[k].stable THEN 0 ELSE @ + 1]
       ELSE /\ tunnel' = [tunnel EXCEPT ![t] = "dead"]
            /\ task' = [task EXCEPT ![k].pc = IF k \in Callers THEN "superseded" ELSE "gone", ![k].own = 0]
            /\ UNCHANGED <<slots, unstable>>
  /\ UNCHANGED <<made, registered, closing, closes, forgetting, stopping, late>>

\* The daemon or the tunnel did not come up; a tunnel that was started is reaped.
EstablishFails(k) ==
  LET s == task[k].slot IN
  /\ task[k].pc \in {"establishing", "starting"}
  /\ connectLock' = Unlocked(s)
  /\ tunnel' = IF task[k].own = 0 THEN tunnel ELSE [tunnel EXCEPT ![task[k].own] = "dead"]
  /\ IF k \in Callers
       THEN /\ slots' = StateIfCurrent(s, task[k].generation, "failed")
            /\ task' = [task EXCEPT ![k].pc = "failed", ![k].own = 0]
       ELSE /\ task' = [task EXCEPT ![k].pc = IF Current(k) THEN "retrying" ELSE "gone",
                                    ![k].own = 0, ![k].attempt = @ + 1]
            /\ UNCHANGED slots
  /\ UNCHANGED <<made, registered, closing, closes, forgetting, stopping, unstable, late>>

----------------------------------------------------------------------------
(* The supervisor of a tunnel.                                              *)

Die(t) ==
  /\ tunnel[t] = "up"
  /\ tunnel' = [tunnel EXCEPT ![t] = "dead"]
  /\ UNCHANGED <<slots, made, registered, connectLock, task, closing, closes, forgetting, stopping, unstable, late>>

\* The tunnel has been up for RECONNECT_STABLE_UPTIME.
Stabilise(t) ==
  /\ task[t].pc = "watching" /\ tunnel[t] = "up" /\ ~task[t].stable
  /\ task' = [task EXCEPT ![t].stable = TRUE]
  /\ UNCHANGED <<slots, made, registered, connectLock, tunnel, closing, closes, forgetting, stopping, unstable, late>>

Lost(t) ==
  LET s == task[t].slot IN
  /\ task[t].pc = "watching" /\ tunnel[t] = "dead"
  /\ IF Current(t)
       THEN /\ slots' = IF slots[s].pid = t THEN [slots EXCEPT ![s].pid = 0] ELSE slots
            /\ task' = [task EXCEPT ![t].pc = "retrying",
                                    ![t].attempt = IF task[t].stable THEN 1 ELSE @ + 1]
       ELSE task' = Goes(t, "gone") /\ UNCHANGED slots
  /\ UNCHANGED <<made, registered, connectLock, tunnel, closing, closes, forgetting, stopping, unstable, late>>

\* Mutant: an exhausted supervisor says nothing.
LeavesState(t) == slots
Exhausted(t) == StateIfCurrent(task[t].slot, task[t].generation, "disconnected")

Retry(t) ==
  /\ task[t].pc = "retrying"
  /\ IF task[t].attempt > MaxAttempts
       THEN slots' = Exhausted(t) /\ task' = Goes(t, "gone")
       ELSE /\ slots' = StateIfCurrent(task[t].slot, task[t].generation, "reconnecting")
            /\ task' = Goes(t, IF Current(t) THEN "backoff" ELSE "gone")
  /\ UNCHANGED <<made, registered, connectLock, tunnel, closing, closes, forgetting, stopping, unstable, late>>

Resume(t) ==
  LET s == task[t].slot IN
  /\ task[t].pc = "backoff" /\ Free(s)
  /\ task' = Goes(t, IF Current(t) THEN "establishing" ELSE "gone")
  /\ connectLock' = IF Current(t) THEN Locked(s, t) ELSE connectLock
  /\ UNCHANGED <<slots, made, registered, tunnel, closing, closes, forgetting, stopping, unstable, late>>

----------------------------------------------------------------------------
(* disconnect_generation, shutdown and forget.                              *)

\* The generations the renderer was told of, by a connect call or by an event.
Known == {NoGeneration} \cup {task[k].generation : k \in Tasks}

Bumped(s) == [slots EXCEPT ![s].generation = @ + 1, ![s].pid = 0, ![s].port = FALSE]

Closed(expected) ==
  /\ registered # 0
  /\ expected \in {NoGeneration, slots[registered].generation}
  /\ slots' = Bumped(registered)
  /\ tunnel' = Killed(registered)
  /\ closing' = closing \cup {<<registered, slots[registered].generation + 1>>}

Disconnect(expected) ==
  /\ closes < MaxCloses
  /\ closes' = closes + 1
  /\ Closed(expected)
  /\ UNCHANGED <<made, registered, connectLock, task, forgetting, stopping, unstable, late>>

PublishDisconnected(d) ==
  /\ d \in closing
  /\ closing' = closing \ {d}
  /\ slots' = StateIfCurrent(d[1], d[2], "disconnected")
  /\ UNCHANGED <<made, registered, connectLock, tunnel, task, closes, forgetting, stopping, unstable, late>>

Shutdown(expected) ==
  /\ stopping.pc = "idle" /\ closes < MaxCloses
  /\ SlotMade
  /\ closes' = closes + 1
  /\ stopping' = [pc |-> "waiting", slot |-> SlotUsed, expected |-> expected]
  /\ UNCHANGED <<slots, connectLock, tunnel, task, closing, forgetting, unstable, late>>

NotStopping == [pc |-> "idle", slot |-> 0, expected |-> NoGeneration]

ShutdownAdmitted ==
  LET s == stopping.slot IN
  /\ stopping.pc = "waiting" /\ Free(s)
  /\ IF stopping.expected \in {NoGeneration, slots[s].generation}
       THEN stopping' = [stopping EXCEPT !.pc = "asking"] /\ connectLock' = Locked(s, Stopper)
       ELSE stopping' = NotStopping /\ UNCHANGED connectLock
  /\ UNCHANGED <<slots, made, registered, tunnel, task, closing, closes, forgetting, unstable, late>>

\* The daemon is down: the tunnel is dropped, unless the slot changed meanwhile.
DaemonStopped ==
  /\ stopping.pc = "asking"
  /\ stopping' = NotStopping
  /\ connectLock' = Unlocked(stopping.slot)
  /\ \/ Closed(stopping.expected)
     \/ ~(registered # 0 /\ stopping.expected \in {NoGeneration, slots[registered].generation})
        /\ UNCHANGED <<slots, tunnel, closing>>
  /\ UNCHANGED <<made, registered, task, closes, forgetting, unstable, late>>

ShutdownFails ==
  /\ stopping.pc = "asking"
  /\ stopping' = NotStopping
  /\ connectLock' = Unlocked(stopping.slot)
  /\ UNCHANGED <<slots, made, registered, tunnel, task, closing, closes, forgetting, unstable, late>>

Inactive(s) == slots[s].state \in {"disconnected", "failed"}

Forget ==
  /\ forgetting = 0 /\ registered # 0
  /\ Inactive(registered)
  /\ slots' = [slots EXCEPT ![registered].forgotten = TRUE, ![registered].generation = @ + 1]
  /\ forgetting' = registered
  /\ UNCHANGED <<made, registered, connectLock, tunnel, task, closing, closes, stopping, unstable, late>>

Forgotten ==
  /\ forgetting # 0 /\ Free(forgetting)
  /\ registered' = IF registered = forgetting THEN 0 ELSE registered
  /\ forgetting' = 0
  /\ UNCHANGED <<slots, made, connectLock, tunnel, task, closing, closes, stopping, unstable, late>>

----------------------------------------------------------------------------
Init ==
  /\ slots = [s \in Slots |-> Fresh]
  /\ made = 0 /\ registered = 0
  /\ connectLock = [s \in Slots |-> NoTask]
  /\ tunnel = [t \in Tunnels |-> "none"]
  /\ task = [k \in Tasks |-> Idle]
  /\ closing = {} /\ closes = 0
  /\ forgetting = 0
  /\ stopping = NotStopping
  /\ unstable = [s \in Slots |-> 0]
  /\ late = {}

Next ==
  \/ \E c \in Callers : (\E path \in Paths \cup {"none"} : Request(c, path)) \/ Admit(c) \/ Announce(c) \/ Own(c)
  \/ \E k \in Tasks : Spawn(k) \/ Answered(k) \/ EstablishFails(k)
  \/ \E t \in Tunnels : Die(t) \/ Stabilise(t) \/ Lost(t) \/ Retry(t) \/ Resume(t)
  \/ \E expected \in Known : Disconnect(expected) \/ Shutdown(expected)
  \/ \E d \in closing : PublishDisconnected(d)
  \/ ShutdownAdmitted \/ DaemonStopped \/ ShutdownFails
  \/ Forget \/ Forgotten

Spec == Init /\ [][Next]_vars

----------------------------------------------------------------------------
\* A tunnel that runs is being started by the task that holds the lock of its slot, or
\* is the one the current generation of its slot owns, watched by its supervisor: a
\* disconnect, a change of the binary or a newer establish leaves no tunnel behind.
TunnelsOwned ==
  \A t \in Tunnels :
    /\ tunnel[t] = "starting" =>
         \E k \in Tasks : task[k].own = t /\ connectLock[task[k].slot] = k
    /\ tunnel[t] = "up" =>
         /\ task[t].pc = "watching" /\ Current(t)
         /\ slots[task[t].slot].pid = t /\ slots[task[t].slot].state = "ready"

\* Someone works for a slot that is neither Disconnected nor Failed: it cannot stay
\* Connecting or Reconnecting, or Ready over a dead tunnel, for ever.
Attending(k) == task[k].pc \notin Finished \cup {"idle", "waiting"} /\ Current(k)
Attended ==
  \A s \in Slots :
    slots[s].state \in {"connecting", "reconnecting", "ready"} =>
      \/ \E k \in Tasks : task[k].slot = s /\ Attending(k)
      \/ \E c \in Callers : task[c].slot = s /\ task[c].pc \in {"admitted", "announced"}
      \/ <<s, slots[s].generation>> \in closing

\* A tunnel runs only for a slot the registry has, unless a connect read its generation
\* after the tombstone, which it had looked for before.
NoOrphan ==
  \A t \in Tunnels :
    tunnel[t] = "up" => registered = task[t].slot \/ task[t].slot \in late

\* A tunnel that keeps dying young uses up the reconnect attempts: supervisors do not
\* re-establish it for ever.
BudgetHolds == \A s \in Slots : unstable[s] <= MaxAttempts
=============================================================================

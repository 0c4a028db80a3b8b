-------------------------- MODULE MCBackend_proofs --------------------------
(***************************************************************************)
(* The properties the run of MCBackend checks, for every instance: the     *)
(* composition takes steps of one component at a time and leaves the other *)
(* alone, so that the invariants proved of the components carry over.      *)
(***************************************************************************)
EXTENDS MCBackend, Berdctl_proofs

Proofs == INSTANCE RemoteBackend_proofs

\* MCBackend and the proofs name the same component by two instances.
LEMMA SameAssumption == Proofs!RemoteAssumption
BY RemoteInstance DEF Remote!RemoteAssumption, Proofs!RemoteAssumption

\* A step of a connect call.
LEMMA SameCalls ==
  ASSUME NEW c \in Callers
  PROVE  /\ Remote!Admit(c) => Proofs!Admit(c)
         /\ Remote!Announce(c) => Proofs!Announce(c)
         /\ Remote!Own(c) => Proofs!Own(c)
<1>1. Remote!Admit(c) => Proofs!Admit(c)
  BY DEF Remote!Admit, Proofs!Admit, Remote!Cached, Proofs!Cached, Remote!Free, Proofs!Free,
         Remote!Goes, Proofs!Goes, Remote!Killed, Proofs!Killed, Remote!Locked, Proofs!Locked,
         Remote!NoTask, Proofs!NoTask, Remote!Restarted, Proofs!Restarted
<1>2. Remote!Announce(c) => Proofs!Announce(c)
  BY DEF Remote!Announce, Proofs!Announce, Remote!Goes, Proofs!Goes, Remote!StateIs,
         Proofs!StateIs
<1>3. Remote!Own(c) => Proofs!Own(c)
  BY DEF Remote!Own, Proofs!Own
<1> QED
  BY <1>1, <1>2, <1>3

\* A step of establish.
LEMMA SameEstablish ==
  ASSUME NEW k
  PROVE  /\ Remote!Spawn(k) => Proofs!Spawn(k)
         /\ Remote!Answered(k) => Proofs!Answered(k)
         /\ Remote!EstablishFails(k) => Proofs!EstablishFails(k)
<1>1. Remote!Spawn(k) => Proofs!Spawn(k)
  BY DEF Remote!Spawn, Proofs!Spawn, Remote!Tunnels, Proofs!Tunnels
<1>2. Remote!Answered(k) => Proofs!Answered(k)
  BY DEF Remote!Answered, Proofs!Answered, Remote!Current, Proofs!Current, Remote!Idle,
         Proofs!Idle, Remote!NoTask, Proofs!NoTask, Remote!Owns, Proofs!Owns, Remote!Spent,
         Proofs!Spent, Remote!Supervising, Proofs!Supervising, Remote!Unlocked, Proofs!Unlocked
<1>3. Remote!EstablishFails(k) => Proofs!EstablishFails(k)
  BY DEF Remote!Current, Proofs!Current, Remote!EstablishFails, Proofs!EstablishFails,
         Remote!NoTask, Proofs!NoTask, Remote!StateIfCurrent, Proofs!StateIfCurrent,
         Remote!StateIs, Proofs!StateIs, Remote!Unlocked, Proofs!Unlocked
<1> QED
  BY <1>1, <1>2, <1>3

\* A step of a supervisor.
LEMMA SameSupervisor ==
  ASSUME NEW t
  PROVE  /\ Remote!Die(t) => Proofs!Die(t)
         /\ Remote!Stabilise(t) => Proofs!Stabilise(t)
         /\ Remote!Lost(t) => Proofs!Lost(t)
         /\ Remote!Retry(t) => Proofs!Retry(t)
         /\ Remote!Resume(t) => Proofs!Resume(t)
<1>1. Remote!Die(t) => Proofs!Die(t)
  BY DEF Remote!Die, Proofs!Die
<1>2. Remote!Stabilise(t) => Proofs!Stabilise(t)
  BY DEF Remote!Stabilise, Proofs!Stabilise
<1>3. Remote!Lost(t) => Proofs!Lost(t)
  BY DEF Remote!Current, Proofs!Current, Remote!Goes, Proofs!Goes, Remote!Lost, Proofs!Lost
<1>4. Remote!Retry(t) => Proofs!Retry(t)
  BY DEF Remote!Current, Proofs!Current, Remote!Exhausted, Proofs!Exhausted, Remote!Goes,
         Proofs!Goes, Remote!Retry, Proofs!Retry, Remote!StateIfCurrent, Proofs!StateIfCurrent,
         Remote!StateIs, Proofs!StateIs
<1>5. Remote!Resume(t) => Proofs!Resume(t)
  BY DEF Remote!Current, Proofs!Current, Remote!Free, Proofs!Free, Remote!Goes, Proofs!Goes,
         Remote!Locked, Proofs!Locked, Remote!NoTask, Proofs!NoTask, Remote!Resume,
         Proofs!Resume
<1> QED
  BY <1>1, <1>2, <1>3, <1>4, <1>5

\* A disconnect or a shutdown that begins.
LEMMA SameCloses ==
  ASSUME NEW expected
  PROVE  /\ Remote!Disconnect(expected) => Proofs!Disconnect(expected)
         /\ Remote!Shutdown(expected) => Proofs!Shutdown(expected)
<1>1. Remote!Disconnect(expected) => Proofs!Disconnect(expected)
  BY DEF Remote!Bumped, Proofs!Bumped, Remote!Closed, Proofs!Closed, Remote!Disconnect,
         Proofs!Disconnect, Remote!Killed, Proofs!Killed, Remote!NoGeneration,
         Proofs!NoGeneration
<1>2. Remote!Shutdown(expected) => Proofs!Shutdown(expected)
  BY DEF Remote!Shutdown, Proofs!Shutdown, Remote!SlotMade, Proofs!SlotMade, Remote!SlotUsed,
         Proofs!SlotUsed, Remote!Slots, Proofs!Slots
<1> QED
  BY <1>1, <1>2

\* A shutdown that goes on, or a forget.
LEMMA SameRest ==
  /\ Remote!ShutdownAdmitted => Proofs!ShutdownAdmitted
  /\ Remote!DaemonStopped => Proofs!DaemonStopped
  /\ Remote!ShutdownFails => Proofs!ShutdownFails
  /\ Remote!Forget => Proofs!Forget
  /\ Remote!Forgotten => Proofs!Forgotten
<1>1. Remote!ShutdownAdmitted => Proofs!ShutdownAdmitted
  BY DEF Remote!Free, Proofs!Free, Remote!Locked, Proofs!Locked, Remote!NoGeneration,
         Proofs!NoGeneration, Remote!NoTask, Proofs!NoTask, Remote!NotStopping,
         Proofs!NotStopping, Remote!ShutdownAdmitted, Proofs!ShutdownAdmitted, Remote!Stopper,
         Proofs!Stopper
<1>2. Remote!DaemonStopped => Proofs!DaemonStopped
  BY DEF Remote!Bumped, Proofs!Bumped, Remote!Closed, Proofs!Closed, Remote!DaemonStopped,
         Proofs!DaemonStopped, Remote!Killed, Proofs!Killed, Remote!NoGeneration,
         Proofs!NoGeneration, Remote!NoTask, Proofs!NoTask, Remote!NotStopping,
         Proofs!NotStopping, Remote!Unlocked, Proofs!Unlocked
<1>3. Remote!ShutdownFails => Proofs!ShutdownFails
  BY DEF Remote!NoGeneration, Proofs!NoGeneration, Remote!NoTask, Proofs!NoTask,
         Remote!NotStopping, Proofs!NotStopping, Remote!ShutdownFails, Proofs!ShutdownFails,
         Remote!Unlocked, Proofs!Unlocked
<1>4. Remote!Forget => Proofs!Forget
  BY DEF Remote!Forget, Proofs!Forget, Remote!Inactive, Proofs!Inactive
<1>5. Remote!Forgotten => Proofs!Forgotten
  BY DEF Remote!Forgotten, Proofs!Forgotten, Remote!Free, Proofs!Free, Remote!NoTask,
         Proofs!NoTask
<1> QED
  BY <1>1, <1>2, <1>3, <1>4, <1>5

LEMMA SameRequest ==
  ASSUME NEW c, NEW path, Remote!Request(c, path)
  PROVE  Proofs!Request(c, path)
BY DEF Remote!Request, Proofs!Request, Remote!SlotMade, Proofs!SlotMade, Remote!SlotUsed,
         Proofs!SlotUsed, Remote!Slots, Proofs!Slots

LEMMA SamePublish ==
  ASSUME NEW d, Remote!PublishDisconnected(d)
  PROVE  Proofs!PublishDisconnected(d)
BY DEF Remote!PublishDisconnected, Proofs!PublishDisconnected, Remote!StateIfCurrent,
         Proofs!StateIfCurrent, Remote!StateIs, Proofs!StateIs

-----------------------------------------------------------------------------
(***************************************************************************)
(* The composition starts and steps as its components do.                  *)
(***************************************************************************)
LEMMA BothStart ==
  ASSUME BackendInit
  PROVE  Init /\ Proofs!Init
BY DEF BackendInit, Remote!Fresh, Proofs!Fresh, Remote!Idle, Proofs!Idle, Remote!Init,
         Proofs!Init, Remote!NoGeneration, Proofs!NoGeneration, Remote!NoTask, Proofs!NoTask,
         Remote!NotStopping, Proofs!NotStopping, Remote!Slots, Proofs!Slots, Remote!Tasks,
         Proofs!Tasks, Remote!Tunnels, Proofs!Tunnels

LEMMA BothStep ==
  ASSUME [BackendNext]_backendVars
  PROVE  [Next]_vars /\ [Proofs!Next]_(Proofs!vars)
<1>1. ASSUME UNCHANGED remote
      PROVE  UNCHANGED Proofs!vars
  BY <1>1 DEF remote, Proofs!vars
<1>2. CASE UNCHANGED backendVars
  BY <1>1, <1>2 DEF backendVars
<1>3. ASSUME Next /\ UNCHANGED remote
      PROVE  [Next]_vars /\ [Proofs!Next]_(Proofs!vars)
  BY <1>1, <1>3
<1>4. CASE \/ Brokers(Toggle) \/ Brokers(Start) \/ Brokers(TimeoutsSet) \/ Brokers(Stop)
           \/ Brokers(Stopped) \/ Brokers(StartFailed) \/ Brokers(Reload)
  <2>1. Next /\ UNCHANGED remote
    BY <1>4 DEF Brokers, Next
  <2> QED
    BY <2>1, <1>3
<1>5. ASSUME NEW c \in Calls,
             \/ Brokers(First(c) /\ Run(c)) \/ Brokers(Load(c)) \/ Brokers(Ping(c)) \/ Brokers(Call(c))
             \/ Brokers(TimedOut(c)) \/ Brokers(Killed(c)) \/ Brokers(Tick(c)) \/ Brokers(Receive(c))
             \/ Brokers(Change(c)) \/ Brokers(Refuse(c)) \/ Brokers(Submit(c))
      PROVE  [Next]_vars /\ [Proofs!Next]_(Proofs!vars)
  <2>1. Next /\ UNCHANGED remote
    BY <1>5 DEF Brokers, Next
  <2> QED
    BY <2>1, <1>3
<1>6. ASSUME Proofs!Next /\ UNCHANGED vars
      PROVE  [Next]_vars /\ [Proofs!Next]_(Proofs!vars)
  BY <1>6
<1>7. ASSUME NEW c \in Callers, NEW path \in Paths \cup {"none"},
             Remotes(Narrowed(c, path) /\ Anew /\ Remote!Request(c, path))
      PROVE  Proofs!Next /\ UNCHANGED vars
  BY <1>7, SameRequest DEF Remotes, Proofs!Next
<1>8. ASSUME NEW c \in Callers,
             Remotes(Remote!Admit(c)) \/ Remotes(Remote!Announce(c)) \/ Remotes(Remote!Own(c))
      PROVE  Proofs!Next /\ UNCHANGED vars
  BY <1>8, SameCalls DEF Remotes, Proofs!Next
<1>9. ASSUME NEW k \in Remote!Tasks,
             Remotes(Remote!Spawn(k)) \/ Remotes(Remote!Answered(k)) \/ Remotes(Remote!EstablishFails(k))
      PROVE  Proofs!Next /\ UNCHANGED vars
  <2>1. k \in Proofs!Tasks
    BY DEF Remote!Tasks, Proofs!Tasks, Remote!Tunnels, Proofs!Tunnels
  <2> QED
    BY <1>9, <2>1, SameEstablish DEF Remotes, Proofs!Next
<1>10. ASSUME NEW t \in Remote!Tunnels,
              \/ Remotes(OneSlot /\ Remote!Die(t)) \/ Remotes(Remote!Stabilise(t)) \/ Remotes(Remote!Lost(t))
              \/ Remotes(Remote!Retry(t)) \/ Remotes(Remote!Resume(t))
       PROVE  Proofs!Next /\ UNCHANGED vars
  <2>1. t \in Proofs!Tunnels
    BY DEF Remote!Tunnels, Proofs!Tunnels
  <2> QED
    BY <1>10, <2>1, SameSupervisor DEF Remotes, Proofs!Next
<1>11. ASSUME NEW expected \in Remote!Known,
              Remotes(Remote!Disconnect(expected)) \/ Remotes(Anew /\ Remote!Shutdown(expected))
       PROVE  Proofs!Next /\ UNCHANGED vars
  <2>1. expected \in Proofs!Known
    BY DEF Remote!Known, Proofs!Known, Remote!NoGeneration, Proofs!NoGeneration, Remote!Tasks,
         Proofs!Tasks, Remote!Tunnels, Proofs!Tunnels
  <2> QED
    BY <1>11, <2>1, SameCloses DEF Remotes, Proofs!Next
<1>12. ASSUME NEW d \in closing, Remotes(Remote!PublishDisconnected(d))
       PROVE  Proofs!Next /\ UNCHANGED vars
  BY <1>12, SamePublish DEF Remotes, Proofs!Next
<1>13. CASE \/ Remotes(Remote!ShutdownAdmitted) \/ Remotes(Remote!DaemonStopped)
            \/ Remotes(Remote!ShutdownFails) \/ Remotes(Remote!Forget) \/ Remotes(Remote!Forgotten)
  <2>1. Proofs!Next /\ UNCHANGED vars
    BY <1>13, SameRest DEF Remotes, Proofs!Next
  <2> QED
    BY <2>1, <1>6
<1> QED
  BY <1>2, <1>4, <1>5, <1>6, <1>7, <1>8, <1>9, <1>10, <1>11, <1>12, <1>13 DEF BackendNext

LEMMA BackendInvariance == BackendSpec => [](IInv /\ Proofs!IInv)
<1>1. BackendInit => IInv /\ Proofs!IInv
  BY BothStart, Initially, SameAssumption, Proofs!InitInv
<1>2. IInv /\ Proofs!IInv /\ [BackendNext]_backendVars => IInv' /\ Proofs!IInv'
  BY BothStep, Inductive, SameAssumption, Proofs!NextInv
<1> QED
  BY <1>1, <1>2, PTL DEF BackendSpec

-----------------------------------------------------------------------------
\* The state of the broker and that of the remote host keep their types.
THEOREM BackendTypeCorrect == BackendSpec => []BackendTypes
<1>1. IInv /\ Proofs!IInv => BackendTypes
  <2>1. Proofs!TypeOK => Remote!TypeOK
    BY DEF Remote!Generations, Proofs!Generations, Remote!NoGeneration, Proofs!NoGeneration,
         Remote!NoTask, Proofs!NoTask, Remote!Slot, Proofs!Slot, Remote!Slots, Proofs!Slots,
         Remote!Stopper, Proofs!Stopper, Remote!Task, Proofs!Task, Remote!Tasks, Proofs!Tasks,
         Remote!Tunnels, Proofs!Tunnels, Remote!TypeOK, Proofs!TypeOK
  <2> QED
    BY <2>1 DEF BackendTypes, IInv, Proofs!IInv
<1> QED
  BY <1>1, BackendInvariance, PTL

\* A tunnel that runs is started under the lock of its slot or is the one its slot is Ready
\* with, for any numbers of connects, slots, tunnels, disconnects and attempts.
THEOREM RemoteTunnelsOwned == BackendSpec => []TunnelsOwned
<1>1. IInv /\ Proofs!IInv => TunnelsOwned
  <2>1. Proofs!IInv => Proofs!TunnelsOwned
    BY SameAssumption, Proofs!OwnedByInv
  <2>2. Proofs!TunnelsOwned => Remote!TunnelsOwned
    BY DEF Remote!Current, Proofs!Current, Remote!Tasks, Proofs!Tasks, Remote!Tunnels,
         Proofs!Tunnels, Remote!TunnelsOwned, Proofs!TunnelsOwned
  <2> QED
    BY <2>1, <2>2 DEF TunnelsOwned
<1> QED
  BY <1>1, BackendInvariance, PTL

\* A slot shown as Connecting, Reconnecting or Ready has someone who will move it on, for
\* every instance.
THEOREM RemoteSlotsAttended == BackendSpec => []Attended
<1>1. IInv /\ Proofs!IInv => Attended
  <2>1. Proofs!IInv => Proofs!Attended
    BY SameAssumption, Proofs!AttendedByInv
  <2>2. Proofs!Attended => Remote!Attended
    BY DEF Remote!Attended, Proofs!Attended, Remote!Attending, Proofs!Attending, Remote!Current,
         Proofs!Current, Remote!Finished, Proofs!Finished, Remote!Slots, Proofs!Slots,
         Remote!Tasks, Proofs!Tasks, Remote!Tunnels, Proofs!Tunnels
  <2> QED
    BY <2>1, <2>2 DEF Attended
<1> QED
  BY <1>1, BackendInvariance, PTL

\* No tunnel runs for a forgotten host unless its connect read the slot after the
\* tombstone, for every instance.
THEOREM RemoteNoOrphan == BackendSpec => []NoOrphan
<1>1. IInv /\ Proofs!IInv => NoOrphan
  <2>1. Proofs!IInv => Proofs!NoOrphan
    BY SameAssumption, Proofs!NoOrphanByInv
  <2>2. Proofs!NoOrphan => Remote!NoOrphan
    BY DEF Remote!NoOrphan, Proofs!NoOrphan, Remote!Tunnels, Proofs!Tunnels
  <2> QED
    BY <2>1, <2>2 DEF NoOrphan
<1> QED
  BY <1>1, BackendInvariance, PTL

\* Supervisors re-establish no more short-lived tunnels in a row than the budget allows,
\* for every budget.
THEOREM RemoteBudgetHolds == BackendSpec => []BudgetHolds
<1>1. IInv /\ Proofs!IInv => BudgetHolds
  BY DEF BudgetHolds, Remote!BudgetHolds, Proofs!BudgetHolds, Remote!Slots, Proofs!Slots, Proofs!IInv
<1> QED
  BY <1>1, BackendInvariance, PTL

=============================================================================

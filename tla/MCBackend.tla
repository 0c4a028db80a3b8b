----------------------------- MODULE MCBackend -----------------------------
(* Two parts of the plumbing between the app and what runs outside it, side *)
(* by side: the broker of berdctl, and the tunnels to a remote host.  Their *)
(* state is disjoint; the initial state says which part a behaviour is      *)
(* about and the other rests in it.                                         *)
EXTENDS Berdctl

CONSTANTS c1, k1, Callers, Paths, MaxAttempts, MaxSlots, MaxTunnels, MaxCloses

VARIABLES
  part,
  slots, made, registered, connectLock, tunnel, task, closing, closes, forgetting, stopping,
  unstable, late

Remote == INSTANCE RemoteBackend
ASSUME RemoteInstance == Remote!RemoteAssumption

remote == <<slots, made, registered, connectLock, tunnel, task, closing, closes, forgetting, stopping,
            unstable, late>>
backendVars == <<part, vars, remote>>

Brokers(A) == part = "broker" /\ A /\ UNCHANGED <<part, remote>>
Remotes(A) == part = "remote" /\ A /\ UNCHANGED <<part, vars>>

\* The commands are interchangeable, and the second starts when the call of the first
\* has been dispatched or is over.
First(c) == c = c1 \/ cli[c1].pc \in {"wait", "done"}

\* Only the second connect asks for another binary, of the host's first slot, and then
\* the host gets no second one.  A tunnel dies only while the host has had one slot.
Narrowed(c, path) == path = "none" \/ (c # k1 /\ registered = 1)
Anew == registered = 0 /\ made = 1 => slots[1].path = "none"
OneSlot == made = 1

BackendInit ==
  /\ part \in {"broker", "remote"}
  /\ Init
  /\ Remote!Init

BackendNext ==
  \/ Brokers(Toggle) \/ Brokers(Start) \/ Brokers(TimeoutsSet) \/ Brokers(Stop)
  \/ Brokers(Stopped) \/ Brokers(StartFailed) \/ Brokers(Reload)
  \/ \E c \in Calls :
       \/ Brokers(First(c) /\ Run(c)) \/ Brokers(Load(c)) \/ Brokers(Ping(c)) \/ Brokers(Call(c))
       \/ Brokers(TimedOut(c)) \/ Brokers(Killed(c)) \/ Brokers(Tick(c)) \/ Brokers(Receive(c))
       \/ Brokers(Change(c)) \/ Brokers(Refuse(c)) \/ Brokers(Submit(c))

  \/ \E c \in Callers :
       \/ \E path \in Paths \cup {"none"} : Remotes(Narrowed(c, path) /\ Anew /\ Remote!Request(c, path))
       \/ Remotes(Remote!Admit(c)) \/ Remotes(Remote!Announce(c)) \/ Remotes(Remote!Own(c))
  \/ \E k \in Remote!Tasks :
       Remotes(Remote!Spawn(k)) \/ Remotes(Remote!Answered(k)) \/ Remotes(Remote!EstablishFails(k))
  \/ \E t \in Remote!Tunnels :
       \/ Remotes(OneSlot /\ Remote!Die(t)) \/ Remotes(Remote!Stabilise(t)) \/ Remotes(Remote!Lost(t))
       \/ Remotes(Remote!Retry(t)) \/ Remotes(Remote!Resume(t))
  \/ \E expected \in Remote!Known :
       Remotes(Remote!Disconnect(expected)) \/ Remotes(Anew /\ Remote!Shutdown(expected))
  \/ \E d \in closing : Remotes(Remote!PublishDisconnected(d))
  \/ Remotes(Remote!ShutdownAdmitted) \/ Remotes(Remote!DaemonStopped)
  \/ Remotes(Remote!ShutdownFails) \/ Remotes(Remote!Forget) \/ Remotes(Remote!Forgotten)

\* Only the broker promises progress; the fairness is that of its component.
BackendSpec ==
  /\ BackendInit /\ [][BackendNext]_backendVars
  /\ \A c \in Calls : WF_vars(part = "broker" /\ Proceeds(c))

----------------------------------------------------------------------------
\* Every part keeps its types.
BackendTypes == TypeOK /\ Remote!TypeOK

\* A running tunnel belongs to the current generation of a slot and is watched.
TunnelsOwned == Remote!TunnelsOwned

\* A slot that is not at rest has someone who works for it.
Attended == Remote!Attended

\* No tunnel runs for a host that was forgotten.
NoOrphan == Remote!NoOrphan

\* Supervisors re-establish a tunnel that keeps dying a bounded number of times.
BudgetHolds == Remote!BudgetHolds
=============================================================================

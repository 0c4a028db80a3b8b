-------------------------- MODULE MCSessionTarget --------------------------
(* Small instances of SessionTarget: models a and b and the boundary p of   *)
(* one provider, and a model c of another.                                  *)
EXTENDS SessionTarget, TLC
CONSTANTS a, b, p, c, P, Q, r1, r2, r3, d1, d2

AllProviders == (a :> P) @@ (b :> P) @@ (p :> P) @@ (c :> Q)
MCProvider == [t \in Targets |-> AllProviders[t]]

SameTarget == [t \in Targets |-> {t}]
\* Managed-model repair replaces a by another target of the instance.
MCRepair == [t \in Targets |-> IF t = a THEN Concrete ELSE {t}]

\* The coordinator with its pickers and dispatches alone, and with a session that may
\* be removed: nothing else observes or writes the target.
Alone ==
  \/ RunWoken \/ Notify
  \/ \E r \in Requests : Execute(r) \/ User(r)
  \/ \E d \in Attempts : Dispatch(d)

RaceSpec == Init /\ [][Alone]_vars
LiveSpec == Init /\ [][Alone \/ Remove]_vars /\ Fairness

Symmetry == Permutations(Requests) \cup Permutations(Attempts)
=============================================================================

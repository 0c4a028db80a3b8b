------------------------------ MODULE Berdctl ------------------------------
(* Commands that agents give the app: the berdctl command line finds the    *)
(* broker through a discovery file, the broker forwards a call to the main  *)
(* renderer and waits for its result, and the renderer starts and stops the *)
(* broker, refuses what comes too late and may be reloaded at any time      *)
(* (src/src-tauri/crates/berdctl, src/src-tauri/plugins/berdctl,            *)
(* src/src/features/berdctl/bridge).                                        *)
EXTENDS Naturals, Sequences, FiniteSets

CONSTANTS
  Calls,        \* the commands that are given, each once
  Limit,        \* IN_FLIGHT_LIMIT
  Timeout,      \* the bridge timeout, in ticks of a call's clock
  Margin,       \* MUTATION_DEADLINE_MARGIN_MS
  LastTick,     \* bound: where the clock of a call stops
  MaxStarts,    \* bound: starts of the broker
  MaxChanges    \* bound: changes of the desired state and reloads of the renderer

ASSUME BerdctlAssumption ==
  /\ IsFiniteSet(Calls)
  /\ Limit \in Nat /\ Timeout \in Nat /\ Margin \in Nat \ {0}
  /\ LastTick \in Nat /\ MaxStarts \in Nat /\ MaxChanges \in Nat

VARIABLES
  generation,   \* of the last broker started
  server,       \* the generation of the broker that listens, 0 for none
  found,        \* the generation in the discovery file, 0 when there is no file
  permits,      \* of each broker
  invoked,      \* start and stop commands the native process has not executed
  bridge,       \* the lifecycle singleton of the renderer
  changes,      \* history: how often these happened
  cli,          \* each command line
  waiting,      \* the broker that waits for the result of a call, 0 for none
  entry,        \* the calls in the pending map
  work,         \* what the renderer does with each call
  clock,        \* ticks since each call was dispatched
  since,        \* its clock when the renderer received it
  executed      \* history: how often each command changed the app

broker == <<generation, server, found, invoked, bridge, changes>>
calls == <<permits, cli, waiting, entry, work, clock, since, executed>>
vars == <<broker, calls>>

Generations == 0..MaxStarts
Outcomes == {"none", "ok", "refused", "busy", "unreachable", "rejected", "failed", "killed"}
Progress == {"idle", "load", "reload", "ping", "call", "wait", "done"}
Bridge == [desired : BOOLEAN, applied : BOOLEAN, running : BOOLEAN,
           pc : {"idle", "starting", "timeouts", "undoing", "stopping"}, want : BOOLEAN]

TypeOK ==
  /\ generation \in Generations /\ server \in Generations /\ found \in Generations
  /\ permits \in [Generations -> 0..Limit]
  /\ invoked \in Seq({"start", "stop"} \X BOOLEAN)
  /\ bridge \in Bridge
  /\ changes \in 0..MaxChanges
  /\ cli \in [Calls -> [pc : Progress, to : Generations, again : BOOLEAN, retried : BOOLEAN,
                        outcome : Outcomes]]
  /\ waiting \in [Calls -> Generations] /\ entry \subseteq Calls
  /\ work \in [Calls -> {"none", "sent", "running", "changed", "settled"}]
  /\ clock \in [Calls -> 0..LastTick] /\ since \in [Calls -> 0..LastTick]
  /\ executed \in [Calls -> 0..2]

----------------------------------------------------------------------------
(* The lifecycle of the broker.                                             *)

\* The loop of reconcile up to its next await: b is what the renderer knows.
Asked(op) == invoked' = Append(invoked, <<op, TRUE>>)
Settled(b) == bridge' = [b EXCEPT !.pc = "idle"] /\ UNCHANGED invoked

\* A stop of what does not run, like a start of what does, changes nothing.
Reconcile(b) ==
  IF b.applied = b.desired THEN Settled(b)
  ELSE IF b.desired = b.running THEN Settled([b EXCEPT !.applied = b.desired])
  ELSE IF b.desired
    THEN bridge' = [b EXCEPT !.pc = "starting", !.want = TRUE] /\ Asked("start")
    ELSE bridge' = [b EXCEPT !.pc = "stopping", !.want = FALSE, !.running = FALSE] /\ Asked("stop")

\* Mutant: what is desired by now counts as applied.
AppliedNow(b) == [b EXCEPT !.applied = b.desired]
Applied(b) == [b EXCEPT !.applied = b.want]

\* setBerdctlDesired.
Toggle ==
  /\ changes < MaxChanges
  /\ changes' = changes + 1
  /\ LET b == [bridge EXCEPT !.desired = ~@]
     IN IF bridge.pc = "idle" THEN Reconcile(b) ELSE bridge' = b /\ UNCHANGED invoked
  /\ UNCHANGED <<generation, server, found, calls>>

\* start: idempotent; the discovery file is published last, and a start that cannot
\* publish it fails.
Start ==
  /\ invoked # <<>> /\ Head(invoked)[1] = "start"
  /\ invoked' = Tail(invoked)
  /\ \E published \in BOOLEAN :
       /\ server # 0 => published
       /\ IF server # 0 THEN UNCHANGED <<generation, server, found>>
          ELSE /\ generation < MaxStarts
               /\ generation' = generation + 1
               /\ IF published THEN server' = generation' /\ found' = generation'
                               ELSE UNCHANGED <<server, found>>
       /\ bridge' = IF ~Head(invoked)[2] THEN bridge
                    ELSE IF published THEN [bridge EXCEPT !.pc = "timeouts"]
                    ELSE [bridge EXCEPT !.pc = "idle", !.applied = TRUE]
  /\ UNCHANGED <<changes, calls>>

\* set_timeouts; a failure stops the broker again.
TimeoutsSet ==
  /\ bridge.pc = "timeouts"
  /\ \/ Reconcile(Applied([bridge EXCEPT !.running = TRUE]))
     \/ bridge' = [bridge EXCEPT !.pc = "undoing"] /\ Asked("stop")
  /\ UNCHANGED <<generation, server, found, changes, calls>>

\* stop: the listener closes, and then the file goes.
Stop ==
  /\ invoked # <<>> /\ Head(invoked)[1] = "stop"
  /\ \/ server # 0 /\ server' = 0 /\ UNCHANGED <<found, invoked>>
     \/ /\ server = 0
        /\ found' = 0 /\ invoked' = Tail(invoked)
        /\ UNCHANGED server
  /\ UNCHANGED <<generation, bridge, changes, calls>>

\* The reconciler goes on after its stop, or after a start that failed.
Stopped ==
  /\ bridge.pc \in {"stopping", "undoing"}
  /\ ~\E i \in DOMAIN invoked : invoked[i][2]
  /\ Reconcile(Applied(bridge))
  /\ UNCHANGED <<generation, server, found, changes, calls>>

StartFailed ==
  /\ bridge.pc = "idle" /\ bridge.applied # bridge.desired
  /\ Reconcile(bridge)
  /\ UNCHANGED <<generation, server, found, changes, calls>>

\* The renderer is reloaded: its work is lost, its bridge is mounted anew, and what it
\* asked of the native process still happens.
Reload ==
  /\ changes < MaxChanges
  /\ changes' = changes + 1
  /\ work' = [c \in Calls |-> IF work[c] = "none" THEN "none" ELSE "settled"]
  /\ bridge' = [desired |-> TRUE, applied |-> FALSE, running |-> FALSE, pc |-> "starting", want |-> TRUE]
  /\ invoked' = Append([i \in DOMAIN invoked |-> <<invoked[i][1], FALSE>>], <<"start", TRUE>>)
  /\ UNCHANGED <<generation, server, found, permits, cli, waiting, entry, clock, since, executed>>

----------------------------------------------------------------------------
(* The command line.                                                        *)

Unstarted == [pc |-> "idle", to |-> 0, again |-> FALSE, retried |-> FALSE, outcome |-> "none"]
At(c, pc) == [cli EXCEPT ![c].pc = pc]
Ends(c, outcome) == [cli EXCEPT ![c] = [Unstarted EXCEPT !.pc = "done", !.outcome = outcome]]
Unserved == UNCHANGED <<permits, waiting, entry, work, clock, since, executed>>

Run(c) ==
  /\ cli[c].pc = "idle"
  /\ cli' = At(c, "load")
  /\ UNCHANGED broker /\ Unserved

\* load_with_retry: a file that is missing is looked for once more.
Load(c) ==
  /\ cli[c].pc \in {"load", "reload"}
  /\ cli' = IF found # 0 THEN [cli EXCEPT ![c].pc = "ping", ![c].to = found, ![c].again = FALSE]
            ELSE IF cli[c].pc = "load" THEN At(c, "reload")
            ELSE Ends(c, "unreachable")
  /\ UNCHANGED broker /\ Unserved

\* A broker that was started later may listen on the port of an earlier one; it knows
\* another capability.
Reaches(c) == server # 0 /\ server = cli[c].to
Taken(c) == server # 0 /\ server # cli[c].to

\* handshake: one more attempt, with the file as it is now.
Ping(c) ==
  /\ cli[c].pc = "ping"
  /\ \/ Reaches(c) /\ cli' = At(c, "call")
     \/ /\ Taken(c)
        /\ cli' = IF ~cli[c].again /\ found # 0
                    THEN [cli EXCEPT ![c].to = found, ![c].again = TRUE]
                    ELSE Ends(c, "unreachable")
     \/ ~Reaches(c) /\ cli' = Ends(c, "unreachable")
  /\ UNCHANGED broker /\ Unserved

\* Mutant: any failure of the first call is tried again.
AlwaysRetries(c, why) == why # "ok" /\ ~cli[c].retried
Retries(c, why) == why = "rejected" /\ ~cli[c].retried

\* What call_once returned: a call that the broker is known not to have read is repeated.
Returned(c, why) ==
  IF Retries(c, why) THEN [cli EXCEPT ![c].pc = "load", ![c].retried = TRUE]
                     ELSE Ends(c, why)

\* handle_call: the capability, a permit, and the bridge.  The event may not reach a
\* window.
Call(c) ==
  /\ cli[c].pc = "call"
  /\ UNCHANGED <<broker, since, executed>>
  /\ \/ /\ Reaches(c) /\ permits[server] > 0
        /\ permits' = [permits EXCEPT ![server] = @ - 1]
        /\ waiting' = [waiting EXCEPT ![c] = server]
        /\ entry' = entry \cup {c}
        /\ work' = [work EXCEPT ![c] = "sent"] /\ clock' = [clock EXCEPT ![c] = 0]
        /\ cli' = [cli EXCEPT ![c] = [Unstarted EXCEPT !.pc = "wait", !.retried = cli[c].retried]]
     \/ /\ \/ Reaches(c) /\ cli' = Returned(c, IF permits[server] = 0 THEN "busy" ELSE "failed")
           \/ Taken(c) /\ cli' = Returned(c, "rejected")
           \/ ~Reaches(c) /\ cli' = Returned(c, "unreachable")
        /\ UNCHANGED <<permits, waiting, entry, work, clock>>

\* The handler returns, with its permit.
\* Mutant: the permit goes to the broker that listens now.
ReleaseCurrent(c) ==
  IF server = 0 THEN permits ELSE [permits EXCEPT ![server] = @ + 1]
Released(c) == [permits EXCEPT ![waiting[c]] = @ + 1]

Answered(c, outcome) ==
  /\ permits' = Released(c)
  /\ waiting' = [waiting EXCEPT ![c] = 0]
  /\ cli' = Returned(c, outcome)

\* Mutant: the bridge waits for the renderer.
NeverDue(c) == FALSE
Due(c) == clock[c] = Timeout

\* The timeout of dispatch_with.
TimedOut(c) ==
  /\ cli[c].pc = "wait" /\ Due(c)
  /\ Answered(c, "failed")
  /\ entry' = entry \ {c}
  /\ UNCHANGED <<broker, work, clock, since, executed>>

\* The command line is killed: the connection closes and the handler is dropped, its
\* entry stays.
Killed(c) ==
  /\ cli[c].pc = "wait"
  /\ permits' = Released(c)
  /\ waiting' = [waiting EXCEPT ![c] = 0]
  /\ cli' = Ends(c, "killed")
  /\ UNCHANGED <<broker, entry, work, clock, since, executed>>

\* Time passes; the timeout of the broker is punctual.
Tick(c) ==
  /\ cli[c].pc = "wait" \/ work[c] \in {"sent", "running"}
  /\ clock[c] < LastTick
  /\ cli[c].pc = "wait" => clock[c] < Timeout
  /\ clock' = [clock EXCEPT ![c] = @ + 1]
  /\ UNCHANGED <<broker, permits, cli, waiting, entry, work, since, executed>>

----------------------------------------------------------------------------
(* The renderer.                                                            *)

\* handleBerdctlRequest, when the renderer gets to the event.
Receive(c) ==
  /\ work[c] = "sent"
  /\ work' = [work EXCEPT ![c] = "running"]
  /\ since' = [since EXCEPT ![c] = clock[c]]
  /\ UNCHANGED <<broker, permits, cli, waiting, entry, clock, executed>>

\* refusePastDeadline.
\* Mutant: no margin is left for the change.
NoMargin(c) == clock[c] - since[c] > Timeout
PastDeadline(c) == clock[c] - since[c] > Timeout - Margin

\* The command has been validated and changes the app.
Change(c) ==
  /\ work[c] = "running" /\ ~PastDeadline(c)
  /\ work' = [work EXCEPT ![c] = "changed"]
  /\ executed' = [executed EXCEPT ![c] = @ + 1]
  /\ UNCHANGED <<broker, permits, cli, waiting, entry, clock, since>>

\* submit_result: an entry that is gone makes the result a no-op.  An entry whose
\* handler was dropped is removed.
Submits(c, outcome) ==
  /\ work' = [work EXCEPT ![c] = "settled"]
  /\ entry' = entry \ {c}
  /\ IF c \in entry /\ cli[c].pc = "wait" THEN Answered(c, outcome)
                                         ELSE UNCHANGED <<permits, waiting, cli>>
  /\ clock' = [clock EXCEPT ![c] = 0] /\ since' = [since EXCEPT ![c] = 0]
  /\ UNCHANGED <<broker, executed>>

\* The command was invalid, guarded against or too late, or it is done.
Refuse(c) == work[c] = "running" /\ Submits(c, "refused")
Submit(c) == work[c] = "changed" /\ Submits(c, "ok")

----------------------------------------------------------------------------
Init ==
  /\ generation = 0 /\ server = 0 /\ found = 0 /\ permits = [g \in Generations |-> Limit]
  /\ invoked = <<<<"start", TRUE>>>>
  /\ bridge = [desired |-> TRUE, applied |-> FALSE, running |-> FALSE, pc |-> "starting", want |-> TRUE]
  /\ changes = 0
  /\ cli = [c \in Calls |-> Unstarted]
  /\ waiting = [c \in Calls |-> 0] /\ entry = {} /\ work = [c \in Calls |-> "none"]
  /\ clock = [c \in Calls |-> 0] /\ since = [c \in Calls |-> 0]
  /\ executed = [c \in Calls |-> 0]

Next ==
  \/ Toggle \/ Start \/ TimeoutsSet \/ Stop \/ Stopped \/ StartFailed \/ Reload
  \/ \E c \in Calls :
       \/ Run(c) \/ Load(c) \/ Ping(c) \/ Call(c) \/ TimedOut(c) \/ Killed(c)
       \/ Tick(c) \/ Receive(c) \/ Change(c) \/ Refuse(c) \/ Submit(c)

Spec == Init /\ [][Next]_vars

\* The command line and the broker are running programs, and time passes while a call
\* waits.  The renderer need not do anything.
Proceeds(c) ==
  Load(c) \/ Ping(c) \/ Call(c) \/ TimedOut(c) \/ (cli[c].pc = "wait" /\ Tick(c))

FairSpec == Spec /\ \A c \in Calls : WF_vars(Proceeds(c))

----------------------------------------------------------------------------
\* A command changes the app at most once, although a call the broker did not read is
\* repeated; and what a command line reports as refused, busy, rejected or unreachable
\* has changed nothing and never will.
OutcomeIsTrue ==
  \A c \in Calls :
    /\ executed[c] <= 1
    /\ cli[c].outcome \in {"refused", "busy", "rejected", "unreachable"}
         => executed[c] = 0 /\ work[c] \in {"none", "settled"}

\* A broker has all the permits its waiting handlers do not hold, whichever broker
\* listens by now.
PermitsAccounted ==
  \A g \in Generations : permits[g] + Cardinality({c \in Calls : waiting[c] = g /\ g # 0}) = Limit

\* When the reconciler rests the broker is what was declared last: one that is not
\* wanted neither listens nor can be found, one believed to run can be found.
BrokerSettled ==
  bridge.pc = "idle" /\ bridge.applied = bridge.desired /\ invoked = <<>> =>
    /\ ~bridge.desired => server = 0 /\ found = 0
    /\ bridge.running => server # 0 /\ found = server

\* Every command line comes to an end, whatever the renderer does.
CallEnded == \A c \in Calls : (cli[c].pc \in {"load", "wait"}) ~> (cli[c].pc = "done")

\* The app is not changed by a command whose caller was told that it failed, if the
\* renderer received the command at once: its deadline counts from the receipt.
ChangesInTime ==
  [][\A c \in Calls : executed'[c] # executed[c] /\ since[c] = 0
       => cli[c].outcome # "failed"]_vars
=============================================================================

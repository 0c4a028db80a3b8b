--------------------------- MODULE Berdctl_proofs ---------------------------
(***************************************************************************)
(* What Berdctl promises, for any number of commands, permits, restarts of *)
(* the broker and reloads of the renderer, and any timeout: permits are    *)
(* accounted for, outcomes are true, the app is not changed by a command   *)
(* that was received at once and reported as failed, and the broker ends   *)
(* as it was declared last.                                                *)
(***************************************************************************)
EXTENDS Berdctl, SequenceTheorems, FiniteSetTheorems, TLAPS

(***************************************************************************)
(* The inductive invariant.  TypeOK says nothing of how the parts of the   *)
(* state go together; what does has three parts, and no action needs more  *)
(* than its own.                                                           *)
(***************************************************************************)

\* Each call: a handler waits exactly while its command line does, the app changes only
\* while the renderer works, and a call that failed while its command is still to be
\* run has waited for the whole timeout.
CallOK(c) ==
  /\ cli[c].pc = "wait" <=> waiting[c] # 0
  /\ cli[c].pc \notin {"wait", "done"} => work[c] = "none"
  /\ cli[c].pc # "done" => cli[c].outcome = "none"
  /\ work[c] \in {"none", "sent", "running"} => executed[c] = 0
  /\ executed[c] <= 1
  /\ cli[c].outcome \in {"refused", "busy", "unreachable", "rejected"}
       => executed[c] = 0 /\ work[c] \in {"none", "settled"}
  /\ cli[c].outcome = "failed" /\ work[c] \in {"sent", "running"} => clock[c] >= Timeout

CallInv == \A c \in Calls : CallOK(c)

\* The handlers of a broker.
Holders(g) == {c \in Calls : waiting[c] = g /\ g # 0}

\* The last command the native process was given is the one the reconciler waits for,
\* if it waits at all.
Awaits == {"starting", "stopping", "undoing"}
Owed ==
  /\ \A i \in DOMAIN invoked : invoked[i][2] <=> i = Len(invoked)
  /\ invoked # <<>> =>
       /\ bridge.pc \in Awaits
       /\ invoked[Len(invoked)][1] = IF bridge.pc = "starting" THEN "start" ELSE "stop"
  /\ bridge.pc = "starting" => invoked # <<>>

\* The discovery file names the broker that listens, and outlives it only while a stop
\* is half done; what the reconciler believes is so whenever it rests.
Believed ==
  /\ server # 0 => found = server
  /\ server = 0 /\ found # 0 => invoked # <<>> /\ Head(invoked)[1] = "stop"
  /\ bridge.pc \in {"stopping", "undoing"} /\ invoked = <<>> => server = 0 /\ found = 0
  /\ bridge.pc # "idle" => ~bridge.running
  /\ bridge.pc \in {"starting", "timeouts"} => bridge.want
  /\ bridge.pc = "timeouts" => server # 0
  /\ bridge.pc = "idle" => IF bridge.running THEN server # 0 /\ bridge.applied
                                             ELSE server = 0 /\ found = 0

IInv == TypeOK /\ CallInv /\ PermitsAccounted /\ Owed /\ Believed

-----------------------------------------------------------------------------
(* Queues *)

\* A sequence that something joins at the end, or whose first element leaves.
LEMMA AppendFacts ==
  ASSUME NEW S, NEW s \in Seq(S), NEW e \in S
  PROVE  /\ Append(s, e) \in Seq(S)
         /\ Len(Append(s, e)) = Len(s) + 1
         /\ DOMAIN Append(s, e) = 1 .. Len(s) + 1
         /\ \A i \in 1 .. Len(s) : Append(s, e)[i] = s[i]
         /\ Append(s, e)[Len(s) + 1] = e
  OBVIOUS

LEMMA TailFacts ==
  ASSUME NEW S, NEW s \in Seq(S), s # <<>>
  PROVE  /\ Tail(s) \in Seq(S)
         /\ Head(s) = s[1] /\ 1 \in DOMAIN s /\ s[1] \in S
         /\ DOMAIN Tail(s) = 1 .. Len(s) - 1
         /\ \A i \in 1 .. Len(s) - 1 : Tail(s)[i] = s[i + 1]
  OBVIOUS

-----------------------------------------------------------------------------
(* Permits: a handler takes one and gives it back to the broker it is of.  *)

LEMMA HoldersFinite ==
  ASSUME NEW g
  PROVE  IsFiniteSet(Holders(g)) /\ Cardinality(Holders(g)) \in Nat
  BY FS_Subset, FS_CardinalityType, BerdctlAssumption DEF Holders

LEMMA PermitTaken ==
  ASSUME TypeOK, PermitsAccounted, NEW c \in Calls, waiting[c] = 0, server # 0,
         permits' = [permits EXCEPT ![server] = @ - 1],
         waiting' = [waiting EXCEPT ![c] = server]
  PROVE  PermitsAccounted'
<1> SUFFICES ASSUME NEW g \in Generations
             PROVE  permits'[g] + Cardinality(Holders(g)') = Limit
  BY DEF PermitsAccounted, Holders
<1>1. permits[g] + Cardinality(Holders(g)) = Limit /\ permits[g] \in Nat /\ Limit \in Nat
  BY BerdctlAssumption DEF PermitsAccounted, Holders, TypeOK
<1>2. IsFiniteSet(Holders(g)) /\ Cardinality(Holders(g)) \in Nat
  BY HoldersFinite
<1>3. CASE g = server
  <2>1. Holders(g)' = Holders(g) \cup {c} /\ c \notin Holders(g)
    BY <1>3 DEF Holders, TypeOK
  <2>2. Cardinality(Holders(g)') = Cardinality(Holders(g)) + 1
    BY <1>2, <2>1, FS_AddElement
  <2>3. permits'[g] = permits[g] - 1
    BY <1>3 DEF TypeOK
  <2> QED
    BY <1>1, <1>2, <2>2, <2>3
<1>4. CASE g # server
  <2>1. Holders(g)' = Holders(g) /\ permits'[g] = permits[g]
    BY <1>4 DEF Holders, TypeOK
  <2> QED
    BY <1>1, <2>1
<1> QED
  BY <1>3, <1>4

LEMMA PermitReturned ==
  ASSUME TypeOK, PermitsAccounted, NEW c \in Calls, waiting[c] # 0,
         permits' = Released(c), waiting' = [waiting EXCEPT ![c] = 0]
  PROVE  PermitsAccounted'
<1> SUFFICES ASSUME NEW g \in Generations
             PROVE  permits'[g] + Cardinality(Holders(g)') = Limit
  BY DEF PermitsAccounted, Holders
<1>1. permits[g] + Cardinality(Holders(g)) = Limit /\ permits[g] \in Nat /\ Limit \in Nat
  BY BerdctlAssumption DEF PermitsAccounted, Holders, TypeOK
<1>2. IsFiniteSet(Holders(g)) /\ Cardinality(Holders(g)) \in Nat
  BY HoldersFinite
<1>3. CASE g = waiting[c]
  <2>1. Holders(g)' = Holders(g) \ {c} /\ c \in Holders(g)
    BY <1>3 DEF Holders, TypeOK
  <2>2. Cardinality(Holders(g)') = Cardinality(Holders(g)) - 1
    BY <1>2, <2>1, FS_RemoveElement
  <2>3. permits'[g] = permits[g] + 1
    BY <1>3 DEF TypeOK, Released
  <2> QED
    BY <1>1, <1>2, <2>2, <2>3
<1>4. CASE g # waiting[c]
  <2>1. Holders(g)' = Holders(g) /\ permits'[g] = permits[g]
    BY <1>4 DEF Holders, TypeOK, Released
  <2> QED
    BY <1>1, <2>1
<1> QED
  BY <1>3, <1>4

LEMMA PermitsKept ==
  ASSUME TypeOK, CallInv, PermitsAccounted, [Next]_vars
  PROVE  PermitsAccounted'
<1>1. CASE UNCHANGED <<permits, waiting>>
  BY <1>1 DEF PermitsAccounted
<1>2. ASSUME NEW c \in Calls, Call(c)
      PROVE  PermitsAccounted'
  <2>1. waiting[c] = 0
    BY <1>2 DEF Call, CallInv, CallOK
  <2>2. CASE UNCHANGED <<permits, waiting>>
    BY <1>1, <2>2
  <2>3. CASE ~UNCHANGED <<permits, waiting>>
    <3>1. /\ server # 0
          /\ permits' = [permits EXCEPT ![server] = @ - 1]
          /\ waiting' = [waiting EXCEPT ![c] = server]
      BY <1>2, <2>3 DEF Call, Reaches
    <3> QED
      BY <2>1, <3>1, PermitTaken
  <2> QED
    BY <2>2, <2>3
<1>3. ASSUME NEW c \in Calls, TimedOut(c) \/ Killed(c)
      PROVE  PermitsAccounted'
  <2>1. waiting[c] # 0 /\ permits' = Released(c) /\ waiting' = [waiting EXCEPT ![c] = 0]
    BY <1>3 DEF TimedOut, Killed, Answered, CallInv, CallOK
  <2> QED
    BY <2>1, PermitReturned
<1>4. ASSUME NEW c \in Calls, Refuse(c) \/ Submit(c)
      PROVE  PermitsAccounted'
  <2>1. CASE UNCHANGED <<permits, waiting>>
    BY <1>1, <2>1
  <2>2. CASE ~UNCHANGED <<permits, waiting>>
    <3>1. waiting[c] # 0 /\ permits' = Released(c) /\ waiting' = [waiting EXCEPT ![c] = 0]
      BY <1>4, <2>2 DEF Refuse, Submit, Submits, Answered, CallInv, CallOK
    <3> QED
      BY <3>1, PermitReturned
  <2> QED
    BY <2>1, <2>2
<1>5. CASE Toggle \/ Start \/ TimeoutsSet \/ Stop \/ Stopped \/ StartFailed \/ Reload
  BY <1>1, <1>5 DEF Toggle, Start, TimeoutsSet, Stop, Stopped, StartFailed, Reload, calls
<1>6. ASSUME NEW c \in Calls,
             Run(c) \/ Load(c) \/ Ping(c) \/ Tick(c) \/ Receive(c) \/ Change(c)
      PROVE  PermitsAccounted'
  BY <1>1, <1>6 DEF Run, Load, Ping, Tick, Receive, Change, Unserved
<1>7. CASE UNCHANGED vars
  BY <1>1, <1>7 DEF vars, calls
<1> QED
  BY <1>2, <1>3, <1>4, <1>5, <1>6, <1>7 DEF Next

-----------------------------------------------------------------------------
(* Calls.                                                                  *)

Line == [pc : Progress, to : Generations, again : BOOLEAN, retried : BOOLEAN, outcome : Outcomes]

\* The command line of c alone moves.
Moves(c, line) ==
  /\ cli' \in [Calls -> Line]
  /\ cli'[c] = line
  /\ \A d \in Calls \ {c} : cli'[d] = cli[d]

LEMMA UnstartedType ==
  Unstarted \in Line
  BY BerdctlAssumption DEF Unstarted, Line, Progress, Generations, Outcomes

LEMMA LineMoves ==
  ASSUME cli \in [Calls -> Line], NEW c \in Calls, NEW line \in Line,
         cli' = [cli EXCEPT ![c] = line]
  PROVE  Moves(c, line)
  BY DEF Moves

LEMMA EndsMoves ==
  ASSUME cli \in [Calls -> Line], NEW c \in Calls, NEW why \in Outcomes, cli' = Ends(c, why)
  PROVE  /\ cli' \in [Calls -> Line]
         /\ cli'[c].pc = "done" /\ cli'[c].outcome = why
         /\ \A d \in Calls \ {c} : cli'[d] = cli[d]
<1> DEFINE line == [Unstarted EXCEPT !.pc = "done", !.outcome = why]
<1>1. line \in Line /\ line.pc = "done" /\ line.outcome = why
  BY UnstartedType DEF Line, Progress
<1>2. cli' = [cli EXCEPT ![c] = line]
  BY DEF Ends
<1> HIDE DEF line
<1> QED
  BY <1>1, <1>2, LineMoves DEF Moves

\* A command line at pc, that knows what it knew.
LEMMA AtMoves ==
  ASSUME cli \in [Calls -> Line], NEW c \in Calls, NEW pc \in Progress, cli' = At(c, pc)
  PROVE  /\ cli' \in [Calls -> Line]
         /\ cli'[c].pc = pc /\ cli'[c].outcome = cli[c].outcome
         /\ \A d \in Calls \ {c} : cli'[d] = cli[d]
  BY DEF At, Line

\* What call_once returned ends the command line, or is a rejection that is tried again.
LEMMA ReturnedMoves ==
  ASSUME cli \in [Calls -> Line], NEW c \in Calls, NEW why \in Outcomes, cli' = Returned(c, why)
  PROVE  /\ cli' \in [Calls -> Line]
         /\ \/ cli'[c].pc = "done" /\ cli'[c].outcome = why
            \/ cli'[c].pc = "load" /\ cli'[c].outcome = cli[c].outcome /\ why = "rejected"
         /\ \A d \in Calls \ {c} : cli'[d] = cli[d]
<1>1. CASE Retries(c, why)
  <2> DEFINE line == [cli[c] EXCEPT !.pc = "load", !.retried = TRUE]
  <2>1. why = "rejected"
    BY <1>1 DEF Retries
  <2>2. line \in Line /\ line.pc = "load" /\ line.outcome = cli[c].outcome
    BY DEF Line, Progress
  <2>3. cli' = [cli EXCEPT ![c].pc = "load", ![c].retried = TRUE]
    BY <1>1 DEF Returned
  <2>4. cli' = [cli EXCEPT ![c] = line]
    BY <2>3
  <2> HIDE DEF line
  <2> QED
    BY <2>1, <2>2, <2>4, LineMoves DEF Moves
<1>2. CASE ~Retries(c, why)
  BY <1>2, EndsMoves DEF Returned
<1> QED
  BY <1>1, <1>2

LEMMA LineType ==
  ASSUME TypeOK
  PROVE  cli \in [Calls -> Line]
  BY DEF TypeOK, Line

\* What a step of c does not touch stays as it should be for the others.
LEMMA OthersKept ==
  ASSUME NEW d \in Calls, CallOK(d), cli'[d] = cli[d], waiting'[d] = waiting[d],
         work'[d] = work[d], clock'[d] = clock[d], executed'[d] = executed[d]
  PROVE  CallOK(d)'
  BY DEF CallOK

\* The types a step of a call may disturb.
CallTypes ==
  /\ cli \in [Calls -> Line]
  /\ waiting \in [Calls -> Generations] /\ entry \subseteq Calls
  /\ work \in [Calls -> {"none", "sent", "running", "changed", "settled"}]
  /\ clock \in [Calls -> 0..LastTick] /\ since \in [Calls -> 0..LastTick]
  /\ executed \in [Calls -> 0..2]

\* What is to be shown of a step of c.
Kept(c) == CallTypes' /\ CallOK(c)' /\ \A d \in Calls \ {c} : CallOK(d)'

LEMMA RunLoadPing ==
  ASSUME TypeOK, CallInv, NEW c \in Calls, Run(c) \/ Load(c) \/ Ping(c)
  PROVE  Kept(c)
<1>1. /\ CallTypes /\ found \in Generations /\ CallOK(c) /\ \A d \in Calls : CallOK(d)
      /\ UNCHANGED <<waiting, entry, work, clock, since, executed>>
  BY LineType DEF TypeOK, CallTypes, CallInv, Run, Load, Ping, Unserved
<1>2. /\ cli' \in [Calls -> Line]
      /\ \/ cli'[c].pc \notin {"wait", "done"} /\ cli'[c].outcome = cli[c].outcome
         \/ cli'[c].pc = "done" /\ cli'[c].outcome = "unreachable"
      /\ \A d \in Calls \ {c} : cli'[d] = cli[d]
  <2>1. CASE cli' = Ends(c, "unreachable")
    BY <1>1, <2>1, EndsMoves DEF CallTypes, Outcomes
  <2>2. ASSUME NEW pc \in {"load", "reload", "call"}, cli' = At(c, pc)
        PROVE  <1>2!:
    BY <1>1, <2>2, AtMoves DEF CallTypes, Progress
  <2>3. ASSUME NEW line \in Line, cli' = [cli EXCEPT ![c] = line],
               line.pc = "ping", line.outcome = cli[c].outcome
        PROVE  <1>2!:
    BY <1>1, <2>3, LineMoves DEF CallTypes, Moves
  <2>4. CASE Run(c)
    BY <2>2, <2>4 DEF Run
  <2>5. CASE Load(c)
    <3> DEFINE line == [cli[c] EXCEPT !.pc = "ping", !.to = found, !.again = FALSE]
    <3>1. line \in Line /\ line.pc = "ping" /\ line.outcome = cli[c].outcome
      BY <1>1 DEF CallTypes, Line, Progress
    <3>2. \/ cli' = [cli EXCEPT ![c].pc = "ping", ![c].to = found, ![c].again = FALSE]
          \/ cli' = At(c, "reload")
          \/ cli' = Ends(c, "unreachable")
      BY <2>5 DEF Load
    <3>3. ASSUME cli' = [cli EXCEPT ![c].pc = "ping", ![c].to = found, ![c].again = FALSE]
          PROVE  cli' = [cli EXCEPT ![c] = line]
      BY <3>3
    <3> HIDE DEF line
    <3> QED
      BY <2>1, <2>2, <2>3, <3>1, <3>2, <3>3
  <2>6. CASE Ping(c)
    <3> DEFINE line == [cli[c] EXCEPT !.to = found, !.again = TRUE]
    <3>1. line \in Line /\ line.pc = "ping" /\ line.outcome = cli[c].outcome
      BY <1>1, <2>6 DEF CallTypes, Line, Progress, Ping
    <3>2. \/ cli' = [cli EXCEPT ![c].to = found, ![c].again = TRUE]
          \/ cli' = At(c, "call")
          \/ cli' = Ends(c, "unreachable")
      BY <2>6 DEF Ping
    <3>3. ASSUME cli' = [cli EXCEPT ![c].to = found, ![c].again = TRUE]
          PROVE  cli' = [cli EXCEPT ![c] = line]
      BY <3>3
    <3> HIDE DEF line
    <3> QED
      BY <2>1, <2>2, <2>3, <3>1, <3>2, <3>3
  <2> QED
    BY <2>4, <2>5, <2>6
<1>3. cli[c].pc \notin {"wait", "done"}
  BY DEF Run, Load, Ping
<1>4. CallTypes'
  BY <1>1, <1>2 DEF CallTypes
<1>5. CallOK(c)'
  BY <1>1, <1>2, <1>3 DEF CallOK
<1>6. \A d \in Calls \ {c} : CallOK(d)'
  BY <1>1, <1>2, OthersKept
<1> QED
  BY <1>4, <1>5, <1>6 DEF Kept

\* A call is dispatched, or refused before anything of it has happened.
LEMMA CallKept ==
  ASSUME TypeOK, CallInv, NEW c \in Calls, Call(c)
  PROVE  Kept(c)
<1>1. /\ CallTypes /\ server \in Generations /\ CallOK(c) /\ \A d \in Calls : CallOK(d)
      /\ UNCHANGED <<since, executed>>
  BY LineType DEF TypeOK, CallTypes, CallInv, Call
<1>2. cli[c].pc = "call" /\ cli[c].outcome = "none" /\ work[c] = "none" /\ waiting[c] = 0
      /\ executed[c] = 0
  BY <1>1 DEF Call, CallOK
<1>3. CASE UNCHANGED <<waiting, entry, work, clock>>
  <2>1. ASSUME NEW why \in {"busy", "failed", "rejected", "unreachable"}, cli' = Returned(c, why)
        PROVE  Kept(c)
    <3>1. /\ cli' \in [Calls -> Line]
          /\ \/ cli'[c].pc = "done" /\ cli'[c].outcome = why
             \/ cli'[c].pc = "load" /\ cli'[c].outcome = cli[c].outcome /\ why = "rejected"
          /\ \A d \in Calls \ {c} : cli'[d] = cli[d]
      BY <1>1, <2>1, ReturnedMoves DEF CallTypes, Outcomes
    <3>2. CallTypes'
      BY <1>1, <1>3, <3>1 DEF CallTypes
    <3>3. CallOK(c)'
      BY <1>1, <1>2, <1>3, <3>1 DEF CallOK
    <3>4. \A d \in Calls \ {c} : CallOK(d)'
      BY <1>1, <1>3, <3>1, OthersKept
    <3> QED
      BY <3>2, <3>3, <3>4 DEF Kept
  <2>2. waiting' # [waiting EXCEPT ![c] = server] \/ server = 0
    BY <1>1, <1>2, <1>3 DEF CallTypes
  <2> QED
    BY <2>1, <2>2 DEF Call, Reaches
<1>4. CASE ~UNCHANGED <<waiting, entry, work, clock>>
  <2> DEFINE line == [Unstarted EXCEPT !.pc = "wait", !.retried = cli[c].retried]
  <2>1. line \in Line /\ line.pc = "wait" /\ line.outcome = "none"
    BY <1>1, UnstartedType DEF CallTypes, Line, Progress, Unstarted
  <2>2. /\ server # 0
        /\ waiting' = [waiting EXCEPT ![c] = server]
        /\ entry' = entry \cup {c}
        /\ work' = [work EXCEPT ![c] = "sent"] /\ clock' = [clock EXCEPT ![c] = 0]
        /\ cli' = [cli EXCEPT ![c] = line]
    BY <1>4 DEF Call, Reaches
  <2> HIDE DEF line
  <2>3. /\ cli' \in [Calls -> Line] /\ cli'[c] = line
        /\ \A d \in Calls \ {c} : cli'[d] = cli[d]
    BY <1>1, <2>1, <2>2, LineMoves DEF CallTypes, Moves
  <2>4. CallTypes'
    <3>1. 0 \in 0..LastTick
      BY BerdctlAssumption
    <3> QED
      BY <1>1, <2>2, <2>3, <3>1 DEF CallTypes
  <2>5. CallOK(c)'
    BY <1>1, <1>2, <2>1, <2>2, <2>3 DEF CallOK, CallTypes
  <2>6. ASSUME NEW d \in Calls \ {c}
        PROVE  CallOK(d)'
    BY <1>1, <2>2, <2>3, <2>6, OthersKept DEF CallTypes
  <2> QED
    BY <2>4, <2>5, <2>6 DEF Kept
<1> QED
  BY <1>3, <1>4

\* A handler stops waiting: the timeout, a killed command line, or a result.
LEMMA TimedOutKept ==
  ASSUME TypeOK, CallInv, NEW c \in Calls, TimedOut(c)
  PROVE  Kept(c)
<1>1. /\ CallTypes /\ CallOK(c) /\ \A d \in Calls : CallOK(d)
      /\ waiting' = [waiting EXCEPT ![c] = 0] /\ entry' = entry \ {c}
      /\ cli[c].pc = "wait" /\ cli' = Returned(c, "failed") /\ clock[c] = Timeout
      /\ UNCHANGED <<work, clock, since, executed>>
  BY LineType DEF TypeOK, CallTypes, CallInv, TimedOut, Answered, Due
<1>2. /\ cli' \in [Calls -> Line]
      /\ cli'[c].pc = "done" /\ cli'[c].outcome = "failed"
      /\ \A d \in Calls \ {c} : cli'[d] = cli[d]
  <2>1. "failed" \in Outcomes
    BY DEF Outcomes
  <2> QED
    BY <1>1, <2>1, ReturnedMoves DEF CallTypes
<1>3. CallTypes'
  BY <1>1, <1>2, BerdctlAssumption DEF CallTypes, Generations
<1>4. CallOK(c)'
  BY <1>1, <1>2, BerdctlAssumption DEF CallOK, CallTypes
<1>5. ASSUME NEW d \in Calls \ {c}
      PROVE  CallOK(d)'
  BY <1>1, <1>2, <1>5, OthersKept DEF CallTypes
<1> QED
  BY <1>3, <1>4, <1>5 DEF Kept

LEMMA KilledKept ==
  ASSUME TypeOK, CallInv, NEW c \in Calls, Killed(c)
  PROVE  Kept(c)
<1>1. /\ CallTypes /\ CallOK(c) /\ \A d \in Calls : CallOK(d)
      /\ waiting' = [waiting EXCEPT ![c] = 0]
      /\ cli[c].pc = "wait" /\ cli' = Ends(c, "killed")
      /\ UNCHANGED <<entry, work, clock, since, executed>>
  BY LineType DEF TypeOK, CallTypes, CallInv, Killed
<1>2. /\ cli' \in [Calls -> Line]
      /\ cli'[c].pc = "done" /\ cli'[c].outcome = "killed"
      /\ \A d \in Calls \ {c} : cli'[d] = cli[d]
  <2>1. "killed" \in Outcomes
    BY DEF Outcomes
  <2> QED
    BY <1>1, <2>1, EndsMoves DEF CallTypes
<1>3. CallTypes'
  BY <1>1, <1>2, BerdctlAssumption DEF CallTypes, Generations
<1>4. CallOK(c)'
  BY <1>1, <1>2 DEF CallOK, CallTypes
<1>5. ASSUME NEW d \in Calls \ {c}
      PROVE  CallOK(d)'
  BY <1>1, <1>2, <1>5, OthersKept DEF CallTypes
<1> QED
  BY <1>3, <1>4, <1>5 DEF Kept

\* Time passes, or the renderer works on the command.
LEMMA WorkKept ==
  ASSUME TypeOK, CallInv, NEW c \in Calls, Tick(c) \/ Receive(c) \/ Change(c)
  PROVE  Kept(c)
<1>1. /\ CallTypes /\ CallOK(c) /\ \A d \in Calls : CallOK(d)
      /\ UNCHANGED <<cli, waiting, entry>>
      /\ clock[c] \in 0..LastTick /\ LastTick \in Nat /\ Timeout \in Nat
  BY LineType, BerdctlAssumption
     DEF TypeOK, CallTypes, CallInv, Tick, Receive, Change
<1>2. CASE Tick(c)
  <2>1. /\ clock' = [clock EXCEPT ![c] = @ + 1] /\ clock[c] < LastTick
        /\ UNCHANGED <<work, since, executed>>
    BY <1>2 DEF Tick
  <2>2. CallTypes'
    BY <1>1, <2>1 DEF CallTypes
  <2>3. CallOK(c)'
    BY <1>1, <2>1 DEF CallOK, CallTypes
  <2>4. ASSUME NEW d \in Calls \ {c}
        PROVE  CallOK(d)'
    BY <1>1, <2>1, <2>4, OthersKept DEF CallTypes
  <2> QED
    BY <2>2, <2>3, <2>4 DEF Kept
<1>3. CASE Receive(c)
  <2>1. /\ work[c] = "sent" /\ work' = [work EXCEPT ![c] = "running"]
        /\ since' = [since EXCEPT ![c] = clock[c]]
        /\ UNCHANGED <<clock, executed>>
    BY <1>3 DEF Receive
  <2>2. CallTypes'
    BY <1>1, <2>1 DEF CallTypes
  <2>3. CallOK(c)'
    BY <1>1, <2>1 DEF CallOK, CallTypes
  <2>4. ASSUME NEW d \in Calls \ {c}
        PROVE  CallOK(d)'
    BY <1>1, <2>1, <2>4, OthersKept DEF CallTypes
  <2> QED
    BY <2>2, <2>3, <2>4 DEF Kept
<1>4. CASE Change(c)
  <2>1. /\ work[c] = "running" /\ work' = [work EXCEPT ![c] = "changed"]
        /\ executed' = [executed EXCEPT ![c] = @ + 1] /\ executed[c] = 0
        /\ UNCHANGED <<clock, since>>
    BY <1>1, <1>4 DEF Change, CallOK
  <2>2. CallTypes'
    BY <1>1, <2>1 DEF CallTypes
  <2>3. CallOK(c)'
    BY <1>1, <2>1 DEF CallOK, CallTypes
  <2>4. ASSUME NEW d \in Calls \ {c}
        PROVE  CallOK(d)'
    BY <1>1, <2>1, <2>4, OthersKept DEF CallTypes
  <2> QED
    BY <2>2, <2>3, <2>4 DEF Kept
<1> QED
  BY <1>2, <1>3, <1>4

LEMMA SubmitKept ==
  ASSUME TypeOK, CallInv, NEW c \in Calls, Refuse(c) \/ Submit(c)
  PROVE  Kept(c)
<1>1. PICK outcome \in {"refused", "ok"} :
        /\ Submits(c, outcome)
        /\ work[c] = IF outcome = "refused" THEN "running" ELSE "changed"
  BY DEF Refuse, Submit
<1>2. /\ CallTypes /\ CallOK(c) /\ \A d \in Calls : CallOK(d)
      /\ work' = [work EXCEPT ![c] = "settled"] /\ entry' = entry \ {c}
      /\ clock' = [clock EXCEPT ![c] = 0] /\ since' = [since EXCEPT ![c] = 0]
      /\ UNCHANGED executed
  BY <1>1, LineType DEF TypeOK, CallTypes, CallInv, Submits
<1>3. 0 \in 0..LastTick /\ 0 \in Generations
  BY BerdctlAssumption DEF Generations
<1>4. CASE UNCHANGED <<waiting, cli>>
  <2>1. CallTypes'
    BY <1>2, <1>3, <1>4 DEF CallTypes
  <2>2. CallOK(c)'
    BY <1>1, <1>2, <1>4 DEF CallOK, CallTypes
  <2>3. ASSUME NEW d \in Calls \ {c}
        PROVE  CallOK(d)'
    BY <1>2, <1>4, <2>3, OthersKept DEF CallTypes
  <2> QED
    BY <2>1, <2>2, <2>3 DEF Kept
<1>5. CASE ~UNCHANGED <<waiting, cli>>
  <2>1. /\ cli[c].pc = "wait" /\ waiting' = [waiting EXCEPT ![c] = 0]
        /\ cli' = Returned(c, outcome)
    BY <1>1, <1>5 DEF Submits, Answered
  <2>2. /\ cli' \in [Calls -> Line]
        /\ cli'[c].pc = "done" /\ cli'[c].outcome = outcome
        /\ \A d \in Calls \ {c} : cli'[d] = cli[d]
    <3>1. outcome \in Outcomes
      BY DEF Outcomes
    <3> QED
      BY <1>2, <2>1, <3>1, ReturnedMoves DEF CallTypes
  <2>3. CallTypes'
    BY <1>2, <1>3, <2>1, <2>2 DEF CallTypes
  <2>4. CallOK(c)'
    BY <1>1, <1>2, <2>1, <2>2 DEF CallOK, CallTypes
  <2>5. ASSUME NEW d \in Calls \ {c}
        PROVE  CallOK(d)'
    BY <1>2, <2>1, <2>2, <2>5, OthersKept DEF CallTypes
  <2> QED
    BY <2>3, <2>4, <2>5 DEF Kept
<1> QED
  BY <1>4, <1>5

\* The broker starts, stops and is reconciled without a look at the calls; a renderer
\* that is reloaded forgets its work.
LEMMA ReloadKept ==
  ASSUME TypeOK, CallInv, Reload
  PROVE  CallTypes' /\ CallInv'
<1>1. /\ CallTypes /\ \A d \in Calls : CallOK(d)
      /\ work' = [c \in Calls |-> IF work[c] = "none" THEN "none" ELSE "settled"]
      /\ UNCHANGED <<cli, waiting, entry, clock, since, executed>>
  BY LineType DEF TypeOK, CallTypes, CallInv, Reload
<1>2. CallTypes'
  BY <1>1 DEF CallTypes
<1>3. ASSUME NEW d \in Calls
      PROVE  CallOK(d)'
  BY <1>1 DEF CallOK, CallTypes
<1> QED
  BY <1>2, <1>3 DEF CallInv

LEMMA CallsKept ==
  ASSUME TypeOK, CallInv, [Next]_vars
  PROVE  CallTypes' /\ CallInv'
<1>1. CASE UNCHANGED calls
  <2>1. CallTypes /\ UNCHANGED <<cli, waiting, entry, work, clock, since, executed>>
    BY <1>1, LineType DEF TypeOK, CallTypes, calls
  <2>2. CallTypes'
    BY <2>1 DEF CallTypes
  <2>3. ASSUME NEW d \in Calls
        PROVE  CallOK(d)'
    BY <2>1, OthersKept DEF CallInv
  <2> QED
    BY <2>2, <2>3 DEF CallInv
<1>2. CASE Toggle \/ Start \/ TimeoutsSet \/ Stop \/ Stopped \/ StartFailed
  BY <1>1, <1>2 DEF Toggle, Start, TimeoutsSet, Stop, Stopped, StartFailed
<1>3. CASE Reload
  BY <1>3, ReloadKept
<1>4. ASSUME NEW c \in Calls, Kept(c)
      PROVE  CallTypes' /\ CallInv'
  BY <1>4 DEF Kept, CallInv
<1>5. CASE UNCHANGED vars
  BY <1>1, <1>5 DEF vars
<1> QED
  BY <1>2, <1>3, <1>4, <1>5, RunLoadPing, CallKept, TimedOutKept, KilledKept, WorkKept,
     SubmitKept DEF Next

-----------------------------------------------------------------------------
(* The lifecycle of the broker.                                            *)

Commands == {"start", "stop"} \X BOOLEAN

\* The types a step of the lifecycle may disturb.
BrokerTypes ==
  /\ generation \in Generations /\ server \in Generations /\ found \in Generations
  /\ invoked \in Seq(Commands)
  /\ bridge \in Bridge
  /\ changes \in 0..MaxChanges

BrokerInv == BrokerTypes /\ Owed /\ Believed

\* What the loop of reconcile does with what the renderer knows: it rests with the
\* desired state applied, or asks for a start or a stop and waits.
LEMMA ReconcileCases ==
  ASSUME NEW b \in Bridge, Reconcile(b)
  PROVE  /\ bridge' \in Bridge /\ bridge'.desired = b.desired
         /\ \/ /\ bridge'.pc = "idle" /\ UNCHANGED invoked
               /\ bridge'.applied = b.desired /\ bridge'.running = b.running
               /\ b.applied = b.desired \/ b.running = b.desired
            \/ /\ bridge'.pc = "starting" /\ bridge'.want /\ ~b.running /\ ~bridge'.running
               /\ invoked' = Append(invoked, <<"start", TRUE>>)
            \/ /\ bridge'.pc = "stopping" /\ b.running /\ ~bridge'.running
               /\ invoked' = Append(invoked, <<"stop", TRUE>>)
<1>1. CASE b.applied = b.desired
  BY <1>1 DEF Reconcile, Settled, Bridge
<1>2. CASE b.applied # b.desired /\ b.desired = b.running
  <2> DEFINE a == [b EXCEPT !.applied = b.desired]
  <2>1. a \in Bridge /\ a.applied = b.desired /\ a.running = b.running /\ a.desired = b.desired
    BY DEF Bridge
  <2>2. bridge' = [a EXCEPT !.pc = "idle"] /\ UNCHANGED invoked
    BY <1>2 DEF Reconcile, Settled
  <2> HIDE DEF a
  <2> QED
    BY <1>2, <2>1, <2>2 DEF Bridge
<1>3. CASE b.applied # b.desired /\ b.desired # b.running /\ b.desired
  <2>1. /\ bridge' = [b EXCEPT !.pc = "starting", !.want = TRUE]
        /\ invoked' = Append(invoked, <<"start", TRUE>>)
    BY <1>3 DEF Reconcile, Asked
  <2> QED
    BY <1>3, <2>1 DEF Bridge
<1>4. CASE b.applied # b.desired /\ b.desired # b.running /\ ~b.desired
  <2>1. /\ bridge' = [b EXCEPT !.pc = "stopping", !.want = FALSE, !.running = FALSE]
        /\ invoked' = Append(invoked, <<"stop", TRUE>>)
    BY <1>4 DEF Reconcile, Asked
  <2> QED
    BY <1>4, <2>1 DEF Bridge
<1> QED
  BY <1>1, <1>2, <1>3, <1>4

\* A command that the reconciler adds is the one it waits for.
LEMMA LastFlagged ==
  ASSUME NEW q \in Seq(Commands), NEW n \in Nat, NEW last \in Commands, last[2],
         Len(q) = n + 1, q[n + 1] = last, \A i \in 1 .. n : ~q[i][2]
  PROVE  /\ q # <<>> /\ Len(q) \in DOMAIN q /\ q[Len(q)] = last
         /\ \A i \in DOMAIN q : q[i][2] <=> i = Len(q)
<1>1. DOMAIN q = 1 .. n + 1 /\ q # <<>> /\ n + 1 \in 1 .. n + 1
  BY LenProperties, EmptySeq
<1>2. ASSUME NEW i \in 1 .. n + 1
      PROVE  q[i][2] <=> i = n + 1
  <2>1. i \in 1 .. n \/ i = n + 1
    OBVIOUS
  <2> QED
    BY <2>1
<1> QED
  BY <1>1, <1>2

LEMMA AskFacts ==
  ASSUME NEW op \in {"start", "stop"}, NEW prior \in Seq(Commands),
         \A i \in DOMAIN prior : ~prior[i][2], invoked' = Append(prior, <<op, TRUE>>)
  PROVE  /\ invoked' \in Seq(Commands) /\ invoked' # <<>>
         /\ Len(invoked') \in DOMAIN invoked' /\ invoked'[Len(invoked')] = <<op, TRUE>>
         /\ \A i \in DOMAIN invoked' : invoked'[i][2] <=> i = Len(invoked')
<1> DEFINE last == <<op, TRUE>>
           q == Append(prior, last)
<1>1. last \in Commands /\ last[2]
  BY DEF Commands
<1>2. invoked' = q
  BY Zenon
<1> HIDE DEF last
<1>3. /\ Len(prior) \in Nat /\ DOMAIN prior = 1 .. Len(prior)
      /\ q \in Seq(Commands) /\ Len(q) = Len(prior) + 1 /\ q[Len(prior) + 1] = last
      /\ \A i \in 1 .. Len(prior) : q[i] = prior[i]
  <2>1. Len(prior) \in Nat /\ DOMAIN prior = 1 .. Len(prior)
    BY LenProperties
  <2>2. /\ q \in Seq(Commands) /\ Len(q) = Len(prior) + 1 /\ q[Len(prior) + 1] = last
        /\ \A i \in 1 .. Len(prior) : q[i] = prior[i]
    BY <1>1, AppendFacts
  <2> QED
    BY <2>1, <2>2
<1> HIDE DEF q
<1>4. \A i \in 1 .. Len(prior) : ~q[i][2]
  BY <1>3
<1>5. /\ q # <<>> /\ Len(q) \in DOMAIN q /\ q[Len(q)] = last
      /\ \A i \in DOMAIN q : q[i][2] <=> i = Len(q)
  BY <1>1, <1>3, <1>4, LastFlagged
<1> QED
  BY <1>2, <1>3, <1>5, Zenon DEF last

\* Nothing is owed to a reconciler that does not wait, or whose stop has been executed.
LEMMA NothingOwed ==
  ASSUME BrokerInv, bridge.pc \notin Awaits \/ ~\E i \in DOMAIN invoked : invoked[i][2]
  PROVE  invoked = <<>>
<1>1. SUFFICES ASSUME invoked # <<>> PROVE FALSE
  OBVIOUS
<1>2. bridge.pc \in Awaits
  BY <1>1 DEF BrokerInv, Owed
<1>3. /\ Len(invoked) \in DOMAIN invoked
  BY <1>1, LenProperties, EmptySeq DEF BrokerInv, BrokerTypes
<1>4. invoked[Len(invoked)][2]
  BY <1>3 DEF BrokerInv, Owed
<1> QED
  BY <1>2, <1>3, <1>4

LEMMA ReconcileKept ==
  ASSUME BrokerTypes, invoked = <<>>, NEW b \in Bridge, Reconcile(b),
         changes' \in 0..MaxChanges, UNCHANGED <<generation, server, found>>, found = server,
         IF b.running THEN server # 0 /\ b.applied ELSE server = 0
  PROVE  BrokerInv'
<1>1. /\ bridge' \in Bridge /\ bridge'.desired = b.desired
      /\ \/ /\ bridge'.pc = "idle" /\ UNCHANGED invoked
            /\ bridge'.applied = b.desired /\ bridge'.running = b.running
            /\ b.applied = b.desired \/ b.running = b.desired
         \/ /\ bridge'.pc = "starting" /\ bridge'.want /\ ~b.running /\ ~bridge'.running
            /\ invoked' = Append(invoked, <<"start", TRUE>>)
         \/ /\ bridge'.pc = "stopping" /\ b.running /\ ~bridge'.running
            /\ invoked' = Append(invoked, <<"stop", TRUE>>)
  BY ReconcileCases
<1>2. invoked \in Seq(Commands) /\ DOMAIN invoked = {}
  BY DEF BrokerTypes
<1>3. CASE bridge'.pc = "idle"
  <2>1. UNCHANGED invoked
    BY <1>1, <1>3
  <2>2. BrokerTypes' /\ Owed'
    BY <1>1, <1>2, <1>3, <2>1 DEF BrokerTypes, Owed, Awaits
  <2>3. Believed'
    BY <1>1, <1>3 DEF Believed, Bridge
  <2> QED
    BY <2>2, <2>3 DEF BrokerInv
<1>4. ASSUME NEW op \in {"start", "stop"}, NEW last, last[1] = op,
             invoked' \in Seq(Commands), invoked' # <<>>, invoked'[Len(invoked')] = last,
             \A i \in DOMAIN invoked' : invoked'[i][2] <=> i = Len(invoked'),
             bridge'.pc = (IF op = "start" THEN "starting" ELSE "stopping"),
             ~bridge'.running, op = "start" => bridge'.want
      PROVE  BrokerInv'
  <2>1. BrokerTypes'
    BY <1>1, <1>4 DEF BrokerTypes
  <2>2. Owed'
    BY <1>4 DEF Owed, Awaits
  <2>3. Believed'
    BY <1>4 DEF Believed
  <2> QED
    BY <2>1, <2>2, <2>3 DEF BrokerInv
<1>5. ASSUME NEW op \in {"start", "stop"}, invoked' = Append(invoked, <<op, TRUE>>)
      PROVE  /\ invoked' \in Seq(Commands) /\ invoked' # <<>>
             /\ invoked'[Len(invoked')] = <<op, TRUE>>
             /\ \A i \in DOMAIN invoked' : invoked'[i][2] <=> i = Len(invoked')
  BY <1>2, <1>5, AskFacts
<1>6. CASE bridge'.pc = "starting"
  <2>1. invoked' = Append(invoked, <<"start", TRUE>>) /\ bridge'.want /\ ~bridge'.running
    BY <1>1, <1>6
  <2>2. <<"start", TRUE>>[1] = "start"
    OBVIOUS
  <2> QED
    BY <1>4, <1>5, <1>6, <2>1, <2>2, Zenon
<1>7. CASE bridge'.pc = "stopping"
  <2>1. invoked' = Append(invoked, <<"stop", TRUE>>) /\ ~bridge'.running
    BY <1>1, <1>7
  <2>2. <<"stop", TRUE>>[1] = "stop" /\ "stop" # "start"
    OBVIOUS
  <2> QED
    BY <1>4, <1>5, <1>7, <2>1, <2>2, Zenon
<1> QED
  BY <1>1, <1>3, <1>6, <1>7

LEMMA ToggleKept ==
  ASSUME BrokerInv, Toggle
  PROVE  BrokerInv'
<1> DEFINE b == [bridge EXCEPT !.desired = ~@]
<1>1. /\ b \in Bridge /\ b.pc = bridge.pc /\ b.running = bridge.running
      /\ b.applied = bridge.applied /\ b.want = bridge.want
  BY DEF BrokerInv, BrokerTypes, Bridge
<1>2. /\ changes' \in 0..MaxChanges /\ UNCHANGED <<generation, server, found>>
      /\ IF bridge.pc = "idle" THEN Reconcile(b) ELSE bridge' = b /\ UNCHANGED invoked
  BY BerdctlAssumption DEF Toggle, BrokerInv, BrokerTypes
<1> HIDE DEF b
<1>3. CASE bridge.pc = "idle"
  <2>1. invoked = <<>>
    BY <1>3, NothingOwed DEF Awaits
  <2>2. found = server /\ IF b.running THEN server # 0 /\ b.applied ELSE server = 0
    BY <1>1, <1>3 DEF BrokerInv, Believed
  <2> QED
    BY <1>1, <1>2, <1>3, <2>1, <2>2, ReconcileKept DEF BrokerInv
<1>4. CASE bridge.pc # "idle"
  <2>1. BrokerTypes'
    BY <1>1, <1>2, <1>4 DEF BrokerInv, BrokerTypes
  <2>2. Owed'
    BY <1>1, <1>2, <1>4 DEF BrokerInv, Owed
  <2>3. Believed'
    BY <1>1, <1>2, <1>4 DEF BrokerInv, Believed
  <2> QED
    BY <2>1, <2>2, <2>3 DEF BrokerInv
<1> QED
  BY <1>3, <1>4

LEMMA StoppedKept ==
  ASSUME BrokerInv, Stopped
  PROVE  BrokerInv'
<1> DEFINE b == Applied(bridge)
<1>1. /\ bridge.pc \in {"stopping", "undoing"} /\ ~\E i \in DOMAIN invoked : invoked[i][2]
      /\ Reconcile(b) /\ UNCHANGED <<generation, server, found, changes>>
  BY DEF Stopped
<1>2. invoked = <<>>
  BY <1>1, NothingOwed
<1>3. server = 0 /\ found = 0 /\ ~bridge.running
  BY <1>1, <1>2 DEF BrokerInv, Believed
<1>4. b \in Bridge /\ b.running = bridge.running
  BY DEF BrokerInv, BrokerTypes, Applied, Bridge
<1>5. BrokerTypes /\ changes' \in 0..MaxChanges
  BY <1>1 DEF BrokerInv, BrokerTypes
<1> HIDE DEF b
<1> QED
  BY <1>1, <1>2, <1>3, <1>4, <1>5, ReconcileKept

LEMMA StartFailedKept ==
  ASSUME BrokerInv, StartFailed
  PROVE  BrokerInv'
<1>1. /\ bridge.pc = "idle" /\ Reconcile(bridge)
      /\ UNCHANGED <<generation, server, found, changes>>
  BY DEF StartFailed
<1>2. invoked = <<>>
  BY <1>1, NothingOwed DEF Awaits
<1>3. found = server /\ IF bridge.running THEN server # 0 /\ bridge.applied ELSE server = 0
  BY <1>1 DEF BrokerInv, Believed
<1>4. BrokerTypes /\ bridge \in Bridge /\ changes' \in 0..MaxChanges
  BY <1>1 DEF BrokerInv, BrokerTypes
<1> QED
  BY <1>1, <1>2, <1>3, <1>4, ReconcileKept

\* The timeouts are set, or the broker that has just started is stopped again.
LEMMA TimeoutsSetKept ==
  ASSUME BrokerInv, TimeoutsSet
  PROVE  BrokerInv'
<1>1. /\ bridge.pc = "timeouts" /\ UNCHANGED <<generation, server, found, changes>>
  BY DEF TimeoutsSet
<1>2. /\ invoked = <<>> /\ server # 0 /\ found = server /\ bridge.want /\ ~bridge.running
  BY <1>1, NothingOwed DEF Awaits, BrokerInv, Believed
<1>3. BrokerTypes /\ bridge \in Bridge /\ changes' \in 0..MaxChanges
  BY <1>1 DEF BrokerInv, BrokerTypes
<1>4. ASSUME Reconcile(Applied([bridge EXCEPT !.running = TRUE]))
      PROVE  BrokerInv'
  <2> DEFINE b == Applied([bridge EXCEPT !.running = TRUE])
  <2>1. b \in Bridge /\ b.running /\ b.applied
    <3> DEFINE a == [bridge EXCEPT !.running = TRUE]
    <3>1. a \in Bridge /\ a.running /\ a.want
      BY <1>2, <1>3 DEF Bridge
    <3>2. b = [a EXCEPT !.applied = a.want]
      BY DEF Applied
    <3> HIDE DEF a, b
    <3> QED
      BY <3>1, <3>2 DEF Bridge
  <2>2. Reconcile(b)
    BY <1>4
  <2> HIDE DEF b
  <2> QED
    BY <1>1, <1>2, <1>3, <2>1, <2>2, ReconcileKept
<1>5. ASSUME bridge' = [bridge EXCEPT !.pc = "undoing"], Asked("stop")
      PROVE  BrokerInv'
  <2>1. /\ bridge' \in Bridge /\ bridge'.pc = "undoing" /\ ~bridge'.running
    BY <1>2, <1>3, <1>5 DEF Bridge
  <2>2. invoked \in Seq(Commands) /\ \A i \in DOMAIN invoked : ~invoked[i][2]
    BY <1>2, <1>3 DEF BrokerTypes
  <2>3. invoked' = Append(invoked, <<"stop", TRUE>>)
    BY <1>5 DEF Asked
  <2>4. /\ invoked' \in Seq(Commands) /\ invoked' # <<>>
        /\ invoked'[Len(invoked')][1] = "stop"
        /\ \A i \in DOMAIN invoked' : invoked'[i][2] <=> i = Len(invoked')
    <3>1. /\ invoked' \in Seq(Commands) /\ invoked' # <<>>
          /\ invoked'[Len(invoked')] = <<"stop", TRUE>>
          /\ \A i \in DOMAIN invoked' : invoked'[i][2] <=> i = Len(invoked')
      BY <2>2, <2>3, AskFacts
    <3>2. <<"stop", TRUE>>[1] = "stop"
      OBVIOUS
    <3> QED
      BY <3>1, <3>2, Zenon
  <2>5. BrokerTypes'
    BY <1>1, <1>3, <2>1, <2>4, Zenon DEF BrokerTypes
  <2>6. Owed'
    BY <2>1, <2>4, Zenon DEF Owed, Awaits
  <2>7. Believed'
    BY <1>1, <1>2, <2>1, <2>4 DEF Believed
  <2> QED
    BY <2>5, <2>6, <2>7 DEF BrokerInv
<1> QED
  BY <1>4, <1>5 DEF TimeoutsSet

\* The first command of the native process is executed.
LEMMA ExecutedFacts ==
  ASSUME BrokerInv, invoked # <<>>
  PROVE  /\ Tail(invoked) \in Seq(Commands)
         /\ bridge.pc \in Awaits
         /\ \A i \in DOMAIN Tail(invoked) : Tail(invoked)[i][2] <=> i = Len(Tail(invoked))
         /\ Head(invoked)[2] <=> Tail(invoked) = <<>>
         /\ Tail(invoked) = <<>> => Head(invoked) = invoked[Len(invoked)]
         /\ Tail(invoked) # <<>> =>
              Tail(invoked)[Len(Tail(invoked))] = invoked[Len(invoked)]
<1> DEFINE rest == Tail(invoked)
           n == Len(invoked)
<1>1. /\ invoked \in Seq(Commands) /\ \A i \in DOMAIN invoked : invoked[i][2] <=> i = n
      /\ bridge.pc \in Awaits
  BY DEF BrokerInv, BrokerTypes, Owed
<1>2. /\ n \in Nat /\ n # 0 /\ DOMAIN invoked = 1 .. n
  BY <1>1, LenProperties, EmptySeq
<1>3. /\ rest \in Seq(Commands) /\ Head(invoked) = invoked[1] /\ DOMAIN rest = 1 .. n - 1
      /\ \A i \in 1 .. n - 1 : rest[i] = invoked[i + 1]
  BY <1>1, TailFacts
<1>4. Len(rest) = n - 1
  BY <1>2, <1>3, LenProperties
<1>5. rest = <<>> <=> n = 1
  BY <1>2, <1>3, <1>4, EmptySeq
<1> HIDE DEF rest, n
<1>6. \A i \in 1 .. n - 1 : rest[i][2] <=> i = n - 1
  <2>1. ASSUME NEW i \in 1 .. n - 1
        PROVE  rest[i][2] <=> i = n - 1
    <3>1. i + 1 \in 1 .. n /\ rest[i] = invoked[i + 1]
      BY <1>2, <1>3
    <3>2. invoked[i + 1][2] <=> i + 1 = n
      BY <1>1, <1>2, <3>1
    <3> QED
      BY <1>2, <3>1, <3>2
  <2> QED
    BY <2>1
<1>7. Head(invoked)[2] <=> n = 1
  <2>1. 1 \in 1 .. n
    BY <1>2
  <2> QED
    BY <1>1, <1>2, <1>3, <2>1
<1>8. n # 1 => rest[n - 1] = invoked[n]
  <2>1. n # 1 => n - 1 \in 1 .. n - 1 /\ (n - 1) + 1 = n
    BY <1>2
  <2> QED
    BY <1>3, <2>1
<1> QED
  BY <1>1, <1>3, <1>4, <1>5, <1>6, <1>7, <1>8 DEF rest, n

LEMMA StartKept ==
  ASSUME BrokerInv, Start
  PROVE  BrokerInv'
<1> DEFINE first == Head(invoked)
<1>1. /\ invoked # <<>> /\ first[1] = "start" /\ invoked' = Tail(invoked) /\ UNCHANGED changes
  BY DEF Start
<1>2. PICK published \in BOOLEAN :
        /\ server # 0 => published
        /\ IF server # 0 THEN UNCHANGED <<generation, server, found>>
           ELSE /\ generation < MaxStarts
                /\ generation' = generation + 1
                /\ IF published THEN server' = generation' /\ found' = generation'
                                ELSE UNCHANGED <<server, found>>
        /\ bridge' = IF ~first[2] THEN bridge
                     ELSE IF published THEN [bridge EXCEPT !.pc = "timeouts"]
                     ELSE [bridge EXCEPT !.pc = "idle", !.applied = TRUE]
  BY DEF Start
<1>3. /\ invoked' \in Seq(Commands)
      /\ bridge.pc \in Awaits
      /\ \A i \in DOMAIN invoked' : invoked'[i][2] <=> i = Len(invoked')
      /\ first[2] <=> invoked' = <<>>
      /\ invoked' = <<>> => first = invoked[Len(invoked)]
      /\ invoked' # <<>> => invoked'[Len(invoked')] = invoked[Len(invoked)]
  BY <1>1, ExecutedFacts
<1>4. /\ found = server /\ bridge \in Bridge /\ ~bridge.running
      /\ bridge.pc = "starting" => bridge.want
      /\ invoked[Len(invoked)][1] = IF bridge.pc = "starting" THEN "start" ELSE "stop"
  BY <1>1, <1>3 DEF BrokerInv, BrokerTypes, Owed, Believed, Awaits
<1> HIDE DEF first
<1>5. /\ generation' \in Generations /\ server' \in Generations /\ found' \in Generations
      /\ changes' \in 0..MaxChanges /\ found' = server'
      /\ published => server' # 0
      /\ ~published => server' = 0
  BY <1>1, <1>2, <1>4, BerdctlAssumption DEF BrokerInv, BrokerTypes, Generations
<1>6. CASE ~first[2]
  <2>1. UNCHANGED bridge /\ invoked' # <<>>
    BY <1>2, <1>3, <1>6
  <2>2. BrokerTypes'
    BY <1>3, <1>4, <1>5, <2>1 DEF BrokerTypes
  <2>3. Owed'
    BY <1>3, <1>4, <2>1 DEF Owed
  <2>4. Believed'
    BY <1>3, <1>4, <1>5, <2>1 DEF Believed, Awaits
  <2> QED
    BY <2>2, <2>3, <2>4 DEF BrokerInv
<1>7. CASE first[2]
  <2>1. invoked' = <<>> /\ bridge.pc = "starting"
    BY <1>1, <1>3, <1>4, <1>7
  <2>2. /\ bridge' \in Bridge /\ ~bridge'.running
        /\ bridge'.want
        /\ bridge'.pc = IF published THEN "timeouts" ELSE "idle"
    <3>1. CASE published
      <4>1. bridge' = [bridge EXCEPT !.pc = "timeouts"]
        BY <1>2, <1>7, <3>1
      <4> QED
        BY <1>4, <2>1, <3>1, <4>1 DEF Bridge
    <3>2. CASE ~published
      <4>1. bridge' = [bridge EXCEPT !.pc = "idle", !.applied = TRUE]
        BY <1>2, <1>7, <3>2
      <4> QED
        BY <1>4, <2>1, <3>2, <4>1 DEF Bridge
    <3> QED
      BY <3>1, <3>2
  <2>3. BrokerTypes'
    BY <1>3, <1>5, <2>2 DEF BrokerTypes
  <2>4. Owed'
    BY <1>3, <2>1, <2>2 DEF Owed, Awaits
  <2>5. Believed'
    BY <1>5, <2>1, <2>2 DEF Believed
  <2> QED
    BY <2>3, <2>4, <2>5 DEF BrokerInv
<1> QED
  BY <1>6, <1>7

LEMMA StopKept ==
  ASSUME BrokerInv, Stop
  PROVE  BrokerInv'
<1>1. /\ invoked # <<>> /\ Head(invoked)[1] = "stop"
      /\ UNCHANGED <<generation, bridge, changes>>
  BY DEF Stop
<1>2. /\ bridge.pc \in Awaits /\ bridge \in Bridge /\ ~bridge.running
      /\ bridge.pc = "starting" => bridge.want
      /\ invoked[Len(invoked)][1] = IF bridge.pc = "starting" THEN "start" ELSE "stop"
  BY <1>1 DEF BrokerInv, BrokerTypes, Owed, Believed, Awaits
<1>3. 0 \in Generations
  BY BerdctlAssumption DEF Generations
<1>4. CASE server' = 0 /\ UNCHANGED <<found, invoked>>
  <2>1. BrokerTypes'
    BY <1>1, <1>3, <1>4 DEF BrokerInv, BrokerTypes
  <2>2. Owed'
    BY <1>1, <1>4 DEF BrokerInv, Owed
  <2>3. Believed'
    BY <1>1, <1>2, <1>4 DEF Believed, Awaits
  <2> QED
    BY <2>1, <2>2, <2>3 DEF BrokerInv
<1>5. CASE server = 0 /\ found' = 0 /\ invoked' = Tail(invoked) /\ UNCHANGED server
  <2> DEFINE first == Head(invoked)
  <2>1. /\ invoked' \in Seq(Commands)
        /\ \A i \in DOMAIN invoked' : invoked'[i][2] <=> i = Len(invoked')
        /\ invoked' = <<>> => first = invoked[Len(invoked)]
        /\ invoked' # <<>> => invoked'[Len(invoked')] = invoked[Len(invoked)]
    BY <1>1, <1>5, ExecutedFacts
  <2>2. first[1] = "stop"
    BY <1>1
  <2> HIDE DEF first
  <2>3. BrokerTypes'
    BY <1>1, <1>3, <1>5, <2>1 DEF BrokerInv, BrokerTypes
  <2>4. invoked' = <<>> => bridge.pc # "starting"
    BY <1>2, <2>1, <2>2
  <2>5. Owed'
    BY <1>1, <1>2, <2>1, <2>4 DEF Owed
  <2>6. Believed'
    BY <1>1, <1>2, <1>5 DEF Believed, Awaits
  <2> QED
    BY <2>3, <2>5, <2>6 DEF BrokerInv
<1> QED
  BY <1>4, <1>5 DEF Stop

LEMMA ReloadedKept ==
  ASSUME BrokerInv, Reload
  PROVE  BrokerInv'
<1> DEFINE prior == [i \in DOMAIN invoked |-> <<invoked[i][1], FALSE>>]
           n == Len(invoked)
<1>1. /\ changes' = changes + 1 /\ changes < MaxChanges
      /\ bridge' = [desired |-> TRUE, applied |-> FALSE, running |-> FALSE, pc |-> "starting",
                    want |-> TRUE]
      /\ invoked' = Append(prior, <<"start", TRUE>>)
      /\ UNCHANGED <<generation, server, found>>
  BY DEF Reload
<1>2. /\ invoked \in Seq(Commands) /\ n \in Nat /\ DOMAIN invoked = 1 .. n
      /\ \A i \in 1 .. n : invoked[i] \in Commands
  BY LenProperties, ElementOfSeq DEF BrokerInv, BrokerTypes
<1>3. \A i \in 1 .. n : <<invoked[i][1], FALSE>> \in Commands
  BY <1>2 DEF Commands
<1> HIDE DEF n
<1>4. prior \in Seq(Commands) /\ Len(prior) = n
  <2>1. prior \in [1 .. n -> Commands]
    BY <1>2, <1>3
  <2> HIDE DEF prior
  <2> QED
    BY <1>2, <2>1, SeqDef, LenProperties
<1>5. /\ \A i \in DOMAIN prior : ~prior[i][2]
      /\ invoked # <<>> => prior # <<>> /\ prior[1][1] = Head(invoked)[1]
  <2>1. \A i \in DOMAIN prior : ~prior[i][2]
    OBVIOUS
  <2>2. ASSUME invoked # <<>>
        PROVE  prior # <<>> /\ prior[1][1] = Head(invoked)[1]
    <3>1. n # 0 /\ 1 \in DOMAIN invoked /\ Head(invoked) = invoked[1]
      BY <1>2, <2>2, EmptySeq, TailFacts DEF n
    <3>2. prior[1] = <<invoked[1][1], FALSE>>
      BY <3>1
    <3>3. prior # <<>>
      BY <1>4, <3>1, EmptySeq
    <3> QED
      BY <3>1, <3>2, <3>3
  <2> QED
    BY <2>1, <2>2
<1> HIDE DEF prior
<1>6. /\ invoked' \in Seq(Commands) /\ invoked' # <<>>
      /\ invoked'[Len(invoked')] = <<"start", TRUE>>
      /\ \A i \in DOMAIN invoked' : invoked'[i][2] <=> i = Len(invoked')
  BY <1>1, <1>4, <1>5, AskFacts
<1>7. <<"start", TRUE>>[1] = "start"
  OBVIOUS
<1>8. invoked # <<>> => Head(invoked') = prior[1]
  <2> SUFFICES ASSUME invoked # <<>> PROVE Head(invoked') = prior[1]
    OBVIOUS
  <2> DEFINE last == <<"start", TRUE>>
             q == Append(prior, last)
  <2>1. last \in Commands
    BY DEF Commands
  <2>2. 1 \in 1 .. Len(prior)
    BY <1>4, <1>5, LenProperties, EmptySeq
  <2>3. invoked' = q
    BY <1>1
  <2> HIDE DEF last
  <2>4. q[1] = prior[1]
    BY <1>4, <2>1, <2>2, AppendFacts
  <2> HIDE DEF q
  <2>5. Head(invoked') = invoked'[1]
    BY <1>6, TailFacts
  <2> QED
    BY <2>3, <2>4, <2>5
<1>9. bridge' \in Bridge /\ bridge'.pc = "starting" /\ ~bridge'.running /\ bridge'.want
  BY <1>1 DEF Bridge
<1>10. BrokerTypes'
  <2>1. changes' \in 0..MaxChanges
    BY <1>1, BerdctlAssumption DEF BrokerInv, BrokerTypes
  <2>2. generation' \in Generations /\ server' \in Generations /\ found' \in Generations
    BY <1>1 DEF BrokerInv, BrokerTypes
  <2> QED
    BY <1>6, <1>9, <2>1, <2>2, Zenon DEF BrokerTypes
<1>11. Owed'
  <2>1. invoked'[Len(invoked')][1] = "start"
    BY <1>6, <1>7, Zenon
  <2> QED
    BY <1>6, <1>9, <2>1, Zenon DEF Owed, Awaits
<1>12. Believed'
  <2>1. /\ server' # 0 => found' = server'
        /\ server' = 0 /\ found' # 0 => Head(invoked')[1] = "stop"
    <3>1. server = 0 /\ found # 0 => invoked # <<>> /\ Head(invoked)[1] = "stop"
      BY DEF BrokerInv, Believed
    <3>2. server # 0 => found = server
      BY DEF BrokerInv, Believed
    <3>3. server' = server /\ found' = found
      BY <1>1
    <3> QED
      BY <1>5, <1>8, <3>1, <3>2, <3>3, Zenon
  <2>2. bridge'.pc = "starting"
    BY <1>9
  <2> HIDE <1>1
  <2> QED
    BY <1>6, <1>9, <2>1, <2>2 DEF Believed
<1> QED
  BY <1>10, <1>11, <1>12 DEF BrokerInv

LEMMA BrokerKept ==
  ASSUME BrokerInv, [Next]_vars
  PROVE  BrokerInv'
<1>1. CASE UNCHANGED broker
  <2>1. BrokerTypes'
    BY <1>1 DEF BrokerInv, BrokerTypes, broker
  <2>2. Owed'
    BY <1>1 DEF BrokerInv, Owed, broker
  <2>3. Believed'
    BY <1>1 DEF BrokerInv, Believed, broker
  <2> QED
    BY <2>1, <2>2, <2>3 DEF BrokerInv
<1>2. ASSUME NEW c \in Calls,
             \/ Run(c) \/ Load(c) \/ Ping(c) \/ Call(c) \/ TimedOut(c) \/ Killed(c)
             \/ Tick(c) \/ Receive(c) \/ Change(c) \/ Refuse(c) \/ Submit(c)
      PROVE  BrokerInv'
  BY <1>1, <1>2 DEF Run, Load, Ping, Call, TimedOut, Killed, Tick, Receive, Change, Refuse,
     Submit, Submits
<1>3. CASE UNCHANGED vars
  BY <1>1, <1>3 DEF vars
<1> QED
  BY <1>2, <1>3, ToggleKept, StartKept, TimeoutsSetKept, StopKept, StoppedKept,
     StartFailedKept, ReloadedKept DEF Next
-----------------------------------------------------------------------------
(* The theorems.                                                           *)

\* The parts of TypeOK: what calls and broker keep, and the permits, whose bound follows
\* from the accounts.
LEMMA TypeKept ==
  ASSUME TypeOK, PermitsAccounted', CallTypes', BrokerTypes', [Next]_vars
  PROVE  TypeOK'
<1>1. permits' \in [Generations -> Int]
  <2>1. permits \in [Generations -> Int] /\ Limit \in Nat
    BY BerdctlAssumption DEF TypeOK
  <2>2. CASE UNCHANGED permits
    BY <2>1, <2>2
  <2>3. ASSUME NEW c \in Calls, permits' = Released(c)
        PROVE  permits' \in [Generations -> Int]
    BY <2>1, <2>3 DEF Released, TypeOK
  <2>4. CASE permits' = [permits EXCEPT ![server] = @ - 1]
    BY <2>1, <2>4 DEF TypeOK
  <2>5. ASSUME NEW c \in Calls,
               \/ Run(c) \/ Load(c) \/ Ping(c) \/ Call(c) \/ TimedOut(c) \/ Killed(c)
               \/ Tick(c) \/ Receive(c) \/ Change(c) \/ Refuse(c) \/ Submit(c)
        PROVE  permits' \in [Generations -> Int]
    BY <2>2, <2>3, <2>4, <2>5 DEF Run, Load, Ping, Call, TimedOut, Killed, Tick, Receive,
       Change, Refuse, Submit, Submits, Answered, Unserved
  <2>6. CASE Toggle \/ Start \/ TimeoutsSet \/ Stop \/ Stopped \/ StartFailed \/ Reload
    BY <2>2, <2>6 DEF Toggle, Start, TimeoutsSet, Stop, Stopped, StartFailed, Reload, calls
  <2>7. CASE UNCHANGED vars
    BY <2>2, <2>7 DEF vars, calls
  <2> QED
    BY <2>5, <2>6, <2>7 DEF Next
<1>2. ASSUME NEW g \in Generations
      PROVE  permits'[g] \in 0..Limit
  <2>1. permits'[g] + Cardinality(Holders(g)') = Limit
    BY DEF PermitsAccounted, Holders
  <2>2. Cardinality(Holders(g)') \in Nat
    <3>1. Holders(g)' \subseteq Calls
      BY DEF Holders
    <3> QED
      BY <3>1, FS_Subset, FS_CardinalityType, BerdctlAssumption
  <2>3. permits'[g] >= 0
    <3>1. permits[g] \in 0..Limit /\ Limit \in Nat
      BY BerdctlAssumption DEF TypeOK
    <3>2. CASE UNCHANGED permits
      BY <3>1, <3>2
    <3>3. ASSUME NEW c \in Calls, permits' = Released(c)
          PROVE  permits'[g] >= 0
      BY <3>1, <3>3 DEF Released, TypeOK
    <3>4. CASE permits[server] > 0 /\ permits' = [permits EXCEPT ![server] = @ - 1]
      BY <3>1, <3>4 DEF TypeOK
    <3>5. ASSUME NEW c \in Calls,
                 \/ Run(c) \/ Load(c) \/ Ping(c) \/ Call(c) \/ TimedOut(c) \/ Killed(c)
                 \/ Tick(c) \/ Receive(c) \/ Change(c) \/ Refuse(c) \/ Submit(c)
          PROVE  permits'[g] >= 0
      BY <3>2, <3>3, <3>4, <3>5 DEF Run, Load, Ping, Call, TimedOut, Killed, Tick, Receive,
         Change, Refuse, Submit, Submits, Answered, Unserved
    <3>6. CASE Toggle \/ Start \/ TimeoutsSet \/ Stop \/ Stopped \/ StartFailed \/ Reload
      BY <3>2, <3>6 DEF Toggle, Start, TimeoutsSet, Stop, Stopped, StartFailed, Reload, calls
    <3>7. CASE UNCHANGED vars
      BY <3>2, <3>7 DEF vars, calls
    <3> QED
      BY <3>5, <3>6, <3>7 DEF Next
  <2> QED
    BY <1>1, <2>1, <2>2, <2>3, BerdctlAssumption
<1>3. permits' \in [Generations -> 0..Limit]
  BY <1>1, <1>2
<1> QED
  BY <1>3 DEF CallTypes, BrokerTypes, TypeOK, Line, Commands

LEMMA Initially ==
  ASSUME Init
  PROVE  IInv
<1>1. /\ <<"start", TRUE>> \in Commands
      /\ Limit \in Nat /\ 0 \in Generations /\ 0 \in 0..LastTick /\ 0 \in 0..MaxChanges
  <2>1. <<"start", TRUE>> \in Commands
    BY DEF Commands
  <2>2. Limit \in Nat /\ 0 \in Generations /\ 0 \in 0..LastTick /\ 0 \in 0..MaxChanges
    BY BerdctlAssumption DEF Generations
  <2> QED
    BY <2>1, <2>2
<1>2. CallTypes /\ CallInv
  <2>1. cli = [c \in Calls |-> Unstarted] /\ Unstarted \in Line
    BY UnstartedType DEF Init
  <2>2. Unstarted.pc = "idle" /\ Unstarted.outcome = "none"
    BY DEF Unstarted
  <2>3. /\ waiting = [c \in Calls |-> 0] /\ entry = {} /\ work = [c \in Calls |-> "none"]
        /\ clock = [c \in Calls |-> 0] /\ since = [c \in Calls |-> 0]
        /\ executed = [c \in Calls |-> 0]
    BY DEF Init
  <2>4. CallTypes
    BY <1>1, <2>1, <2>3 DEF CallTypes
  <2>5. ASSUME NEW c \in Calls
        PROVE  CallOK(c)
    BY <2>1, <2>2, <2>3 DEF CallOK
  <2> QED
    BY <2>4, <2>5 DEF CallInv
<1>3. PermitsAccounted
  <2>1. ASSUME NEW g \in Generations
        PROVE  permits[g] + Cardinality(Holders(g)) = Limit
    <3>1. Holders(g) = {} /\ permits[g] = Limit
      BY DEF Holders, Init
    <3> QED
      BY <1>1, <3>1, FS_EmptySet
  <2> QED
    BY <2>1 DEF PermitsAccounted, Holders
<1>4. invoked \in Seq(Commands) /\ invoked # <<>>
  BY <1>1 DEF Init
<1>5. BrokerTypes
  BY <1>1, <1>4 DEF Init, BrokerTypes, Bridge
<1>6. Owed
  <2> DEFINE last == <<"start", TRUE>>
  <2>1. last \in Commands /\ last[2] /\ last[1] = "start" /\ bridge.pc = "starting"
    BY <1>1 DEF Init
  <2>2. invoked = <<last>>
    BY Zenon DEF Init
  <2> HIDE DEF last
  <2>3. Len(invoked) = 0 + 1 /\ invoked[0 + 1] = last
    BY <2>2
  <2>4. /\ invoked # <<>> /\ Len(invoked) \in DOMAIN invoked /\ invoked[Len(invoked)] = last
        /\ \A i \in DOMAIN invoked : invoked[i][2] <=> i = Len(invoked)
    BY <1>4, <2>1, <2>3, LastFlagged
  <2> QED
    BY <2>1, <2>4 DEF Owed, Awaits
<1>7. Believed
  BY DEF Init, Believed
<1>8. permits \in [Generations -> 0..Limit]
  BY <1>1 DEF Init
<1> QED
  BY <1>2, <1>3, <1>5, <1>6, <1>7, <1>8 DEF IInv, TypeOK, CallTypes, BrokerTypes, Line, Commands

LEMMA Inductive ==
  ASSUME IInv, [Next]_vars
  PROVE  IInv'
<1>1. TypeOK /\ CallInv /\ PermitsAccounted /\ BrokerInv
  BY DEF IInv, BrokerInv, TypeOK, BrokerTypes, Commands
<1>2. PermitsAccounted'
  BY <1>1, PermitsKept
<1>3. CallTypes' /\ CallInv'
  BY <1>1, CallsKept
<1>4. BrokerInv'
  BY <1>1, BrokerKept
<1>5. TypeOK'
  BY <1>1, <1>2, <1>3, <1>4, TypeKept DEF BrokerInv
<1> QED
  BY <1>2, <1>3, <1>4, <1>5 DEF IInv, BrokerInv

\* The invariant holds in every behaviour.
THEOREM Invariant ==
  Spec => []IInv
<1>1. Init => IInv
  BY Initially
<1>2. IInv /\ [Next]_vars => IInv'
  BY Inductive
<1> QED
  BY <1>1, <1>2, PTL DEF Spec

\* The state keeps its types, and no broker ever has more permits than its limit or fewer
\* than none: the handlers of axum take and return them through semaphores (server.rs).
THEOREM TypeCorrect ==
  Spec => []TypeOK
<1>1. IInv => TypeOK
  BY DEF IInv
<1> QED
  BY <1>1, Invariant, PTL

\* Every permit of every broker is free or held by a handler of it that waits, whatever
\* times out, is killed, is answered late, is stopped or is started again (server.rs,
\* bridge.rs).
THEOREM PermitsStay ==
  Spec => []PermitsAccounted
<1>1. IInv => PermitsAccounted
  BY DEF IInv
<1> QED
  BY <1>1, Invariant, PTL

\* However calls are retried, time out and are answered late, a command changes the app
\* at most once, and one that was reported as refused, busy, rejected or unreachable
\* never does (main.rs of berdctl, bridge.rs, lifecycle.ts).
THEOREM OutcomesTrue ==
  Spec => []OutcomeIsTrue
<1>1. IInv => OutcomeIsTrue
  BY DEF IInv, CallInv, CallOK, OutcomeIsTrue
<1> QED
  BY <1>1, Invariant, PTL

\* However the bridge is switched on and off, fails and is reloaded, the broker ends as
\* it was declared last (bridge/lifecycle.ts).
THEOREM BrokerEndsAsDeclared ==
  Spec => []BrokerSettled
<1>1. IInv => BrokerSettled
  BY DEF IInv, Believed, BrokerSettled
<1> QED
  BY <1>1, Invariant, PTL

\* For any timeout and any margin but none: no command that the renderer received at once
\* changes the app after its caller was told that it failed (deadline.ts, bridge.rs).
THEOREM TimelyChanges ==
  Spec => ChangesInTime
<1>1. ASSUME IInv, [Next]_vars, NEW c \in Calls, executed'[c] # executed[c], since[c] = 0
      PROVE  cli[c].outcome # "failed"
  <2>1. work[c] = "running" /\ ~PastDeadline(c)
    <3>1. ASSUME NEW d \in Calls, Change(d)
          PROVE  work[c] = "running" /\ ~PastDeadline(c)
      <4>1. d = c
        BY <1>1, <3>1 DEF Change, IInv, TypeOK
      <4> QED
        BY <3>1, <4>1 DEF Change
    <3>2. UNCHANGED executed \/ \E d \in Calls : Change(d)
      BY <1>1 DEF Next, vars, calls, Toggle, Start, TimeoutsSet, Stop, Stopped, StartFailed,
         Reload, Run, Load, Ping, Call, TimedOut, Killed, Tick, Receive, Refuse, Submit,
         Submits, Unserved
    <3> QED
      BY <1>1, <3>1, <3>2
  <2>2. clock[c] \in Nat /\ Timeout \in Nat /\ Margin \in Nat \ {0}
    BY <1>1, BerdctlAssumption DEF IInv, TypeOK
  <2>3. clock[c] < Timeout
    BY <1>1, <2>1, <2>2 DEF PastDeadline
  <2>4. cli[c].outcome = "failed" /\ work[c] \in {"sent", "running"} => clock[c] >= Timeout
    BY <1>1 DEF IInv, CallInv, CallOK
  <2> QED
    BY <2>1, <2>2, <2>3, <2>4
<1>2. IInv /\ [Next]_vars =>
        [\A c \in Calls : executed'[c] # executed[c] /\ since[c] = 0
           => cli[c].outcome # "failed"]_vars
  BY <1>1
<1> QED
  BY <1>2, Invariant, PTL DEF Spec, ChangesInTime
=============================================================================

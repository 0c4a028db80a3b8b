---------------------------- MODULE AcpSessions ----------------------------
(* The renderer's side of a backend: the cached connection, whose           *)
(* transports are replaced when they close or a request times out           *)
(* (src/src/shared/api/acpConnection.ts), and the calls that configure and  *)
(* prompt a session, serialised per session, with the selection the backend *)
(* acknowledged last (src/src/shared/api/acpSessionRegistry.ts).            *)
EXTENDS Naturals, Sequences

CONSTANTS
  Sessions,
  Calls,         \* the calls the registry can be given
  Preparations,  \* what can be prepared: [dir, provider]
  Models,        \* the models a call can ask for
  MaxInits       \* bound: connections initialised

VARIABLES
  epoch,      \* invalidationGeneration
  client,     \* resolvedClient: the initialisation that made it, 0 if none
  promise,    \* clientPromise
  active,     \* activeStream
  disposer,   \* activeEndpointCleanup
  init,       \* the initialisations, with their streams and endpoints
  mutations,  \* mutationQueues
  prepared,   \* what this window believes of each session
  call,       \* the calls
  wire,       \* the request a call has sent
  goose,      \* the backend's sessions
  overtaken   \* history: sessions that a request changed after its call had ended, or
              \* that a replay loaded whose answer was lost

vars == <<epoch, client, promise, active, disposer, init, mutations, prepared, call, wire, goose, overtaken>>
connection == <<epoch, client, promise, active, disposer, init>>

Inits == 1..MaxInits
Kinds == {"prepare", "model", "configure", "load", "prompt"}
Dirs == {p.dir : p \in Preparations}
Providers == {p.provider : p \in Preparations}
\* "std": the model a provider starts with; "none": none acknowledged.
Acknowledged == Models \cup {"std", "none"}

Entry == [known : BOOLEAN, dir : Dirs, selected : BOOLEAN, provider : Providers, model : Acknowledged]
Initialisation == [pc : {"idle", "resolving", "handshake", "initialized", "ready", "failed"}, generation : Nat,
          stream : {"none", "open", "closed", "aborted"}, endpoint : {"none", "held", "disposed"}]
Call == [pc : {"idle", "queued", "connecting", "sent", "done"}, session : Sessions, kind : Kinds,
         want : Preparations, model : Models, generation : Nat, on : Inits \cup {0},
         stage : {"start", "loaded", "prepared"}]
Wire == [phase : {"none", "sent", "served"}, step : {"none", "dir", "load", "provider", "model", "prompt"},
         ok : BOOLEAN, model : Acknowledged]

TypeOK ==
  /\ epoch \in Nat
  /\ client \in Inits \cup {0} /\ promise \in Inits \cup {0}
  /\ active \in Inits \cup {0} /\ disposer \in Inits \cup {0}
  /\ init \in [Inits -> Initialisation]
  /\ mutations \in [Sessions -> Seq(Calls)]
  /\ prepared \in [Sessions -> Entry]
  /\ call \in [Calls -> Call]
  /\ wire \in [Calls -> Wire]
  /\ goose \in [Sessions -> Entry]
  /\ overtaken \subseteq Sessions

NoInit == [pc |-> "idle", generation |-> 0, stream |-> "none", endpoint |-> "none"]
NoWire == [phase |-> "none", step |-> "none", ok |-> FALSE, model |-> "none"]

----------------------------------------------------------------------------
(* The connection.                                                          *)

\* advanceGeneration; the streams and endpoints are `inits`.
Advanced(inits) ==
  /\ epoch' = epoch + 1
  /\ client' = 0 /\ promise' = 0 /\ active' = 0 /\ disposer' = 0
  /\ init' = inits

\* cleanupOwnedTransport: the stream is aborted and the endpoint disposed of, once each.
Cleaned(inits, i) ==
  IF i = 0 THEN inits
  ELSE [inits EXCEPT ![i].stream = IF @ = "open" THEN "aborted" ELSE @,
                     ![i].endpoint = IF @ = "held" THEN "disposed" ELSE @]

InitFails(i, inits) == [inits EXCEPT ![i].pc = "failed"]

Resolved(i) ==
  /\ init[i].pc = "resolving" /\ init[i].generation = epoch
  /\ init' = [init EXCEPT ![i].pc = "handshake", ![i].stream = "open", ![i].endpoint = "held"]
  /\ active' = i /\ disposer' = i
  /\ UNCHANGED <<epoch, client, promise, mutations, prepared, call, wire, goose, overtaken>>

\* An endpoint resolved for a generation that is gone is disposed of.
ResolvedLate(i) ==
  /\ init[i].pc = "resolving" /\ init[i].generation # epoch
  /\ init' = [init EXCEPT ![i].pc = "failed", ![i].endpoint = "disposed"]
  /\ UNCHANGED <<epoch, client, promise, active, disposer, mutations, prepared, call, wire, goose, overtaken>>

\* getClient's catch: the generation advances when the promise is still this one.
ResolveFails(i) ==
  /\ init[i].pc = "resolving"
  /\ IF promise = i THEN Advanced(InitFails(i, init))
                    ELSE init' = InitFails(i, init) /\ UNCHANGED <<epoch, client, promise, active, disposer>>
  /\ UNCHANGED <<mutations, prepared, call, wire, goose, overtaken>>

\* Mutant: the answer of an invalidated initialisation is accepted.
AnyEpoch(i) == TRUE
InitCurrent(i) == init[i].generation = epoch

HandshakeAnswered(i) ==
  /\ init[i].pc = "handshake" /\ init[i].stream = "open"
  /\ init' = IF InitCurrent(i) THEN [init EXCEPT ![i].pc = "initialized"]
                               ELSE InitFails(i, Cleaned(init, i))
  /\ UNCHANGED <<epoch, client, promise, active, disposer, mutations, prepared, call, wire, goose, overtaken>>

HandshakeFails(i) ==
  /\ init[i].pc = "handshake"
  /\ IF init[i].generation = epoch
       THEN Advanced(InitFails(i, Cleaned(init, i)))
       ELSE init' = InitFails(i, Cleaned(init, i)) /\ UNCHANGED <<epoch, client, promise, active, disposer>>
  /\ UNCHANGED <<mutations, prepared, call, wire, goose, overtaken>>

\* The promise getClient keeps: only a client of this generation is cached.
Cached(i) ==
  /\ init[i].pc = "initialized"
  /\ IF InitCurrent(i)
       THEN client' = i /\ init' = [init EXCEPT ![i].pc = "ready"]
       ELSE init' = InitFails(i, init) /\ UNCHANGED client
  /\ UNCHANGED <<epoch, promise, active, disposer, mutations, prepared, call, wire, goose, overtaken>>

PeerCloses(i) ==
  /\ init[i].stream = "open"
  /\ init' = [init EXCEPT ![i].stream = "closed"]
  /\ UNCHANGED <<epoch, client, promise, active, disposer, mutations, prepared, call, wire, goose, overtaken>>

\* monitorConnection: the endpoint stays with the supervisor that made it.
ClosedNoticed(i) ==
  /\ init[i].pc \in {"initialized", "ready"} /\ init[i].stream = "closed" /\ active = i
  /\ Advanced(init)
  /\ UNCHANGED <<mutations, prepared, call, wire, goose, overtaken>>

Invalidated == Advanced(Cleaned(Cleaned(init, active), disposer))

\* The remote sessions are removed, or the experiment is switched off.
Invalidate ==
  /\ active # 0 \/ promise # 0
  /\ Invalidated
  /\ UNCHANGED <<mutations, prepared, call, wire, goose, overtaken>>

----------------------------------------------------------------------------
(* A call: what it sends next, given what is prepared.                      *)

\* "done": nothing more to send. "refused": the session is not prepared for it.
ModelStep(c, e) ==
  IF ~e.selected THEN "refused" ELSE IF e.model = call[c].model THEN "done" ELSE "model"

After(c, e) == IF call[c].kind = "configure" THEN ModelStep(c, e) ELSE "done"

\* A session is loaded before its provider is set, and its directory is the one wanted.
Prepares(c, stage, e) ==
  IF stage = "prepared" THEN After(c, e)
  ELSE IF stage = "loaded" THEN "provider"
  ELSE IF ~e.known THEN "load"
  ELSE IF e.dir # call[c].want.dir THEN "dir"
  ELSE IF ~e.selected \/ e.provider # call[c].want.provider THEN "provider"
  ELSE After(c, e)

NextStep(c, stage, e) ==
  CASE call[c].kind = "load" -> IF stage = "start" THEN "load" ELSE "done"
    [] call[c].kind = "model" -> ModelStep(c, e)
    [] call[c].kind = "prompt" -> IF e.selected /\ e.model # "none" THEN "prompt" ELSE "refused"
    [] call[c].kind \in {"prepare", "configure"} -> Prepares(c, stage, e)

Bounded(c) == call[c].kind # "prompt" /\ call[c].kind # "load"
\* A call ends at the head of its session's queue.
Dequeued(c) == [mutations EXCEPT ![call[c].session] = Tail(@)]

Ended(c) ==
  /\ call' = [call EXCEPT ![c].pc = "done"]
  /\ mutations' = Dequeued(c)

\* Runs up to the next request: the client is awaited, and initialised when there is none.
Goes(c, stage, e, generation) ==
  LET step == NextStep(c, stage, e)
      next == [call[c] EXCEPT !.pc = "connecting", !.stage = stage, !.generation = generation]
  IN IF step \in {"done", "refused"}
       THEN Ended(c) /\ UNCHANGED connection
     ELSE IF promise # 0
       THEN /\ call' = [call EXCEPT ![c] = [next EXCEPT !.on = promise]]
            /\ UNCHANGED <<mutations, connection>>
     ELSE \E i \in Inits :
            /\ init[i].pc = "idle" /\ \A j \in 1..(i - 1) : init[j].pc # "idle"
            /\ init' = [init EXCEPT ![i].pc = "resolving", ![i].generation = epoch]
            /\ promise' = i
            /\ call' = [call EXCEPT ![c] = [next EXCEPT !.on = i]]
            /\ UNCHANGED <<epoch, client, active, disposer, mutations>>

Request(c, s, kind, want, model) ==
  /\ call[c].pc = "idle"
  /\ call' = [call EXCEPT ![c].pc = "queued", ![c].session = s, ![c].kind = kind,
                          ![c].want = want, ![c].model = model]
  /\ mutations' = [mutations EXCEPT ![s] = Append(@, c)]
  /\ UNCHANGED <<connection, prepared, wire, goose, overtaken>>

\* Mutant: a call does not wait for the one before it.
Unqueued(c) == TRUE
Foremost(c) == Head(mutations[call[c].session]) = c

Begin(c) ==
  /\ call[c].pc = "queued" /\ Foremost(c)
  /\ Goes(c, "start", prepared[call[c].session], epoch)
  /\ UNCHANGED <<prepared, wire, goose, overtaken>>

\* The client is there: the request goes out, unless the call was abandoned meanwhile.
\* A prompt does not ask.
Send(c) ==
  LET i == call[c].on  e == prepared[call[c].session] IN
  /\ call[c].pc = "connecting" /\ init[i].pc = "ready"
  /\ call[c].generation = epoch \/ call[c].kind = "prompt"
  /\ call' = [call EXCEPT ![c].pc = "sent"]
  /\ wire' = [wire EXCEPT ![c] = [phase |-> "sent", step |-> NextStep(c, call[c].stage, e),
                                  ok |-> FALSE, model |-> call[c].model]]
  /\ UNCHANGED <<connection, mutations, prepared, goose, overtaken>>

Forgotten(c) == [prepared EXCEPT ![call[c].session].known = FALSE, ![call[c].session].selected = FALSE,
                                 ![call[c].session].model = "none"]

\* Its transport is gone: the call fails, and a configuration forgets the session. A
\* replay does not, though the backend may have loaded the session elsewhere.
Lost(c) ==
  /\ \/ call[c].pc = "connecting" /\ init[call[c].on].pc = "failed"
     \/ call[c].pc = "connecting" /\ init[call[c].on].pc = "ready" /\ Bounded(c) /\ call[c].generation # epoch
     \/ call[c].pc = "connecting" /\ init[call[c].on].pc = "ready" /\ call[c].kind = "load" /\ call[c].generation # epoch
     \/ call[c].pc = "sent" /\ init[call[c].on].stream # "open" /\ active # call[c].on
  /\ prepared' = IF Bounded(c) THEN Forgotten(c) ELSE prepared
  /\ overtaken' = IF call[c].kind = "load" /\ wire[c].phase = "served"
                    THEN overtaken \cup {call[c].session} ELSE overtaken
  /\ Ended(c)
  /\ UNCHANGED <<connection, wire, goose>>

\* SESSION_MUTATION_TIMEOUT_MS: the session is forgotten and this transport, if it is
\* still the one the call began with, is detached.
TimedOut(c) ==
  /\ Bounded(c) /\ call[c].pc \in {"connecting", "sent"}
  /\ prepared' = Forgotten(c)
  /\ Ended(c)
  /\ IF call[c].generation = epoch THEN Invalidated ELSE UNCHANGED connection
  /\ UNCHANGED <<wire, goose, overtaken>>

----------------------------------------------------------------------------
(* The backend serves a request, and the call reads the answer.             *)

\* What the request leaves in the backend; the model is the one it acknowledges.
Effect(c, model) ==
  LET s == call[c].session IN
  CASE wire[c].step \in {"dir", "load"} -> [goose EXCEPT ![s].dir = call[c].want.dir]
    [] wire[c].step = "provider" -> [goose EXCEPT ![s].provider = call[c].want.provider, ![s].model = model]
    [] wire[c].step = "model" -> [goose EXCEPT ![s].model = model]
    [] OTHER -> goose

Answers(c) ==
  CASE wire[c].step = "provider" -> {"std", "none"}
    [] wire[c].step = "model" -> {call[c].model, "std"}
    [] OTHER -> {"none"}

Running(s) == \E c \in Calls : call[c].session = s /\ call[c].pc \in {"connecting", "sent"}

\* A provider can be applied and then fail; the other requests do nothing when they fail.
Serve(c, ok) ==
  LET s == call[c].session IN
  \E model \in Answers(c) :
    /\ wire[c].phase = "sent"
    /\ wire' = [wire EXCEPT ![c].phase = "served", ![c].ok = ok, ![c].model = model]
    /\ \/ goose' = Effect(c, model) /\ (ok \/ wire[c].step = "provider")
       \/ goose' = goose /\ ~ok
    /\ overtaken' = IF call[c].pc = "done" /\ (prepared[s].known \/ Running(s)) THEN overtaken \cup {s} ELSE overtaken
    /\ UNCHANGED <<connection, mutations, prepared, call>>

\* A backend drops what it has not served of a transport that closed.
Drop(c) ==
  /\ wire[c].phase = "sent" /\ call[c].pc = "done" /\ init[call[c].on].stream # "open"
  /\ wire' = [wire EXCEPT ![c] = NoWire]
  /\ UNCHANGED <<connection, mutations, prepared, call, goose, overtaken>>

Unselected(e) == [e EXCEPT !.selected = FALSE, !.model = "none"]

\* What the answer makes of the session's entry.
Learnt(c, e) ==
  LET w == wire[c]  want == call[c].want IN
  CASE w.step = "dir" /\ w.ok -> [e EXCEPT !.dir = want.dir]
    [] w.step = "provider" /\ w.ok -> [known |-> TRUE, dir |-> want.dir, selected |-> TRUE,
                                       provider |-> want.provider, model |-> w.model]
    [] w.step = "provider" /\ ~w.ok /\ e.known -> Unselected(e)
    [] w.step = "model" /\ w.ok -> [e EXCEPT !.model = w.model]
    [] w.step = "model" /\ ~w.ok -> [e EXCEPT !.model = "none"]
    [] w.step = "load" /\ w.ok /\ call[c].kind = "load" -> [goose[call[c].session] EXCEPT !.known = TRUE]
    [] OTHER -> e

\* A model other than the one that was asked for is an error.
Satisfied(c) == wire[c].ok /\ (wire[c].step = "model" => wire[c].model = call[c].model)

StageAfter(c) ==
  CASE wire[c].step = "load" -> "loaded"
    [] wire[c].step = "provider" -> "prepared"
    [] wire[c].step = "model" -> "prepared"
    [] OTHER -> call[c].stage

Read(c) ==
  LET s == call[c].session  e == Learnt(c, prepared[s]) IN
  /\ call[c].pc = "sent" /\ wire[c].phase = "served"
  /\ init[call[c].on].stream = "open" /\ (call[c].generation = epoch \/ call[c].kind = "prompt")
  /\ prepared' = [prepared EXCEPT ![s] = e]
  /\ wire' = [wire EXCEPT ![c] = NoWire]
  /\ IF Satisfied(c) /\ wire[c].step # "prompt"
       THEN Goes(c, StageAfter(c), e, call[c].generation)
       ELSE Ended(c) /\ UNCHANGED connection
  /\ UNCHANGED <<goose, overtaken>>

----------------------------------------------------------------------------
Started == CHOOSE p \in Preparations : TRUE

\* A session is prepared as the backend has it, or has never been prepared here.
Init ==
  /\ epoch = 0 /\ client = 0 /\ promise = 0 /\ active = 0 /\ disposer = 0
  /\ init = [i \in Inits |-> NoInit]
  /\ mutations = [s \in Sessions |-> <<>>]
  /\ goose = [s \in Sessions |-> [known |-> TRUE, dir |-> Started.dir, selected |-> TRUE,
                                  provider |-> Started.provider, model |-> "std"]]
  /\ prepared \in [Sessions -> {goose[CHOOSE s \in Sessions : TRUE],
                                [known |-> FALSE, dir |-> Started.dir, selected |-> FALSE,
                                 provider |-> Started.provider, model |-> "none"]}]
  /\ call = [c \in Calls |-> [pc |-> "idle", session |-> CHOOSE s \in Sessions : TRUE, kind |-> "load",
                              want |-> Started, model |-> CHOOSE m \in Models : TRUE,
                              generation |-> 0, on |-> 0, stage |-> "start"]]
  /\ wire = [c \in Calls |-> NoWire]
  /\ overtaken = {}

Next ==
  \/ \E i \in Inits : Resolved(i) \/ ResolvedLate(i) \/ ResolveFails(i) \/ HandshakeAnswered(i)
                      \/ HandshakeFails(i) \/ Cached(i) \/ PeerCloses(i) \/ ClosedNoticed(i)
  \/ Invalidate
  \/ \E c \in Calls :
       \/ \E s \in Sessions, kind \in Kinds, want \in Preparations, model \in Models :
            Request(c, s, kind, want, model)
       \/ Begin(c) \/ Send(c) \/ Lost(c) \/ TimedOut(c) \/ Drop(c) \/ Read(c)
       \/ \E ok \in BOOLEAN : Serve(c, ok)

Spec == Init /\ [][Next]_vars

----------------------------------------------------------------------------
\* What the registry believes of a session is what the backend has, between its calls
\* and while it is prompted, unless a request was served after its call was abandoned.
Settled(s) ==
  \A c \in Calls : call[c].session = s /\ call[c].pc \in {"connecting", "sent"} => call[c].kind = "prompt"
SelectionTruthful ==
  \A s \in Sessions :
    prepared[s].known /\ Settled(s) /\ s \notin overtaken =>
      /\ prepared[s].dir = goose[s].dir
      /\ prepared[s].selected => prepared[s].provider = goose[s].provider
      /\ prepared[s].selected /\ prepared[s].model # "none" => prepared[s].model = goose[s].model

\* An open stream, or an endpoint that is held, is the current connection's or belongs
\* to an initialisation that will clean it up; the cached client is never an older one's.
TransportsOwned ==
  /\ \A i \in Inits :
       /\ init[i].stream = "open" => active = i
       /\ init[i].endpoint = "held" => disposer = i \/ init[i].stream = "closed"
  /\ client # 0 => init[client].generation = epoch /\ active = client
=============================================================================

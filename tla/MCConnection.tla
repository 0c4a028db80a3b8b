---------------------------- MODULE MCConnection ----------------------------
(* The coordinator of a session's model and the connection its calls go     *)
(* through, side by side: their state is disjoint, and the initial state    *)
(* says which part a behaviour is about while the other rests in it.        *)
EXTENDS MCSessionTarget

CONSTANTS Sessions, Calls, Models, MaxInits, c1, home, away

ASSUME ConnectionAssumption == Sessions # {} /\ Models # {} /\ MaxInits \in Nat

VARIABLES
  part,
  epoch, client, promise, active, disposer, init, mutations, prepared, call, wire, goose, overtaken

Preparations == {[dir |-> home, provider |-> P], [dir |-> away, provider |-> Q]}

Acp == INSTANCE AcpSessions

acp == <<epoch, client, promise, active, disposer, init, mutations, prepared, call, wire, goose,
         overtaken>>
connectionVars == <<part, vars, acp>>

Coordinates(A) == part = "target" /\ A /\ UNCHANGED <<part, acp>>
\* Once its session is `overtaken` the selection promises nothing more.
Connects(A) == part = "acp" /\ overtaken = {} /\ A /\ UNCHANGED <<part, vars>>

\* The calls are interchangeable, and the second is made when the first has begun.  A
\* configuration also does what "prepare" and "model" do, and a prompt looks at no
\* preparation.
Varied(q, kind, want) ==
  /\ q = c1 \/ call[c1].pc \notin {"idle", "queued"}
  /\ kind \in {"configure", "load", "prompt"}
  /\ kind = "prompt" => want = Acp!Started

ConnectionInit ==
  /\ part \in {"target", "acp"}
  /\ Init /\ (part # "target" => store.target = a /\ store.source = "ui")
  /\ Acp!Init /\ (part # "acp" => \A s \in Sessions : prepared[s].known)

ConnectionNext ==
  \/ Coordinates(RunWoken) \/ Coordinates(Notify) \/ Coordinates(Remove)
  \/ \E t \in Targets :
       \/ Coordinates(Hydrate(t))
       \/ \E q \in MaybeRequest, m \in MaybeTarget : Coordinates(ObserveModel(t, q, m))
  \/ \E t \in MaybeTarget : Coordinates(ReplaceAfterDispatch(t)) \/ Coordinates(WriteStore(t))
  \/ \E r \in Requests : Coordinates(Execute(r)) \/ Coordinates(User(r))
  \/ \E d \in Attempts : Coordinates(Dispatch(d))

  \/ \E i \in Acp!Inits :
       \/ Connects(Acp!Resolved(i)) \/ Connects(Acp!ResolvedLate(i)) \/ Connects(Acp!ResolveFails(i))
       \/ Connects(Acp!HandshakeAnswered(i)) \/ Connects(Acp!HandshakeFails(i))
       \/ Connects(Acp!Cached(i)) \/ Connects(Acp!PeerCloses(i)) \/ Connects(Acp!ClosedNoticed(i))
  \/ Connects(Acp!Invalidate)
  \/ \E q \in Calls :
       \/ \E s \in Sessions, kind \in Acp!Kinds, want \in Preparations, model \in Models :
            Connects(Acp!Request(q, s, kind, want, model) /\ Varied(q, kind, want))
       \/ Connects(Acp!Begin(q)) \/ Connects(Acp!Send(q)) \/ Connects(Acp!Lost(q))
       \/ Connects(Acp!TimedOut(q)) \/ Connects(Acp!Drop(q)) \/ Connects(Acp!Read(q))
       \/ \E ok \in BOOLEAN : Connects(Acp!Serve(q, ok))

ConnectionSpec == ConnectionInit /\ [][ConnectionNext]_connectionVars

----------------------------------------------------------------------------
\* What the renderer believes a session is prepared for is what the backend has.
SelectionTruthful == Acp!SelectionTruthful

\* No transport outlives the connection it was opened for; the connection keeps its types.
TransportsOwned == Acp!TypeOK /\ Acp!TransportsOwned
=============================================================================

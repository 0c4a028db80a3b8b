--------------------------- MODULE SessionWindows ---------------------------
(* One chat that may move to a window of its own: the registry of windows   *)
(* in the native process, the hand-over of a running chat from the main     *)
(* renderer, the file both renderers persist the chat's queue in, and the   *)
(* reconciliation of the main renderer's stale queue when the window closes *)
(* (src/src-tauri/src/commands/window_session.rs, SessionWindowApp.tsx,     *)
(* useSessionHandoffSource.ts, queuePersistence.ts).                        *)
EXTENDS Naturals, SequencesExt

CONSTANTS
  Messages,     \* bound: the messages that can be accepted; accepted in order
  Deliveries,   \* those berdctl delivers: their id is looked up in the transcript
  MaxSent,      \* bound: how often a message can be sent
  MaxOpens,     \* bound: how often the chat is opened in a window
  MaxCrashes,   \* bound: restarts of Berd
  MaxPending,   \* bound: events, and writes of a renderer, that are under way
  None

Renderers == {"main", "window"}

VARIABLES
  registry,     \* WindowSessionRegistry: the record of this chat
  snapshot,     \* and the last snapshot its source published
  news,         \* session-windows-changed events the main renderer has not handled
  seen,         \* what the main renderer knows of the registry
  source,       \* useSessionHandoffSource in the main renderer
  view,         \* the main renderer shows the chat
  phase,        \* SessionWindowApp
  fresh,        \* the snapshot is newer than the last one the window applied
  queued,       \* queuedMessageBySession of each renderer
  chat,         \* chatState of each renderer
  attempt,      \* the send each renderer prepares
  chain,        \* nativeWriteChain of each renderer
  file,         \* the chat's part of message-queues.json
  cache,        \* and of its copy in localStorage
  reclaim,      \* the reconciliation worker of the main renderer
  exclusions,   \* restoredExclusionsBySession of the main renderer
  accepted, sent,   \* history: messages accepted, turns made of each
  opens, crashes,   \* history: windows opened, restarts
  opened,       \* history: messages whose chat the user opened after their restoration
  crossed       \* history: the main renderer used its copy while the chat was not its own,
                \* a window took the chat with an older copy or while a write or a send of
                \* the main renderer was under way, it closed after the file was read, or
                \* a reconciliation was dropped because the chat is being handed over again

native == <<registry, snapshot, news>>
handover == <<seen, source, view, phase, fresh>>
queues == <<queued, chat, attempt, chain, file, cache, reclaim, exclusions>>
history == <<accepted, sent, opens, crashes, opened, crossed>>
vars == <<native, handover, queues, history>>

Record == [id : Messages, restored : BOOLEAN]
Queue == Seq(Record)
Modes == {"none", "owned", "joining", "handoff"}
Snapshot == [final : BOOLEAN, busy : BOOLEAN, queue : Queue]

TypeOK ==
  /\ registry \in Modes /\ seen \in Modes /\ news \in Seq(Modes)
  /\ snapshot \in Snapshot \cup {None}
  /\ source \in [pc : {"off", "publish", "watching", "finishing"}, final : Queue]
  /\ view \in BOOLEAN
  /\ phase \in {"closed", "starting", "listing", "mirror", "recoverable", "ready"}
  /\ fresh \in BOOLEAN
  /\ queued \in [Renderers -> Queue] /\ file \in Queue /\ cache \in Queue
  /\ chain \in [Renderers -> Seq(Queue)]
  /\ chat \in [Renderers -> {"idle", "busy"}]
  /\ attempt \in [Renderers -> [id : Messages, checked : BOOLEAN] \cup {None}]
  /\ reclaim \in [pc : {"none", "requested"}] \cup [pc : {"loaded"}, queue : Queue]
  /\ exclusions \subseteq Messages /\ accepted \subseteq Messages
  /\ sent \in [Messages -> 0..MaxSent] /\ opens \in 0..MaxOpens /\ crashes \in 0..MaxCrashes
  /\ opened \subseteq Messages /\ crossed \in BOOLEAN

Ids(q) == {q[i].id : i \in DOMAIN q}
\* normalizeQueuedRecord, and markQueuedMessagesReady.
Restored(q) == [i \in DOMAIN q |-> [q[i] EXCEPT !.restored = TRUE]]
Marked(q) == [i \in DOMAIN q |-> [q[i] EXCEPT !.restored = FALSE]]
Nothing == [pc |-> "none"]
Off == [pc |-> "off", final |-> <<>>]

\* The subscriber of the background drain notes restored records while no view owns
\* the queue.
Noted(q, v) ==
  IF v THEN {} ELSE exclusions \cup {q[i].id : i \in {j \in DOMAIN q : q[j].restored}}

\* The main renderer has yet to hear that a window had the chat, or to reconcile its
\* own copy of the queue.
Behind == "owned" \in {seen} \cup ToSet(news) \/ reclaim # Nothing
MainHasChat == registry # "owned" /\ ~Behind /\ source.pc # "finishing"
Strays(w) == crossed' = (crossed \/ (w = "main" /\ ~MainHasChat))

\* A change of a queue that the store persists.
Persist(w, q) ==
  /\ Len(chain[w]) < MaxPending
  /\ queued' = [queued EXCEPT ![w] = q]
  /\ chain' = [chain EXCEPT ![w] = Append(@, q)]
  /\ cache' = q
  /\ Strays(w)

\* loadPersistedMessageQueues: the copy stands in for a file that does not exist, as
\* when no chat has a queue.
Stored(q) == \/ q = file /\ cache' = file
             \/ file = <<>> /\ q = cache /\ UNCHANGED cache
Crossing == crossed' = (crossed \/ chain["main"] # <<>>)
Handled == crossed' = (crossed \/ attempt["main"] # None)

Tell(mode) == Len(news) < MaxPending /\ registry' = mode /\ news' = Append(news, mode)

----------------------------------------------------------------------------
(* The native process.                                                      *)

\* claim or begin_handoff, from a row of the session list.  A running chat is handed
\* over, an idle one loaded from what is persisted.
OpenWindow ==
  /\ seen = "none" /\ registry = "none" /\ phase = "closed"
  /\ Tell(IF chat["main"] = "busy" THEN "joining" ELSE "owned")
  /\ snapshot' = None
  /\ phase' = "starting" /\ fresh' = FALSE
  /\ opens < MaxOpens /\ opens' = opens + 1
  /\ Handled
  /\ UNCHANGED <<seen, source, view, queues, accepted, sent, crashes, opened>>

\* persist_message_queue_updates: one write of a renderer's chain.
Write(w) ==
  /\ chain[w] # <<>>
  /\ file' = Head(chain[w])
  /\ chain' = [chain EXCEPT ![w] = Tail(@)]
  /\ UNCHANGED <<native, handover, queued, chat, attempt, cache, reclaim, exclusions, history>>

\* Berd quits or crashes: the file survives and is the main renderer's queue.
Crash ==
  /\ crashes < MaxCrashes
  /\ crashes' = crashes + 1
  /\ registry' = "none" /\ snapshot' = None /\ news' = <<>> /\ seen' = "none"
  /\ source' = Off /\ view' = FALSE /\ phase' = "closed" /\ fresh' = FALSE
  /\ \E q \in {file, cache} : /\ Stored(q)
                             /\ queued' = [main |-> Restored(q), window |-> <<>>]
                             /\ exclusions' = Ids(q) /\ opened' = opened \ Ids(q)
  /\ chain' = [w \in Renderers |-> <<>>]
  /\ chat' = [w \in Renderers |-> "idle"] /\ attempt' = [w \in Renderers |-> None]
  /\ reclaim' = Nothing
  /\ UNCHANGED <<file, accepted, sent, opens, crossed>>

----------------------------------------------------------------------------
(* The window.                                                              *)

\* Its runtime starts with the persisted queues.
Load ==
  /\ phase = "starting"
  /\ phase' = "listing"
  /\ \E q \in {file, cache} : /\ Stored(q)
                             /\ queued' = [queued EXCEPT !["window"] = Restored(q)]
                             /\ opened' = opened \cup Ids(q)
  /\ Crossing
  /\ UNCHANGED <<native, seen, source, view, fresh, chat, attempt, chain, file, reclaim, exclusions,
                 accepted, sent, opens, crashes>>

\* It joins a hand-over that is addressed to it, and owns the chat otherwise.
Join ==
  /\ phase = "listing"
  /\ IF registry = "joining"
       THEN Tell("handoff") /\ phase' = "mirror"
       ELSE phase' = "ready" /\ UNCHANGED <<registry, news>>
  /\ UNCHANGED <<snapshot, seen, source, view, fresh, queues, history>>

\* readLatestSnapshot: a newer snapshot replaces the mirror, the final one opens it.
ReadSnapshot ==
  /\ phase = "mirror" /\ fresh
  /\ fresh' = FALSE
  /\ queued' = [queued EXCEPT !["window"] = snapshot.queue]
  /\ chat' = [chat EXCEPT !["window"] = IF snapshot.busy THEN "busy" ELSE "idle"]
  /\ phase' = IF snapshot.final THEN "ready" ELSE phase
  /\ UNCHANGED <<native, seen, source, view, attempt, chain, file, cache, reclaim, exclusions, history>>

\* No newer snapshot for five seconds.
RecoveryTimer ==
  /\ phase = "mirror"
  /\ phase' = "recoverable"
  /\ UNCHANGED <<native, seen, source, view, fresh, queues, history>>

\* The user reloads: recover_handoff takes the chat from the source, if it still is one.
Reload ==
  /\ phase = "recoverable"
  /\ phase' = "ready"
  /\ IF registry = "handoff" THEN Tell("owned") /\ snapshot' = None
                             ELSE UNCHANGED <<registry, news, snapshot>>
  /\ opened' = opened \cup Ids(queued["window"])
  /\ crossed' = (crossed \/ attempt["main"] # None \/ chain["main"] # <<>>
                         \/ Ids(queued["main"]) # Ids(queued["window"])
                         \/ (registry = "handoff" /\ Behind))
  /\ UNCHANGED <<seen, source, view, fresh, queues, accepted, sent, opens, crashes>>

\* The history of the chat is there: restored messages may be sent.
WindowLoaded ==
  /\ phase = "ready"
  /\ queued' = [queued EXCEPT !["window"] = Marked(@)]
  /\ UNCHANGED <<native, handover, chat, attempt, chain, file, cache, reclaim, exclusions, history>>

\* release_label.  Only the write that was handed to the native process can still
\* happen.
Close ==
  /\ phase # "closed"
  /\ phase' = "closed" /\ fresh' = FALSE
  /\ Tell("none") /\ snapshot' = None
  /\ file' \in {file} \cup {chain["window"][i] : i \in DOMAIN chain["window"] \cap {1}}
  /\ queued' = [queued EXCEPT !["window"] = <<>>]
  /\ chain' = [chain EXCEPT !["window"] = <<>>]
  /\ chat' = [chat EXCEPT !["window"] = "idle"]
  /\ attempt' = [attempt EXCEPT !["window"] = None]
  /\ crossed' = (crossed \/ reclaim.pc = "loaded")
  /\ UNCHANGED <<seen, source, view, cache, reclaim, exclusions,
                 accepted, sent, opens, crashes, opened>>

----------------------------------------------------------------------------
(* The main renderer and the registry.                                      *)

\* Mutant: the stale copy of the queue may be used at once.
NoReclaim(mode) == reclaim
Reclaimed(mode) ==
  IF seen # "none" /\ mode = "none" /\ reclaim = Nothing THEN [pc |-> "requested"] ELSE reclaim

\* setSnapshot and its subscribers: a source starts or stops, a window that closed
\* has the queue reconciled, a chat that a window owns is left.
HandleNews ==
  /\ news # <<>>
  /\ news' = Tail(news)
  /\ seen' = Head(news)
  /\ source' = IF Head(news) = "handoff" THEN [Off EXCEPT !.pc = "publish"] ELSE Off
  /\ view' = (view /\ Head(news) # "owned")
  /\ reclaim' = Reclaimed(Head(news))
  /\ exclusions' = Noted(queued["main"], view')
  /\ UNCHANGED <<registry, snapshot, phase, fresh, queued, chat, attempt, chain, file, cache, history>>

\* publish_snapshot, first at once and then after every change; registry permitting.
Publish ==
  /\ source.pc \in {"publish", "watching"}
  /\ IF registry = "handoff"
       THEN /\ snapshot' = [final |-> FALSE, busy |-> chat["main"] = "busy", queue |-> queued["main"]]
            /\ snapshot' # snapshot
            /\ fresh' = TRUE
            /\ source' = [source EXCEPT !.pc = "watching"]
       ELSE source.pc = "publish" /\ source' = Off /\ UNCHANGED <<snapshot, fresh>>
  /\ UNCHANGED <<registry, news, seen, view, phase, queues, history>>

\* The chat has been idle for a while: the final snapshot is taken...
Finish ==
  /\ source.pc = "watching" /\ chat["main"] = "idle"
  /\ source' = [pc |-> "finishing", final |-> queued["main"]]
  /\ Handled
  /\ UNCHANGED <<native, seen, view, phase, fresh, queues, accepted, sent, opens, crashes, opened>>

\* ...and finish_handoff gives the chat to the window.
Finished ==
  /\ source.pc = "finishing"
  /\ IF registry = "handoff"
       THEN /\ Tell("owned")
            /\ snapshot' = [final |-> TRUE, busy |-> FALSE, queue |-> source.final]
            /\ fresh' = TRUE
            /\ source' = Off
            /\ crossed' = (crossed \/ chain["main"] # <<>> \/ Behind)
            /\ opened' = opened \cup (exclusions \cap Ids(source.final))
       ELSE /\ source' = [Off EXCEPT !.pc = "watching"]
            /\ UNCHANGED <<registry, news, snapshot, fresh, crossed, opened>>
  /\ UNCHANGED <<seen, view, phase, queues, accepted, sent, opens, crashes>>

\* reconcilePendingQueues reads the file, and what it read replaces the queue unless
\* the chat is in a window again.
ReclaimLoad ==
  /\ reclaim.pc = "requested"
  /\ \E q \in {file, cache} : Stored(q) /\ reclaim' = [pc |-> "loaded", queue |-> Restored(q)]
  /\ Crossing
  /\ UNCHANGED <<native, handover, queued, chat, attempt, chain, file, exclusions,
                 accepted, sent, opens, crashes, opened>>

ReclaimApply ==
  /\ reclaim.pc = "loaded"
  /\ reclaim' = Nothing
  /\ IF seen = "none"
       THEN /\ queued' = [queued EXCEPT !["main"] = reclaim.queue]
            /\ exclusions' = Noted(reclaim.queue, view)
            /\ opened' = IF view \/ phase # "closed" THEN opened \cup Ids(reclaim.queue)
                      ELSE opened \ {m \in Ids(reclaim.queue) : attempt["main"] = None \/ attempt["main"].id # m}
       ELSE UNCHANGED <<queued, exclusions, opened>>
  /\ crossed' = (crossed \/ seen \in {"joining", "handoff"})
  /\ UNCHANGED <<native, handover, chat, attempt, chain, file, cache, accepted, sent, opens, crashes>>

\* The user opens the chat in the main renderer, or leaves it.
OpenChat ==
  /\ ~view /\ seen = "none"
  /\ view' = TRUE
  /\ exclusions' = {}
  /\ opened' = opened \cup Ids(queued["main"])
  /\ UNCHANGED <<native, seen, source, phase, fresh, queued, chat, attempt, chain, file, cache, reclaim,
                 accepted, sent, opens, crashes, crossed>>

LeaveChat ==
  /\ view
  /\ view' = FALSE
  /\ exclusions' = Noted(queued["main"], FALSE)
  /\ UNCHANGED <<native, seen, source, phase, fresh, queued, chat, attempt, chain, file, cache, reclaim, history>>

\* A load of the session marks its messages, also one the user did not ask for.
MainLoaded ==
  /\ queued' = [queued EXCEPT !["main"] = Marked(@)]
  /\ UNCHANGED <<native, handover, chat, attempt, chain, file, cache, reclaim, exclusions, history>>

----------------------------------------------------------------------------
(* Messages.                                                                *)

NextMessage == CHOOSE m \in Messages \ accepted : \A n \in Messages \ accepted : m <= n

\* The user queues in a chat that is shown, berdctl in one the main renderer believes
\* to be its own.
MayAccept(w, m) ==
  IF w = "window" THEN phase = "ready" /\ m \notin Deliveries
  ELSE IF m \in Deliveries THEN seen = "none" ELSE view

Accept(w) ==
  /\ accepted # Messages
  /\ MayAccept(w, NextMessage)
  /\ accepted' = accepted \cup {NextMessage}
  /\ Persist(w, Append(queued[w], [id |-> NextMessage, restored |-> FALSE]))
  /\ UNCHANGED <<native, handover, chat, attempt, file, reclaim, exclusions, sent, opens, crashes, opened>>

\* The drains: the one of the shown chat, the background one and the one of berdctl.
Foreground(w) == IF w = "window" THEN phase = "ready" ELSE view
Background == ~view /\ seen = "none" /\ reclaim = Nothing
\* Mutant: the flag alone keeps a restored message back.
FlaggedOnly(w, r) == w = "main" => ~r.restored
Unrestored(w, r) == ~r.restored /\ (Foreground(w) \/ r.id \notin exclusions)

Claims(w, r) ==
  IF r.id \in Deliveries
    THEN IF w = "window" THEN phase = "ready" ELSE seen = "none" /\ reclaim = Nothing
    ELSE (Foreground(w) \/ (w = "main" /\ Background)) /\ Unrestored(w, r)

Begin(w) ==
  /\ attempt[w] = None /\ chat[w] = "idle"
  /\ queued[w] # <<>> /\ Claims(w, Head(queued[w]))
  /\ attempt' = [attempt EXCEPT ![w] = [id |-> Head(queued[w]).id, checked |-> FALSE]]
  /\ Strays(w)
  /\ UNCHANGED <<native, handover, queued, chat, chain, file, cache, reclaim, exclusions,
                 accepted, sent, opens, crashes, opened>>

\* assertQueuedMessageAttemptOwned and assertQueuedSessionReady.
Owned(w) == chat[w] = "idle" /\ queued[w] # <<>> /\ Head(queued[w]).id = attempt[w].id

Delivered(m) == sent[m] > 0

\* The session is loaded.  A delivery that is in its transcript is dropped.
Check(w) ==
  /\ attempt[w] # None /\ ~attempt[w].checked
  /\ IF attempt[w].id \in Deliveries /\ Delivered(attempt[w].id)
       THEN /\ attempt' = [attempt EXCEPT ![w] = None]
            /\ IF queued[w] # <<>> /\ Head(queued[w]).id = attempt[w].id
                 THEN Persist(w, Tail(queued[w])) ELSE UNCHANGED <<queued, chain, cache, crossed>>
       ELSE attempt' = [attempt EXCEPT ![w].checked = TRUE] /\ UNCHANGED <<queued, chain, cache, crossed>>
  /\ UNCHANGED <<native, handover, chat, file, reclaim, exclusions, accepted, sent, opens, crashes, opened>>

\* The user turn is committed and the record dismissed, or the attempt rejected.
Commit(w) ==
  /\ attempt[w] # None /\ attempt[w].checked
  /\ attempt' = [attempt EXCEPT ![w] = None]
  /\ IF Owned(w)
       THEN /\ sent[attempt[w].id] < MaxSent
            /\ sent' = [sent EXCEPT ![attempt[w].id] = @ + 1]
            /\ chat' = [chat EXCEPT ![w] = "busy"]
            /\ Persist(w, Tail(queued[w]))
       ELSE UNCHANGED <<sent, chat, queued, chain, cache, crossed>>
  /\ UNCHANGED <<native, handover, file, reclaim, exclusions, accepted, opens, crashes, opened>>

TurnEnds(w) ==
  /\ chat[w] = "busy"
  /\ w = "window" => phase = "ready"
  /\ chat' = [chat EXCEPT ![w] = "idle"]
  /\ UNCHANGED <<native, handover, queued, attempt, chain, file, cache, reclaim, exclusions, history>>

----------------------------------------------------------------------------
Init ==
  /\ registry = "none" /\ snapshot = None /\ news = <<>> /\ seen = "none"
  /\ source = Off /\ view = TRUE /\ phase = "closed" /\ fresh = FALSE
  /\ queued = [w \in Renderers |-> <<>>] /\ file = <<>> /\ cache = <<>>
  /\ chat = [w \in Renderers |-> IF w = "main" THEN "busy" ELSE "idle"]
  /\ attempt = [w \in Renderers |-> None]
  /\ chain = [w \in Renderers |-> <<>>]
  /\ reclaim = Nothing /\ exclusions = {}
  /\ accepted = {} /\ sent = [m \in Messages |-> 0] /\ opens = 0 /\ crashes = 0
  /\ opened = {} /\ crossed = FALSE

Next ==
  \/ OpenWindow \/ Crash \/ Load \/ Join \/ ReadSnapshot \/ RecoveryTimer \/ Reload
  \/ WindowLoaded \/ Close \/ HandleNews \/ Publish \/ Finish \/ Finished
  \/ ReclaimLoad \/ ReclaimApply \/ OpenChat \/ LeaveChat \/ MainLoaded
  \/ \E w \in Renderers :
       Write(w) \/ Accept(w) \/ Begin(w) \/ Check(w) \/ Commit(w) \/ TurnEnds(w)

Spec == Init /\ [][Next]_vars

----------------------------------------------------------------------------
\* A message that was sent is sent again only after the user opened the chat it was
\* restored in, or when the source still handled it as it gave the chat away: a stale
\* head of a window or of an earlier run never fires by itself.
SendsOnce ==
  \A m \in Messages : (sent[m] > 0 /\ sent'[m] > sent[m]) => m \in opened \/ crossed'
NoReplay == [][SendsOnce]_vars

\* What a renderer sent or was handed is all it takes out of the file.
KeepsUnsent == \A m \in Ids(file) \ Ids(file') : sent[m] > 0 \/ crossed
FileForgetsSent == [][KeepsUnsent]_vars
=============================================================================

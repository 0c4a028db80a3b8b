# Verification of the chat core and its plumbing

Berd is a desktop client for coding agents: a Tauri shell (Rust) around a web
front end (TypeScript) that talks to agent backends over ACP.  Its own core is
the machinery between a composer and a backend session (a queue of messages per
chat, the decision which provider, model and folder the next turn runs on, the
dispatch of one prompt at a time, the events that come back), the windows a chat
can move between, and the plumbing that connects the renderer to agents' commands,
to backends and to remote hosts.  This directory models that machinery in TLA+,
checks it with TLC and proves parts of it with TLAPS.  Paths below are relative to
the repository root.

What a component's steps are depends on where it runs.  A renderer is one
JavaScript event loop: no preemption, but every `await` is a point where the user,
the backend, another component or a removal may act, and the order of microtasks
matters.  A session window is a second renderer with a store of its own.  The
desktop process runs its commands on a thread pool, where every release of a mutex
is such a point, and `berdctl` is a process that an agent starts and may kill.

## Inventory

| component | state it keeps | operations | hard behaviour | what makes it correct |
|---|---|---|---|---|
| session target coordinator (`src/features/chat/lib/sessionTargetCoordinator.ts`, `sessionTargetReducer.ts`, `sessionExecutionTarget.ts`) | per session: sync state, newest and running operation, pick, deferred pick and mutation, lease, waiters | request a transition, resolve, apply, acquire and release a lease, re-route under a lease, observe, hydrate, remove | answers that arrive late, picks during a dispatch, removal, lost wake-ups | the leased model stays published; every request is answered once; every waiter wakes |
| composer queue (`hooks/useMessageQueue.ts`, `hooks/useBackgroundQueuedMessageDrain.ts`, `lib/queuedSessionSend.ts`, `stores/chatStore.ts`) | queued records per session, attempts, wake-up registrations, restored exclusions | accept, edit, remove, reorder, defer, release, drain, commit, dismiss, steer, stop | two drains of one queue, edit during dispatch, remount, failure, one try per idle cycle | FIFO, one turn per message, no message lost, no stranded queue |
| session windows and queue persistence (`src-tauri/src/commands/window_session.rs`, `message_queues.rs`, `app/SessionWindowApp.tsx`, `hooks/useSessionHandoffSource.ts`, `stores/queuePersistence.ts`) | a registry of windows, snapshots of a hand-over, a file of queues with a cached copy, each renderer's queue | open, hand over, recover, reload, close, save, load, reconcile | a stale copy of the queue, a crash between turn and save, a message sent while the chat changes hands | a message is neither lost nor sent twice |
| first workspace send (`lib/firstWorkspaceSend.ts`) | the deferred first message, worktrees, the run that prepares it | create a worktree, wait for the draft's promotion, move the backend, roll back | partial failure after each await, edits and deletions meanwhile | the message is released or says why not; no folder vanishes under the backend |
| session workspace activation (`lib/sessionWorkspaceActivation.ts`) | the pending request of a chat, a shared update, intents | request of an agent, choice of the user, drain, barrier of a prompt | requests replaced in flight, running chats, restart | no move under a turn; no request forgotten |
| agent connection and session registry (`shared/api/acpConnection.ts`, `acpSessionRegistry.ts`) | a cached client with a generation, a mutation queue and an acknowledged selection per session | initialise, invalidate, prepare, set model, load, prompt | a transport that closes while a request is under way, a late handshake | what is believed of a session is true of it; no stream or endpoint leaks |
| berdctl (`src-tauri/crates/berdctl`, `src-tauri/plugins/berdctl`, `features/berdctl/bridge`) | a discovery file, permits, pending calls, the declared state of the broker | find, ping, call, answer, time out, start, stop | a restart or reload with calls under way, a retry | a command changes the app at most once and its caller hears the truth |
| remote hosts (`src-tauri/src/services/remote_backend`) | a slot per host: state, generation, tunnel, tombstone | connect, supervise, disconnect, shut down, forget | a tunnel that comes up after its connect was superseded | every running tunnel is owned and watched |
| steering, send core, replay and live updates (`lib/steerCore.ts`, `lib/sendCore.ts`, `features/chat/acp`) | active run, prompt ownership, streaming buffers, replay buffers | steer, stop, settle, flush, replace | stop against completion, a replay against live updates | only the owner of a prompt ends its turn; no update is lost or applied twice |
| backend supervision, voice, monitors, automations, terminal, managed tools, renderer monitor, authentication, `bb-cli` | see `PROJECT.json` | | | |
| screens, catalogues, transcript layout, shell commands, release scripts | | | presentation or pure I/O | |

How they interact: the composer appends a record to the queue (in a project, the
first one is deferred until its worktree is there); a drain (the mounted hook of the
chat, the background hook for chats that are not mounted, or berdctl's for messages
that agents send) takes the coordinator's lease, lets a pending folder request
through, prepares the backend over the registry and the connection, lets the router
change the target, commits the user's message and prompts; the release of the lease
wakes whoever waits for it.  Pickers, hydration and ACP snapshots go through the
coordinator and meet the lease there.  The queue's file and the registry of windows
are what two renderers share.

## Modules

| module | contents |
|---|---|
| `SessionTarget` | the coordinator, its reducer and the callers that drive it |
| `ChatQueue` | abstract: what `LAWS/CHAT.md` promises of a chat's queue |
| `ComposerQueue` | the queue of a chat, the mounted drain and the background drain |
| `SessionWindows` | a chat that moves to a window of its own, and the file of its queue |
| `WorkspaceSend` | the first message of a chat whose project prepares folders |
| `WorkspaceSwitch` | agents' and the user's requests to change the folder of a chat |
| `AcpSessions` | the connection to a backend and the calls that configure a session |
| `Berdctl` | the broker of agents' commands, its command line and its renderer |
| `RemoteBackend` | the slots and tunnels of a remote host |
| `MCSessionTarget`, `MCComposerQueue` | small instances of those modules |
| `MCChat` | `SessionTarget`, `WorkspaceSend`, `WorkspaceSwitch`, `SessionWindows` side by side |
| `MCConnection` | `SessionTarget` and `AcpSessions` side by side |
| `MCBackend` | `Berdctl` and `RemoteBackend` side by side |
| `SessionTarget_proofs` | types, the lease, the router, the actor: every safety property of the coordinator |
| `ChatQueue_proofs` | order, single dispatch and no loss, for the abstract queue |
| `ComposerQueue_proofs` | `ComposerQueue` implements `ChatQueue`; types, restored messages, no stranded queue |
| `MCChat_proofs` | the parts of a chat are independent; every safety property of the first send, the folder switches and the windows |
| `MCConnection_proofs` | what is believed of a session is true; transports have owners |
| `Berdctl_proofs` | permits, at most one change, the broker that was declared, timely changes |
| `RemoteBackend_proofs` | owned tunnels, attended slots, no orphan, the reconnect budget |
| `MCBackend_proofs` | the same of the composition that the run checks |

The coordinator's lease is the link between the first parts: `SessionTarget` shows
what holds while a dispatch has it, `ComposerQueue` who tries to get it and when.
In `ComposerQueue` the lease is free or held by an attempt of one of the drains or
by `other`.  `SessionWindows` takes the drains as one step from an attempt to its
turn and models what they cannot see: that the queue they drain may not be theirs.
The modules "side by side" in an MC module do not share state; the initial state
names the part a behaviour is about and the others rest in it.  A run then explores
the sum of their behaviours, and one TLC run serves several components.

### SessionTarget

State.  `live` and `store` are the session's entry in the session store (its
target, who set it, and the target its reasoning options were reported for).
`sync`, `latest` and `current` are the reducer's state and the actor's newest
and running operation; `selection`, `deferredSelection`, `deferredMutation` and
`lease` are the fields of the actor with those names (`dispatch` for the lease).
`gate` holds the requests that await `dispatchReleased`, `woken` those whose
await has been resolved (microtasks, in order) and `notifying` the
notification microtask of `release`.  `ops` are all transition requests,
`attempts` all dispatch attempts with their program counters, and `backend` is
the target the backend session was last configured for.

Actions.  One action is the code between two awaits.  `Resolve`, `Answer` and
their failures are the continuations of `execute`; `Drain` is the loop around
it; `Enqueue` is `requestSessionTargetTransition`; `Request` and `RunWoken` are
`transitionSessionTarget` before and after its gate; `Acquire`, `Prepare`,
`Prepared`, `Route`, `Routed`, `Prompt`, `EndAttempt` and `Release` are a
dispatch from lease to release; `Notify` and `CancelWait` are the waiters;
`PickModel`, `PickProvider`, `Located` and `ClearPick` are the pickers,
`Reprepare` and `Refresh` the controller's own requests; `Hydrate`,
`ReplaceAfterDispatch`, `WriteStore`, `ObserveModel` and `Remove` are what the
rest of the application does.  `NoContinuation` expresses that microtasks run
before the next event.

Abstractions.  Targets are model values, already normalised; a *boundary* names a
provider and no model.  `Repair` is managed-model repair, which may answer
another target; whether that one is still of the wanted model is not known of it
(see `RepairAgrees` under Proofs).  Reasoning options are represented by the target they
describe.
The requests and attempts of an instance bound how many are made; a request is
used once.  The actor of a removed session is dropped while its operations still
run: they are the operations with `current # r`.  An attempt whose session was
removed stops.  `targetOverride` of `acquireSessionDispatchTarget` has no caller
outside tests and is left out; so are the transfer of ownership when a draft is
promoted, `ResetTarget`, snapshots that carry reasoning options only, and the
follow-up refresh of a Home session, which are named in the plan.

### ChatQueue

The sentences of `LAWS/CHAT.md` about acceptance, dispatch, editing and removal as
a state machine over `queue`, `turns`, `accepted`, `removed` and `ready`: accept at
the back, revise in place, withdraw one, dispatch the first when the session is
ready.  It models no code of its own and is what `ComposerQueue` is measured
against.  `Steer` is the law's third way out of the queue; `ComposerQueue` uses it
only when a steered record still is the head.

### ComposerQueue

State.  `queue` is `queuedMessageBySession` of one session; a record is `ready`
(transport-ready), `preparing` or `failed` (deferred), with its `editing`,
`releasedFromDeferred` and `restored` flags; `rev` stands for the identity of its
payload, which every update replaces.  `chat` and `stopping` are `chatState` and
`isRunCancellationPending`.  `hooks` are the refs of each mount of
`useMessageQueue`: the last attempt and whether it belongs to the current idle
cycle, the payload whose lease waiter is registered, the retry timer, the rejection
budget, and what its last render has seen (`shown`, `stale`).  `attempt` is the
mounted drain's attempt and lease, `background`, `waiter` and `exclusions` are the
module state of the background drain.  `microtasks` is the event loop's microtask
queue as far as it matters.

Actions.  `Write` is a write of the chat store with its two subscribers, which run
inside it; every action that writes goes through it.  `Accept`, `Defer`, `Release`,
`FailDeferred`, `BeginEditing`, `CancelEditing`, `Save`, `Dismiss` and `Load` are
the store's operations.  `Mount`, `Unmount` and `Render` are the effects of the
hook, `Retry` its timer.  `Compact`, `Compacted`, `Commit` and `Reject` are an
attempt of the mounted drain, `CommitBackground`, `RejectBackground` and
`SettleBackground` one of the background drain; `Notify`, `Wake`, `ParkHead` and
`DrainAgain` are the microtasks these leave.  `TurnEnds`, `Stop`, `OtherAcquires`,
`OtherReleases`, `StartSteer`, `Steered` and `SteerFails` are the session.

Abstractions.  One session, with at most one mounted view, that may be left and
opened again.  The mounted drain gives the lease back when its send is accepted, the
background drain when its turn has ended.  Committing a message, finalising its
attempt and dismissing its record are one step: only microtasks run between them.
`activeRunId` is folded into `chat` and `stopping`.  The hidden hand-off of a
composer's first send (`showInComposer`), read-only views, blocked sends
(`isSendBlocked`, `isPreparationReady`), agent-builder readiness, records of
berdctl, windows that reclaim a queue, promotion of drafts and removal of the
session are left out.  The user's controls need a mounted view.  Waiters of a
released lease are woken in any order.

### SessionWindows

State.  `registry` and `snapshot` are the chat's record in
`WindowSessionRegistry`, `news` the `session-windows-changed` events on their way
to the main renderer and `seen` the last one it handled; `source`
(`useSessionHandoffSource`), `phase` (`SessionWindowApp`) and `fresh` are the two
ends of a hand-over.  Each renderer has a queue, a chat state, a send it prepares
and a chain of native writes; `file` and `cache` are `message-queues.json` and the
copy in `localStorage`; `reclaim` is `reconcilePendingQueues`, `exclusions` the
background drain's restored exclusions.  The rest is history.

Actions.  `OpenWindow`, `Join`, `ReadSnapshot`, `RecoveryTimer`, `Reload` and
`Close` are the window's life, `HandleNews`, `Publish`, `Finish` and `Finished` the
main renderer's side of it; `Write` is one write of a chain, `Load`, `ReclaimLoad`
and `ReclaimApply` read the file; `Crash` restarts Berd.  `Begin`, `Check` and
`Commit` are an attempt of whichever drain may claim the head.

`crossed` marks the windows the code leaves open, and no property is claimed beyond
it: the main chat stays interactive during a hand-over and may send or queue after
the final snapshot; a quiet mirror becomes "recoverable" and *Reload* takes the chat
with the older queue; a reclaim or a start-up load is not ordered after
`nativeWriteChain`, so a message queued just before is discarded; a window closed
between the reclaim's read and its use is not noticed
(`reclaimedQueueReconciliation.ts` 38-42 says the read is retried, which holds only
for a window that is open again).  The last two meet when the chat is opened a second
time before the queue of its first window was reconciled: the reconciliation finds
the chat handed over again and is dropped (20-35), and the main renderer goes on as
the source of the hand-over with a queue from before the first window.  A message that
only the first window accepted then leaves the file unsent.  It took the attempt to
prove `FileForgetsSent` to see it, and `chat_parts` opens two windows to have it.
`opened` are the messages whose chat the user opened after they were restored; a
hand-over passes the exclusions of the main renderer on and counts as opening.

Also observed and visible in the model: the
foreground drain does not look at a pending reconciliation, and after a recovery a
mirror that showed a busy chat stays busy.  Abstracted: sends that fail are
`ComposerQueue`'s; edits and deferred messages while a window owns the chat.

### WorkspaceSend

State.  `session` is the chat's entry in the store (draft, backend session or
deleted; its stage, its working directory and attachments as one *place*, whether a
model is selected), `record` the deferred message, `revision` the project's
workspace configuration, `backendDir` where the backend works, `disk` the worktrees,
`run` the calls of `createDeferredWorkspaces` with their snapshots.

Actions.  `Skip`, `SubmitName` and `Retry` start a run; `Planned`, `PlanFails`,
`Promoted`, `WaitFails`, `Moved`, `MoveSuperseded`, `MoveFails`, `MovedBack`,
`Undone` and `UndoFails` are its continuations; the rest is the user, the project
and the creation of the backend session.

Exceptions the properties name are the code's: a record stays "creating" when the
draft is promoted while its run rolls back (535-543, the update goes to the old id);
a folder chosen while a reverting rollback runs (696-701) or while the run waits
(608) is overwritten, although `firstWorkspaceSend.test.ts:595` "preserves a
concurrent workspace edit while rolling back prepared setup"; a worktree stays
behind when the message was dismissed or released while the backend moved (632), when
no model is selected (613-622), after an error (737) and in an archived chat (713).
A retry after a missing model runs without a name, and a draft that disappears leaves
its backend session unarchived (`AppShell.tsx`).  Left out: provisioning before a
send (298-442) and first sends in an existing chat (794-882).

### WorkspaceSwitch

State.  `pending` is the persisted request, `op` the entry of `applyingBySession`,
`draining` that of `drainingSessionIds`, `dirty` a change of a store the drain
subscribes to, `intent` the generation of intents; `wire` is what the backend has yet
to handle, in order.  `command` are the calls of `berdctl folder set-cwd`, `choice`
the user's picks, `prompt` the next turn.

Actions.  `Claim`, `Attached` and `AttachFails` are a command; `Choose` and
`ChoiceHandled` a pick; `Drain`, `Checked`, `CheckFails`, `OpHandled` and `OpFails`
the shared update; `Begin` a mounted send with its barrier, `Hydrate` and `Commit` a
background one; `Restart` keeps the request and loses the rest.

Observed: `set-cwd` (119) clears a newer pending request before the comparison of
intents refuses its own (the exception `ClearedByStale`); a command that fails after
its folder had been attached before leaves its request pending; a pick does not look
at its intent again after its await.  Left out: `sessionFolderRegistration.ts` and
`sessionWorkspaceCleanup.ts`.

### AcpSessions

State.  `epoch` is `invalidationGeneration`; `client`, `promise`, `active` and
`disposer` are the cached client, its promise, the stream and the endpoint's
clean-up; `init` are the initialisations; `mutations`, `prepared` and `call` the
registry's queues, entries and calls; `wire` and `goose` the requests and the
backend's sessions.

Actions.  `Resolved` … `HandshakeFails`, `Cached`, `PeerCloses`, `ClosedNoticed`
and `Invalidate` are the connection, `Request`, `Begin`, `Send`, `Lost`, `TimedOut`
and `Read` a call, `Serve` and `Drop` the backend.

A request whose call was abandoned may still be served (acpConnection.ts 537-540
says that a timed-out request leaves the state unknowable); its session is
`overtaken` and exempt, as is one whose replay was loaded while the answer was lost.
No listener clears the entries of *other* sessions when the backend restarts.  That
the SDK settles `closed` before it rejects pending requests is an assumption.  Left
out: `registerPreparedSession` at creation, metadata recovery before a replay,
permission prompts.

### Berdctl

State.  `server`, `found`, `permits`, `entry` and `waiting` are the broker's listener,
its discovery file, semaphores, pending map and waiting handlers, `invoked` the
start and stop commands the native process has not executed; `bridge` is the
lifecycle singleton of the renderer; `cli` are the command lines with their program
counters; `work`, `clock` and `since` the renderer's side of a call and its clock.

Actions.  `Toggle`, `Start`, `TimeoutsSet`, `Stop`, `Stopped`, `StartFailed` and
`Reload` are the broker's life under the reconciler; `Run`, `Load`, `Ping`, `Call`,
`TimedOut` and `Killed` a command line; `Receive`, `Change`, `Refuse` and `Submit`
the renderer; `Tick` is time.

The deadline of a command counts from its receipt (`lifecycle.ts` 159-162), so
`ChangesInTime` is claimed for a command received at once; `deadline.ts` 4-7 says
that a slow validation must not mutate afterwards, and a request *received* late
does.  A killed command line drops its handler without removing the pending entry.
That the native process executes the start and stop commands of a renderer in order,
also across its reload, is an assumption.  Left out: `dispatch_app_command` (voice),
`pluginUnavailable`, the privacy of the file, what the single commands do.

### RemoteBackend

State.  `slots` are the `SlotShared` made for one host, `registered` the one in the
registry, `connectLock` its connect lock, `tunnel` the ssh processes, `task` the
connect calls and, for each tunnel, its supervisor; `closing`, `stopping` and
`forgetting` are disconnects, a shutdown and a forget under way.

Actions.  `Request`, `Admit`, `Announce`, `Own`, `Spawn`, `Answered` and
`EstablishFails` are a connect in its critical sections (a supervisor shares the last
three); `Die`, `Stabilise`, `Lost`, `Retry` and `Resume` a supervisor; `Disconnect`,
`PublishDisconnected`, `Shutdown`, `ShutdownAdmitted`, `DaemonStopped`,
`ShutdownFails`, `Forget` and `Forgotten` the other commands.

A connect reads the tombstone in one critical section and takes the slot over in a
later one: forgotten in between, a slot that is no longer registered becomes Ready
(`late`, exempt from `NoOrphan`), although mod.rs 128-129 and 198-201 say otherwise.
Generations are numbered per slot, so a caller may hold a number of an earlier
incarnation.  Left out: `kill_all_tunnels` at exit, the daemon's bootstrap over ssh,
and `remoteHostStore.ts`, which drops status events while a connect is pending.

### Runs

Every run sets `CHECK_DEADLOCK FALSE`: an instance really stops when its
requests, attempts, calls or messages have been used.

| run | instance | shows |
|---|---|---|
| `target_observe` | the coordinator with models of two providers and a boundary, one request, one attempt, all observations and the removal; beside it two calls over two connections | the leased target stays published and an outcome is final; what the renderer believes of a session is true, and no transport outlives its connection |
| `target_race` | two models, three requests, two attempts | every interleaving of coalesced requests with two dispatches; `DispatchInv`, the actor's inductive invariant |
| `target_live` | one model, two requests, two attempts, removal | every request is answered and every waiter wakes |
| `target_reasoning`, `target_settles` | violation | see Findings |
| `chat_parts` | a router that changes the leased model; a first send with two runs; two folder requests, a pick, turns and a restart; a chat with two messages that is opened in two windows, one after the other, closed and crashes | the properties of `WorkspaceSend`, `WorkspaceSwitch` and `SessionWindows`, and what a router may rely on under its lease |
| `backend_parts` | two command lines and two brokers; two connects, two slots, three tunnels | the properties of `Berdctl` and `RemoteBackend` |
| `queue_promise` | two messages, one edit of each, two mounts, one restored message; edits, removal, deferral, contention, failures, stops, loads | `ComposerQueue` implements `ChatQueue` |
| `queue_wake` | the same with compaction and a steer, without removal and cancelled edits | the type invariant, `NeverStranded`, `RestoredAwaitsUser` |
| `queue_live` | three messages, two mounts; contention, compaction, stops | every accepted message becomes a turn |
| `queue_steer`, `queue_cancel` | violation | see Findings |

Bounds of the coordinator.  An actor keeps at most one running and one newest
operation, so three requests reach every shape of it: one running, one superseded
while queued, one newest.  Two attempts are one that holds the lease and one that
waits.  Two models tell a wanted target from a published one; the boundary and the
second provider matter only to materialisation and to what a boundary lease admits.

Bounds of the queue.  Two messages are a head and the one that must wait for it; with
one edit of each, every attempt can find its payload replaced; three messages in
`queue_live` let a dismissed head be followed by two more.  A ceiling of two
rejections has a first, a last and, were it ignored, one too many (the code's five
only lengthens the sequence).  Two mounts are a view that is left during its attempt
and the one that replaces it.  `queue_wake` leaves out `CancelEditing`, which is what
`queue_cancel` shows to strand the queue; `queue_promise` leaves out compaction,
which the refinement sees only as readiness coming and going, to stay small.  The
two mounts are symmetric; `queue_live` does not use symmetry.

Bounds of `chat_parts`.  Two runs of a first send are one that was abandoned and the
one that follows it, one reconfiguration makes a plan stale.  Two commands and a
pick are a request, the one that replaces it and the user who wins over both; by
symmetry the first command is `c1` and names `f1`.  Two messages, one of them
berdctl's, two windows, one crash and two turns of each message show a second sending
where there is one, and a queue that is handed over before it was reconciled; two
events or writes under way are one that is overtaken.

Bounds of `backend_parts`.  One permit for two calls makes the limit bite; a timeout
of one tick with a margin of one tick has a clock before, at and after it; two
brokers are the one a call found and the one that replaced it.  The second command
starts when the call of the first was dispatched or is over.  Three tunnels are one
that dies, its replacement and one of another slot; only the second connect asks for
another binary, and a tunnel dies only while the host has had one slot.

Bounds of the connection in `target_observe`.  Two initialisations are one that is
invalidated and its successor, two calls a stale one and the one that relies on the
session; a configuration also does what preparing and setting a model do, so the
calls are configurations, loads and prompts.

Fairness of `SessionTarget` (`FairSpec`): the event loop runs every continuation
that is ready, the backend answers or rejects every call, a turn ends (a run that
never ends is the backend's, and the user can stop it).  Nothing is assumed of the
user, of observations or of new attempts.

Fairness of `ComposerQueue` (`FairSpec`): microtasks run (weak).  Events are queued
tasks: a render, a timer or a settled promise that is due stays due although
microtasks run in between, which disable every event for a moment, hence strong
fairness for each.  A send, a turn and another holder of the lease end.  Nothing is
assumed of the user.  `queue_live` has no failing sends: after its rejections are
used up a message rightly waits for the user.

Fairness of `WorkspaceSend`: the creation of a backend session is answered, and so is
every call a run makes.  Fairness of `Berdctl`: the command line and the broker are
running programs and time passes while a call waits; of the renderer nothing is
assumed, which is what `CallEnded` is about.  `MCChat` and `MCBackend` state the
same fairness for their part.

### Findings

*`target_reasoning`.*  `acquireSessionDispatchTarget` does not look at the
operation that is on the wire.  When the backend answers a pick under another
dispatch's lease, `replaceSessionExecutionTarget` is undone by the store
subscriber, which puts the leased target back, and the next statement patches
the reasoning options of the *picked* model onto it.  The test "accepts metadata
only from the owning operation and target" states the opposite.

*`target_settles`.*  A re-preparation after a workspace change reuses the
operation id of the visible pick.  Two operations of an actor then have one id,
and the reducer, which knows operations by id, ends the newer one's transition
when the older one is superseded.  The newer one's acknowledgement is ignored:
the store shows the new target while the reducer is settled on the old one.

*`queue_steer`.*  `steerQueuedMessage` awaits the backend while its record stays at
the head of the queue, with neither a lease nor a mark.  If the run ends in between,
which `steerCore` expects, the drain dispatches the head as a new turn, and the
acknowledged steer is the second one.

*`queue_cancel`.*  An edit that begins while an attempt is in flight fails the
attempt; `finalize` then leaves without a retry, because the head is being edited.
Cancelling the edit restores the payload that was attempted in this idle cycle, so
neither the cancellation nor any later trigger tries it.  The message stays until
the session goes through another turn, the view is opened again or the text changes.

A behaviour that is not counted as a finding: an attempt outlives its view, and a
rejected one arms a retry timer in refs nobody renders any more.  It keeps the lease
busy until *its* budget is used up; the view that replaced it may then never have
tried the head.  `AwaitsUser` therefore accepts the budget of any mount.

### Proofs

Every invariant and every action property that a passing run checks is proved for all
values of the constants, and so is the refinement, some of them under a hypothesis that
is named below; `PROJECT.json` lists the theorems.  What each proof turns on:

`SessionTarget_proofs`, for any targets, requests and attempts and under
`TargetAssumption` only, has two inductive invariants.  `IInv` is the lease's:

* `TypeCorrect`: `Spec => []TypeOK`;
* `LeasePublished`: `Spec => []LeaseTargetPublished`;
* `RouteKept`: `Spec => []RouteInv`.

`LeaseTargetPublished` is not inductive.  The steps that could break it are those
of a router: `Route` publishes another model under the lease, and `Routed` moves
the lease to the acknowledged model or back to the previous one.  That these
agree needs `RouteInv`: the router's operation asks for exactly the leased
target, carries the router's token and, once committed, has that target as its
effective one.  `RouteInv` needs in turn that no other request carries a token
(`GateInv` for those at the gate, `PickInv` for those that resolve a working
directory).  `IInv` is the conjunction; each action has one step, and
the cases that leave the lease, the store and the router's operation alone share
a lemma.

`DispatchInv` (`DispatchKept`) is the actor's, and is defined beside the properties in
`SessionTarget` because `target_race` checks it too:

* `IdleSettled`: `IdleActorSettled`; `PicksOwned`: `SelectionHasPicker`;
* `PromptsServed`: a turn runs on a target that repair may answer for the leased one;
  `PromptsRunOnLease`: `PromptRunsOnLease`;
* `AnswersFinal`: `OutcomeIsFinal`; `IntentKept`: `IntentSurvives`;
  `CommitsPublished`: `CommitReachesStore`.

That a prompt runs on its lease is a fact about the backend and depends on everybody
who could move it.  `ActorInv` says that the actor runs one operation and keeps the newest
behind it; `OutcomeInv` that it answers each when it ends; `WaitInv` that a request waits
at the gate once; `IntentInv` that a pick made during a dispatch waits for the release;
`TokenInv` that a pending operation requested under a lease is the one its attempt waits
for; `PromptInv` that from the answer an attempt waits for until its lease is released
no operation can still move the backend.
`PromptsRunOnLease` and `CommitsPublished` assume `RepairAgrees`: what managed-model
repair answers for a target, and what that is materialised to, is a model the target
admits.  Without it `PromptRunsOnLease` is false: a preparation is not `exact`, so the coordinator
takes what repair answers, and a repair that substitutes another model moves the turn
there (`PromptsServed` is what holds then).  `target_race`, which checks the two
properties, has a repair that keeps the model; in `chat_parts` it may answer any.

`ChatQueue_proofs` proves `QueueLaws`: `TypeOK`, `InOrder` and `NothingLost` of the
abstract queue, for any texts and without a bound on messages.  `InOrder` needs that
no message has a number above `accepted` (`Numbered`); nothing else is added.

`ComposerQueue_proofs` proves, under `ComposerAssumption` (the bounds are numbers, at
least one rejection is allowed, there are finitely many mounts, which are no tasks, and
`None` is nothing else):

* `QueueRefinesLaws`: `Spec => Implements`, for an environment without `"steer"`.  The
  invariant `Seen` is small (the queue, the turns, the count and the chat state are
  typed, no steer is under way), because the step that matters carries its own
  justification: `MayCommit`, tested in the step that commits, says that the head still
  is the record of the attempt, is not held and the session is ready.  Whatever is known
  of leases, budgets and waiters is not needed for the laws, only for progress.
  `Entries` maps records to what the laws see; the lemmas say that it commutes with
  appending, dismissing, replacing and removing.
* `OneTurnWithoutSteering`: `Spec => []OneTurnEach`, from the refinement and
  `QueueLaws`.  With steering it is false (`queue_steer`).
* `ComposerTypeCorrect`: `Spec => []TypeOK`.  `TypeInv` adds what the types of the
  attempts need: one view shows the chat (`OneView`), one of the drains or another
  sender has the lease, a turn that runs keeps the session from being ready and an
  attempt has not used up its budget (`LeaseInv`), and the task that ends a background
  attempt is due once, while the attempt is at that place (`TaskInv`).
* `RestoredWaits`: `Spec => []RestoredAwaitsUser`.  `UnopenedInv`: a mounted hook was
  used, and until one is, every record is a restored one, ready and among the
  exclusions, so neither drain has an attempt, a waiter or a turn.
* `QueueResumes`: `Spec => []NeverStranded`, for an environment without `"cancel"`, which
  `queue_cancel` shows to be necessary.

`QueueResumes` needs to know who will look at the head, at every moment and not only when
all is quiet (`Watching`).  Whoever waits for the lease waits for somebody to release it,
or its notification is due (`WaitInv`).  A head the background drain claims has its
attempt, its waiter or its resumption (`BackInv`).  A head the mounted drain claims is
being sent, or one of the hooks waits for the lease with it, will retry it or gave it up,
or the view will be rendered, or a hook is due that has not tried it (`ViewInv`).  A hook
whose refs say that it tried the head in this idle cycle would do nothing when woken, so
`HooksInv` says of such a head that it is being sent, retried, given up, or held by its
edit or failure: this is what cancelling an edit breaks, and the only step that does.
The rest is what keeps that true: ids and revisions only grow (`OrderInv`, `HeadStep`), so
what was tried earlier is not the head again; a retry and a wait are for the head
(`MountedOK`); a hook that was unmounted retries, waits or sends and never two of these
(`AwayOK`); one that is woken although unmounted waited for the head (`DueInv`).  A write
of the store with both subscribers is one lemma (`WriteWatches`), a drain outside a write
another (`TryHooks`, `BackgroundLeaves`), and every action is one of these.

`MCConnection_proofs` proves, for any sessions, calls, models and initialisations (under
`ConnectionAssumption`: there are sessions and models), `TransportsHaveOwners` and
`BelievesTheBackend`: `TransportsOwned` and `SelectionTruthful` of the composition the run
checks; `ConnectionAlone`: the same of `AcpSessions` without the run's order of calls and
after sessions were overtaken; and `CoordinatorAlone`: the composition implements the
coordinator's `Spec`.  `ConnInv` says that an initialisation of the current generation is
the one the promise, the active stream and the disposer are of.  `CallInv` says that the
call which runs is the head of its session's queue (`SerialInv`), so what it sent follows
from what is prepared now (`WireInv`), and that entry and backend agree until a request
is served and again, through `Learnt`, once its answer is read (`TruthInv`).

`MCChat_proofs` proves, under `ChatAssumption` (the names of picks, runs and program
counters differ, picks are finite, messages and bounds are numbers), what `chat_parts`
checks but for `RunEnds`.  `PartsAlone` says that the composition implements each of its
parts, so that each is proved alone:

* the coordinator: `ChatRouteKept`, from `RouteKept`;
* `WorkspaceSend`: `NoLostFolder`, `CreatingAttended`, `WorktreesAccounted` and
  `FolderChoiceKept`, by `SendInv`: a worktree in which the session works, or to which a
  run would go back, is that of a run which is over and exists (`PlaceInv`); only a run
  with a name makes one, before the backend is asked to work there (`TreeInv`); the id
  changes with promotion and removal only (`IdInv`);
* `WorkspaceSwitch`: `TurnKeepsFolder`, `AcceptedRequestKept` and `PendingRequestTried`, by
  `SwitchInv`: requests are those of commands that attached their folder, intents are
  distinct, at most one update and one prompt are on the wire, in this order, and only the
  barrier of a prompt lets an update proceed in a running chat;
* `SessionWindows`: `UnsentStays` (`FileForgetsSent`) and `NothingReplayed` (`NoReplay`), by
  `WindowInv`.  The window's phase follows its record in the registry (`PhaseInv`); the
  main renderer hears of every change in order (`NewsInv`); unless the chat was `crossed`,
  the queue of whoever has the chat, and each that is about to replace it, keeps all that
  is stored and not sent, through every write that is still under way (`StoredInv`); what
  it holds may be sent, or is excluded until the user opens the chat (`HeldInv`);
  an attempt is for such a message (`AttemptInv`);
* `ChatTypeCorrect`: the types of all four.

`Berdctl_proofs` proves, under `BerdctlAssumption` (finitely many commands, a margin
of at least one tick) and so for any number of commands, permits, brokers and
reloads:

* `TypeCorrect`, `PermitsStay`, `OutcomesTrue` and `BrokerEndsAsDeclared`: the
  invariants `TypeOK`, `PermitsAccounted`, `OutcomeIsTrue` and `BrokerSettled`;
* `TimelyChanges`: `Spec => ChangesInTime`.

The invariant has one part for the calls and one for the broker, and the actions of
one leave the other alone.  `CallOK` ties the three views of a call together: a
handler waits exactly while its command line does, nothing is worked on before the
dispatch, and a command that is still to be run although its caller failed has waited
for the whole timeout; with a margin its deadline is then past.  `Owed` says that the
last command the native process was given is the one the reconciler awaits, if any:
only that tells a stop from an older start of a renderer that was reloaded.
`Believed` then follows what the reconciler believes through each await.  The
permits need a count of the handlers of each broker (`Holders`).

`RemoteBackend_proofs` proves, under `RemoteAssumption` (the holders of a connect lock
are told apart) and so for any number of calls, slots, tunnels, closes and attempts,
the invariants `TypeOK` (`TypeCorrect`), `TunnelsOwned` (`EveryTunnelOwned`), `Attended`
(`EverySlotAttended`), `NoOrphan` (`NoTunnelForgotten`) and `BudgetHolds` (`BudgetKept`).
`MCBackend`, whose runs take the module as an instance, evaluates the assumption.

Each of them needs what others say.  That a running tunnel is its slot's (`Serving`)
is kept because whoever could take the slot over has been turned away first: no
disconnect has the tunnel's generation to publish, no connect has passed the check of
the cached connection, no establish owns the generation (`Undisturbed`).  These in
turn need the connect lock to be with the task that works (`Held`), and a generation
to have one supervisor (`Watchers`).  `Attended` is kept in its pointwise form `Attends`.
`NoOrphan` follows from two facts that no single step shows: a slot the registry does
not have carries a tombstone (`Removed`), and whoever owns the current generation of
such a slot read it after the tombstone (`AllInformed`).  `BudgetHolds` needs that an
owner has spent an attempt for every short-lived tunnel before it, and one more while
it has none (`Spends`).  An effect lemma per action says what it does field by field;
a preservation lemma per action uses the effect and not the records; and the steps of
one task share lemmas about what the other tasks keep (`Frame`).

`MCBackend_proofs` carries these results over to `BackendSpec`, which the run
`backend_parts` checks: a step of the composition is a step of one component and leaves
the other alone (`BothStep`), so both invariants are kept.  It proves `BackendTypes`,
`TunnelsOwned`, `Attended`, `NoOrphan` and `BudgetHolds` of every instance of `MCBackend`;
`RemoteInstance`, which TLC evaluates, is the assumption on the remote host's constants.

Model-checked only is liveness (`EveryRequestSettles`, `EveryWaiterWakes`,
`QueueDrains`, `RunEnds`, `CallEnded`): fairness and `ENABLED` are out of the prover's
reach.  The four findings are counterexamples.  No module that is proved about
declares a recursive operator.

## Not modelled

Most of the repository's lines are screens, layout, generated types and tests of
them, which keep no state a model checker would say something about; that is why the
map covers a small share of it.  Of the code with state of its own, not modelled are:

* the promotion of a draft as the other components see it: the transfer of the
  coordinator's actor (`sessionTargetCoordinator.ts:1275`) and of the queue while its
  view still owns it (`useBackgroundQueuedMessageDrain.ts:97`).  `WorkspaceSend` models the
  draft that becomes a session for the deferred message only;
* the send core, steering and the transcript: `sendCore.ts`, `steerCore.ts` and
  `features/chat/acp`.  `ComposerQueue` sees a turn as busy and idle, and steering as
  one awaited call.  Read for it, and worth a model of its own: a notification that
  arrives during `session/load` is classified as replay only while the session has no
  prompt owner (`acpNotificationHandler.ts:238`), although `queuedSessionSend.ts:140`
  says every one is; replayed messages that follow the start of a prompt are then
  handled as live output;
* `goose_serve.rs` (one start lock around a child process), `remoteHostStore.ts`, the
  renderer monitor, the terminal manager, managed tools, `sessionWorkspaceCleanup.ts`
  and `sessionFolderRegistration.ts`: small state machines, next in line;
* voice and calls: audio devices and a provider's protocol;
* catalogues, settings, authentication, `bb-cli`, release scripts, shell commands:
  request and response, with no state that outlives a call.

## Plan

1. `SessionTarget`, `ChatQueue`, `ComposerQueue`, `SessionWindows`, `WorkspaceSend`,
   `WorkspaceSwitch`, `AcpSessions`, `Berdctl`, `RemoteBackend` (done).
2. `Transcript`: prompts, stops, steers, live updates and a replay of one chat.
3. `DraftPromotion`: the actor, the queue and the view of a draft that is promoted.
4. Theorems worth proving next: that the composition of the coordinator with the queue
   keeps one lease (the two modules meet only in their descriptions so far), and the
   safety part of what liveness rests on, a measure that falls with every retry.

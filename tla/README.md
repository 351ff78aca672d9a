# TLA+ models of dcc-cua

dcc-cua lets a client (a CLI, an MCP server, an embedding application) observe
and operate one exact window, or the desktop, of a user's machine. A *Host*
process owns the sessions, serves framed requests from local connections, keeps
a visible control banner, and gives control back at once when the user presses
Escape. The models cover the way of a request from the client library to the
native input and back, the authority it needs, the evidence it rests on, the
recording beside it, and the commands that start and replace the programs.

Paths are relative to the repository root (`src/...`). Module and definition
names follow the code's; `PROJECT.json` maps each definition to its lines.

## 1. Inventory

| Component | State it keeps | Operations | What is hard |
|---|---|---|---|
| Session event queue (`dcc-cua-host/src/session_events.rs`) | current input and target status, latest sequence, bounded queue | observe, observe_target, page_after; long poll; 250 ms state poll | overflow, cursors, a poll that samples while it waits |
| Host control (`dcc-cua-host/src/lib.rs`, `request_handler.rs`, `request_handler/session_helpers.rs`, `dcc-cua-interrupt`) | connections, sessions per connection, observed interrupt generation, raw-input FIFO | open, use, resume, stop, reap, interrupt_all, Escape, lease revocation | stops and revocations at every await, one keyboard for all connections |
| Action evidence (`dcc-cua-core/src/runtime/session.rs`, `session/observation.rs`, `dcc-cua-host/src/session_state.rs`) | observation, epoch, Host caches of observation, tree and browser snapshot | snapshots, actions, window mutations, tools, browser input, waits, samples | two layers that must agree after every failure |
| Browser session, confirmations, secret vault (`dcc-cua-browser`, `runtime/session/browser.rs`, `action_confirmation.rs`, `secret_vault.rs`) | bound target, tab, document, origin, continuation; dialogs; secret and clipboard | bind, snapshot, input, navigate; ask, decide; capture, use, dispose | a page that changes while the user decides |
| Task authorization (`task_authorization*.rs`, `cross_client_task_authorization.rs`, `task_grant.rs`) | registrations, bindings, challenges, receipts, leases | register, prepare, decide, consume, bind, issue, validate, revoke, expire, prune | two clocks, replayed receipts, changes between check and use |
| Live observation (`dcc-cua-core/src/live_observation.rs`, `live_observation/windows_capture.rs`) | capture worker, watch channel, fences, pending cleanup | start, reuse, replace, stop; publish, pause, terminal; snapshot behind fences | a worker that runs beside the session |
| Recording (`runtime/session/native_recording.rs`, `live_observation/native_publication.rs`, `dcc-cua-showcase`) | recorder, one-slot mailbox, channel, segments, manifest | start, validate publication, encode, pause, stop, finalise | dropped calls, a watch that conflates, late answers |
| Capture preparation (`dcc-cua-platform-windows/src/capture_preparation`, `runtime/session/capture_preparation.rs`) | supervisor process, status, journal, gate mutex | begin, promote, probe, restore, settle, expire | kills and failures between write, readback and record |
| Native input (`dcc-cua-platform-windows/src/input.rs`, `physical_input_fence.rs`, `runtime/windows_input.rs`) | held keys and buttons, cursor, foreground, owed releases | activate, click, drag, keys, text, clean-up | partial injection, a target that goes away |
| Browser extension relay (`dcc-cua-host/src/browser_extension.rs`, `dcc-cua-cli/src/browser_extension/relay.rs`, `browser-extension/`) | providers, owners, queued commands, pending calls, pairing | register, claim, call, poll, complete, navigate, prune | late answers, commands of callers that are gone |
| Connection and client library (`dcc-cua-client/src/lib.rs`, `dcc-cua-protocol`, `dcc-cua-host/src/wire.rs`, `wait.rs`) | ids, outstanding and pending responses, operation guard; lanes of the Host | request, batch, pipelined wait, cancel, interrupt | cancelled reads inside a frame, out-of-order responses |
| Commands (`dcc-cua-cli/src/mcp_server.rs`, `workflow.rs`, `host_lifecycle.rs`, `update.rs`) | task table, workflow runs, spawned Hosts, installed executable and its lock | start, stop, rebind, shut down; ensure; install, roll back | failures between two file operations, several commands at once |
| Banner and Escape hook (`dcc-cua-indicator`) | hub thread, registrations | register, suspend, broadcast | thread lifetime |

A connection task of the Host reads one frame at a time and calls the session's
handler, which calls the core session (`ComputerUseSession`). The core calls the
native driver and reads the watch channel of its live worker. Connections share
the interrupt generation, the raw-input FIFO, the authorization broker and the
provider registry. The client library shares nothing with the Host but the two
streams.

The properties that make the parts correct: no input on outdated evidence, and
none after a stop or the end of its authority wherever the code looks again;
exclusive use of the physical input, and nothing left pressed; every response
matched to its request; a client that can rebuild the state from its event
pages; a window that is put back; a recording that is what it is reported to
be; every wait, call, command and stop ends.

## 2. Modules

### SessionEvents

`input`, `target`, `events`, `latest` are the fields of `SessionEventQueue`;
`poll` is the request `poll_session_events` while it is being served; `cursor`
and `view` belong to a client that folds each page into what it knows, or takes
the current state when it is told to resynchronise. `desktop` and `window` are
the facts the Host samples. `history` is a ghost: the state at each sequence.
`Observe` and `ObserveTarget` publish a change, `Retained` drops the oldest
event, `PollTurn` is one turn of the poll loop (sample, then look), `StatePoll`
the idle tick of the connection.

### HostControl

`task[c]` is what connection `c` is doing, cut at its awaits: `opening`,
`queued` for the raw-input turn, `cleared` by the checks behind it, `sent`,
`delay`, `capture`, and `waiting` for the interruptible waits. `queue` is the
FIFO; its head owns the turn. `generation`, `observed` and the generation in
each session implement the shared stop. Sessions are `pixels`, `leased` (bound
to a task authorization), `semantic` or `desktop`, because the code checks them
differently. Pixels-only and leased sessions are `Bound` to a lease that can be
revoked: `require_pixels_input_grant` wants one for every pixel action.
Operations are classed by what they need: `action` (raw input), `semantic` (no
raw input), `guarded` and `unguarded` (window commands with and without a second
look). `stale` is a ghost that records where a request was when a stop or a
revocation arrived.

### ActionEvidence and BrowserTask

ActionEvidence: one record holds the core session (observation, epoch, active)
and the Host's copies of it. The requests of one session are serial, so each is
one step; what the native side answers is a set of outcomes (`Reads`,
`Dispatches`, `PreDispatches`, `Activations`), each with the error code the Host
then acts on. `version` is a ghost that counts whatever may have changed the
window: input that may have reached it, a renewed provider session, a transition
the Host published. `used` records the evidence of the last input that was sent.

BrowserTask extends it by the page: what `BrowserSession` is bound to (target,
tab, document, origin) and the continuation a scoped snapshot may promise; the
lease, which allows some origins or pins one document; the dialogs of the user,
each about one page and answered at any time; and the secret on its way from the
clipboard to the vault (`CaptureRead`, `CaptureStore`, `CaptureClear`) and into
the page. Every browser request is the request of ActionEvidence together with
what it does to the page. The driver may name any page; a page may change by
itself while the user decides, which is for the driver to notice.

### TaskScopes, TaskAuthorization and TaskLedger

TaskScopes has the rules without state: valid action scopes and registrations
(broker), valid leases (Host), the agreement of a task grant with its lease, the
tier of an action. The broker's check of a registration and the Host's check of a
lease are written out separately, each from its own function, as the code does.
TaskAuthorization has the broker (`records`, `fenced`,
bindings in `taken`), the cross-client verifier (`challenges`, `receipts`,
`prov`, its clock `lastSeen`), and the sessions that open under a grant, ask,
wait for their turn and dispatch. The wall clock may be set back once, the
monotonic clock not; the trusted key may be revoked, the process of the other
client replaced. `ordinary` are the directories that are in place: the journal's
may be removed, replaced by a link or put back at any time
(`ReplaceDirectory`), and the Host reads it anew at every check of a lease; the
recording's is looked up at the registration and when a recording starts.

TaskLedger is the abstract specification: a decision gives at most one
authorization, an authorization is taken by at most one session, never after it
is over, and what is over stays over. `ImplementsLedger` is
`Ledger!LSpec` under `given <- taken.from`, `holder <- taken.by`,
`over <- {a : Ended(a)}`.

### HostConnection

The client: `state` (`ready`, `in_flight`, `unusable`), the operation in flight,
`outstanding` and `pending`. The Host: `lane` is the serial, interruptible or
closing state of the connection loop, `parallel` its discovery tasks. A frame is
a prefix and a body: `clientRead` and `hostRead` are read futures that hold
nothing, the prefix, or were dropped with it. `answers` counts the responses to
each request (a ghost), `cause` remembers why the client gave up, and `leaked` (a
ghost too) which ids an operation left behind in `outstanding`.

### LiveObservation

`worker`, `shutdown` and `status` are the capture worker and its watch channel;
`status` keeps the latest frame, the pause, its fence and the terminal reason.
The session has `live`, `observation`, the two fences and the pending cleanup;
`call` is the request it is serving, cut at its awaits (`preflight`, `joining`,
`starting`, `first_frame`, `waiting`, `encoding`, `acting`). Both back ends are
covered: on Windows every temporary failure pauses, elsewhere only an
unavailable desktop does and other failures are retried. Ghosts: `boundary`
counts completed actions and invalidations, frames remember the boundary and the
pauses at their publication.

### NativePublication, Showcase and NativeRecording

NativePublication is the one-slot mailbox in which a session asks the capture
worker to validate a frame; each operation runs under the mutexes of slot and
request and is one step. Showcase is the recorder: a producer task that reads
the latest value of the stream and decides what to forward (`Plan`), a bounded
channel, acknowledgements of pause and resume, an encoder thread with its
segments and manifest. NativeRecording composes both with the session: start
(own stream, fresh frame, two validations), stop, dropped calls, the end of the
lease, the worker's own end.

### CapturePreparation

`client` is the session's side, `child` the supervisor process of each
preparation, `sup` the reducer of its main loop, `work` the one worker thread
that makes every window call and writes every journal record, `index` and
`settled` the files, `win` the window itself. `ChildReceive` and `ChildTurn` are
the passes of the loop in `Supervisor::tick`: a pass handles the oldest return,
and the last one of a turn takes the next step and answers the client. `mine` is
a ghost: which write of a preparation is still in force; a promotion that was
reported without an effect is `claimed`, and there is nothing of it to undo.
`win.above` and `win.below` are the windows next to the target's place; one that
is closed or restacked (`NeighbourChanges`) does not come back, so `Anchored` and
`RestoredMatches` fail from then on. The
supervisor can be killed at any step; the next preparation of the window finds
the journal and the abandoned gate.

### InputDevice, WindowActivation, RelativeMotion, ForegroundInput, GuardedInput, NativeInput

InputDevice is the desktop as the back ends meet it, external to the program:
foreground, window, cursor, held keys, and a `SendInput` that inserts a prefix
of its batch. Somebody else may move the mouse at any step behind the first
injection of a call (`CursorNudged`); before it the call places the cursor
itself. WindowActivation is the ladder of activation requests with the interrupt
gate. RelativeMotion is the arithmetic of the calibrated relative path.
ForegroundInput is the fast path (clicks, four drag back ends, held keys, cursor
moves), GuardedInput the transaction of a pixels-only session with its fence and
owed releases: `GuardBatch` is the injection, `GuardOwes` one round of the loop
of `Transaction::mutate` over the inserted events (a press owes its release, a
release pays the latest one), `GuardOwed` what comes behind the loop.
NativeInput runs one call after another (raw input is exclusive, by
HostControl): `InputInit`, `InputNext`, `InputSpec`. Requests are any requests
of the two record types that press a button at least once where they press one
at all (`RequestsAssumption`). `trail` is a ghost of what the call has done.

### ExtensionRelay

A call goes from the registry of the Host over a relay process and the
background script to the bridge inside the tab and back. Pairing, nonce, port,
relay process and provider are all numbered alike, since each click on the
extension's action makes one of each. `pending` are the callers that still
wait, `ran` and `revoked` ghosts of what the page ran and which navigation
invalidated its document.

### Updater, HostEnsure, Workflow, McpTasks, CommandLine

Updater lists the releases, asks the user, downloads and verifies, and replaces
the installed executable under a lock, with a copy aside.
HostEnsure pings, spawns, polls and cleans up. Workflow has the runs of owned
installers with their supervisor and verification threads. McpTasks is the task
table of one MCP connection, its Hosts in the same process, and its shutdown.
CommandLine composes them: two updates, two host-ensures, one of each, or one
MCP server (which shares neither the executable nor the endpoint with the
others).

## 3. Runs

| Run | Instance | Properties |
|---|---|---|
| `session_events` | capacity 2, 4 sequence numbers | `ResyncIffOverflow`, `ViewAtCursor`, `PollerCatchesUp` |
| `host_control` | 2 connections, one session each (pixels, leased or desktop), 1 stop | `InputTurns`, `StopReachesQueued`, `TombstoneIsFinal`, `EndingsArrive`, `QueuedIsServed` |
| `browser_task` | 3 epochs, 3 captures, 3 pages, 3 leases, 2 dialogs | `InputOnFreshEvidence`, `BrowserCallsAllowed`, `SecretKept` |
| `host_connection` | 6 request ids, 3 outstanding, 2 parallel tasks | `HonestConnection`, `ReadyIsDrained`, `OperationsEnd` |
| `live_observation` | 2 streams, 4 frames each, 4 boundaries, 2 pauses per stream | `FramesFenced`, `StreamsDoNotMix`, `CallEnds` |
| `task_authorization` | 2 sessions, 2 authorizations, 1 challenge, 3 registrations, a journal directory that comes and goes, clocks to 3 | `DispatchAllowed`, `IssuedLeaseAccepted`, `ImplementsLedger`, `EndedSessionStops` |
| `extension_relay` | 2 tasks, 2 pairings, 2 calls, 2 versions of the extension, clock to 3 | `OnePairingOneTask`, `NavigationRevokes`, `DispatchedWhileAwaited`, `RemovedProviderEnds` |
| `capture_preparation` | 2 preparations, 1 fault | `VerifiedIsDurable`, `OriginalIsTrue`, `FramesInForce`, `RestoredInTheEnd` |
| `native_input` | 19 requests, 2 disturbances | `NothingLeftHeld`, `StrayBounded`, `HonestResult`, `InputEnds` |
| `recording` | 2 frames, 1 pause, 1 fault, channel of 1, 2 starts | `RecordedInFull`, `NothingUnowned`, `PausedIsDurable`, `RecordingEnds` |
| `command_line` | 2 processes, 2 releases; 2 tasks, 1 workflow run, 4 policies, 2 windows | `StoppedMeansEnded`, `NothingLost`, `CommandEnds` |
| `command_line_rebind` | as above | `RefusedOnlyUnfinished`, which the code violates (section 5) |

Some of these are conjunctions of named parts, each with its own comment:
`PollerCatchesUp` of `PollReturns` and `ViewConverges`; `InputTurns` of
`RawInputExclusive` and `TurnsBelongToRequests`; `EndingsArrive` of
`StopEndsSessions` and `RevocationEndsSession`; `HonestConnection` of
`OneAnswerEach`, `UnusableForCause` and `HostClosesForCause`; `OperationsEnd` of
`RequestEnds` and `AcknowledgedCancelEndsWait`; `FramesFenced` of
`FenceReachable` and `FrameAfterBoundary`; `StreamsDoNotMix` of `PauseRevokes`
and `OneProducer`; `DispatchAllowed` of `NoDispatchAfterEnd` and `Consented`;
`BrowserCallsAllowed` of `PageFollowsEvidence`, `InScope` and `AsConsented`.
Where a module has a `TypeOK`, one of its invariants includes it, or a theorem
states it.

### Bounds

Every bound is a constant and appears in a guard.

* Capacity 2 with 4 sequence numbers reaches overflow, an empty page, and a
  cursor that is one and two behind the oldest event. Two connections are enough
  for the FIFO: a property of the queue relates two requests, and a third would
  only repeat the position of the second. One session per connection suffices
  because sessions of one connection are served by one task. A semantic session
  behaves as a leased one whose lease is not revoked, without the second look
  behind the queue, and no property speaks of its queued requests.
* Six ids let a client start a wait, pipeline or cancel it, fail, and start
  again, with the outstanding set at its limit: two refused cancellations leave
  room for one id, and the next operation that needs two gives up. Two streams
  and four frames cover a fence of a stream that was replaced, and a frame
  before, at and beyond every fence.
* Three epochs and captures let a browser snapshot be taken, outdated and
  renewed around a dialog; `InputOnFreshEvidence` is proved for every bound. The
  three pages are the pinned one, another document of its tab with another
  origin, and a tab whose origin is unknown; the leases are none, one with a
  secret, and a pinned one.
* Two sessions and two authorizations give a second session the chance to take
  what the first holds; both clocks run past every expiry. Two calls and two
  pairings give a late answer of a removed provider something to be mistaken
  for; capacity 1 makes the registry and the queue full.
* Two preparations: one whose writes are in force while the next begins; one
  fault is a failing call, a kill, a user who moves the window or a neighbour
  that changes. Two disturbances of the input: a target that leaves and comes
  back, a stop beside a cut injection, or a mouse that is moved twice. One frame
  lost to a full channel, one pause conflated with the frame behind it, and a
  second start after a dropped first one are reached with the bounds of the
  recording.

### Fairness

* SessionEvents: weak fairness of the poll turn, of the deadline and of the
  notice of an interrupt (a tokio task that is ready runs; the deadline is a
  timer), strong fairness of starting a poll, for a client that keeps polling.
* HostControl: weak fairness of the serving task of each connection (a native
  call returns or times out; the FIFO is a tokio mutex, which is fair), strong
  fairness of the two polls, because a tick that is due is taken between any two
  requests and so is enabled again and again rather than for good.
* TaskAuthorization: weak fairness of the poll and of a request that has begun.
* HostConnection: weak fairness of the client's own steps and of the Host's;
  none for the client starting or leaving, for a wait completing on its own, or
  for a stop.
* LiveObservation: weak fairness of the worker (each capture is bounded, and
  raced against or followed by a look at the signal) and of the session's task
  (every wait has a deadline).
* ExtensionRelay: weak fairness of the clock, of each relay process and of the
  background script of the extension; none for the page or the user.
* CapturePreparation: weak fairness of the clock and of each process and thread
  that is alive; none for the user, a kill or a failure.
* NativeInput, NativeRecording: weak fairness of the program as a whole once it has
  been called (threads and tasks that are ready run, timeouts pass); none for
  callers, users and faults.
* CommandLine: weak fairness of the steps the commands take by themselves. None for
  what they wait for without a deadline: the user's line at the prompt of an update
  (`UserConfirms`), the queries and downloads (`Listed`, `Downloaded`), and a Host
  that answers hello and open (`OpenReturns`, `OpenFails`). `CommandEnds` names
  these waits (`Asks`); a server that is in one does not notice that its input has
  ended.

`CHECK_DEADLOCK FALSE` is set where the end of the bounded run (no more calls,
faults or time), or a connection both sides have closed, is a state without
successors; the runs with liveness properties would still find a program that
stops too early.

## 4. Proofs

Eight proof modules hold for every value of the constants, from the named
assumptions of the modules they extend and nothing else. The assumptions say
that bounds are naturals (positive where the code needs room for one), that the
sets of inputs consist of such inputs, and that the values which stand for
"none" are not among the others. Each proof has the same shape: one lemma per
action says that it keeps the inductive invariant, a lemma about the initial
states, and the theorem. The fairness of the specifications is not used. Each
invariant was an invariant of a TLC run before it was proved. Three proof modules
hold two systems each, which share no state: `EventsAndRecording_proofs`
(SessionEvents and NativeRecording), `BrowserAndCommandLine_proofs`
(ActionEvidence with BrowserTask, and CommandLine) and `HostAndInput_proofs`
(HostControl and NativeInput).

* **SessionEvents** (`TypeCorrect`, `QueueIsTailAlways`,
  `ResyncIffOverflowAlways`, `ViewAtCursorAlways`). The inductive invariant adds
  to the three properties that `history` has one entry per sequence, that the
  current status is the last entry, that each retained event leads from the
  entry before it to its own, and that a poll being served carries the client's
  cursor and view. Without these the fold of a page says nothing about the state
  the queue had. The folds are stated with sets of events and the last event per
  field, which needs no induction over sequences.
* **HostControl** (`InputTurnsHold`, `StopReachesQueuedHolds`,
  `TombstoneHolds`). `Turns` says that the places of the queue belong to the
  requests in need of a turn and that whoever is past the queue is its head. For
  a stop, `RequestFit` says where it can still be seen: in a generation that
  differs, a revoked lease or an inactive session, until the request is refused
  or can go no further. The gate in front of pixel input sees the generation
  only. `SessionFit` makes the tombstone final.
* **ActionEvidence** (`TypeCorrect`, `InputOnFreshEvidenceAlways`,
  `HostEvidenceFreshAlways`, `BrowserEvidenceFreshAlways`). Inside a request the
  core and the Host disagree for a while, so the invariant has layers: `Loose`
  (types, no epoch is ahead of the core's), `Mid` (the core's observation is
  fresh; the caches are fresh if the epoch has not moved), `AtRest` and `Good`
  (between requests). One lemma per operator says which layer it takes to which;
  each action is then a composition of these lemmas. `InputOnFreshEvidence`
  follows because input goes out only on the Host's cached capture while the
  core holds the same one.
* **BrowserTask**, in the same module (`TaskInputOnFreshEvidence`,
  `BrowserCallsAllowedAlways`, `SecretKeptAlways`). The invariant of
  ActionEvidence carries over to the whole session, with the requests of the
  browser, the secrets and the clipboard among the others. New is that the page
  the Host knows and the identity of the snapshot come and go together, which is
  what a stale `BrowserSession` could break, and, for the action property
  `SecretKept`, that a capture which reached its clear has its text in the
  vault.
* **TaskAuthorization** (`DispatchAllowedHolds`, `IssuedLeaseAcceptedHolds`,
  `ImplementsLedgerHolds`). `BrokerInv`: a record obeys the rules of the Host's
  own check that neither clock nor file system can change, and its monotonic
  deadline comes no later than its expiry on the wall clock, however that clock
  was set; a challenge that gave an authorization is consumed. `SessionInv` says
  what a request has still to answer for at each stage, and that a lease that
  ended before the turn can be seen to have. From the same invariant broker,
  verifier and sessions implement TaskLedger: the initial states map, and every
  step maps to a step of the ledger or to a stutter.
* **HostConnection** (`HonestConnectionHolds`, `ReadyIsDrainedHolds`). An id is
  in one place: on its way to the Host, in one lane of it, on its way back, or
  read. `Operation` says which of them the client's operation waits for, and
  `Cancellable`, `Cancelled` cover the one operation that ends with an id
  untaken, the wait whose cancel was refused: both directions keep their order,
  so the answer of the wait has been read before the refusal. What such a wait
  leaves in `outstanding` is in `leaked`, and with the at most one further id of an
  operation that begins this accounts for a full set.
* **ExtensionRelay** (`OnePairingOneTaskHolds`, `NavigationRevokesHolds`,
  `DispatchedWhileAwaitedHolds`). The invariant follows a call on its way
  (queued once, with the worker of its own relay, with the extension, answered);
  a call that was refused cleanly can no longer run, and one that ended in any
  other way has taken its provider with it. `DispatchedWhileAwaited` is an action
  property: the step that writes to the port finds the caller waiting.
* **CapturePreparation** (`PreparationInvariant`, `VerifiedIsDurableHolds`,
  `OriginalIsTrueHolds`, `FramesInForceHolds`). `Sound` says where a running
  supervisor stands (first read, promoting, promoted, restoring, settling,
  clean) and what is on its way between it and the worker there: at most a probe
  followed by a restore, so a return is always the answer to what the reducer
  expects. `Related` compares window and original: what is still to be undone
  can be seen in the tier or the place of the window, which is why a verified
  readback means that the writes are undone, whatever a failed call or a killed
  supervisor left out. `Exclusive` and `Journalled` say that writes in force
  keep the index file from being replaced, which makes the original of the next
  preparation true; `Believed` and `Shots` say that a cached "Active" is right
  until the client itself has stopped or passed the deadline.
* **LiveObservation** (`ObservationInvariant`, `FramesFencedHolds`,
  `StreamsDoNotMixHolds`). A session forgets its fences again and again (a stop, a
  snapshot, a direct observation), so "behind every fence" is not enough to know
  that a frame is recent. `Fenced` says why it works: the latest frame of a stream
  the session has is of the present boundary, or it is not beyond the fence of the
  last action or of the last transition. `Behind` keeps every fence within reach of
  its stream, `Resumed` and `Encoded` follow a frame across a pause while it is
  being encoded. `Produced` is the reason why workers never run side by side: one
  that runs and is not the session's leaves the cleanup pending, also when the
  caller drops the call that joins it.
* **NativeRecording** (`RecordingInvariant`, `RecordedInFullHolds`,
  `NothingUnownedHolds`, `PausedIsDurableHolds`), for every number of frames,
  pauses, starts and faults and every depth of the channel. `SlotFits`: work in
  flight owns the slot, also when its caller has given up. `SessionFits`: where a
  call stands says what the session owns, so a recorder changes hands only with
  the pending mark set, and one whose stop channel is gone is marked too.
  `ProducerFits` lists the plans that are left between two events of one status,
  `ChannelFits` says that only the last event in the channel waits for an
  acknowledgement, and `Delivered` that the last forwarded frame is with the
  encoder or is the last frame in the channel: dropping frames when the channel
  is full is safe because the producer does not count such a frame as forwarded
  and plans no `try_send` once it leaves. `Ended` names the five reasons for
  which a producer ends; a finalized outcome excludes all but a complete flush
  and the end of the authorization, which gives `RecordedInFull`.
  `SegmentsFit` ties the open segment to the pauses the encoder has
  acknowledged; `PausedIsDurable`, an action property, follows because only
  `apply_status` changes the pause that is shown, and only with an empty plan.
* **CommandLine** (`CommandInvariant`, `StoppedMeansEndedHolds`,
  `NothingLostHolds`), for any number of tasks, workflow runs, processes and
  releases. `TasksFit`: what the server knows of a Host connection (pending, ended
  well, ended with an error) is what the connection is, so a place in the table
  that is reclaimed or pruned has no connection. `Completed`: a revocation that
  was answered has read how its connection ended. `Closing`: a shutdown without an
  error has confirmed every task it began, and it began every task there is.
  `RunsFit` does the same for the processes of workflows. `EnsureInv` places the
  Host a command has spawned; `UpdateInv` says that the lock has one holder and
  that whoever moved the executable away keeps its copy until another is in place.
* **NativeInput** (`InputInvariant`, `NothingLeftHeldHolds`, `StrayBoundedHolds`,
  `HonestResultHolds`), for every request of any number of keys, clicks, points
  and steps, every cut of a batch and every disturbance of the desktop.
  `InputInv` keeps two accounts. `Clean` is the one of the keys: what is down is
  to be released by the call, or the system has refused its release, and then
  the call will not report success if it pressed the key. What is to be released is
  `Due` at each place of the fast path; in the guarded path it is `OwedKeys`, the
  releases the transaction owes and those it will owe for the inserted events
  its loop has not yet reached. `FastStray` and `GuardStray` are the account of
  what was injected away from the target or behind a stop: none where a check
  has just passed. `PressBudget` counts the presses of a script before each of
  its steps, which bounds the presses of a call; `FastResult` and `GuardResult`
  say that a call that will claim "not sent" has not touched the desktop, and that
  a complete path has brought the cursor to where the drag was to end: `Brought`
  takes off what others have moved it since the call's last move or look (`drift`),
  and `call.seen` is what a relative path believes of it. A batch is treated
  by what is true of each key, whether its last event in the inserted part is a
  press or a release, so the proof needs no recursion over batches; the model
  states it so as well (`StaysDown`, `Trace`) and the loop over the inserted events
  is a loop of actions.

The attempt on CapturePreparation showed that the ghost `mine` had called a
promotion without an effect "promoted": with three faults a session was told of
a cleanup with such a promotion still open, although the window was where it
had been. `claimed` is the remedy, and the loop of `tick` became an action of its
own (`ChildReceive`) in place of a fold over the returns.

The proof of LiveObservation found a `CASE` of the model whose guards overlap
(`Joined`: a failed worker, and what was to follow the join). TLC takes the first
guard that holds and so agreed with the code, but such a `CASE` has no defined
value and nothing could be proved of it. It and the other expressions of this
kind (in ExtensionRelay, ForegroundInput, McpTasks, NativePublication, Showcase and
WindowActivation) now decide in the order of the code.

Only model-checked are the liveness properties (`RestoredInTheEnd`, `CommandEnds`,
`RecordingEnds`, `InputEnds` and the others of section 3): the prover has neither
fairness nor ENABLED.

## 5. Where documents and code disagree

`command_line_rebind` checks one such statement. `start_task` refuses a proposal
whose `host_task` is set with "previous Host startup did not finish"; it is set
when the connection is spawned and never cleared, so `workflow_rebind` to a new
window ends the old session and then always fails, although
`docs/design/trusted-agent-host-workflows.md` describes a new capability behind
it. A second `workflow_rebind` then answers "started" with no session behind it.

The models show these as well; no run of its own checks them:

* README 251-252, the FIFO is released before the post-action capture: the turn
  is held through the delay and the capture (`Delay`, `Capture` of HostControl).
* README 713-718, sessions refuse subsequent use after a stop: queued raw input
  of semantic and desktop sessions is not looked at again and goes out
  (`Revalidates`).
* README 1289-1292, while `wait_for` runs the connection accepts `cancel`: each
  turn of the select loop starts a new read, so a frame that arrives in two parts
  is lost and the Host closes; and a cancel that is read before the wait first
  ran finds nothing to cancel (`RegisterWait`).
* `docs/adr/0011` 24-25, only ids of the current operation are tracked: a
  refused `cancel_window_wait` returns early (client `lib.rs` 1078-1079) and
  leaves the id of its wait outstanding, and when enough of them have filled the
  set the next operation gives the connection up (1212). `UnusableForCause`
  counts this as a cause and shows that nothing else fills the set.
* README 640-642, `snapshot` consumes only a newer frame: an accessibility
  snapshot replaces the observation that holds the decision fence, and the next
  snapshot may show the same frame (`DirectObservation`).
* `cross_client_task_authorization.rs:346`, the clock error says time went
  backwards: two callers read the clock before they take the lock, so the later
  reading may be applied first and the verifier then fails for good
  (`PrepareRead`, `PrepareLocked`).

Behaviour that is modelled as it is, and worth knowing:

* A connection that serves `interrupt_all` itself does not update the generation
  it has observed; its own sessions are stopped once more by its next poll.
* A successful `wait_for` replaces the core's observation but not the Host's
  record of it; an action that names the Host's id is then refused as stale.
* Outside Windows, a successful `activate` leaves the core's evidence in place
  and only the Host's caches are emptied.
* A live frame is fenced by its publication. Pixels read before an action ended
  and published after it are beyond the fence.
* A pixel action looks at its lease for the last time behind the queue
  (`request_handler.rs` 1853); the gate in the input path compares the interrupt
  generation only (`windows_pixel_input.rs` 432-436, 483-489), so a revocation that
  comes between the two is found by the next request or tick.
* A session whose journal directory was replaced is interrupted by its next poll:
  the Host reads the directory whenever it validates the lease, and binding an
  authorization whose directory was replaced before the open spends it.
* The clear behind a captured secret also erases a text the user copied between
  the read and the clear; `SecretKept` is about the text that was read.
* Native input: a relative drag looks at the target for the first time behind
  its button-down; a separated drag path and the second click of a double click
  are not fenced; the release-only batch of a clean-up is not retried. A drag does
  not look at the cursor again between its last move or look and the button-up
  (`drag_sequences.rs` 376-383, `windows_input.rs` 1335-1340), so one that reports
  success may have dropped its load where somebody else moved the mouse.
* Recording: a pause, a frame and a second pause that one status conflates put
  that frame into the segment before the first pause. The evidence of an earlier
  recording stays `finalized` while a dropped second start is pending.
* Capture preparation: a torn settled record is never replaced, a job that
  panics keeps its sequence in flight, a window the user has resized stays
  topmost, a neighbour that was closed or restacked makes every restore or its
  readback fail (`native.rs` 340-352, 580-586), so that the supervisor probes on and
  reports an unknown cleanup, and a `Supervisor::start` that is refused leaves a
  handle that only errs. These are the obstructions `RestoredInTheEnd` names.
* MCP: registering prunes every expired record, after which `stop_task` of an
  expired task returns before it stops the session; the session counts until
  shutdown, which then reports a failure. A host-ensure that cannot read its
  child's state returns without stopping it (`NothingLost` excepts it).

## 6. Not modelled

* Navigation receipts, the proof of a downloaded artifact and crash recovery of
  `dcc-cua-browser`: long checks of what the driver reports, without state that
  outlives the call.
* The provider trajectory recording: one driver call at the start and one at the
  stop, and files the driver writes.
* The worker of a live observation whose start failed is dropped with a channel
  nobody reads and is not followed (`docs/adr/0009` calls that best-effort).
* The hub thread of the Escape hook and the presenter of the banner: their
  effect, a stop and a failing banner, is in HostControl.
* Drawing, encoding, OCR, image comparison and the Win32, X11 and macOS calls
  are external. Parsing and matching of profiles, and packages, are data
  handling. Endpoint security is the operating system's. One-shot commands of
  the CLI send one request. Examples, tests and scripts are left out.

`PROJECT.json` lists every component with its status, and under `hazards` what
is exposed where.

## 7. Plan

Every invariant and every action property of the passing runs is stated by a
theorem; what remains to them alone is liveness. To go on from here: the parts
of section 6 that keep state (the hub thread of the Escape hook, the worker of a
start that failed), and the frame that is published behind an action with pixels
from before it (`live_observation.rs:923`), once the code says whether it means
to exclude it.

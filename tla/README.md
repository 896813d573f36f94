# A verification project for caliban

caliban is an agent harness: a loop that sends a conversation to a language
model, runs the tools the model asks for, and goes on until the model is done.
Around the loop stand a model router, a permission system, hooks, MCP servers,
session files and checkpoints, a terminal interface, and a daemon (`caliband`)
that keeps a fleet of background agents per repository.

This directory holds TLA+ modules translated from the Rust sources, the TLC
configurations that check them on small instances, and TLAPS proofs of the
properties that matter most. `PROJECT.json` lists the components, the runs, the
mutated definitions that show each property can fail, the source lines of every
definition, the findings, the hazards and the theorems.

## 1. Inventory

| Component | State it keeps | Operations | Why it is hard |
|---|---|---|---|
| Fleet daemon (`caliban-supervisor`) | registry of agent records, manifests on disk, worker pids, port counter | Spawn, Respawn, Kill, Rm, Drain, ReportStatus, monitor exit, stop, restart and sweep | several critical sections per request with process launches in between; a monitor task per worker; a crash between any two steps; manifest writes that fail |
| Turn loop (`agent-core/stream`) | history, turn counter, recovery state, nudges, stop condition | one run of `stream_until_done_with_settings` | four ways to redo a turn, hooks and the operator at awaits, cancellation anywhere |
| Tool dispatch (`agent-core/stream`) | pending futures, per-key mutexes, a semaphore | poll, acquire, invoke, return, cancel | lock order, FIFO hand-over, order of effects on one file |
| Compaction (`agent-core/compact.rs`) | none (functions on the history) | drop oldest, summarise, sanitise pairs | a cut between a tool call and its result makes every later request invalid |
| Model router (`caliban-model-router`) | one breaker per route, hedge races | resolve, admit, dispatch, hedge, observe | lock-free breaker: every atomic access interleaves; cancelled probes |
| Permissions and modes (`agent-core/permissions*.rs`, `auto_mode.rs`, `mode_filter.rs`, the Ask modal and the mode keys of the TUI) | static rules, session rules, mode, plan flag, bypass latch, classifier cache, the modal and its queue | decide a call, ask, answer, time out, change mode, add and delete rules | precedence of rules from six sources, a prompt that times out under the operator's hand, mode changes between load and verdict, two requests at once |
| Hooks (`agent-core/hooks*.rs`) | configured handlers | before/after run, turn, tool | merge of several verdicts, timeouts |
| Session store (`caliban-sessions`) | session files, a debounced writer | save, flush, load, list | newest state against a pending write, failure and exit |
| Checkpoints (`caliban-checkpoint`) | per-prompt directories with manifests and blobs, the open prompt of a recorder | claim, capture, close, sweep, restore, fork | processes that share a directory; the sweep of one against the recording of another; a crash between the two steps of an eviction |
| MCP client (`caliban-mcp-client`) | server connections, tool lists, OAuth tokens | connect, refresh, call, reconnect, elicit | late notifications, token refresh races, deferred activation |
| Worker and attach (`caliban/src/worker.rs`, `attach.rs`) | event history and broadcast, attached clients, shared inbox, session file | publish, subscribe, attach, detach, input, idle poll, persist, resume | slow or vanishing clients, snapshot against live events, idle deadline against an operator, session file against RunEnd |
| Drive core and serve (`caliban-drive`, `caliban/src/serve`) | the run with its status, event buffer and cursor, open permission questions, the prompt's pump | prompt, input, poll, cancel, permit, disconnect | status that runs ahead of the events, answers that come late or for another question, a disconnect while a question is open |
| Settings (`caliban-settings`) | layered documents, a watcher, a key helper cache | load, merge, overlay, watch, write | precedence and provenance; reload while being written |
| Providers (`caliban-provider*`) | per-stream decoder state | decode events | out-of-order and missing stream events |
| Built-in tools, sandbox, worktrees, plugins, memory, skills, output styles, images, telemetry, TUI, command line | mostly files and formatting | | sequential I/O, conversions and rendering |

How they interact: the daemon launches workers as processes and learns of them
through the child's exit and through `ReportStatus` frames; a worker, the TUI,
headless mode and `serve` each own a turn loop and feed it input; the turn loop
calls the compactor, hooks and permission gate, the provider (usually the
router) and the tool dispatcher; the router calls provider adapters and shares
its breakers between all requests; every one of them shares the run's
`CancellationToken`.

What makes each part correct:

- daemon: every live record has a task that will finalise it, no path loses sight of
  a worktree or takes it from under its worker, ports are distinct, no ended agent
  comes back to life, a restart lists everything that was written;
- turn loop: every request is a conversation a provider accepts, turns count
  once, redoing is bounded, one turn's escalations stay in it, the run ends;
- tool dispatch: same-file calls run in order, permits are not wasted, every call
  returns;
- breaker: no probe passes before a trip's cooldown is over, a breaker that rests
  Closed is below its threshold, the probe slot does not leak;
- permissions: nothing but bypass under its flag, the auto-mode classifier and the
  operator's own answer lifts a deny, silence and answers to other requests never
  allow a call, no request is hidden from the operator, the gate always answers;
- sessions and checkpoints: what `flush` returned Ok from is on disk (two exceptions,
  below), a failed write is reported until it is masked, no older state
  replaces a newer one, a restore brings back what a prompt found, a manifest keeps
  its slot and promises only blobs that exist;
- worker: attached clients see a gap-free stream, no client holds the run back, the
  session is on disk before the end is announced, the idle timeout ends the
  unattended run and no other;
- serve: a tool runs only on the answer to its own question, updates come in order and
  once, a prompt returns and returns after its turn, the end of an ACP connection ends
  the run.

## 2. Modules and the code they model

| Module | Models | Kind |
|---|---|---|
| `Supervisor` | `server.rs`, `registry.rs`, `store.rs`, `proc.rs` of caliban-supervisor | state machine |
| `AgentLifecycle` | what the daemon promises a client that lists agents | abstract specification |
| `SupervisorProofs` | | theorems |
| `TurnLoop` | `stream/mod.rs`, `stream/recovery.rs`, `stream/hook_dispatch.rs`, `retry.rs` | state machine |
| `Compaction` | `compact.rs` | operators, used by `TurnLoop` |
| `TurnLoopProofs` | | theorems |
| `ToolDispatch` | phase 2 of the turn body, `stream/parallel.rs` | state machine |
| `ToolDispatchProofs` | | theorems |
| `Breaker` | `breaker.rs`, and its callers in `dispatch.rs`, `hedging.rs`, `resolver.rs` | state machine |
| `BreakerProofs` | | theorems |
| `SessionWriter` | `debounced.rs`, `store.rs`, `backend/fs.rs` of caliban-sessions | state machine |
| `Checkpoint` | `hook.rs`, `recorder.rs`, `store.rs`, `prune.rs`, the file part of `restore.rs` of caliban-checkpoint; the `/rewind` keys | state machine |
| `Conversation` | `app.messages` and the conversation part of `restore.rs` | state machine, extends `Checkpoint` |
| `StorageProofs` | | theorems about `SessionWriter` and `Checkpoint` |
| `Worker` | `worker.rs`, `attach.rs`, the attach command of `agents_cli.rs` | state machine |
| `WorkerProofs` | | theorems |
| `Drive` | `session.rs` of caliban-drive; `registry.rs`, `permissions.rs`, `acp.rs`, `http.rs` of `serve` | state machine |
| `DriveProofs` | | theorems |
| `PermissionGate` | `plan_tool_call`, `permissions.rs`, `mode_filter.rs`, `auto_mode.rs`, `permission_mode.rs`; `build_permissions` and `check_enforce_gate`; rule compilation of settings and MCP servers; the Ask modal, mode keys and `/permissions` overlay of the TUI | state machine over operators |
| `PermissionGateProofs` | | theorems |
| `MCSupervisor`, `MCTurnLoop`, `MCBreaker`, `MCPermissionGate` | | instances for TLC |

Definitions whose comment starts with "Variant:" are mutated
forms of the definition that follows them; no specification uses them. Each shows
that one property fails when the code has that bug.

**Supervisor.** `reg` is `Registry.by_id`, `tracked` is `Registry.pids`, `disk` the
manifests. A Spawn is `SpawnRequest`, `Prepare`, `TakeEndpoint`, `Register`, `LaunchOk`
and `Track` because the code releases the lock between them; a Respawn has
`RespawnLookup` and `Swap` in their place. `Prepare` makes the worktree and
`TakeEndpoint` takes the port after it, so a request that finds the ports used up
(`PortsExhausted`) has a worktree to give back. `CleanupWorktree` is best effort, as in
the code: the removal may fail, or be switched off by `CALIBAN_KEEP_WORKTREES`, and
the history variable `leftBehind` remembers the worktrees this has happened to. Kill, Rm, Drain and ReportStatus hold the lock throughout
and are one action. A manifest write inside a mutator may fail; the code logs it
and goes on, and `dirty` remembers which manifests are out of date. `Stop` is a
shutdown or a crash: the registry, the handlers and the monitors go, the manifests
and the workers stay. An agent id is never reused, so one name stands for the
agent, its worktree and its worker. Requests that only read (List, Logs, Ping) are
left out.

**TurnLoop.** `pc` is the position in the loop's body, one label per await or
control transfer; `BreakOuter`, `NextTurn` and `RedoTurn` are the three ways out of
it (`break 'outer`, `break 'inner`, `continue 'inner`). `pass` holds the body's
locals and is dropped by each of them; `recovery` and `nudges` survive. A response
is its stop reason, the kind of its text and the number of its calls. Providers,
hooks, tools and the operator are nondeterministic. `rounds` and `emissions` are
history variables that only properties read.

**ToolDispatch.** One behaviour is the dispatch of one response. A step is one poll
of one future, which runs to its next await. Tokio's mutex and semaphore are
modelled from their documented behaviour: FIFO, with hand-over to the first waiter.

**Breaker.** One step is one access to one atomic, to the `ArcSwap` or to the
failure ring, so attempts interleave inside `observe_success` and
`observe_failure`. `current` holds the attempts whose loaded pointer is still the
installed one, which is what `compare_and_swap` compares. Failures are counted up
to the threshold; the eviction window is a choice of how many are kept.

**SessionWriter.** `chan` is the channel from the store's handles to the writer thread,
`pending` its buffer, `disk` the backend. Saves and deletes are numbered in the order
they are requested, and the number stands for the content. A drain is one step per
snapshot, so a failure in its middle and the end of the process in its middle are
states of their own. The debounce window may pass whenever no message is ready; the
hard ceiling is the flag `overdue`. A call that finds the thread gone, or loses it while
it waits, returns what the code returns then ("degraded"): Ok for a flush. `latest`,
`deleted`, `failed` and `verdict` are history variables; `verdict` tells a failed write
from one whose report another session's failure has masked.

**Checkpoint.** Several TUI processes share one checkpoint directory (every session
without a name uses the same one). `dirs` is what is on disk, `rec` the open prompt of
each recorder, `tui` what each process is doing. Claiming a directory, saving a manifest,
the scan of the sweep, each of the two steps of an eviction and each file of a restore
are steps of their own, because other processes, failures and crashes come between
them. A file's content is a number; a blob is the content it holds and counts one
towards the cap. `Untracked` is every change past the recorder: Bash, sub-agents (which
have no hooks) and the user. Plan-mode manifests are recorded and swept like the others
and are not told apart.

**Conversation.** Adds the messages to every step of `Checkpoint`: a prompt, a tool turn
(one assistant and one user message, appended together by `finalize_tool_results`), a
reply, `/clear`, and the truncation of `restore_conversation`.

**Worker.** `pc` is where `run()` is, `history` the event ring and `sent` the number of
events published; a connection's broadcast receiver is the number `pos` of its next event,
which is all that `tokio::sync::broadcast` keeps for it. Accepting a client, subscribing,
each write, each read and each wake-up of the idle wait are steps of their own. A client
that has left is noticed only by a failing write, as in the code. `Killed` is any end
without a RunEnd; `Resume` is a second worker that starts from the first one's session
file. What the agent does in a turn is module `TurnLoop`; the worker's life as the daemon
sees it is `Supervisor`.

**Drive.** `run` is the spawned task with its watch-published status. `published` counts
the events sent to the hub's broadcast channel, `rx` is the position of the drainer's
receiver in it and `buf` the buffer that the drainer fills and `poll` reads; an event that
is `HubCap` behind is overwritten, and a receiver that finds this skips to the oldest one
left (`Lag`). The drainer subscribes when the run is spawned, so that its replay is the
events that came first, in order. A poll reads the buffer, then the status (`Poll`,
`PollStatus`), and other tasks may run in between or not at all. `permq`,
`pending` and `answer` the way of a permission question through `DriveAskHandler`, the
registry and a oneshot. `pump` is the handler of one `session/prompt`, `cursor` and `flag`
are its session's. The surface is chosen in `Init`: over ACP the pump polls and forwards,
over HTTP (and MCP, which makes the same registry calls) the client does. Only ACP has a
connection whose end drops the registry; the HTTP server keeps its registry, and the runs
of clients that have gone, for its own life, and MCP over stdio ends with its process.
`delivered`, `ran`, `allowed`, `overwritten` and the pump's `behind` are history variables.

**PermissionGate.** The rules come from the command line, the settings, the defaults and the
servers' rules, as in `build_permissions`; a rule is the set of calls its pattern matches,
and `Merge` gives the first verdict in the order of the merged list.
`gate` is phase 1 of a turn, one call at a time: plan flag, config hooks, mode filter,
classifier, session rules, static rules, question. The terminal's side (`channel`, `modal`, `queue`, `sub`, `view`) is a task of its own, so a
request can time out while it is shown, queued, or still in the channel. `Init` ranges over
the start-up configurations that `check_enforce_gate` lets pass.

## 3. Runs

| Run | Result | What it shows |
|---|---|---|
| `supervisor` | pass | records and ports accounted for, and worktrees unless their removal failed; a stop signals the worker, with two exceptions; refinement of `AgentLifecycle`; a worker's exit is recorded |
| `turn_loop` | pass | well-formed requests, turns counted once, bounded redoing with escalation per turn, content shown once but for the Stage A retry, a Stop halts with one exception, termination |
| `tool_dispatch` | pass | order per key, permits, every call returns |
| `breaker` | pass | cooldown respected, closed below the threshold |
| `session_writer` | pass | reads and flushes against buffered saves (a flush with two exceptions), no session goes back, the error slot and what masks it, buffered saves settle |
| `checkpoint` | pass | pre-images of the prompt's start, no manifest without its blobs, no slot taken twice |
| `worker` | pass | attached clients see every event once and in order, frames keep their order, the session is saved before the end is seen, no client blocks the run, the idle timeout and its operator |
| `drive` | pass | no tool runs without its own answer; updates once, but for overwritten ones; replies after their turn, but for tasks not scheduled in time; prompts return; an ACP disconnect ends the run |
| `permission_gate` | pass | no request stranded, a deny holds except under bypass and the classifier, nothing allowed unseen, the gate answers |
| `rewind_cut` | violation | restoring the conversation to a prompt that used a tool cuts inside that prompt's turns |
| `probe_slot` | violation | the probe slot of a hedged attempt can leak |
| `gate_delete` | violation | deleting a session row of the overlay can drop another rule |

The three violations are disagreements between the code and its own comments or guide.
Where the code misses such a statement only in a case that can be named, the property is
exact and names the case:

- `StopSignalsWorker`: a Respawn forgets the old worker without a signal; a Kill between
  register and track finds no pid;
- `WorktreesAccounted`: a removal that fails is ignored and never tried again;
- `StopHalts`: the no-edit nudge preempts the hook's decision;
- `ShownOnce`: the "silent" Stage A retry comes after its truncated attempt was streamed out;
- `FlushIsDurable`: what an earlier drain failed to write is not reported again, and under a
  writer whose thread never started flush returns Ok with everything lost;
- `HealthSlotTruthful`: a failure that another session's failure has masked is not reported
  once that session recovers, though the slot is empty then;
- `UnattendedEnds`: a client that left counts as attached until a write to it fails, so it
  is stated for runs that no connection task serves;
- `UpdatesOnce`: events that the hub overwrote before the drainer read them are skipped
  without a word;
- `ReplyAfterTurn`: SETTLE polls in a row may each find a task that is ready and has not
  run; then a prompt returns early, and the late events come with the next one or never;
- `DenyHolds`: in auto mode the classifier is asked before any rule, and its Allow lifts a
  deny that the guide says no mode overrides.

`PROJECT.json` quotes both sides of each under "findings", together with some divergences
between comments and code that the modules reproduce without a property.

Bounds, and why they are enough for the questions asked:

- `supervisor`: two connections and two agents are what a race between two requests
  on one agent needs (two Respawns of one agent use the second name for the
  replacement); one restart and one failed write reach every combination of memory
  and disk; a third agent makes its worktree and finds the two ports used up, and the
  constraint `LastAlone` lets it meet only a daemon that has not restarted and is otherwise
  at rest. `FirstIsolated` gives the first agent a worktree and leaves the others free;
  `OneFault` has a failed removal of a worktree or a restart or failed manifest write, not both.
  Ids are interchangeable; since one property is temporal, for which TLC's symmetry is
  not sound, the constraint `InOrder` picks one order of handing them out instead. The
  constraints cut off only requests and failures: a handler or monitor that has begun can go on.
- `turn_loop`: two turns reach every edge from one turn to the next; two attempts,
  one meta-continuation, one forced continuation and one nudge reach each limit and
  the step after it; two calls in a response are enough for one to be denied or cut
  off while the other runs. Ten responses cover each branch of the code.
- `tool_dispatch`: four calls over two keys and two permits have a waiter behind a
  waiter on a key while another key and the semaphore are contended.
- `breaker`: three attempts allow a trip, a stale reader and a recovery at once;
  threshold 2 and two probes distinguish the last failure or success from the first.
- `session_writer`: two sessions show a drain that fails for one and not for the other;
  three numbered requests allow a save, a later save or delete, and one of the other
  session; two messages in the channel put a read behind a save; two failures reach the
  case where one session's error replaces another's. Several callers are not needed: the
  thread serves one message at a time.
- `checkpoint`: two processes for the races on a slot and on a sweep; three prompts and a
  cap of one blob, so that a sweep evicts one prompt and keeps another; two tool turns on
  one file, for the second writer; one write on top of the initial content, one rewind and
  one failure or crash anywhere. `rewind_cut`: one process, two prompts, one tool turn.
- `worker`: a ring of two and three events, so that the ring overflows and a client lags;
  an inbox of one and two frames, so that one is dropped; two clients, so that one attends
  while the other leaves; one poll before the deadline tells a reset from none; two
  workers, for the resume.
- `drive`: two questions, so that an answer can meet the wrong one; two prompts, so that
  one follows a cancelled or an ended one; a channel of one and two events before the
  RunEnd, so that the drainer lags by one event and by two; three settle polls, the code's
  number; one cancel, which may arrive in the later prompt.
- `permission_gate`: two calls, so that a request can wait behind one that timed out; two
  session rules, so that a newer one overrides an older; three keys, enough to leave and
  re-enter a mode or to open the overlay and delete. Six start-ups cover each source of
  rules, both ask handlers, the classifier on and off, and one that is refused.

Fairness. `supervisor` assumes that a handler or a monitor that can take a step
takes it: the tokio runtime polls woken tasks and its mutex is FIFO. Clients, workers
and the daemon's own end are not assumed to do anything. `turn_loop` assumes that the
loop's task goes on while it can: hooks and tools return, a silent provider is cut off
by the stream watchdog, and a response is bounded by its token budget. The operator is
not assumed to answer, which is why `Terminates` allows an endless wait for input.
`tool_dispatch` assumes that woken futures are polled and that a tool returns (tools
have timeouts or watch the token). `session_writer` assumes that the writer thread is
scheduled, that backend calls return, and that time passes; clients may do anything, and
a save stream that never pauses is among it. `worker` assumes that the run's task is
scheduled and nothing of the connections. `drive` assumes that the run, the drainer, the
prompt's handler, the handler of a cancel and the drop of the registry are scheduled, and
that turns end; the client may stop answering at any time, since both sides of a question
have a timeout. Nothing is assumed of what runs during the pump's sleeps. `permission_gate`
assumes that phase 1 goes on: the classifier's call returns and `ASK_TIMEOUT` passes.

Deadlock is not checked where the system may stop: the daemon at rest with its bounds
used up, a run or a dispatch that has ended, a process that has ended or is idle.

## 4. Proofs

Each proof module has the same plan: facts about the operators and queues first, then the
initial state and every action of `Next` against the parts of an inductive invariant, then
the theorems. The invariants marked (TLC) below were checked as invariants of a run before
they were proved. A named `ASSUME` of the component's module is all that is assumed of the
constants; TLC evaluates it in each run.

`SupervisorProofs` (any set of ids and handlers, any ports and bounds; `NoId` is not an
id, the base port is positive):

- `DaemonTypeCorrect`: `Spec => []TypeOK`. The type invariant is split into the
  registry's tables, the handlers' records and the rest; `NextCases` splits the steps
  into those that call a mutator of the registry and those that do not.
- `LiveRecordsOwned`: `Spec => []LiveRecordHasOwner`. Not inductive alone: a
  lost Respawn drops its handler, which is harmless only because its agent was never
  registered. `IndInv` adds that unused names have no record (`NamesFresh`), that two
  handlers never hold one agent (`HandlersApart`), that an agent is absent until its
  handler registers it (`UnregisteredAbsent`) and that a stopped daemon has no tasks
  (`StoppedIsEmpty`). Most steps are `Tame`: they add no record and revive none; the
  lemmas say which of those may also drop a handler or end a monitor.
- `PortsNeverShared`: `Spec => []PortsDistinct`, from the order in which ports are
  handed out (`PortsInOrder`), and from the fact that a handler past `TakeEndpoint` has one,
  so that an agent with a record does (`PortInv`).
- `WorktreesNeverLeak`: `Spec => []WorktreesAccounted`. The error paths of Spawn and
  Respawn, used-up ports included, remove a worktree, which is safe because no process
  exists yet (`NotLaunchedYet`); a monitor removes one only after the exit
  (`CleanupAfterExit`). `CleanupEffect` says what a clean-up may do: the worktree is gone
  or remembered as left behind, and no other one is touched.
- `StopsSignalWorkers`: `Spec => StopSignalsWorker`, from `PidsKnown`: a live worker of a
  Running or Idle record has its pid in the table, because `Track` enters the pid and sets
  Running in one critical section.
- `DaemonImplementsLifecycle`: `Spec => ImplementsLifecycle`, the refinement of
  `AgentLifecycle` step by step. A restart shows what the manifests say; that this is what
  was in memory, but for the manifests whose write failed, is `MemoryOnDisk`.

`BreakerProofs` (any number of attempts, any threshold and probe count of at least one):

- `BreakerTypeCorrect`: `Spec => []TypeOK`;
- `TripLastsItsCooldown`: `Spec => CooldownRespected`, from `GuardsExpired`: a pointer
  that still compares equal points at a trip whose cooldown is over;
- `ClosedBelowThreshold`: `Spec => []ClosedIsBelowThreshold`, from `FullRingAttended`:
  a closed breaker with a full ring has an attempt that is about to clear it or to trip.

`DriveProofs` (any number of events, questions, prompts and cancels):

- `DriveTypeCorrect`: `Spec => []TypeOK`;
- `ToolsNeverFailOpen`: `Spec => []NeverFailsOpen`. `AnswersHonest` follows an allow back
  to the client at each place it passes (the handler, the oneshot), and adds that an answer
  once used does not change.
- `EventsDeliveredOnce`: `Spec => []UpdatesOnce`. `BufferHonest`: the buffer is in order
  and lacks, up to the receiver's place, only what was overwritten. `CursorsAgree` relates
  the buffer, the cursor of the session, that of a prompt's handler and what the client
  holds, which is the buffer up to its cursor.
- `RepliesAfterTurn`: `Spec => ReplyAfterTurn`, for every number of settle polls and with
  nothing assumed of the scheduling. `PromptOnItsWay` says where the prompt is while its
  handler polls; `SettlesHonestly` that a count of empty polls that saw every ready task
  run leaves nothing on its way.

`ToolDispatchProofs` (any number of calls, any keys, any limit of at least one):

- `DispatchTypeCorrect`: `Spec => []TypeOK`;
- `PermitsNeverIdle`: `Spec => []PermitsDoWork`, with `SemFifo`: the waiters of the
  semaphore are distinct and hold nothing. Cardinalities come from `FiniteSetTheorems`.
- `SameKeyNeverReordered`: `Spec => []SameKeyInOrder`. `KeyInv` is the FIFO discipline:
  futures are polled first in the order of the response (`PolledInOrder`), so the waiters
  of a key stand in that order behind an owner that came before them (`MutexFifo`), and a
  keyed call works only as the owner of its key (`CallsQueued`).

`WorkerProofs` (any finite set of clients, any capacities of at least one):

- `WorkerTypeCorrect`: `Spec => []TypeOK`. That the count of attached clients never goes
  below zero needs `ServedInv`: it is the number of connections being served.
- `AttendedRunsGoOn`: `Spec => NoTimeoutUnderOperator`, from the same invariant.
- `AttachedClientsSeeAll`: `Spec => []AttachSeesAll`. `CursorsLeadOn` says that the replay
  of a connection leads up to its broadcast position without a gap, and the last event
  written up to the replay, unless the receiver has lagged by a whole buffer.
- `RunEndMeansSaved`: `Spec => []EndImpliesSaved`, from `SavedAtEnd`.
- `FramesArriveInOrder`: `Spec => []FramesInOrder`. `FrameInv` follows the frames of a
  client through the wire, the inbox and the run: each part is ascending and what is
  further on is older.

`PermissionGateProofs` (any calls, patterns, rules and start-up configurations):

- `RequestsStayInSight`: `Spec => []NothingStranded`. `GateInv` adds that the requests in
  the channel, the queue and the modal are well formed and that no two calls share one
  (`RequestsFresh`). The lemma `AnswerMoves` says what an answer and the drain of the
  queue after it do to the requests, the view and the gate.
- `AllowedOnlyIfShown`: `Spec => AllowedWasShown`, from `GateInv`.
- `DeniesHold`: `Spec => DenyHolds`. A deny of the global rules is the verdict of the merge
  whatever the servers add, and neither `rewrite_ask_to_allow` nor the drain touches a deny.

`TurnLoopProofs` (any limits, configurations and responses):

- `TurnLoopTypeCorrect`: `Spec => []TypeOK`;
- `TurnsCountedOnce`: `Spec => []TurnsCountOnce`, with `CountInv`: a turn index in use is
  below the limit;
- `RedosBounded`: `Spec => []RoundsBounded`. `RoundInv` (TLC) says that each pass of a turn
  but the first is paid for by a re-issue, by the one reactive compaction of the run or by
  the one escalation of the turn, and each of these is limited;
- `ContentShownOnce`: `Spec => []ShownOnce`, with `ShownInv` (TLC): before a pass has shown
  anything, at most the truncated pass before it has;
- `StopEndsRun`: `Spec => StopHalts`;
- `SanitizedArePaired`: for any history, `SanitizeToolPairs` leaves a call for every result
  and a result for every call, and exactly the ids that had both. No induction over the
  history is needed because `Filter` is a closed form: element `k` of a filtered sequence is
  the one at the position that has `k` kept positions up to it, and that these positions are
  a bijection onto `1 .. Len` follows from the theorems on cardinalities;
- `RequestsAccepted`: `Spec => []RequestsWellFormed`. The invariant (TLC) is about the
  history at each `pc` (`HistoryInv`) and about the calls of the pass, each of which is
  queued or answered once it is dispatched (`CallsInv`). `Conv(h, n)` says what `n` system
  messages and a conversation look like: a message with results follows the one with their
  calls, no two assistants follow each other, the conversation starts with a clean message.
  From `request` to `invoke` the history is `Ready`: such a conversation whose last message
  is not an assistant's. After a turn it is `Settled`: a reply may be last. Only a cancelled
  run may have a call without its result, and it makes no request any more, hence the
  exception in the invariant. The lemmas say that appending a prompt, a reply or a turn of
  calls with their results keeps `Conv`, and that every compaction leads from `Ready` to
  `Ready`, because it cuts only at a clean message.

`StorageProofs`, the session store (any sessions, callers and bounds; `NoName` is neither):

- `SessionWriterTypeCorrect`: `Spec => []TypeOK`;
- `HealthSlotHonest`: `Spec => []HealthSlotTruthful`, by itself inductive given the types;
- `BackendNeverGoesBack`: `Spec => DiskNeverGoesBack`. `OrderInv` (TLC) orders the requests
  of a session along their way: the backend has the earliest, then what is being drained or
  buffered, then the channel in its order; a place of the thread that is not in use is empty.
- `ReadsAreCurrent`: `Spec => []ReadsSeeEarlierRequests` and `FlushesAreDurable`:
  `Spec => []FlushIsDurable`. `CallInv` (TLC) says that a queued or served call is that of a
  parked client, and that `Covers` holds for it: nothing before the call's place is later
  than what the caller expects, and what it expects is queued there, in hand, or has failed.
  The lemmas say what sending, receiving, draining and failing do to `Covers`. A flush
  that loses the thread while it waits holds a handle, so the thread has not ended
  through the close of the channel but never started (`CallersOpen`).

`StorageProofs`, the checkpoints (any processes, files and bounds, no assumption on them):

- `RestoresTheStart`: `CheckpointSpec => []PreimagesFromStart`,
- `NothingPromisedIsGone`: `CheckpointSpec => []BlobsBehindManifests`,
- `SlotsAreKept`: `CheckpointSpec => ManifestsKept`.

All three come from `CheckpointInv` (TLC), which says of an open prompt what the properties
say of a saved one. `Slots`: it has a made directory without a manifest, and no other
recorder has it, because a claim takes only a directory that it makes itself. `Captured`:
unless it is partial it has captured every file that a planned call is about to write, and
a file it has not captured is as it was at the start or was changed past it. `Backed`: the
blobs of its entries are there, unless it was swept meanwhile. `Sweeps`: blobs are
dropped only behind a manifest that was cleared before, or one that never was. Most steps
are `Quiet` (they touch neither a file nor a directory); the others have a lemma each.

Only model-checked:

- the liveness properties (`ExitIsRecorded`, `Terminates`, `AllReturn`, `SavesSettle`,
  `UnattendedEnds`, `PromptsReturn`, `DisconnectEndsRun`, `GateReturns`) and
  `RunNeverBlocked`, which is about `ENABLED`: both are out of the prover's reach;
- the three disagreements, which are counterexamples.

## 5. Plan

What is left, in this order:

1. The composition of `Worker` with `Supervisor`: the worker's status reports, the daemon's
   SIGTERM and its resume, with the daemon's view of a worker as the abstract one.
2. The router's dispatch over several routes (resolver, fallback, hedge race) with the
   breakers reduced to what dispatch sees.
3. The MCP client's connection manager and deferred tool activation, background shells,
   the hook router's merge of verdicts, the layered settings merge against a reference
   definition, and the TUI's queue of prompts against its overlays.

## 6. Not modelled

Formatting, wire formats, rendering, telemetry, prompts, image handling and the text of
messages; what a tool does to files; the operating system's sandbox; authentication.
Token usage and cost are a nondeterministic budget stop. Time is kept as whether a
deadline has passed. Most of the repository's lines are of this kind: adapters of six
providers, parsers of configuration, widgets and their drawing, and the tests that sit in
the same files; the modules map to the parts that keep state between steps.

Left out of the modelled parts:

- `Worker`: the status reports to the daemon (their effect is `ReportStatus` of
  `Supervisor`), an idle timeout of 0, which never ends a run, and a write that succeeds
  into the buffer of a peer that has just left.
- `Supervisor`: a worktree that libgit2 leaves half made when its creation fails is taken as
  not made; the worktrees of a daemon that has stopped are nobody's, since the next one does
  not know of them (`WorktreesAccounted` speaks of agents born in this process).
- `SessionWriter`: a panic of the writer thread.
- `Drive`: two prompts at once on one ACP session, several sessions of one connection, and
  the MCP surface, whose tools make the registry calls of the HTTP routes.
- `PermissionGate`: `--no-permissions`, inputs rewritten by a hook, the audit log, the exit
  of the TUI with a request open (its oneshot is dropped, which denies), the rules a worker
  inherits, and the pattern matcher itself, which is text.
- `Breaker`: several routes; `Checkpoint`: the summarising restores, `/fork` and the pruning
  by age; `TurnLoop`: image routing, the assembly of content blocks, and the run that starts
  from the history of a cancelled one, which may end in a tool call without its result.

`PROJECT.json` gives the reason for each component.

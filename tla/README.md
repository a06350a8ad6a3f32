# Formal models of deerflow-acp

deerflow-acp is an agent service: a FastAPI process (`app/`, `deerflow/`) that
runs LangGraph agents for conversations ("threads"), a daemon that serves the
same agents to local editors over the Agent Client Protocol (`deerflow/acp`),
a desktop (`desktop-app/`, Rust) whose own daemon runs this and other agents
for any number of windows, and bridges, sidecars and user interfaces around
them. Most of its code calls models and tools; what is hard to get right is the
bookkeeping around those calls: who may work on a conversation, what happens to
work whose owner died, what is stored, and who is told how it ended. This
directory models that bookkeeping in TLA+, checks it with TLC and proves the
safety of ten parts of it with TLAPS.

Paths below are relative to the repository; `waku-core/`, `waku-client/` and
`waku-protocol/` stand for `desktop-app/crates/.../src/`. `PROJECT.json` maps
every definition of the models to the lines it stands for.

| module | models | checked by | proved in |
|---|---|---|---|
| `Scheduler` | `deerflow/runtime/scheduler.py` | `sched_two`, `sched_one` | `Scheduler_proofs` |
| `SchedulerLive` | its progress, on a moving window of time | `sched_live` | |
| `Occurrences` | abstract: the life of one occurrence | as `ImplementsContract` | `Scheduler_proofs` |
| `RunLifecycle` | `runs/manager.py`, `ClientManager` in `app/dependencies.py` | `runs_shared`, `runs_readers` | `RunLifecycle_proofs` |
| `StreamBridge` | `stream_bridge/memory.py` | `bridge` | `StreamBridge_proofs` |
| `ReplayLog` | abstract: one replayable stream | as `ImplementsReplayLog` | `StreamBridge_proofs` |
| `ThreadCleanup` | `app/thread_cleanup.py` and the deletion of a thread | `cleanup` | `ThreadCleanup_proofs` |
| `AcpSessions` | sessions of the ACP daemon, `deerflow/acp` | `acp` | `AcpSessions_proofs` |
| `RuntimeMailbox` | commands of a session in the desktop daemon, `waku-core/server.rs`, `daemon.rs` | `mailbox` | `RuntimeMailbox_proofs` |
| `SessionActor` | abstract: an actor that serves a session's commands | as `ImplementsActor` | `RuntimeMailbox_proofs` |
| `RuntimeStream` | events of a runtime on their way to desktops, `server.rs`, `waku-client/`, `desktop-app/src/driver/mod.rs` | `stream` | `RuntimeMailbox_proofs` |
| `AcpDriver` | the desktop daemon's end of an ACP agent, `waku-core/driver/acp.rs` | `driver` | `AcpDriver_proofs` |
| `TaskStore` | tasks and their database, `waku-core/daemon.rs`, `persistence.rs` | `tasks` | `TaskStore_proofs` |
| `ServerPool` | resident servers shared by sessions, `waku-core/opencode_pool.rs`, `deepseek_pool.rs` | by hand, `pool.cfg` | `AcpDriver_proofs` |

`MC*` modules only add the symmetry sets and functions the configurations use.

## Inventory

Each component with the state it keeps, what it does, whom it talks to, what
makes it hard, and what makes it correct.

**Durable scheduler** (`deerflow/runtime/scheduler.py`). State: tables
`scheduled_tasks` and `scheduled_task_runs` in SQLite, shared by any number of
processes; per process a poll loop and a set of dispatch coroutines. Operations:
create, enable, pause and delete a task; poll (reconcile, claim, dispatch, clean
up history); the reports of a dispatch (started, launched, finished, retry);
heartbeat; stop. It starts managed runs and waits for them. Hard: processes die
or stall between any two store calls; leases expire under live owners; a prompt
must not be replayed once its run may have had effects. Correct when occurrences
of one conversation are serialised, every occurrence is eventually closed, late
reports change nothing, and nothing is replayed without a decision.

**Schedule arithmetic** (`compute_next_run_at`, same file). Pure: intervals from
an anchor, daily wall-clock times in a time zone. Hard: daylight saving. Correct
when the slot found is always ahead and none is skipped.

**Managed runs** (`deerflow/runtime/runs/manager.py`, `app/dependencies.py`).
State: the registry of runs, idempotency keys, one producer task per run, counted
marks of running conversations, reservations for archives and deletions,
subscriber counts and three timers per run. Operations: start (with "reject" or
"interrupt"), cancel, the producer's steps and exits, attach and detach of
readers, expiry and cleanup. Hard: everything interleaves on one event loop
while deletions run on worker threads; cancelled producers go on unwinding after
their successors have started. Correct when runs, deletions and archives of a
conversation exclude each other, at most one run is in flight, outcomes are not
overwritten, and every run is retired.

**Stream bridge** (`deerflow/runtime/stream_bridge`). State: per run a bounded
buffer of events with a start offset, end and expiry flags; per reader an offset
and the last event id. Operations: publish, end, subscribe (from a last event
id), expire, clean up. Hard: overflow and expiry under readers that hold
offsets, streams that are created again. Correct when a reader sees events in
order, none twice, with gaps only where the buffer overflowed, and is never left
waiting on a stream nobody can end. There are two bridges, in memory and Redis.

**Thread cleanup** (`app/thread_cleanup.py`). State: a row of last activity per
conversation, a claim on it, one job lease, a report per job. Operations: daily
and manual jobs, heartbeat, claim, deletion (`delete_thread_completely`), touch
by requests. Hard: several processes, takeover of expired leases, requests and
user deletions at the same time. Correct when nothing in use is deleted, one job
works at a time, and reports stay true.

**ACP sessions** (`deerflow/acp`: coordinator, store, cleanup, agent, runtime,
management). State: session rows, checkpoints, bindings of sessions to
connections with a phase, cleanup reservations, run slots, client MCP
definitions. Operations: new, load, prompt, cancel, close, disconnection,
retention cleanup, management commands. Hard: every handler suspends many times,
and connections vanish in the middle. Correct when a session has one user and
one operation at a time, is purged alone and leaves nothing behind, and slots
are conserved.

**Desktop daemon** (`waku-core/server.rs`, `daemon.rs`). State: a registry of
mailboxes, one per session with commands; the hub (active runtime, sequence
numbers, journal of events and subscribers per session, cached responses); the
backend (the driver held for each session, tasks in memory). Operations:
dispatch of a command from a connection's thread, the worker of a mailbox,
start, attach, control, close, remove, edits of the transcript. Hard: three
tables behind three locks that must agree about which runtime a session has,
workers that retire as commands arrive, provider exits at any moment, repeated
requests, panics. Correct when a session is one actor: its commands are served
one at a time in order, none is left behind, and the runtime that lives is the
one whose events are broadcast.

**Event stream** (`server.rs`, `waku-client/client.rs`, `process.rs`,
`desktop-app/src/driver/mod.rs`). State: journal and queues in the daemon;
cursors, subscriptions and buffered events in each client; an adapter thread per
session that follows the runtime over successive connections. Hard: connections
break with events in four places, slow clients are cut off, the replacement
breaks too. Correct when a transcript receives events in order and none twice,
an exit is reported only if the provider exited, and the handover ends.

**ACP driver** (`waku-core/driver/acp.rs`). State: a command channel, pending
prompts and permissions, the confirmed tool approval, whether the model options
were accepted. Operations: prompt, steer, cancel, respond, options, tool
approval, and the callbacks for what the agent sends. Hard: answers that come
late, twice or never; a loop that awaits some of them and not others. Correct
when prompts run under the approval the user was shown, a finished turn leaves
nothing running, and cancelled turns and changes settle.

**Task store** (`waku-core/persistence.rs`, `daemon.rs`, `waku-protocol/model.rs`).
State: tasks in memory, some as skeletons; SQLite rows for the list, the detail
and the messages; three records of what may differ. Operations: save, release and
hydration of transcripts, adoption of a client's projection, removal, turn
checkpoints, rewinds and forks. Hard: saves write only what differs and may be
rolled back; jobs come back after the task has changed or gone. Correct when
nothing is forgotten, what was acknowledged is stored, and removed tasks stay so.

**Server pools** (`waku-core/opencode_pool.rs`, `deepseek_pool.rs`). State: a slot per binary and
directory that is vacant, starting, stopping or knows its server by a weak reference; handles in
any number of threads. Operations: acquire, look for a live server, clone and drop; the last drop
stops the process. Hard: the drop runs in any thread, a server dies under its handles and is
replaced, starts fail while others wait. Correct when no two servers run in one place, no
destructor takes away another generation's server, and whoever waits is woken.

**Other drivers of the desktop daemon** (Codex, Claude, OpenCode and more) speak
other protocols and meet the daemon as the ACP driver does. **Terminals,
workspaces, usage, skills, updater** of the desktop: wrappers around a pty, git,
files and web services.

**ACP daemon, goals, permission bridge.** Endpoint discovery and handshake
(`daemon.py`, `daemon_endpoint.py`); goal turns with budget and statuses
(`runtime.py` 597–860, `runtime/goal.py`); permission requests with remembered
decisions (`permission.py`). Hard: decisions that arrive after a reset. Correct
when an approval is never applied to a session that was reset since.

**Subagents** (`subagents/executor.py`): delegated tasks with a concurrency
limit, timeout and cancellation; results race timeouts.

**Skill evolution** (`skills/evolution`): proposals, evaluation, publication and
rollback of skills on disk; crash between database and files.

**Sandboxes** (`sandbox/aio.py`): pool of containers with warm, busy and
half-created entries and a limit. **MCP sessions** (`mcp/session_pool.py`):
pooled sessions created outside the lock that protects the pool. **Memory**
(`agents/memory`): debounced updates and flush.

**Buzz and Raft sidecars** (`integrations`): relay messages to the agent and
keep delivery state. **ACP bridge** (`bridge/`, Rust): translates between two
protocol versions. **Gateway routers, Feishu channel, user interfaces, SDK,
middlewares, models, configuration, tracing**: requests, rendering, and calls to
services outside.

Interactions: routers and the scheduler start managed runs; producers publish to
the bridge, readers subscribe; thread deletion asks the marks of the run
registry, deletes schedules and activity rows, and is used by cleanup jobs; the
ACP daemon has its own sessions and checkpoints and shares only the agent engine.
Desktops send commands to the desktop daemon, whose mailboxes hand them to drivers
and to the task store; drivers send events to the hub, which journals and broadcasts
them; the ACP driver talks to the ACP daemon (directly or through the bridge) as to
any other agent. The OpenCode and DeepSeek drivers share servers through the pools.

## Scheduler

State: `task` and `row` are the two tables (columns abstracted to status, attempt,
slot, availability, lease and last update), `host`, `loop`, `pc`, `run` what is in
memory (life of a process, its poll loop, the phase of each dispatch, the run it
started), `requests` the enable, pause and delete requests being served.

Every store call is one action, because the code runs each in one transaction;
what a coroutine does between two awaits is one action. The correspondence:

| code | actions |
|---|---|
| `claim_due_tasks` | `Claim` (insert due occurrences, advance tasks, dead-letter, select, lease: `ClaimRows` and the operators it is made of) |
| `reconcile_expired_launched_runs`, `cleanup_task_runs`, errors of a poll | `Reconcile`, `CleanupHistory`, `PollFails` |
| `_dispatch` | `MarkStarted`, `Launch`, `FailBeforeLaunch`, `RecordLaunch`, `FailAfterLaunch`, `Finish`, `RetryLater`, `RetryNow`, `GiveUp` |
| `_reconcile_launched_run` | phases "reconciling" and "settling" of the same actions |
| `_renew_lease` | `Renew` |
| the managed run | `RunEnds`, `UserCancel` |
| create, `set_enabled`, pause, delete | `CreateTask`, `ReadSchedule` then `WriteEnabled`, `PauseTask` then `CancelActiveWork` then `RequestDone` |
| `start`, `stop`, death | `Start`, `Stop`, `StopDispatches`, `Stopped`, `Crash` |

Decisions a reader should know:

- `Skew` is the age of the clock reading of a poll, taken before its transaction
  waited for the write lock. `SlotSkew` bounds the same for the slots of definitions:
  `create_task` computes the first one before its transaction waits for the write lock,
  `set_enabled` reads the schedule in one transaction and writes in another. A slot may
  so be stored when it has passed (`CreateTask`, `ReadSchedule`, `WriteEnabled`), and an
  occurrence made of it precedes one that is already at work (`Overtakes`).
- A heartbeat that died of one failing call simply takes no more steps; `Renew`
  has no fairness.
- Row numbers stand for creation order. Back-off is one delay. Only the strategy
  "reject" is used by dispatches. Delivery of results affects success and error
  only. A "cancelling" run does not block `Launch`, which allows more than the code.
- Requests reach runs of their own process only; `PauseReachesRuns` is therefore
  checked with one process and speaks of the current attempt.
- A dispatch cancelled before its first step leaves its row to the lease.
- `compute_next_run_at` is "some slot of the grid after the reading of the clock".

Runs. `sched_two`: two processes that crash at any time, two one-time tasks
of one conversation, an occurrence of each, two attempts, one dispatch per process,
clock up to 3 with lease and grace 1 and retries at once, one task created while the other is
at work, late clock readings behind polls and behind its slot: enough for claim, expiry, takeover by
the other process, a second expiry, a late report of each attempt, and an occurrence that
overtakes (1.3 million states). `sched_one`: one process with two dispatches, stopped and started again,
a recurring and an unparsable task, requests, late clock readings of polls, immediate history cleanup
(1.4 million). `sched_live`: progress with two one-time tasks, one created later with a slot that
may have passed, a process that crashes and stops; time is a moving window (`Rebase`), so behaviours
are endless although the model is finite. None of the three disables the deadlock
check. `ImplementsContract` is the refinement to `Occurrences`, whose steps are:
an occurrence appears, is attempted, progresses within an attempt, closes.

Fairness (`SchedulerLive`): the clock runs, a process that is down is started
again, resumed coroutines and ended runs are served (weak fairness: the event loop
serves its ready queue, and runs carry a timeout); a poll may fail for any reason
but not every time (strong fairness of `Reconcile` and `Claim`).

## RunLifecycle

One action is what the event loop runs between two suspensions. `starting` names
the one gap, between `create_or_reject` and `mark_thread_running`, into which a
deletion on a worker thread can step (`Create`, then `Launch` or `RefuseLaunch`).
`producer` is the phase of the producer task; "unborn" is a task cancelled before
its first step, whose body asyncio never enters. `bridge` is the kind of bridge:
with Redis every publication may fail (`Unwind`, `CloseFails`). Expiry timers spawn
tasks, which are served in order (`GraceElapsed`, `CompletedElapsed` and
`MetadataElapsed`, then `ExpireReplay` and `CleanupRun`).

Abstracted: "rollback" acts as "interrupt"; a reused key with another fingerprint
is a refusal without effect; the reader's lookup of its client object is `Find`,
its attachment and subscription one step; a reader of a removed stream keeps the
ended object.

`runs_shared`: two runs, two conversations, one idempotency key in a table of one,
no readers, both bridges. Two runs on the same conversation give displacement and a
late unwinding producer; the second conversation gives independence. `runs_readers`:
one run, two readers, in-memory bridge, with fairness; run ids may be used again
once retired. Neither checks for deadlock, because there are finitely many ids and
a conversation whose run was never born is never released. Fairness: the loop serves
every ready task, timers fire, runs end, a reader that is sent the end marker leaves;
strong per run, since other runs' steps may disable a step between.

The first conjunct of `Exclusion` says that a conversation has at most one run in
flight; with the guards of `Create`, a refused start has never displaced a run for
nothing. `ReadersAreFed` is stated for the in-memory bridge: a failing Redis leaves
runs listed as running for ever.

## StreamBridge and ReplayLog

`object` holds every stream object ever created (a reader may hold one the bridge has
forgotten), `live` the one the bridge knows. `Publish` appends and trims;
`PublishEnd`, `Expire` and `Cleanup` end, withdraw and forget; `Restart` is a new run
under the same id. `Subscribe` resolves a last event id, `Deliver` and `End` are one
round of the reader's loop each, `Disconnect` breaks the connection. Heartbeats change
nothing and are left out.

`ReplayLog` is the promise for one stream: a log with a floor that only overflow
moves, readers that connect, leave and are delivered the next event at or above the
floor, and an end marker only after everything. `ImplementsReplayLog` states that
every object implements it at once. Bounds: a buffer of 2 and 4 events (two
overflows), two objects, two readers. The bound on objects makes the model stop, hence
no deadlock check.

## ThreadCleanup

Time is what the code compares: a conversation is "old" or "recent" against the
cutoff; a lease or claim is fresh or has expired. A lease of ten minutes renewed every
200 seconds expires only when its owner is late (`beat`): dead, suspended, or without a
working heartbeat. Once late, a job is never again assumed punctual, but it may wake up
and go on (`Renew` and every step of `Work`). The start and the closing phase are
assumed punctual, since waits for the database are at most 30 seconds.

`Acquire` to `Begin` are `start_run`; `StopEarly` to `ReleaseLease` are `_execute_run`;
`DeleteRequest`, `PurgeFails`, `Forget`, `ForgetFails`, `Unmark` are
`delete_thread_completely`, for a user or the job; `Touch`, `MarkRunning`, `CallEnds`
are requests. `Abort` is a cancellation or failing statement at any await; `StartDropped`
leaves the lease to expire, as the code does. Schedules belong to the scheduler, so any
candidate may be skipped. Dry runs, batch counts, protected rows and the daily timetable
are left out. Requests are taken to end within a day, the shortest retention (`Age`).
`torn` remembers that somebody removed the row of the conversation a job is at; no
guard reads it.

`cleanup`: two hosts, two jobs, one conversation; the lease, the claim and the row are
all that jobs share, and every property speaks of one conversation and two jobs. The same
model with three jobs (3.7 million states) was checked by hand. Deadlock is checked.

## AcpSessions

The store never suspends, since its lock is never held across an await, so looking a
session up and attaching it is one step; what a handler awaits elsewhere (client MCP
processes, checkpoints, the run, the client) splits it. `request` holds the handlers in
progress, `cleaner` the two cleaners: the retention loop and the desktop's delete command.

| code | actions |
|---|---|
| `_handle_connection`, `new_session` | `Connect`, `NewSession` |
| `load_session`, `bind_client_mcp` | `LoadBegin`, `Swap`, `LoadDone`, `LoadFails`, `Unload` |
| `prompt`, `run_slot` | `PromptBegin`, `Grant`, `Run`, `LeaveQueue`, `Yield`, `YieldCancelled`, `RunEnds`, `PromptEnds` |
| `close_session` | `CloseBegin`, `CloseDone` |
| `shutdown` | `BeginDisconnect`, `ReleaseTools`, `FinishDisconnect` |
| `cleanup_expired_sessions`, `session.delete` | `Reserve`, `Purge`, `CleanerDone`, `CleanerFails` |
| `daemon.drain` and `resume`, death of the daemon | `SetDraining`, `Restart` |

The ACP library is outside the repository; its `close` is taken to cancel the handlers
and to wait for them, and a prompt to outlive that cancellation until it has ended. Changes of
a session's settings are atomic and left out, as are goals, images and rendering.

`acp`: two connections, two sessions, two handlers at a time, one slot (1.1 million
states): two windows competing for a session while cleaners purge it, and two prompts
competing for a slot. Deadlock is checked.

## RuntimeMailbox and SessionActor

State: `registry` (`runtime_mailboxes`), `box` (each mailbox ever created with its
queue, its worker's position, the command in hand and the worker's belief
`active_runtime_id`), `hub` (`Hub.active_runtimes`), `live` (the backend's
`sessions`), `cache` (`Hub.responses`), `proc` and `home` (provider processes and the
session each was started for), `issued` and `resent` (what clients sent).

Each table has its own lock, so a step is what happens under one lock, or between two:

| code | actions |
|---|---|
| `dispatch`, `dispatch_runtime` | `Dispatch`, `Resend` with `Enqueue` or `SpawnFails` (all under the registry's lock) |
| `handle_request` | `Repeat` (answer from the cache), `Begin` (`begin_runtime`), `Execute`, `Settle` (`end_runtime` of a failed start, reply) |
| the backend's `Start` | `Clear` (drop the previous driver), `Launch`, `LaunchFails` |
| `run_runtime_mailbox` | `Take`, `Conclude` (belief and `end_runtime` of a close) |
| `take_queued_request_or_retire` | `Decide` |
| a panic in a driver | `Panic`: the receiver is dropped with its queue |
| `remove_finished_runtime` | `Exit` |

Commands are grouped by how they meet these tables (`Kind`): "control" stands for
prompt, steer, cancel, respond, options and approval, "edit" for fork and rewind, of which
a rewind also drops the session's driver, as soon as the provider has gone back and whether or not
the task can then be stored. Terminals are left out: clients open each under a
session id of its own, so it has a mailbox to itself, whose worker takes `OpenTerminal` for a start and
`CloseTerminal` for a close; but the backend keeps them in a table of its own, from which one that ends is
not removed. The response cache evicts nothing within
the bounds. A client names the runtime of a `Start` afresh and otherwise uses
runtimes that were started for the session; a close is a notification and cannot be
repeated.

`SessionActor` is the promise of the source's comment, "a live provider runtime is
an actor owned by the daemon": per session a line of commands, one being served, and
a crash that loses the line. `ImplementsActor` maps the registered mailbox to the
actor. `OneWorker` says that there never is another.

`mailbox`: one session, three requests, three mailboxes, two runtimes, one repeated
request, one panic: enough for a worker to retire and be replaced, a runtime to be
replaced while the old one exits, and a repeated start after a close (97 thousand
states). Sessions share nothing but the maps, and the theorems below hold for any number of
them. `EveryCommandServed` assumes that a worker that can go on does; a panic serves
the queue by dropping it, which clients learn from their closed reply channels. The bounds
make the model stop, hence no deadlock check.

## RuntimeStream

State: the daemon's end (`life` of the driver, `heard`, `last` sequence, `journal`,
`exit`), the connection of each desktop (`link`, `up`, `listed`, `wire`), its client
(`cursor`, `kept` per connection), its `adapter`, the cursor `saved` with the session, and
the history `got` of what the transcript received.

| code | actions |
|---|---|
| `Hub.emit`, `broadcast` | `Emit`, `EmitExit` with `Publish` |
| `remove_finished_runtime`, `end_runtime`, daemon restart | `DriverEnds`, `Silence`, `Restart` |
| loss of a connection, `connect_with_resume`, `monitor_daemon` | `Break`, `Reconnect` |
| `run_client` | `ClientRead` |
| `start_remote`, `attach_driver` | `Start`, `Hydrate`, `Attach` |
| `connect_remote` | `Subscribe`, `Forward`, `Notice`, `Adopt`, `Ask` |
| saving the transcript | `Save` |

A daemon restart is a new epoch; as the runtime does not survive it, one epoch is enough.
Sequence numbers stand for events. The queue of a subscriber is bounded (a slow desktop is
cut off), as are the journal and the buffer of events nobody subscribed to.

`stream`: two desktops, three events, all caps two, so that the journal, the queue and the
buffer all overflow; one desktop loses two connections of its own and one with the
daemon, so that a handover can fail half-way (0.73 million states). Fairness: client threads
read, the supervisor reconnects, adapters run. `HandoverEnds` excepts one case the code does
have: a connection that breaks between the answer to `AttachSession` and the subscription.

## AcpDriver

One thread drives the connection; a step is what it does between two awaits. `queue` is the
command channel, `prompts` and `perms` what is pending, `access` the `AcpAccessState`,
`optionsOk` `model_options_ready`; `caller` says that the session's worker waits for the
outcome of an approval change. `toAgent` is ordered (one pipe); `fromAgent` is a set, because
replies, notifications and requests are handled by callbacks of their own. `turn`,
`announced` and `exited` are the last events of their kind. `cancelled` and `mistaken` are history: the
prompts told to be cancelled, and those that the driver took out of `prompt_requests` for another's
completion. An agent announces a completion with the prompt's id or without (`named`); without one
`settle_extension` settles the session's oldest prompt (`Completed`), whichever it was that completed.

| code | actions |
|---|---|
| `DriverControl`, `Drop` | `Tell`, `Respond`, `SetToolApproval`, `TimesOut`, `PromptTooLate`, `Drop` |
| connection and `initialize_deerflow_approval` | `Connect`, `ConnectFails` |
| the command loop | `RejectPrompt`, `SendPrompt`, `SendPromptFails`, `Steer`, `RejectSteer`, `Cancel`, `Answer`, `RefuseApproval`, `RequestApproval`, `RequestApprovalFails`, `ApplyOptions`, `Applied`, `ApplyBreaks`, `Leave`, `Exit` |
| callbacks | `Closed`, `PromptSettled`, `PromptComplete`, `PromptLost`, `ApprovalSettled`, `PermissionAsked` |
| the agent (external) | `AgentRuns`, `AgentRefuses`, `AgentCancels`, `AgentIsAnswered`, `AgentConfigures`, `AgentSetsPolicy`, `AgentAsks`, `AgentEnds`, `AgentDies` |

Three kinds of agent are checked in one run: DeerFlow (approval and options must be
confirmed), one that is steered by further prompts and announces completion before it
replies, and one in full access. Structured user input behaves as permissions do and is left
out, as are options that change nothing, titles, usage and the rendering of updates.

`driver`: two prompts (a turn that is steered; one before and one after a change of approval),
one permission, two commands waiting (1.05 million states). The bounds make the model stop.
Fairness: the loop and the callbacks run, the agent takes what it is sent, answers
configuration requests and ends a turn it was told to cancel; it owes nothing else, not even to
begin a prompt, and may die instead. What is awaited is one condition for good once it holds, so the
two liveness properties are stated as "again and again it is not pending, or the driver exited".

## TaskStore

State: `mem` (each task absent, a skeleton or loaded), `dirty`, `persisted` and `written` (what
a save may skip), `disk` (list row, detail row, message rows), `removed`, the `jobs` between
their two locked sections, and the histories: `adopted`, what the daemon last made of a task with every
snapshot it took of its turns, `lost`, the snapshots that were lost when a projection was saved over a
skeleton, and `durable`, what the task was when a save last succeeded. `Kept` is `adopted` without
`lost`, which is what `NothingForgotten` promises; `SnapshotsKept` says it of the snapshots without the exception,
and does not hold. A handler runs under the lock of the
state and is one action; captures, rewinds and forks release it for git and the provider and
are two.

| code | actions |
|---|---|
| `SaveTaskState`, `RemoveSession`, `HydrateSession` | the same names |
| `StateStore::save` | `SaveSucceeds` or `SaveFails` (rolled back, the records half changed) inside each of them |
| `trim_idle_transcripts` | `Trimmed`: any subset of what may be released |
| `capture_turn_checkpoint` | `BeginCapture`, `StoreCheckpoint`, `GiveUp` |
| `rewind_session_to_message`, `fork_session_from_response` | `BeginEdit`, `StoreRewind`, `StoreFork`, `GiveUp` |
| stop and `load` | `Restart` |

Abstracted: a message is known by its position and a body out of few; one session per save;
which of two projections is older is left open; projects, queued messages, list metadata and blobs are
left out; a database that cannot be opened means a daemon that does not start.

`tasks`: a task with up to two messages, the second in two versions, and another with one, and
one job at a time: text grows, shrinks and changes, a task is forked into the other, and failed
saves meet releases and restarts (half a million states, the two versions being
interchangeable). Deadlock is checked. The theorems below
hold for any number of tasks, messages and jobs.

## ServerPool

State: `state` of each slot, `proc` and `home` of each process (a process is started once, so it
stands for its `PoolInner` as well), and for each thread where it is (`pc`), which server it has in
hand (`ref`), the slot it wants (`at`) and, in a destructor, where it goes on (`then`). The strong
count of a server is the number of threads that have it in hand. A thread holds one handle; one
that holds several is several threads of the model.

| code | actions |
|---|---|
| `any_live`, with the catalog that calls it | `AnyLive`, `Peek` (under the lock), `Inspect` (after it), `NoneLive` |
| `acquire_with_start`, the loop | `Acquire`, `Share`, `Supersede`, `Claim`, `Wait`, `SpuriousWakeup` |
| the drop of the superseded handle | `DropSuperseded` |
| `start`, until the probe answers | `Spawn`, `SpawnFails`, `ProbeFails` |
| its result, under the lock | `Started`, `StartFails` |
| clone and drop of a handle | `Clone`, `DropHandle` |
| `PoolInner::drop` | `Teardown`, then `Stopped` (the slot's own server, under its lock) or `Reaped` (an older one) |

A process may exit at any time (`Exits`), also between a look at it and what follows. The two pools
have the same protocol and differ in their keys; only OpenCode has `any_live`. Left out: dedicated
Computer Use servers, which have no slot and one owner, and a panic inside a start, which would
leave its slot starting for ever.

The safety properties are proved, so no regular run repeats them: `OneServer` (no two processes of
one slot live at a time), `HeldIsCurrent` (the process of a handle is its slot's current one) and
`WaitersAreWoken` (behind every thread that waits there is one that will notify). `MCServerPool` with
`pool.cfg` explores an instance by hand: three threads, two slots, two processes and four calls (0.96
million states), with `CallsEnd`, that every call ends with a handle or an error, which is beyond the
prover. Fairness: threads run; nobody has to drop a handle, to call again or to exit. That calls are
bounded matters to `CallsEnd` only: threads that acquire and drop for ever could keep one waiting,
for the condition variable is not fair.

## Proofs

`Scheduler_proofs` proves, for any number of processes, tasks, conversations,
occurrences and attempts, and any values of the time constants:

- `TypeCorrect`: `Spec => []TypeOK`;
- `Serialized`, `FirstInLine`, `NothingStranded`: `SerializedThreads`,
  `LeaseholderFirst` and `NoStrandedWork` are invariants;
- `TablesKeepContract`: `Spec => ImplementsContract`, the refinement to `Occurrences`;
- `FinishedIsFinal` and `RetriesAreQuiet`: `TerminalIsFinal` and `RetryMeansQuiet`;
- `PausesReachRuns`: `PauseReachesRuns` where there is one process, the only case in which it
  holds (a request cannot reach the runs of another process).

All but the last rest on the assumption on the constants alone; how late polls and slots are stored
(`Skew`, `SlotSkew`) is any number.

Why an invariant of six parts: that occurrences of a conversation are serialised is not
inductive. When a lease expires, its conversation no longer counts as busy for the claim
query, so serialisation rests on the order of candidates: the expired occurrence must come
before everything that waits (`LeaseholderFirst`), so that it is the one chosen. That, in
turn, holds because a waiting row has an availability no earlier than its slot and a leased one
has none (`RowsOK`), and numbers follow creation (`RowsInOrder`): a new occurrence comes after
those at work, or its slot is an earlier one and it overtakes, which both properties except. The exception
stays with a pair of rows, for slots and numbers never change. `NoStrandedWork` keeps the expired occurrence among the
candidates at all: were its task disabled, the order would not help. `IInv` is the
conjunction; `InitInvariant` and `StepInvariant` show it inductive, with one lemma per kind
of step and, for the claim, one per stage of the transaction (`InsertedTable`,
`DeadLetteredTable`, `GrantedTable`).

`FinishedIsFinal` and the refinement rest on the same two relations between a row and what a
step makes of it: `Lives`, the conditional updates of an attempt, of the reconciler and of
requests, and `Claims`, a claim's new row or new attempt. `RowsLive` shows that every step
relates every row by one of them, and each maps to a step of `Occurrences` or to none; that
conversations are worked on one at a time comes from `IInv`.

`RetriesAreQuiet` is about processes that do not see each other. Its invariant `AttemptsApart` says
that of all dispatches and runs of an attempt, in any process, one at most is not idle
(`Sole`): an attempt's number is granted once, by the claim that raised it, and a slot of a
higher number than the row's is free. So when a dispatch puts an occurrence back, its own run
is all there is to look at, and each way there has awaited it or never started one
(`BeforeRun`). `PausesReachRuns` follows the request: as long as the run of a cancelled row works
undisturbed or is about to be launched, the request that cancelled the row still has to
reach it (`Covered`).

`RuntimeMailbox_proofs` proves, for any sets of sessions, runtimes, mailboxes and requests,
from the assumptions on the "none" values:

- `MailboxTypes` (`TypeOK`), `OneWorkerPerSession` (`OneWorker`), `LiveRuntimesAreHeard`
  (`LiveIsHeard`), `RetiringLosesNothing` (`QuietWhenRetired`);
- `MailboxesAreActors`: `Spec => ImplementsActor`, the refinement to `SessionActor`.

`OneWorker` is inductive with the types: the registry changes only under its lock, to a mailbox
just created or, by the worker that leaves, to none. `LiveIsHeard` is not. A close drops the
driver first and ends the runtime in the hub two steps later, by the name the worker believes
in; a start may fail after it was announced. What is missing is what each worker knows at each
point (`Knows(m)`): from `Begin` until the driver is launched the hub names the runtime of the command
in hand, once the previous driver is dropped none is held, and after a failed start or a successful
close or removal the driver in question is gone. `IInv` is `TypeOK`, `OneWorker`, `LiveIsHeard` and `Knows(m)` for every mailbox. The
refinement rests on it: by `OneWorker` the registered mailbox's queue and hand are the session's,
and each step of the worker maps to a step of the actor or to a stutter.

`QuietWhenRetired` needs what a worker believes to be true, which is false in between: a start that
failed leaves neither runtime, an attach or a repeated start skips the command. `Attuned(m)` says, for each point
of the worker's loop, which runtime the hub and the backend can still have (`Near`): the believed one,
the one in hand, or none. A worker retires only believing in none. The hypothesis that no worker
of the session panicked is kept as a fact of the past, since a panicked mailbox stays (`IntactBefore`).

`RuntimeMailbox_proofs` also proves, for any desktops, numbers of events and connections, and any capacities
of the event stream, from `CapAssumption`:

- `StreamTypes` (`StreamTypeOK`), `TranscriptsAreInOrder` (`InOrder`), `NoOneExitsEarly` (`NoFalseExit`).

A proof module can serve two components because `RuntimeStream` and `ServerPool` prefix the names every
other module uses (`StreamInit`, `PoolNext`). `InOrder` says nothing about where the numbers come from that a transcript
has yet to receive. `Placed` does, desktop by desktop: what was passed on comes before what the adapter is being sent, that
before what waits on later connections, an earlier connection's before a later one's, and none of it is above the
cursor, which is all that the client compares a new event with. So the order holds whatever the wire brings, and nothing needs to
be known of the journal; that a replay sends exactly what is above the cursor is a lemma of its own (`AfterIsFilter`).
An adapter that has not begun has nothing, so a fresh cursor to start from does no harm. `Spare` counts the
connections (a restart may break one more), and `Lifetimes` is `NoFalseExit` with what it needs: the number of the exit
is given only after the driver ended, which is why a client that reads it may end.

`TaskStore_proofs` proves, for any tasks, bodies, bounds and numbers of jobs:

- `TasksTyped` (`TypeOK`), `NothingIsForgotten` (`NothingForgotten`), `AcknowledgedStaysStored`
  (`AcknowledgedIsStored`), `RemovedTasksStayOut` (`RemovedStayOut`).

That a task shows what was last made of it rests on how rows and records agree (`Sound`): a clean
loaded task equals its rows; a skeleton stands for rows that equal `Kept`; a task has its list row
just when it has its detail row (`RowsTogether`); what the connection noted as written is in the rows
(`WrittenIsStored`), which is why a save may skip them, and why they may only be recorded after the
commit. One lemma shows that a successful save keeps `Sound` for any tasks it is given, one that a failed one
does, one that releasing clean transcripts does; each handler then only has to show that the tasks it
hands to the save are sound. What a handler makes of `adopted` and `lost` comes to one change of
`Kept` (`KeptOf`); that a projection leaves a task with just what is kept of it, whether it was absent, a skeleton or
loaded, is `AdoptsKept`.

`AcpDriver_proofs` proves, for any number of prompts, permission requests and waiting commands:

- `DriverTyped` (`TypeOK`), `PromptsRunAsAnnounced` (`RunsAsAnnounced`) and `SuccessIsQuiet`
  (`SuccessMeansQuiet`).

Both properties compare what the agent does with what the clients were told, and neither is
inductive: the driver sees the agent only through what is under way. `Placed` says where a prompt can
be: on its way, in the agent, or answered, in one of these at most, and until its answer is heard in
`prompt_requests`, or else settled by mistake (`Listed`). `Rested` says that a reported success leaves
`prompt_requests` empty, and `Named` that only agents that are steered announce completions, so elsewhere nothing is
mistaken. `Confirmed`
follows a change of the approval through the request, the agent's answer and its callback: there is
one at most, no prompt is open while there is, and the approval that counts as confirmed is the
agent's and was announced. `Fresh` says that nothing was sent before the connection stood. Most steps
neither send nor settle a prompt or a change (`Plain`) and keep all five by one lemma; the others have
a lemma each.

`AcpDriver_proofs` also proves, for any threads, slots, processes and number of calls of the server pools, from
`ServerAssumption`:

- `PoolTyped` (`TypeOK`), `OneServerPerSlot` (`OneServer`), `HandlesAreCurrent` (`HeldIsCurrent`)
  and `NoLostWakeup` (`WaitersAreWoken`).

None is inductive: the slot does not say who started, drops or stops its server. `Starters` and
`Stoppers` give each slot that is starting or stopping exactly one thread that will say how it ended,
`Living` places every living process in its slot or in the hands of such a thread, `Running` gives a
slot's server a handle or a destructor to come, `Refs` says that who starts or stops a server has it alone, and
`Waiting` is the reason each waiting thread saw. The step proof has one lemma per kind of step, among them
one for steps that touch no slot and no process.

`RunLifecycle_proofs` proves, for any finite set of runs, any conversations, keys, readers and bound of
the table, from `RunLifecycleAssumption`:

- `TypeCorrect` (`TypeOK`), `RunsAlone` (`Exclusion`), `CountsAreTrue` (`MarksCounted`), `SomeoneFeeds`
  (`ReadersAreFed`) and, of every step, `KeysStay` (`KeysOutliveRuns`) and `CancelledStaysCancelled`
  (`InterruptedStands`).

What a run is and where its producer stands are separate variables, and each property needs to know what
one says of the other. `Producers` collects it: a registered run without a producer is the one being
created, a producer that works or is closing has its record, one that streams is in flight, one that
unwinds is interrupted, and one that is done has ended its stream (in-memory bridge). `Starts` says
the run between `Create` and `Launch` is in flight, which no other step of the loop can change, `Retires` that timers
and cleanups only concern runs whose producer is done, so a cleanup never takes a record away from under
a mark. With these, `MarksCounted` is inductive: a step that moves a producer into or out of a marked phase moves the count of
its conversation, and no other does (`Unmoved`). `Exclusion` then follows from the guards, a deletion being refused
because a marked run makes its conversation `running`. Evictions are `Kept`, the entries at some
positions in their order, written without recursion; `KeptEntries` shows that it keeps just those, from the
ranks of the positions (`Ranks`).

`StreamBridge_proofs` proves, for any readers and bounds, from `StreamBridgeAssumption`:

- `TypeCorrect` (`TypeOK`), `WaitersAreWoken` (`WaitersAreReachable`) and `StreamsAreLogs`: `Spec => ImplementsReplayLog`, so that every
  stream is a `ReplayLog`.

`BridgeInv` has three parts. `Buffer`: a stream that was not withdrawn holds exactly the numbers from
`start + 1` to its counter, and `start` is what the counter exceeds `queue_maxsize` by, so a place in
the buffer and a number of an event determine each other. `Current`: only the newest stream can be live, every older one has ended, and
the live one has ended if and only if its run is over or it was withdrawn; this is `WaitersAreReachable`. `Follows`: a
reader's last event exists, in the stream it holds or an older one. `ResolvedIs` and `NextEvent` turn the searches of the
buffer into arithmetic. A step of a reader is then a step of the log it holds and of the one it held
(`SeatComes`, `SeatReads`, `SeatFinishes`, `SeatLeaves`), a step of the producer one of the log it writes.

`AcpSessions_proofs` proves, for any numbers of connections, sessions, handlers, cleaners and slots, from
`MaxRunsPositive` and `NoneIsNoConnection`:

- `TypeCorrect` (`TypeOK`), `OneOperationAtATime` (`OneOperation`), `PurgedAlone` (`PurgeAlone`),
  `PromptsOwnTools` (`ToolsOfOwner`), `NothingStaysBehind` (`NothingLeftBehind`), `BoundedRuns` (at most
  `max_active_runs` prompts hold a slot) and, of every step, `GoneForGood` (`NoResurrection`).

`Handlers` ties every handler to the binding of its session: it is bound to the handler's connection, in
the phase that goes with the handler's step and under its task, so two handlers cannot share a session.
`Bindings` says what a binding without a handler looks like, also for a session that is not stored. `Holds`
says the same of cleaners: what one holds is reserved, stored and free, disjoint from what the others hold, and what it
has purged has no checkpoints; this is why a late prompt cannot write between a purge and its deletion.
`Slots` counts: free slots and holders together never exceed `MaxRuns`, although a slot may be lost.
A step of a handler concerns its session alone (`Works`), which makes one lemma (`WorkIsSafe`) do for most.

`ThreadCleanup_proofs` proves, for any numbers of hosts, conversations and jobs, from `NoneIsNoJob`:

- `TypeCorrect` (`TypeOK`), `ClaimsShield` (`ClaimShields`), `DeletionsAreClaimed` (`DeletesUnderClaim`)
  and, of every step, `FinalReports` (`ReportsAreFinal`).

`ClaimShields` is strengthened to `Untouched`: a conversation in use bears no claim at all, not even an
expired one, and is not old, so neither a claim nor a late heartbeat can produce a valid one. `Punctuality`
says what a heartbeat on time guarantees, from the claim until the deletion ends (`Holding`): the lease has
not expired if it is the job's, and the claim is the job's and valid. It needs `Ids`, one host per job, since a
takeover drops the claims of the lease's owner and a claim expires by the punctuality of whoever set it; and
`Awaited`, which ties a deletion to the job that waits for it. `Fresh` says what the row of a job is before it
begins, which makes the two unconditional writes safe. Most steps of a job touch no conversation (`Proceeds`)
or end it (`Idles`) and keep everything by one lemma each, and so do the two that forget a row (`Forgets`).

Every safety property of the runs is proved. Only model-checked is what the prover cannot
reach: all liveness (`EventuallyClosed`, `RunsAreRetired`, `ReadersAreReleased`, `EveryCommandServed`, `HandoverEnds`,
`CancelledTurnsEnd`, `ChangesSettle`, and `CallsEnd` of the pools), which rests on fairness and ENABLED. `SchedulerLive` has no theorems:
it is `Scheduler` on a moving window of time, made for liveness.

## Where the code falls short of its comments

Found while modelling, and not prevented by the code. Those with a name are stated in their module
as definitions that do not hold.

- `Scheduler.ReplayNeedsDecision`: a user who cancels the managed run of an occurrence has its prompt
  replayed, because the dispatch takes the `CancelledError` of the awaited run for its own shutdown
  (`scheduler.py` 1329); `mark_task_run_launched` says replay needs an explicit decision (742).
- `Scheduler.OneRunPerThread`: `mark_task_run_started` (660) does not ask whether the lease is still
  valid, so a process that stalls past it runs its attempt beside its replacement, though "no process
  may safely run two occurrences against the same conversation" (620).
- `Scheduler.StrictlySerialized`: "conversations share a checkpoint namespace and must be serialized
  across workers" (`scheduler.py` 578–579, also 620–621). A slot computed before its transaction waited for
  the write lock (`create_task` 249–289, `set_enabled` 331–360) may be stored when it has passed;
  once a lease has expired, a new occurrence for such an earlier slot is claimed ahead of the
  one that held it, and a poll with a stale clock then revives that one beside it. `SerializedThreads`,
  `LeaseholderFirst` and `Occurrences` except just these pairs (`Overtakes`).
- `RunLifecycle.RunningMeansExecuting`: a run displaced before its producer's first step leaves its
  conversation marked as running for ever, since the mark is dropped in the producer's finally block
  (`dependencies.py` 760). Also there: once the grace timer has fired, a reader that attaches before
  the spawned expiry runs loses its stream although the run goes on (900).
- `AcpSessions.WaitMeansBusy`: a queued prompt that has just been granted the slot and is cancelled
  twice loses it until the daemon restarts (`acp/runtime.py` 148).
- `RuntimeStream.NothingLost`: a subscriber that is cut off "reconnects with replay cursors, so no
  event stream is lost permanently" (`server.rs`, `broadcast`); events the journal dropped
  meanwhile are lost, and the cursor passes over the gap without notice.
- `server.rs`: `Goal` is not among the commands of `command_targets_runtime`, so it runs beside the
  mailbox, though `client.rs` 211–214 says controls go through it. After a worker panicked, a close
  leaves the hub's entry and journal behind, because the new worker believes in no runtime. An edit
  of a session without a runtime keeps its worker for ever (872).
- `AcpDriver.SuccessMeansDone`: a test is named `a_steer_only_settles_when_the_last_sdk_request_finishes`
  (`driver/acp.rs` 3735), but a completion without a prompt id settles the oldest prompt (417–427,
  2009–2015): of a prompt and the one that steers it, the completion of the second settles the
  first, and the reply to the second then reports the turn as a success while the first runs on.
- `TaskStore.SnapshotsKept`: "never let that stale projection erase the canonical Git snapshot"
  (`daemon.rs` 980–982). `SaveTaskState` hands `preserve_daemon_checkpoints` the task as it is in memory
  (391–406): once its transcript was released, that is a skeleton without snapshots, and a projection older than
  a capture replaces the task without it, for a capture does not make the task newer.
- `acp.rs`: a second prompt that a busy agent refuses is swallowed; a prompt rejected for its options
  while a turn runs reports that turn as failed; a permission asked for after a cancel stays pending.
- `persistence.rs`: a failed save has already noted projects as saved and removed tasks as deleted
  (1410–1434), so the former are skipped and rows of the latter stay and come back after a restart. A
  client that renames a task it never opened saves a skeleton, which the daemon takes for an empty
  task, deleting its rows (`model.rs` 1033–1035 says never to).
- `daemon.rs`: a rewind overwrites what was saved while it worked; a turn whose end was captured
  before its message was stored gets no checkpoint; `removed_session_ids` does not survive a restart.

## Mutants

Each property of a run has a mutant in its module, an operator marked `Mutant` that
changes a definition the way a plausible bug would: a dropped guard, a flag instead of a
count, an unconditional update. With it in place TLC finds the property violated. Mutants
are not used by the specifications.

## Not modelled

- `compute_next_run_at` is "some slot after the reading of the clock" in `Scheduler`; its daily form
  with a clock that repeats an hour would be a module of its own.
- The Redis bridge; `RunLifecycle` knows that its publications fail, `StreamBridge` models the in-memory one.
- Remembered permission decisions (`acp/permission.py`), goals, subagents, skill publication, the
  container pool, the pool of MCP sessions and the memory queue: each has state worth a small module
  and shares none with those above.
- The sidecars' delivery state and the ACP bridge's translation between protocol versions.
- In the desktop: the drivers of other agents, terminals, git and workspace commands, the composer and
  every view. Queued messages, blobs and projects of the task store. Dedicated servers, which no pool knows.
- Middlewares, models, routers, configuration, tracing, the SDK and the checkpointers: no state of
  their own, or calls to services.

Worth proving next: refinements of `RunLifecycle` and `AcpSessions` to what their clients are promised.

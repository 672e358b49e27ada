# A verification project for DTTN-CLI

DTTN-CLI is a terminal coding agent: a TUI, a headless runner, an ACP endpoint
and a leader process drive *sessions*; a session turns prompts into turns of a
language model that calls tools. This directory holds TLA+ models of its
concurrent core, the TLC instances that check them and TLAPS proofs.

Paths below are relative to the repository; `session/` stands for
`src/crates/codegen/xai-grok-shell/src/session/`, `impl/` for
`session/acp_session_impl/`, `breaker/` for
`src/crates/common/xai-circuit-breaker/src/`; `auth/`, `leader/` and `agent/` are
directories of `src/crates/codegen/xai-grok-shell/src/`, `sampler/` is
`src/crates/codegen/xai-grok-sampler/src/`, `scheduler/` is
`src/crates/codegen/xai-grok-tools/src/implementations/grok_build/scheduler/`.

## 1. Inventory

| Component | State | Operations | What is hard | What makes it correct |
|---|---|---|---|---|
| **Session actor** (`impl/{run_loop,prompt_queue,tasks_cancel,turn_end,interjection,notification_drain}.rs`) | locked `State`: `pending_inputs`, `running_task`, rewind and suppression flags, pending notifications; unlocked: the pin `current_prompt_id`, `pending_interjections`, monitor buffer, `is_turn_active`, wait count, goal gate | prompt, send now, interject, edit / remove / clear / reorder rows, cancel (four kinds), completion, inject notification, drain | one actor, many spawned turns, two other tasks that start turns; every handler awaits several times | one turn at a time, nothing lost, right terminal records, no stranded input |
| **Circuit breaker** (`breaker/{breaker,window,state}.rs`) | five atomics, a window under a mutex | `check`, `record`, `is_open`, `error_rate` | lock-free, requests dropped without an outcome | slots, mirror, recovery |
| Turn engine (`impl/turn.rs`, `tool_calls.rs`) | the conversation, tool calls in flight | rounds, tool dispatch, recovery | runs beside the actor, can be aborted at every await | closes what it opened |
| Background-task reminders (`xai-grok-tools/src/reminders`) | reported and delivered ids | collect, mark | two sets mark the same completion | each completion told once |
| Goal tracker (`impl/goal.rs`) | status, budget, loop gate | set, pause, continue, classify | drives turns from inside turns | no runaway loop, no duplicate continuation |
| **Sampler** (`sampler/`, `impl/sampler_turn.rs`) | active requests and their tokens; a request's attempts and two budgets; the event channel; the turn's barrier | submit, cancel, attempt, retry, reap, shut down; submit and collect, drain, drop a turn | tasks on several threads, cancel against back-off and stream, a panic, a turn whose future is dropped | budgets, nothing sent for a turn that gave up, streams in order, every turn answered |
| Chat state (`xai-chat-state`) | items, dangling tool calls | append, repair, truncate, snapshot | repair after an abort | every call has a result |
| **Leader** (`leader/{lock,mod,server,client}.rs`, `agent/app.rs`) | `leader.lock` and what is written in it, `leader.sock`, who has which open or locked | find, adopt, evict, spawn, hand over, bind, relaunch, exit | every step is a system call of some process; paths are unlinked while files are open; timeouts; kills | one leader, every call returns |
| **Auth refresh** (`auth/manager.rs`, `auth/manager/`, `auth/{flow,recovery}.rs`) | `auth.json` and its lock file; in each process the credential, the verdict, the transient budget, the mutex, the sleep gate | refresh, adopt, recover, start up, enrich, log in, log out; acquire, break and drop the lock | processes share one rotating token, and a second use revokes the login; locks can be broken; machines sleep | a refresh token is spent once; no lockout without a cause |
| **Scheduler** (`scheduler/{actor,types,create,delete}.rs`, `xai-grok-tools/src/persistence.rs`) | the tasks of a session, in memory, in a snapshot, in `resources_state.json`; what the log and the panel know of them | create, delete, fire, fire as missed, announce, drain; save, write, load | timers over several lives of a session; two records written apart; saves only where a tool call ends | fires are spaced, tasks survive, the panel agrees |
| Subagent coordinator | children | spawn, complete, cancel | a parent that is cancelled | no orphan |
| MCP servers | connections | start, restart | late initialisation | prompts wait, not fail |
| Computer hub SDK | connection, channels | connect, demultiplex, admit | reconnect with requests in flight | one answer per request |
| Persistence | update log | append, replay | crash between two writes | replay gives the state |
| Pager, configuration, models, telemetry, voice, markdown, sandbox, hooks | - | - | rendering and I/O | not modelled |

How they interact: clients send `SessionCommand`s over a channel to the actor;
the actor spawns a turn task and gets its end back over a second channel, read
first (`biased` select); the turn reads and writes the unlocked flags and takes
the state lock for sweeps; background tasks reach the actor through the
notification bridge; a turn calls the sampler, the sampler and the storage
client consult a breaker.

`PROJECT.json` lists every component with its status, and under `hazards` what
is hard to test, each at its line, with the properties aimed at it.

## 2. Modules

| Module | Models |
|---|---|
| `Lists`, `ListTheorems` | filtering a list, and what that, appending, inserting and removing do to lists, their elements and their order |
| `PromptQueue` | the pure operations on `pending_inputs`: insertion behind the running slot, the send-now scan, the sweep, the reorder |
| `SessionActor` | the actor, its turns, the MCP starter, the plan-approval task; extends `PromptQueue` |
| `SessionProperties` | types, invariants, action and liveness properties of the session, the refinement mapping |
| `PromptLifecycle` | abstract: one live prompt, begun once, one answer each |
| `SessionActorProofs` | lemmas about the queue; theorems about the session: every safety property of its runs, and the refinement |
| `CircuitBreaker`, `CircuitBreakerProofs` | the breaker and its window, one atomic access per step; theorems |
| `AuthFileLock` | abstract: what the lock of `auth.json` promises its users |
| `AuthLock`, `AuthLockProofs` | `auth/manager/lock.rs`, one system call per step, which implements `AuthFileLock`; the proof that it does |
| `AuthRefresh`, `AuthRefreshProofs` | processes, credentials, the identity provider and everything that refreshes; extends `AuthFileLock`; theorems |
| `Sampler` | the sampler actor and its request tasks |
| `SamplerTurn`, `SamplerProofs` | a session's turns and the drainer; extends `Sampler`, and composes the two; theorems about both |
| `Leader`, `LeaderProofs` | clients and leaders that meet at a lock file and a socket; theorems |
| `Scheduler` | the scheduler's actor, the file of the session's resources, the panel, over several lives |
| `SchedulerProperties`, `SchedulerProofs` | its types, invariants and action properties; theorems about those of `sched_lives` |
| `MCSessionActor`, `MCCircuitBreaker`, `MCAuthLock`, `MCAuthRefresh`, `MCSamplerTurn`, `MCLeader`, `MCScheduler` | the instances for TLC |

Two compositions go through an abstract specification: `AuthRefresh` takes the
file lock as `AuthFileLock` describes it, broken locks included, and `AuthLock` shows
(TLC, and TLAPS for every instance) that the code is such a lock. `SamplerTurn` is a
joint model of turn, drainer and actor over the two channels between them.

Definitions marked *faulty* are used by no specification: each is a plausible
mistake (several are mistakes that comments in the code recall), and a property
earns its place by failing when one of them replaces the definition it follows.

### SessionActor and the code

A handler is a list of steps, `agenda`; a step is one locked section, or
unlocked code up to the next await that matters. Any other task may run between
two steps; the actor takes a completion, else a command, when the agenda is
empty (`Ready`). So:

- `Cancel` = `snapshot` (the pin and the named prompt, before the lock),
  `teardown` (the locked section), `ungate` (the goal loop's flag), `abort` (after the
  check for dangling tool calls, an await), `answer` (the pin, the terminal record and
  the replies), `start`;
- a completion = `HandleCompletion`, then `sweep` (the monitor buffer goes to the pending
  notifications), `turn_end`, `flush` (which drains the interjections at once into
  `stranded`), one `requeue` for each of these (each takes the lock for itself, the last
  interjection first), `start`, `drain`;
- `Prompt` = `queue_input` with its sweep of synthetic prompts and its automatic
  send-now, then a cancel or a start;
- a turn = `spawned`, `run` (merging interjections and monitor events, parking in
  blocking waits, setting the goal, consuming completions), `late`, `tail` (past
  the last merge), `unscoped` (scope guard dropped), then the completion; or
  `aborted` until its guards have dropped.

Text, attachments, usage and replies are left out. A prompt is an id used once;
`fate` records where it is or what became of it, `terminals` counts its
`TurnCompleted` records, `shown` is the last `queue/changed` broadcast, and `hushed` says
that a cancel silenced the notifications and the user has not come back since.

Steps that are merged, and why nothing is lost by it: the work of `queue_input`
before its lock touches nothing other tasks read; the pin is set while the state
lock is held, so a promotion is one step; the gate of a stale completion is reset in
the same poll. `answer` is one step although awaits lie between the clearing of the pin,
the record and the replies (`impl/tasks_cancel.rs:526-616`): the actor is in the handler
until then, so no command and no completion comes between, and the two tasks that start a
prompt meanwhile set the pin in the step that starts it; what the model leaves out is
what these tasks, and the turn one of them has started, do between the clearing and the
replies, and none of it touches the prompts that are being answered. Turns are polled
in any order: one may begin before the guards of an aborted one have dropped. Each turn
parks at most once. A row edit that the code ignores (stale version, running row) is a
step that is not enabled. A drained batch of notifications becomes one prompt with the id
of its first.

### CircuitBreaker and the code

Callers are the tasks that send requests. Each load, store and read-modify-write
is a step; a section under the window's mutex is one step. Instants are kept as
ages, each up to the age beyond which it cannot matter, so that behaviours are
infinite over finitely many states. `parallel` says which runtime the callers
are on: on a current-thread runtime a call, which never awaits, is not
interrupted by another. The clock reading and the store of `opened_at` in
`trip` are one step. Steps interleave in a total order: the Acquire/Release
orderings of the code allow no more for one location, and reorderings between
locations on weak memory are not modelled. `force_half_open` (a test hook) and
the observers are left out. `streak` and `lastGrant` are history variables that
count the probes admitted during each other's lease.

### AuthLock and the code

An acquisition is a loop of rounds: the instant try, the blocking wait under a
deadline, two tries of the stale fallback; round 0 is the nonblocking request.
`open`, `flock`, the unlink, the write of the holder's info and the stat of the path
are steps of their own, and between any two another call may unlink the path. An
inode number is reused once no call and no path has it, which is what makes
comparing inodes worth checking. A call may keep the guard it has and ask again
(`keep`), as `run_auth_flow` does. `InfoAges` stands for both ways in which a
holder looks stale, a dead pid and an old timestamp, and may come at any time.
The info is read when the flock is refused, in the same step. Left out: the blocking
thread that a cancelled wait leaks, and locks on systems without flock.

### AuthRefresh and the code

A credential is a number in the order of issue and stands for the access token
and the refresh token that came with it; `family` is the login it descends from. The
identity provider is external: an exchange rotates the token, a second use of a
token kills the family, an answer may be lost. `pc` says where a call is between two
awaits; `auth()`, `unauthorized_recovery()`, `run_auth_flow` and the enrichment that
`update()` spawns share `refresh_chain`'s steps, under the mutex and the file lock.
`reload`, sibling pick-up, login, logout, crash, and the power listener are steps of
the environment, as is a lock broken under its holder. `spent`, `respent` and `forfeit`
are history: a token has a reason to be spent again when its lock was broken, its
successor was lost (a crash, a lost reply, a failed write), or somebody wrote or
removed it without the lock. Left out: devbox recovery, team pins, API keys and
legacy entries, external refreshers, the grace after a hard expiry.

### Sampler, SamplerTurn and the code

Requests are numbered as they are submitted; the session uses a fresh UUID each
time. An attempt connects, streams and ends in one of six classes of error, those
`classify_error` tells apart; what the decision is and what it costs is `Decision`
and `Retry`. A back-off sleep is part of the step that decides on it: nobody looks at
the cancellation token until it is over, which is what the code does. `DriveL2` polls
the token and the stream in that order (`biased`). The event channel is bounded in
the model only. A turn installs its barrier, submits, waits for the answer, waits for
the barrier, sends its tool calls; it may be dropped at each wait, and
`CancelOnDrop` then cancels the request. Contents, metrics and the doom-loop detector
are data; `UpdateConfig` is left out.

### Leader and the code

A client is `connect_or_spawn`, called again and again; a leader is `run_leader` from
its first `try_acquire` to the drop of its lock. `path` is the inode `leader.lock`
leads to, `fd` what a process has open, `locked` who has the flock of its file. A
timeout may come at any time. Merged, because no await and no other process's
write that matters comes between: the stat of the socket, the read of the pid and the
liveness check; a flock and the pid written under it; `cleanup_socket` and the spawn
that follows. `SIGTERM` ends a leader without its `Drop` (`run_agent_command` exits
the process). A binary version is a number. Left out: reuse of pids, Windows, the
300 s timeout of a leader that never becomes ready, a server's removal of its
socket after the grace period, and what clients and leader say to each other once
connected. A spawn fails when every leader of the instance was started.

### Scheduler and the code

The actor starts in `missed` (fire the one-shots whose time passed), goes through
`prune` and `announce`, and then serves, in this order, the cancellation, the commands
and the timer. Its three starting steps are apart because it awaits the lock of the
resources between them. `wire` is the channel to the bridge, which appends `Created` and
`Removed` to `updates.jsonl` (`logged`) and forwards everything to the client
(`panel`). The tail of every successful tool call hands a snapshot of the resources to the
writer, which keeps the newest; nobody else saves: not a deletion from the panel,
not a fire, not the shutdown. `DropCalls` is the cancel of the session's turn: its tool calls are
aborted at whatever await they are (`AbortOnDrop`, `impl/tool_calls.rs:484-497`), also between
the actor's answer and the save, so that a task exists, was answered for and is in no
snapshot. The history variable `behind` says that a change was lost in this way, or by a
failed write, and that nothing was saved since. `Cancel` is the drop of the toolset, `Die` the end of the
session's runtime, with whatever has not run yet, or of the process. `Resume` loads the
file and replays the log to a new client; the actor starts after that. Tools are called by
the session's turn (`own`) or by a subagent, whose toolset shares the actor and has a file
of its own. The clock is a small number; an append to `updates.jsonl` is immediate, and
`write_json` is atomic because it renames. Left out: `List`, which changes nothing, the
provisional row that `/loop` shows for an instant, and wording and parsing of intervals.

## 3. Runs

| Run | Instance | Shows |
|---|---|---|
| `turns` | a client's prompt beside one of a restored plan approval or beside an interjection, all cancels, MCP starter, waits; fair | `TypeOK`; `TurnIffRunning`: no orphan turn, no dead running task; `OneTerminal`: one `TurnCompleted` per started turn, none if rewound; `NoPhantomWait`; `PinAgreesAtCancel`: the debug assertion of `cancel_running_task`; `ImplementsLifecycle`; the liveness property `UserInputIsHandled` |
| `rows` | two prompts of two clients, a goal, one edit each; or a cron prompt | `RunningIsFront`, `MirrorRows`, `NothingLost` under all row commands; `SendsAreFifo` |
| `background` | a prompt; two notifications, both lists overflowing at one; or an auto-wake and a cron prompt; all cancels | `IdleHoldsNoNotes`; `SilenceLasts`: from a cancel until the user is back, no notification starts a turn, whatever ends or is cancelled meanwhile; `CancelEndsOnlyWhatRan`: the index-0 rule never takes a prompt that did not run |
| `breaker_calls` | two callers, window of two samples, one slot, both runtimes, fair | `FailuresCounted` (with the types), `MirrorAgrees`, `SerialProbesWithinSlots`, and the liveness property `SheddingEnds` |
| `auth_lock` | two calls, six inodes | `LockInv`: a guard owns the flock of its file; `KeepsPromise`: `AuthLock` implements `AuthFileLock` |
| `auth_spend` | two processes, one call each for every job, three credentials, one fault | `SpentOnce`: a token is spent again only for a cause; `LockoutHasCause`: a sticky verdict is about a credential the provider refuses, in a family with a double spend |
| `auth_process` | two calls of one process, two credentials, power listener, two faults, fair | `NoStraddle` (with the types): no exchange is on the wire in a sleep that was acknowledged as drained; `CallsReturn` |
| `sampler` | two requests, one chunk each, two retries, one doom-loop retry, one auth retry, one panic, fair | `AttemptsWithinBudget`, `BarrierWillOpen` (with the types); `AbandonedSendsNothing`: no attempt is made for a turn that gave up, once the actor has read its cancel; `StreamsDoNotMix`; `ToolCallsFollowText`: tool calls come after the text unless an earlier turn left a Completed event behind; the liveness properties `TurnIsAnswered`, `ActiveDrains` |
| `leader_calls` | one client, two leaders, three versions, one started by hand, killed or shut down; fair | `TypeOK`; `SplitHasCause`: two leaders lead only if a lock file was unlinked under a process; `HolderSeesNoLeader`; the liveness property `CallReturns` |
| `leader_doc` | violation: two clients of different versions, two leaders, no fault | `OneLeader`: a spawner that times out unlinks the lock file its leader has open, and two leaders lead |
| `sched_lives` | two requests (a loop that fires at once, a one-shot), two lives ended by a crash or a shutdown, one failed write, clock up to 2 | `FiresAreSpaced`; `RemovedIsFinal`: nothing is heard of a task after its removal; `LeavesFileForCause`; `CreatedIsSaved` (with the types): an answered task is in the file unless a dropped call or a failed write left the file behind, and the next tool call mends that; `PanelShowsTasks`: the panel shows every task, although a shutdown logged them all as removed, and a row without a task is one the log restored |
| `sched_deleted` | violation: lives that end in a settled shutdown, no failed write | `DeletedStaysDeleted`: a deletion from the panel is not in the file |

Deadlock is checked in every passing run but `sampler` and `sched_lives`: there a
session may close for good, and the requests of the instance may all be used up.

**Bounds.** Ids are used once, so the sets of ids bound the length of a
behaviour. Races of the session are between one turn, its successor and one
command: two prompts of the kinds concerned, with a cancel that may be given any
number of times, reach them. Two prompts are needed to see an overtaking, a
lost or a swapped row; lists that overflow at one element exercise their caps;
one edit per row distinguishes a stale version. Three runs ask two questions of one
instance, and a state constraint keeps them apart: in `turns` (`PlanOrInterjection`) either a
plan is approved, and the session torn down only after the MCP starter is done, or an
interjection is sent and nothing rewound; what the constraint excludes are commands and a
plan's approval, which nobody is obliged to give, so that it cuts no fair behaviour short; in `rows` (`EditsOrCron`) either rows
are edited or a cron prompt is sent and no turn waits; in `background` (`NotesOrWakes`)
either notes come, or the wake and the cron prompt with interactive cancels only.

For the breaker, two callers reach every pair of overlapping calls; `OpenFor = 1`,
`MaxPause = 1` let a reading be fresh or stale when used; `Word = 4` is the smallest
word in which the pending additions of two callers do not wrap by themselves; a
window of two samples overflows, evicts a prefix and keeps a suffix.

`MaxInode` is one more than what can be open at once, so that a creation never waits
and a number is soon reused. `MaxCred`: three credentials are one rotation and one
more, or a login between them. `MaxFaults = 1` in `auth_spend` leaves each history with one
cause, so that a property that names causes has to find the right one; `auth_process` has
two, because a call of `run_auth_flow` may lose both the locks it takes. `MaxBlips` is
the code's `MAX_CONSECUTIVE_TRANSIENT_FAILURES`, 3, cut down to 1 in both runs; the theorems
hold for every value. In `sampler`, `MaxChunks = 1` is enough
for text that comes late, `MaxQueued = 3` for a full backlog of one request and the
next one's first event; budgets of one and two exhaust. In `leader_calls` a leader
starts once, two of them make a split; one client is enough for it because leaders may
also be started by hand. Larger instances were run outside the project: two clients
and two leaders without faults (12 million states), and with one fault as long as no
lock file is torn (4 million): the three invariants held.

In `sched_lives` a loop and a one-shot of interval one come due together and apart by the
time the clock is at two; `Expiry = 2` lets a loop expire; two lives show what one leaves to
the next, and the fault is a write that fails. Two requests do not reach the limit of two
tasks; with a limit of one, and with a clock up to three, the same properties held outside
the project.

**Fairness.** `SessionActor!Fairness`: the executor polls a ready task, so the
actor's steps, the plan-approval task and the stages of a turn are weakly fair;
that a turn leaves its rounds and its waits (`TurnTails`, `TurnUnparks`) is the
bound on rounds, tool timeouts and sampler retries. Nothing is assumed of
commands, of the MCP starter, of merging or of the goal. `CircuitBreaker!Fairness`:
callers are polled, requests end (they have a timeout), time passes, and callers
keep calling `check`; without traffic nothing could be admitted. No fairness is
assumed on a request being recorded rather than dropped.
`AuthRefresh!Fairness`: a call that can go on does, its waits for lock and provider have
timeouts, and tokio's mutex is a fair queue (strong fairness of `TakeMutex`).
`SamplerTurn!Fairness`: ready tasks are polled and sleeps end; nothing is assumed of a
server that has not answered, so the two liveness properties say *if every attempt's
connection is answered or times out*. `Leader!Fairness`: every process that can go on does;
a timeout comes when nothing else does; a leader that accepted a relaunch ends;
`Connect` is strongly fair because `wait_for_socket_connectable` polls every 100 ms for
ten seconds, so a listening leader is met if it is there again and again. `CallReturns`
has one exception, which the code does not handle: a leader that leads while the path of the
socket is not its own (`Unreachable`) keeps clients in their loop for as long as it lives.
`Scheduler` has no fairness: what it promises in time depends on a clock that does not
outrun the actor, which a model of it could only assume.

**Findings.** The violation runs are described in `PROJECT.json`, each with the line
it contradicts. Seen with TLC and not given a run: the Completed event of a dropped turn's
request opens the next turn's barrier, whose tool calls then go out before its text
(`impl/tool_calls.rs:2416`, against `session/acp_session.rs:1005`; the exception of
`ToolCallsFollowText`); a one-shot that fired after the last tool call of a session fires
again when the session is resumed (`scheduler/actor.rs:124`, against "fires once",
`create.rs:30`), because neither a fire nor the shutdown saves; session-only tasks are saved
like any other (`types.rs:82` says that they are filtered out); a rewind cancel turns the notifications on
again and starts the next prompt, but drains nothing, so that pending notifications
wait in an idle session for the next event (`impl/tasks_cancel.rs:359`), and `rewindable`
outlives a turn that emitted nothing, so that a rewind cancel may take a prompt that had not
begun in the same way (`IdleHoldsNoNotes` exempts sessions in which a prompt was rewound); an interjected row stays in the queue and runs next, although a comment says
that it leaves; a scheduler-fired prompt that is awaited is swept; a preempted
auto-wake stays marked as reported; two probes can be admitted on one slot, which
is counted before the claim is stamped; the cap of pending notifications is not applied
by the sweep of the monitor buffer; the goal gate may change between a send-now's
decision and its abort; the last prompt's cancel broadcasts no queue; a late wait guard
may uncount the next turn's wait; a reorder puts synthetic prompts in front of all
rows; `trip` publishes `Open` before `opened_at`, so that an overlapping `check` can skip the
cool-down and leave `is_open()` wrong; the spawner of a leader keeps whatever leader
answers at the path, whatever its version (`leader/mod.rs:1290`), and a leader that
shuts down holds its lock without a socket for two seconds, which `run_leader` takes for
a spawner's (`agent/app.rs:961`); a row the log restored and the file does not have cannot be
deleted, because the actor announces no removal of a task it does not know
(`scheduler/actor.rs:250`).

## 4. Proofs

TLC shows a property on the instances above; these theorems hold for every value
of the constants that satisfies the named assumptions (`KindsAreDisjoint`,
`UsersAreFinite`, `NoneIsNoId`, `OwnerIsClient`, `KnownModes`, `Bounds` for the
session; `DurationAssumption`, `LimitAssumption` for the breaker; `TaskAssumption`,
`InodeAssumption` for the lock; `TaskAssumption`, `ProcAssumption`, `JobAssumption`,
`BoundAssumption` for the refresh; `SamplerAssumption`, `AuthRetriesAssumption` for the
sampler; `ProcAssumption`, `VersionAssumption`, `BoundAssumption` for the leader;
`RequestAssumption`, `BoundAssumption` for the scheduler).

- `SessionActorProofs!RunningStaysInFront`: `Spec => []RunningIsFront`. The
  inductive invariant is `QueueTypes /\ RunningIsFront`; each queue operation needs a
  lemma that it keeps the front and the type
  (`Keep` is a recursive function, and its lemmas, in `ListTheorems`, go by induction on
  its length).
- `TypeCorrect`: `Spec => []TypeOK`, from the same invariant (a completion takes
  the head of a queue that must not be empty).
- `PinNeverDisagrees`: `Spec => []PinAgreesAtCancel`. The assertion alone is not
  inductive: the pin is read one step earlier. Its strengthening says that the
  agenda is always a suffix of a handler's list, that a pin that is set names the
  running prompt except while a cancel is between its lock and its answers, and
  that during `teardown` the pin that was read is the running prompt's, or none.
- `NothingIsLost`: `Spec => []NothingLost`. The set equation is inductive only with the lists
  that the steps move ids between: `Ledger` says that an id is in the queue or being closed
  if its fate is `queued`, in the interjections or among the stranded ones if it is
  `buffered`, in the pending list or the monitor buffer if it is `pending`, once each, and
  that a job holds closed prompts only until it answers them. `Ground` is `Ledger` with the types, the front and the pin;
  the invariants below are inductive given `Ground`.
- `WaitsAreReal`: `Spec => []NoPhantomWait`. The count is never above the number of parked turns,
  except while a cancel that has aborted a parked one has not reset the count yet
  (`WaitsCounted`).
- `OnlyTheRunningTurnLives`: `Spec => []TurnIffRunning`. The invariant `Life`: of what is in the queue only the
  running prompt has begun (`Begun`), and a turn that lives, or whose completion is in the
  channel, is the running one's or that of a task a cancel has taken and not aborted (`Tasks`).
- `OneRecordEach`: `Spec => []OneTerminal`, from `Life` and `Records`: the records are due for
  the prompts that were started, do not run, are not being closed and were not rewound, and
  what a cancel will record is what it closes.
- `CancelsSpareTheWaiting`: `Spec => []CancelEndsOnlyWhatRan`. A cancel finds a user prompt at the front
  of the queue without a running task only if a start was due and did not come. `Waits` says that
  when no start is on the agenda and nothing runs, the queue holds plan prompts at most, which
  the plan-approval task starts itself.
- `SilenceIsKept`: `Spec => SilenceLasts`. One step alone makes a notification a prompt,
  the drain of an idle session (`OnlyTheDrainQueues`), and it looks at the flag in the code,
  not at what the user did. `SilenceInv` connects the two over the steps of every handler: the
  flag is set from the locked section of the cancel on, and of what resets it, a user's prompt,
  a send now and a rewind, each ends the silence in the history as well.
- `IdleSessionsAreDrained`: `Spec => []IdleHoldsNoNotes`. `Quiet` says what the agenda owes: a
  notification that waits in an idle session has its drain as the last step to come, and a
  send that cuts a turn leaves its prompt in the queue up to the answers. The attempt
  to prove an earlier form showed the stale `rewindable` above: the property then exempted only
  prompts that had begun.
- `SessionImplementsLifecycle`: `Spec => ImplementsLifecycle`, the refinement. An id waits if it is in the queue and
  does not run, is live if it runs, closing between a cancel's lock and its answers, answered
  once it has left. Each step of a handler is one step of `PromptLifecycle` or unseen: what
  queues, removes, sweeps or consumes is an `Accept` with what it withdraws (`Moves` says which
  fates a step may change, and how), a start `Begin`, an owned completion `Finish`, the locked
  section of a cancel `Close` and its last step, `CancelAnswers`, `Answer`.
- `RowsAreMirrored`: `[]MirrorRows`, for clients that do not tear the session down (a teardown,
  of a subagent's session, empties the queue and broadcasts nothing). `Mirror`
  holds at every step, also inside a handler: the steps that do not broadcast move no row
  that waits. `ModesSent` says that no other cancel becomes a teardown. The run `rows` sends no
  Cancel command; the theorem covers interactive and rewind cancels too.
- `SendsRunInOrder`: `Spec => []SendsAreFifo`. The order is inductive with `Stacked`: in front of
  a send there are only sends and the running prompt, so the place found for the next one,
  the first that is followed by no send, is behind them all (`NothingSentBehind`).
- `InsertSendNowProperties`: what a send now makes of any queue, exactly. The prompt is
  new at one place, every other keeps its order; in front of it are only sends and the running
  prompt, right behind it is no send, and a running prompt at the front stays there.
  `ReorderProperties`: a reorder yields a queue again, and the running front stays.
- `CircuitBreakerProofs!MirrorNeverLies`, `ProbesBounded`: `Spec => []MirrorAgrees`
  and `Spec => []SerialProbesWithinSlots`. The invariant `IInv` says that without
  overlap at most one caller is inside the breaker, what each point of a call
  knows of state, mirror and counter (`Midway`), and what holds when nobody is
  inside (`AtRest`): in half-open the counter is at least the probes granted in
  each other's lease, and the stamp the code stores is that of the last of them.
  It was checked by TLC, also with `half_open_max_probes` at the limit of the word.
- `CountIsExact`: `Spec => []FailuresCounted`, also for overlapping calls. Besides the
  types the invariant is `Windowed`. A push appends to the list or to its tail, an eviction
  keeps a suffix; that the failures of a suffix are those of the list less those of
  the dropped prefix is a bijection between index sets (`DropCounts`), so that no
  induction over the window is needed.
- `AuthLockProofs!LockCorrect`: `Spec => []LockInv`. Types and `GuardsOwnFlock` are
  inductive once it is added that the nonblocking request never stats (`Staged`).
- `AuthLockProofs!LockRefines`: `Spec => KeepsPromise`, the refinement. The live lock is
  the flock of the inode at the path, if its holder has a guard for it. Every step is
  a step of `AuthFileLock` or changes nothing its users see: a failed attempt is a
  `Timeout` in the last round and unseen before it (`GoOnSeen`), the stat that finds
  its own inode is a `Grant`, an unlink under a holder a `Break`. A new file
  cannot be mistaken for one that a guard has, because its number is free.
- `AuthRefreshProofs!NothingStraddles`, `TokensAreSpentOnce`, `LockoutsHaveCause`: the
  invariant has three layers, each inductive given those before it. `Basics`: the
  types; a call that trusts its lock and was not exposed holds the live lock of the file
  (`Backed`); an acknowledged sleep leaves nothing on the wire (`Dry`). `Settles`, for
  the spent tokens that nothing excuses: the call that spent one has not let go of the
  file yet, or the file holds a later credential and no other call that may still spend
  has read the old one. `Refused`: what a verdict, a rejected answer or a memory of one
  blames is a credential the provider refuses, in a family with a double spend.
  Writing this invariant showed a step the model lacked: a call whose second lock breaks
  (`run_auth_flow`) had no way on. The run `auth_process` now has two faults to cover it.
- `SamplerProofs!AttemptsAreBudgeted`, `BarriersOpen`, `AbandonedIsQuiet`, `StreamsAreApart`,
  `TextComesFirst`: the invariant relates the actor's queue of commands, the
  table of active requests, the phases of the tasks and the event channel. Requests are
  numbered in the order of submission, so the number of submissions handled, those
  still queued and those submitted add up, and a request's task, its entry and its
  cancel command follow from where its number is. Events of a request stand in the
  channel in the order of its phases, with nothing of it behind its Completed.
- `LeaderProofs!SplitsHaveCause`, `HoldersSeeNoLeader`, `TypeCorrect`. The invariant is
  `Places` (who has a file open and locked at which point of its program), `OneHolder`
  (a flock has one holder), `PidInLocked` (a live leader's pid is in the inode it keeps
  locked), and `OneFile`: as long as no lock file was torn, whatever is open is
  what the path leads to. Two leaders that lead have then locked the same inode, and
  are one. That an inode is free when a file is created is a counting argument
  (`FreshIsInode`).
- `SchedulerProofs!CreatedTasksAreSaved`, `NoTaskIsLost`, `RemovalsAreFinal`,
  `TasksDoNotFireEarly`, `PanelShowsEveryTask`: every property of `sched_lives`, for any
  number of tasks, lives, requests and failed writes, and any clock. The invariant `IInv`
  follows a task through its three copies: in memory, in the file, and in what the file
  will hold once the writer is done (`Saved`). `NewIdsAreFresh` says that no copy and no
  history knows an id before its creation is handled; `Losses` says that a task missing from a
  later copy has ended (deleted, fired as a one-shot, expired), in memory as long as the
  actor has not drained; `Spaced` says that a task that fired and stays counts its next
  time from then. The panel needs `View` as well: each task has a row, or a notification
  that will make one, or is about to be deleted; each row has a task, or its removal is
  on the way, or the log restored it; and a notification that shows a row of no task is
  followed by the removal. The drain and the crash are then ordinary steps.

Only model-checked: liveness under fairness (`UserInputIsHandled`, `SheddingEnds`,
`CallsReturn`, `TurnIsAnswered`, `ActiveDrains`, `CallReturns`), which is out of the
prover's reach, and `MirrorRows` where a client may tear the session down, which no run and no
theorem claims. Every invariant, every action property and both refinements that the passing runs
check are theorems.

## 5. Not modelled

Of the session: `Shutdown`, model switch, compaction, rewinding to an earlier
turn, memory timers, the goal-summary command (nothing sends it), the completion
of subagents. Of the turn engine: tool dispatch and recoveries other than of
authentication. Of the leader: routing of messages between clients and the agent, the
relay, reconnecting clients. Of the sampler: `UpdateConfig`. Of the rest: what section 1
lists without a module. Most of the repository's lines are the user interface,
configuration, rendering and integrations, which keep little shared state of their own.

## 6. Plan

1. `GoalLoop` and `SubagentCoordinator`, composed with `SessionActor`
   through its commands, and the fires of `Scheduler` with the pager's queue.
2. `ChatState` and the session's log: repair of dangling calls, crash and replay,
   `Shutdown` of the session.
3. The leader's server: clients that attach, reconnect and share a session, and the
   computer hub's reconnecting session.
4. Proofs, as the modules above are written: each new invariant with its theorem. Of the
   present modules what is left to prove is their composition: that `AuthRefresh` over
   `AuthLock` keeps what it has over `AuthFileLock`.

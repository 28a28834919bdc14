# TLA+ models of the Oxidizer runtime

The repository is a workspace of Rust libraries. Its centre is **Arty**, a
thread-per-core asynchronous runtime: every worker thread owns one
single-threaded executor (`arty_executor`), and everything else (timers, I/O
drivers, channels, the HTTP client, caches, resilience middleware) runs as tasks
on it. A lost wake, a leaked or doubly released task, or a shutdown that forgets
a task would break every program built on the workspace, and such errors depend
on interleavings no test schedules. This project therefore starts with the
executor and grows outwards: the runtime around it, the notification that the
crates block on, and three libraries whose correctness is a protocol between
concurrent calls (`uniflight`, `cachet`, the circuit breaker of `seatbelt`).

## Inventory

| Part | State | Operations | What is hard | What makes it correct |
|---|---|---|---|---|
| `arty_executor` | task queues (`new_tasks`, `active`, `pending`, `awakened`), `schedule_state` and reference count of each task, the remote wake channel with its flag, `task_count`, shutdown cause | submit, wake (local, remote), clone and drop wakers, one execution cycle, shutdown, drop | remote wakes at every point of a cycle, retirement racing wakes, panics of tasks and hooks, parking | no lost wake, exact references, payload dropped by its owner, one outcome per task, complete shutdown |
| `arty` worker loop | command queue, timers, signal, runtime shutdown cause | process commands, cycle, advance timers, wait, shut down | parking racing notifications, shutdown started by any worker | no parked worker with work; shutdown reaches all workers and joins them |
| `arty` dispatcher, runtime handle, joins | endpoints of all workers, one-shot shutdown cause, join handles | spawn, stop, join | a submission racing the closing of a worker's queue | every join handle resolves; one cause wins and is broadcast once |
| `arty` blocking pool | job queue, thread count, busy count | execute, grow, shut down | growth bound, jobs racing shutdown | never above the limit; queued jobs run or are discarded |
| `arty_io_core`, `arty_io_host`, `arty_tokio` | driver host, pending operations | install, poll, uninstall | completion racing teardown | operations end before their buffers |
| `performables` | word and waiters of `Notify`, channels, locks | wait (blocking, timed, asynchronous), notify, send, receive, lock | waits that time out or are dropped while they are notified, notification racing registration | no notification lost or consumed twice, mutual exclusion, order |
| `uniflight` | weak pointer to the cell of each key, the callers that hold it | execute | leader dropped or panicking while followers wait, clean-up racing a new call | one execution at a time in each merger, every caller returns, no dead entry left behind |
| `seatbelt` | circuit state, health windows, probe stages; retry and hedging state | enter, exit, abandon | concurrent probes, late results, clock readings used out of order | the aggregate is what the windows say, recovery is earned, no circuit is stuck |
| `cachet*` | two tiers with time stamps, keys being refreshed | get, get_or_insert in five forms, insert, invalidate, background refresh | promotions and refreshes racing everything else, tasks dropped at any await | one computation for each form, one refresh, no entry served longer than its TTL |
| `tick` | timer set, controlled clock | register, advance, cancel | callbacks that register timers | timers fire once, not early |
| `plurality`, `rallocator` | slabs, free lists, reference counts | allocate, free locally or remotely | remote free racing owner | no slot owned twice |
| `internity`, `seismograph*` | shards, telemetry buffers | intern, record, snapshot | concurrent fill, snapshot during recording | unique handles, consistent snapshots |
| everything else | types, parsing, code generation, adapters | | | not protocols; listed in PROJECT.json with the reason |

How they interact: a worker thread runs `Executor::execute_cycle` in a loop. The
executor tells the worker `Continue`, `Suspend` or `Shutdown`; on `Suspend` the
worker parks on its `Signal`. Everything that creates work notifies that signal
through `owner_waker`: remote wakes, local wakes and submissions outside a
cycle, dispatched commands, and shutdown requests. Remote threads reach an
executor only through `Waker` calls; the notification travels over a
`performables` channel. Task memory is a `plurality` allocation whose reference
count is shared with wakers on other threads, while its payload is not `Send`.

## Modules

* `Executor` models `arty_executor` and the two things it depends on in `arty`:
  the worker that parks after `Suspend`, and submissions that arrive between
  cycles. Variables carry the names of the fields (see the comments on
  `VARIABLES`); actions carry the names of the functions, and the `map` of
  PROJECT.json gives the lines.
* `TaskLifecycle` is the contract of the crate towards whoever submits a task:
  one outcome for each task, cancellation only after shutdown has started, no
  registration after that, no report of shutdown while a task is registered.
  `Executor` is shown to implement it (`LifecycleSpec`).
* `MCExecutor` gives the finite instances their symmetry.
* `WorkerSignal` is what every thread of a runtime shares: the one-shot shutdown
  cause (`runtime/shutdown.rs`) and, for each worker, the permit of its `Signal`
  and the interrupt of its primary I/O driver. The two effects of
  `Signal::notify` are two operators, because other threads run between them.
* `BlockingPool` models the pool for blocking functions: the calls of
  `spawn_blocking`, the pool threads with their two counters, growth, panics, and
  the workers that join the pool. It can be checked on its own (`PoolSpec`).
* `Runtime` extends `BlockingPool` with everything above the executor: the loop of
  each worker, the dispatcher and its commands, join handles, external I/O
  access, the shutdown and its broadcast, failures of drivers and threads, the
  end of the worker threads and `Runtime::stop`.
* `MCRuntime` gives the instances of `Runtime` their symmetry.
* `Notify` models `performables::sync::notify`, on which `Signal` and the crates'
  channels block.
* `Uniflight` models `Merger::execute` for one key of any number of mergers. It
  has no run of its own: what a leader does is the business of the module that
  uses it.
* `Cachet` extends `Uniflight` (one merger for each form of `get_or_insert`, one for
  `get` and one for `invalidate`) with the two tiers and their wrappers, insertion,
  promotion, expiry and background refresh. `MCCachet` says of which forms the
  calls of the finite instances are and which entries are handed in.
* `Breaker` models one circuit breaker: the engine, its health window, its probes
  and the calls that pass through it. `MCBreaker` gives it symmetry.
* `ExecutorProofs`, `ExecutorLifecycleProofs`, `BlockingPoolProofs`, `RuntimeProofs`,
  `NotifyProofs`, `UniflightProofs`, `CachetProofs` and `BreakerProofs` hold the
  theorems.

### How the code becomes actions: the executor

The owner thread is a program counter `pc` over the steps of
`execute_cycle_with`, `prepare_task_abort`, `abort_prepared_tasks` and
`Executor::drop`. A step ends where a remote thread could observe or change
something: at each access to `schedule_state`, the channel, the
`remote_wakes_pending` flag or the notification. Thread-local queues therefore
change together with the shared access next to them. User code (a polled
future, destructors and completion targets, commands and timers between cycles)
may wake, clone or drop wakers, submit tasks and request shutdown whenever the
owner is at one of the `UserCode` labels.

A remote wake is four steps (`begin_notification`, `try_send`, swap of the
flag, notification of the owner, with the refused branch after `close`). Calls
are counted by stage for each task, so the model covers any number of remote
threads.

A queue is a function from tasks to the number of handles it holds. Order inside
a queue is left open: the model has every order the code can produce and more.
`pending` is the intrusive `TaskList`; its `previous`/`next` links are not
modelled, its membership (`linked`) is. `strong` is the reference count of the
pooled allocation. `owed` is a history variable: a wake (or the submission) was
requested since the last poll of the task began.

Memory ordering: all shared accesses are sequentially consistent, except that
`has_remote_wakes`, a Relaxed load, may miss a flag that was just raised
(`Outcome`). `HookPanics` says at which points a context guard
(`TaskOptions::with_context`) may panic when it is dropped; such a panic leaves
the cycle, and the worker then drops the executor.

### How the code becomes actions: the runtime

`pc[w]` is where worker `w` is in `Worker::execute_step`: reading commands, in
the executor cycle, polling the drivers, waiting in the primary driver or on the
signal, or shutting down. A call of `Core::stop_inner` is a small machine of its
own (`stopper[c]`: begun, elected or not, and for each endpoint send, notify,
interrupt), because workers, the owner of the `Runtime` value and any thread
with a `RuntimeControl` run it concurrently; a worker that called it stays where
it is until `StopReturned`. A dispatched request is another (`request[r]`:
checked, sent, notified, interrupted), and so is a remote wake of a task.

What is abstracted:

* An executor is a set of registered tasks and a set of ready ones. What
  `Executor` establishes is used as its contract: a cycle polls the ready tasks;
  a cycle that ends in `Suspend` leaves no ready task without a notification
  that is set or on its way (`CanSuspend`); shutdown retires every task.
* A poll is pending, completes, panics, installs a driver, or calls
  `request_stop` or fails to get an I/O context; after the last two the
  executor is told and polls no other task, and the poll ends in any way, also
  in the panic with which `Io::context` reports its failure.
* Drivers are external. The wake of the primary driver is kept until one of its
  waits ends, which is what the worker loop relies on. A context that is asked
  for brings up a primary or a secondary driver. Secondary drivers never wait and
  are not part of the state: a failing driver is one of a worker with a primary
  driver, and the failure of a worker that has secondary ones only, which ends in the
  same steps, is left out.
* Timers are a wait that may end at any time (`WaitEnds`).
* The round robin of `next_worker_index` is left open: any worker is chosen. So
  are the order of the broadcast and the order in which threads are joined.
* The two shutdown checks of `spawn_blocking` are one: the cause never goes
  away and both have the same outcome. `send` and the increment of
  `queued_count` happen together under the lock that every reader holds.
* Publishing a result and the step that produces it are one step, except for a
  blocking function that panics: there the cause, the two effects of the wake
  and the result are four steps.
* A failing `AccessIo` command stays at the head of the channel until its
  answer is sent; the worker is the only reader.

### How the code becomes actions: notify, uniflight, cachet, breaker

`Notify`. One step is one access to the atomic word, or one critical section of
the queue lock; `enqueue_with` holds the lock over two exchanges of the word, and
other threads may store a permit between them, so it is two steps. A call of
`notify_from` keeps the word it last saw (`seen`), because the load is relaxed and
the exchange compares with it. The token of `thread::park` and the waker of a
task are one bit each. Waits are used once; a repeated wait is another wait. A
wait that is cancelled takes itself out of the queue if it is still in it
(`Unregister`); with a notification assigned to it, it runs `notify_from` itself, and
can then meet another wait or leave a permit.

`Uniflight`. The map entry is a weak pointer: a cell is alive while a call holds
it (`Alive`), so no reference count is needed. The lookup without the lock and
the insertion under it are two steps, and so are dropping the cell and the
`remove_if` after it. Which caller runs its future is left to `async_once_cell`
(external). A result and `LeaderPanicked` are not told apart: both fill the cell.
Keys share nothing but the map, so the module has one; mergers share nothing
at all, and `via` is the merger that a call was made on.

`Cachet`. `Mergers` has a merger for each form of `get_or_insert`, so two calls of
one form are merged and two of different forms are not, nor are they with
`get`, `invalidate` or `insert` (which has no merger). A step is one operation of one
tier; the two halves of a `join!` come in either order, and any of them may fail
or be rejected by the insert policy. An entry is its stamp (`at`) and its own TTL,
either of which may be missing when a caller hands it in (`CacheEntry::new`,
`expires_after`, `expires_at`); values are not told apart. Every insertion into a
tier runs `ensure_cached_at`: `insert_computed_entry` has stamped its entry before, so
both tiers get one stamp, while `Cache::insert` leaves it to the two wrappers, each
of which reads the clock for itself (`Write`, `StampFallback`). The history field
`born` is the stamp that an entry got first. A tier has a TTL or none, the TTL of
the entry has precedence, and a stamp in the future counts as expired. The guard
of a refresh task exists from its first poll on, so a task that is dropped before
that leaves the key in flight for good (state `lost`).

`Breaker`. `enter` and `exit` read the clock before they take the lock, which makes
each of them two steps: readings are used out of order. Rates are percentages in
integers. Stage 1 is the `SingleProbe`, later stages are `HealthProbe`s, and the draw
against `probing_ratio` goes either way. A dropped future exits as abandoned; one
whose inner service panics does not exit at all. `current` and `earned` are history
variables. Statistics, telemetry and the callbacks are left out.

## Runs

| Run | Instance | Shows |
|---|---|---|
| `executor_safety` | 2 tasks, 2 owned wakers each, panics shut down, hooks may panic anywhere; 1.6 million states | all invariants below and the refinement of `TaskLifecycle` |
| `executor_liveness` | 2 tasks, 1 owned waker each, panics ignored, well-behaved hooks | `WakesServed`, `ShutdownFinishes` under `FairSpec` |
| `executor_fallback` | 2 tasks, no owned waker, a hook that panics during cancellation | `FallbackRetires` is violated, see Findings |
| `blocking_pool` | 2 jobs, 2 workers, up to 2 threads, 1 task for each thread, panics shut down; 67 thousand states | the pool's invariants, `JobsSettle` and `JoinsReturn` under `PoolFairSpec` |
| `runtime_dispatch` | 1 worker that reads 1 command a cycle, 1 task, 1 external I/O access, drivers that may not be created, panics ignored; 391 thousand states | `SleepsOnlyWhenIdle`, `RequestIsHeld`, `CommandsServed` under `FairSpec` |
| `runtime_shutdown` | 2 workers that share a pool of 1 thread, 1 task or 1 blocking function, drivers that fail or panic, panics shut down; 2.4 million states | `ShutdownHasCause`, `ShutdownIsCarried`, `StopIsComplete`, also when the panic is on a pool thread |
| `runtime_liveness` | 2 workers, the owner and another thread that both stop the runtime | `ShutdownReachesAll`, `StopReturns` under `FairSpec` |
| `notify` | a blocking wait, a wait with a timeout, an asynchronous wait, 2 notifications; 173 thousand states | `QueueExact`, `Conserved`, `AssignedReturns` under `FairSpec` |
| `cachet` | 2 calls of the same form or of two (`get`, `get_or_insert`, `get_or_insert_with`, `invalidate`), 1 insertion, plain entries and one that was stamped ahead and has a TTL of 0, a primary tier with TTL 1 and a fallback without, clock 0 to 2; 760 thousand states | `OneFlight`, `RefreshIsOwned`, `ServedInTime`, `CallsReturn` under `FairSpec` |
| `uniflight_stale_entry` | 2 calls, no insertion, the clock stands still | `NoStaleEntries` is violated, see Findings |
| `breaker` | 4 calls, all three policies, the single probe and one health stage, clock 0 to 4; 351 thousand states | `AggregateExact`, `NeverStuck`, `RecoveryEarned` |
| `breaker_stale_probe` | 4 calls, quick mode, clock 0 to 6 | `OldProbeDecidesNothing` is violated, see Findings |

Bounds. `Task` bounds how many tasks are submitted in one behaviour: with two,
one task can be polled, woken or cancelled while the other sits in any queue.
`MaxWakers` bounds the owned wakers of one task, calls in progress included:
with two, a wake can coalesce with another that is at any stage, a call can be
in flight while another waker is cloned or dropped, and a retained waker can
outlive everything. No other counter is bounded. Nothing in the model depends on
which task is which, so the safety instance uses symmetry; the liveness
instance does not. Deadlock is not an error: a dropped executor has nothing to
do.

`Batch` is 1 so that every command exhausts a batch and a second command stays
behind. One task and one access are two commands that race; with one worker
they meet every stage of its loop. Two workers are what the shutdown protocol
needs to go wrong: one that broadcasts and one that sleeps, one that joins the
pool and one that finds it taken. `MaxThreads` 2 and `TasksPerThread` 1 let two
concurrent submissions compete for the last growth. Workers are
interchangeable, so `runtime_shutdown` uses symmetry. `MaxCalls`
bounds how many tasks, accesses and blocking functions are begun in one behaviour:
in `runtime_shutdown` it is 1, so that the shutdown meets a task or a blocking
function at every stage but never both, and in `runtime_dispatch` it is 2. A runtime that has
stopped has nothing to do, so deadlock is not an error there either.

In `cachet` the primary TTL and the time to refresh are 1 and the clock has three
readings: a copy in the primary tier can be fresh, due for refresh, and expired,
while the fallback tier, which has no TTL, still serves the entry and promotes it
late. The entry with stamp 1 and TTL 0 is ahead of the clock when it is inserted
at 0, is served at 1 and expires at 2. Two callers are a leader and a follower of
one merger, and after a drop a new leader, or two leaders of different mergers, or
a computation and an invalidation; the writer races them. Which forms a call may
take is in `MCUses`: the two forms with an infallible function, of which one may
return a stamped entry; the other three differ from these only in that their
function may fail, which `Compute` allows to every form. In `breaker` four
calls are one that opens the circuit, one for each of the two stages and one that
is late; the clock reaches past a break and a stage, and `Sampling` 2 with two
windows of width 1 lets windows expire. A late probe needs the circuit to become
half-open twice, hence 6 in `breaker_stale_probe`. All these systems may stop:
deadlock is not an error.

Fairness. `WF(OwnerStep)`: the owner keeps running its cycle and its loop, and
polls, destructors and completion targets return; a parked owner is not enabled
until it is notified. Weak fairness of each stage of a remote call: a thread
inside `Waker::wake` is eventually scheduled, and no stage waits for a lock held
across user code. No fairness is assumed of wakes, submissions, shutdown
requests or destruction. In `Runtime` there is one weak fairness condition for
each thread: a worker (with the stop call it is in), the owner that waits, a
thread in `request_stop`, a dispatching call, a remote wake, a call of
`spawn_blocking`, a pool thread. A worker that waits is not enabled until its
permit or its interrupt is there. A pool thread is fair only if blocking
functions end: the code waits for them in `Pool::join` without a timeout, so
`StopReturns` holds only then. Nothing is assumed of dispatches, wakes, timers,
I/O completions, failures or stop requests. In `Notify` a call that has begun is
scheduled and a task that was woken is polled; nobody has to notify, time out or
drop, and `park` may but need not return for no reason. In `Cachet` only merged
calls that have begun are fair: they are polled, the tiers answer and the
caller's function ends. `Breaker` has only safety properties.

Properties of the executor: `RefsExact` (the reference count is the number of handles,
notifications and wakers), `PayloadOwned` (the justification of `unsafe impl Send
for Task`), `OwnedOnce` (no task twice in a queue; the `awakened` queue is never
the last owner), `PolledIsLive` (the `unreachable!` in `poll_in_context`),
`NoLostWake`, `ParkedHasNotice` (the owner never parks on work),
`CountExact` (`task_count` never underflows), `ShutdownComplete`,
`LifecycleSpec`, `WakesServed`, `ShutdownFinishes`. Each has a mutant of the code
that breaks it; the variants are defined next to the actions they vary.

Properties of the pool: `PendingIsHeld` (a pending job is in exactly one place),
`CountersExact`, `WithinLimit`, `JoinedIsQuiet` (when all workers are back from
join nothing runs and nothing is pending), `JobsSettle`, `JoinsReturn`.

Properties of the runtime: `SleepsOnlyWhenIdle` (no worker sleeps on a command or
a ready task, in either kind of wait), `RequestIsHeld` (a pending request is in
exactly one place), `ShutdownHasCause` (a handle resolves to "shutdown", and a
channel closes, only after the cause is set), `ShutdownIsCarried` (a cause that
was set without a broadcast is seen by somebody awake, and a sleeping worker is
always one the broadcaster still has to visit), `StopIsComplete` (what
`Runtime::stop` promises when it returns), `ShutdownReachesAll`, `StopReturns`,
`CommandsServed`.

Properties of `Notify`: `QueueExact` (the queue holds exactly the registered waits
that are not notified, and the word agrees), `Conserved` (every notification is in
exactly one place, also when the wait it was given to is cancelled),
`AssignedReturns`.

Properties of `Cachet`, with `Uniflight`: `OneFlight` (stampede protection: at most one
call of each form runs its function), `RefreshIsOwned` (one refresh of a key at a
time, and the exact condition under which a key stays in flight with nobody
refreshing it), `ServedInTime` (no promotion, refresh or overwriting makes a tier
serve an entry longer than its TTL after it was first stamped), `CallsReturn`.

Properties of `Breaker`: `AggregateExact` (the running counts are the sum of the
windows, which are ordered and bounded, although readings come out of order),
`NeverStuck` (whatever probes are lost, somebody is admitted), `RecoveryEarned`
(closing takes a success in every stage).

`NotifyTypeOK`, `CachetTypeOK` and `BreakerTypeOK`, and `TypeOK` of `Runtime`, state
the types of the variables; they hold in the same instances and are not listed
in the runs.

## Findings

`executor_fallback`: the fallback in `Executor::drop` says it retires the
remaining payloads if cancellation unwinds. `prepare_task_abort` takes the whole
batch out of `task_count` before the first abort, so when the fallback prepares
the remaining tasks again the checked subtraction fails, and a second panic
during unwinding ends the process with the remaining payloads in place. Only a
context guard that panics on drop gets there; completion targets are documented
not to panic.

`breaker_stale_probe`: the engine says that probe results that arrive after the
circuit has left the half-open state can no longer influence the recovery
decision. A mode is "normal" or "probe" and carries no generation: a probe that
was admitted in one half-open period and answers in the next one is recorded by
the probes of the next one, and may close or reopen the circuit.

`uniflight_stale_entry`: the documentation of `uniflight` says that entries are
removed when the last caller finishes, so that no stale entries accumulate. The
removal is the last statement of the future that `execute` returns. A caller that is
dropped as the last one to hold the cell does not get there: the map keeps its key
and a dead pointer until the same key is asked for again.

Four remarks that are not runs. The documentation of `cachet` (`lib.rs:48-50`) says
that all concurrent requests for the same key are merged so that only one computes
the value; a `get_or_insert` and a `try_get_or_insert` of one key have different
mergers (`cache.rs:28-35`) and both compute. `OneFlight` is stated for each form. A refresh task that is dropped before its first
poll leaves its key in `in_flight`, and the key is not refreshed again
(`RefreshIsOwned` states it). A failed probe opens the circuit again, where the
documentation of the breaker says that failed probes keep it half-open. And a
panic of the inner service during a probe is recorded by nobody: the next probe
is admitted only after the cool-down (`NeverStuck` bounds the wait).

## Proofs

`ExecutorProofs` proves, for every finite set of tasks, every bound on wakers and
every configuration (assumptions `TaskAssumption` and `ConfigAssumption` only):

* `Typing`: `Spec => []TypeOK`. Not inductive as it stands: `Pop` must not go
  below zero at steps whose guard does not look at the queue (`PollPending` and
  `FinishTask` pop `current` from `active`). The strengthening `CurrentOK` says
  where `current` is queued at each label.
* `ExactReferences`: `Spec => []RefsExact`, and `Ownership`: `Spec => []PayloadOwned`.
  The two are proved together with typing; the strengthening adds where a live
  task is held at each label (`Accounted`).
* `WakeSafety`: `Spec => []NoLostWake`. The strengthening `WakeInv` relates
  `schedule_state` to the place of the notification: a task in state `remote` is
  in the channel or held by a call in progress, a task in state `local` is in
  `awakened` or among the appended tasks not cleared yet, and `PhaseOK` says
  which queues are empty in which part of the cycle.

The argument for each is one step per action and, inside an action, one case
for the task it acts on and one for the others.

`ExecutorLifecycleProofs` extends it with what relates a task to the whole
executor, under the same assumptions. Its inductive invariant `LifeInv`, on top of
the one of `ExecutorProofs`, says for each task in which queues it may be together
(`QueueOK`), how `schedule_state` agrees with them (`SignalOK`) and when payload and
outcome are gone (`LiveOK`), and for the executor what each stage of a cycle, of
the cancellation and of destruction has already done (`StageOK`, `EmptyOK`,
`EndingOK`), what `task_count` counts (`CountOK`) and who still has to notify the
owner (`NoticeOK`).

* `QueuesOwnOnce`: `Spec => []OwnedOnce`; `PollsAreLive`: `Spec => []PolledIsLive`;
  `CountIsExact`: `Spec => []CountExact`; `ShutdownIsComplete`: `Spec =>
  []ShutdownComplete`; `ParksWithNotice`: `Spec => []ParkedHasNotice`. None is
  inductive: a task that is in two queues at once does no harm before a later
  step, and a count that is wrong shows only when the batch is cancelled.
* `Refinement`: `Spec => LifecycleSpec`. Initial states map to initial states, and
  each step of the executor is mapped to a step of `TaskLifecycle` or to a stutter;
  that a task finishes once and that no shutdown is reported while a task is
  registered come from `LifeInv`.

`BlockingPoolProofs` proves, for every finite set of jobs and workers, every limit
on threads and on tasks for each thread, and both panic policies (assumptions
`WorkersAssumption` and `PoolAssumption` only):

* `PoolTyping`: `PoolSpec => []PoolTypeOK`. That `fetch_sub` stays at or above zero
  needs the exact counters, so typing, `CountersExact` and `WithinLimit` form one
  inductive invariant (`PoolInv`). Four lemmas about the number of threads at a
  set of labels carry the cardinality arguments.
* `PoolCounters`: `PoolSpec => []CountersExact`, and `PoolLimits`: `PoolSpec =>
  []WithinLimit`, from the same invariant.
* `JoinIsComplete`: `PoolSpec => []JoinedIsQuiet`. The strengthening has two parts:
  `ClosedOK` (an open pool has all its threads, a closed one gains neither jobs
  nor threads, and without a worker that waits all its threads are gone) and
  `LocatedOK` (a pending job is with its call, in the channel, or with a pool
  thread that has yet to settle it).
* `JobsAreHeld`: `PoolSpec => []PendingIsHeld`, that it is in only one of these. The
  strengthening `PlacesOK` says that the channel holds no job twice (`ChannelOK`), no
  two threads hold the same job (`HoldersOK`), and neither holds one that a call
  has yet to send or that is settled (`CallsOK`, `BusyOK`).

`RuntimeProofs` proves, for every number of workers, requests, jobs and callers of
stop, every batch size, both panic policies and every choice of what the drivers
may do (`RuntimeAssumption`, `PoolAssumption` and `WorkersAssumption` only; the first
says that `Command::Shutdown` is not a request, that callers are told apart, and that
a batch has at least one command), what `Runtime` promises. Its inductive invariant
`RuntimeInv` has these parts: types; what each label of the worker loop implies
(`LoopOK`); one broadcaster, elected after the cause is set (`StopOK`, `CauseOK`);
where a request is (`RequestsOK`); who still has to wake whom (`SleepOK`, `CarryOK`);
what the owner saw (`DoneOK`); and the invariants of the pool, whose lemmas are used
as they are, because a step of the runtime is a step of `PoolNext` or leaves the
pool alone (`PoolMoves`).

* `RuntimeTyping`: `Spec => []TypeOK`. That the budget of a batch stays at or above
  zero needs `LoopOK`.
* `CauseComesFirst`: `Spec => []ShutdownHasCause`. A worker closes its channel only
  after a call of stop has returned to it, and such a call has set the cause and
  seen a broadcaster elected.
* `RequestsAreHeld`: `Spec => []RequestIsHeld`. The strengthening says that a channel
  has no request twice, that an executor has none that is in its channel, and that
  what is with a worker is pending and was sent to this worker.
* `NoLostWake`: `Spec => []SleepsOnlyWhenIdle`. The property speaks of sleeping workers
  only; a worker that is about to sleep must already have a notice of what came
  after it looked, from the empty channel on (`prepare`, `cycle`, `ioCheck`). Who
  gives it work has the wake still to make (`NewWork`), a wake goes on to its effect
  (`RequestWakes`, `TaskWakes`, `StopWakes`), and the effect is used up only by a
  worker that stops waiting (`SignalsStay`).
* `ShutdownGoesOn`: `Spec => []ShutdownIsCarried`. A worker that will not sleep through
  the shutdown stays one (`CarriesStays`), because after the cause is set no worker
  begins to wait (`NoNewWait`); who sets the cause calls stop, is awake, or is a pool
  thread on its way to the worker of its job (`CauseSet`); and the endpoints that
  the broadcaster is done with are all such workers.
* `StopLeavesNothing`: `Spec => []StopIsComplete`, from the labels of the workers that
  have exited, the places of requests, and `JoinedIsQuiet` of the pool.
* `HandlesResolveOnce`: `Spec => ResolvesOnce`, an action property no run checks: a join
  handle that is resolved keeps its result. Each action that resolves one finds its
  request with a worker or with its caller, and `RequestsOK` says that such a request
  is pending.
* `PoolInRuntime`: the invariants of the pool hold inside the runtime, where workers
  join it from their loop and every kind of failure sets the cause.

`NotifyProofs` proves, for any finite sets of threads, futures and notifiers, any
of which may time out or be dropped (assumption `NotifyAssumption` only):

* `QueueIsExact`: `Spec => []QueueExact`. The strengthening `NotifyInv` says that a wait
  has no notification before it is registered or after it has consumed one, that
  only a returned wait passes one on, and that a call that is about to exchange the
  word has not seen a waiter, so that it cannot store a permit beside one.
* `NotificationsAreConserved`: `Spec => []Conserved`. Each step moves at most one
  notification from one place to another; one lemma for each such move carries
  the cardinalities, and `QueueExact` is what makes the move from a call in flight
  to the head of the queue a move to a wait that had none.

`UniflightProofs` and `CachetProofs` prove, for any sets of calls and writers, any choice
of the forms of the calls, any entries handed in, any TTLs or none, and any bound on
the clock (assumptions `UniflightAssumption` and
`CachetAssumption` only; the sets need not be finite):

* `StampedeProtection`: `Spec => []OneFlight`. That two leaders of a merger cannot run
  follows only because everyone who holds a cell holds the one of the map of its
  merger (`HeldIsMapped`), exactly the calls that have joined hold one
  (`HoldsWhileJoined`) and such a call has a merger (`HasMerger`); a call inserts a new
  cell only when the old one is dead, and then nobody holds any (`DeadMeansFree`).
  The steps of the mergers are treated once, in `UniflightProofs`; `CachetProofs` shows
  that every step of the cache is a step of a merger or leaves them all alone.
* `OneRefresh`: `Spec => []RefreshIsOwned`. The strengthening says that the key is in
  flight exactly when there is a task, running or lost, and never two.
* `EntriesExpire`: `Spec => []ServedInTime`. The property is about entries in tiers
  only; the strengthening is that every entry anywhere, in a tier, on its way to
  one, or fetched by a refresh, is either without a stamp or has the stamp it got
  first (`Genuine`, in the types of `DataTypeOK`), and that none without a stamp
  reaches a tier.
* `Typed`: `Spec => []CachetTypeOK`, from the same invariant.

`BreakerProofs` proves, for any number of calls and health stages, any durations,
number of windows, thresholds and policies (assumption `BreakerAssumption` only):

* `AggregatesAreExact`: `Spec => []AggregateExact`. `Subtracted` and `Sum` are recursive
  functions, so the proof contains the induction: `LeastOf` and `Induction` state it
  for sets of numbers, `SumIsPrefixSum` and `SubtractedIsRest` show that the two
  definitions define functions and that the saturating subtraction never saturates,
  and `RecordKeeps` combines them for `HealthMetrics::record`. The windows are ordered
  but that is not enough to bound their number: they are at least a width apart
  (`Spaced`), and the first one that stays is not older than the sampling duration.
* `BreakerIsNeverStuck`: `Spec => []NeverStuck`. No reading of the clock, no probe time
  and no break is ahead of the clock by more than its duration (`CallsOK`, `ProbeOK`).
* `RecoveryIsEarned`: `Spec => RecoveryEarned`, an action property. The strengthening
  `EarnedOK` says that the stages behind have recorded a success and that the current
  one has if its metrics count any: a stage may end with a result that is a failure,
  and then the successes that outweigh it must be there.

Every invariant and every action property of a passing run is thus proved for all
values of the constants. Only model-checked: `WakesServed`, `ShutdownFinishes`,
`JobsSettle`, `JoinsReturn`, `CommandsServed`, `ShutdownReachesAll`, `StopReturns`,
`AssignedReturns` and `CallsReturn`. They need fairness, which the provers do not
handle, and stay with TLC. The theorems give what such an argument starts from: at
every state, somebody named still has a step to take.

## Plan

1. Executor core (done): `Executor`, `TaskLifecycle`, three runs, first theorems.
2. Runtime (done): `WorkerSignal`, `BlockingPool`, `Runtime`, four runs, the
   theorems about the pool. Left: startup of the workers, `Pools::PerWorker`
   together with `Runtime`, relocation of results.
3. `performables`: `Notify` (done). Left: channels and locks, which are built on
   it, and the channel `Executor` takes for granted.
4. `uniflight`, the circuit breaker of `seatbelt`, `cachet` with refresh (done).
   Left: `tick` timers, retry and hedging of `seatbelt`, whose attempts are
   sequential and whose state is local to a call.
5. Proofs: all invariants and the refinement of `Executor`, the invariants of
   `BlockingPool`, `Runtime`, `Notify`, `Cachet` and `Breaker` (done). Left: the
   same action property for the handles of blocking functions, and that `Runtime` uses
   of the executor only what `TaskLifecycle` promises.

## Not modelled

Inspection (reads only), telemetry and metrics, panic-payload disposal,
the order inside queues, the intrusive links of `TaskList`, weak memory beyond
the Relaxed flag load, overflow of `task_count` (2^64 tasks), executors that
share one thread (refused by `executor_context::register`). In the runtime:
secondary drivers (see above),
startup and activation of the worker threads, failure to create a thread,
`Runtime::stop` called on a worker thread (a panic after the request), the values
of deadlines, several I/O context types, relocation of results, and a panic of a
command factory or of a timer callback.

In `Notify`: weak memory (the accesses are sequentially consistent but for the
relaxed load, whose result may be old when it is used). In `cachet`: `clear` (for one
key an eviction of both tiers) and `len`, the values, a clock that goes backwards,
a cache without stampede protection (its calls are calls of `Cachet` that are never
joined), more than
two tiers, and the tiers' own storage. In `seatbelt`: the map from breaker ids to
engines, `enable_if`, callbacks and statistics.

And the crates that PROJECT.json lists as not modelled. The workspace has 375
thousand lines in more than a hundred crates. Most of them are terminal user
interfaces, benchmarking and reporting tools, HTTP parsing and header types,
allocators written against the memory model, bindings to operating systems and
generated code; a state machine with interleavings is in a small part of it, and
the map covers a small share of the lines.

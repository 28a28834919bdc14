---------------------------- MODULE BlockingPool ----------------------------
(***************************************************************************)
(* The pool of threads for blocking functions, crate arty,                 *)
(* runtime/worker/blocking/worker.rs and task/preparation/blocking.rs: the *)
(* calls of spawn_blocking, the pool threads, growth under load, and the   *)
(* workers that join the pool when the runtime stops.  Workers is the set  *)
(* of workers that share the pool: all of them under Pools::Shared, one    *)
(* under Pools::PerWorker.                                                 *)
(***************************************************************************)
EXTENDS WorkerSignal

CONSTANTS
  Jobs,            \* blocking functions, one spawn_blocking call each
  NoJob,           \* no job
  NoWorker,        \* no worker
  MaxThreads,      \* Pool::max_thread_count
  TasksPerThread,  \* Pool::MAX_TASKS_PER_THREAD
  PanicShutdown    \* blocking::PanicPolicy is Shutdown

ASSUME PoolAssumption ==
  /\ IsFiniteSet(Jobs) /\ NoJob \notin Jobs /\ NoWorker \notin Workers
  /\ MaxThreads \in Nat \ {0} /\ TasksPerThread \in Nat \ {0}
  /\ PanicShutdown \in BOOLEAN

VARIABLES
  call,     \* where the spawn_blocking call of each job is
  owner,    \* the worker whose blocking::Worker took the job
  settled,  \* what the join handle of each job resolves to
  jobs,     \* the job channel of the pool
  open,     \* Pool::inner still holds the pool
  lock,     \* the call that holds Pool::inner between two loads
  sample,   \* active_count as that call loaded it
  size,     \* JoinableThreadPool::workers.len()
  thread,   \* where each pool thread is
  holding,  \* the job each pool thread has taken
  queued,   \* queued_count
  active,   \* active_count
  joiner    \* where each worker is in Pool::join

callVars   == <<call, owner, lock, sample>>
threadVars == <<thread, holding, queued, active>>
poolVars   == <<callVars, threadVars, settled, jobs, open, size, joiner>>

\* Pool::INITIAL_THREAD_COUNT is 1: the limit applies to growth.
Threads == 1..MaxThreads
Alive == {k \in Threads : thread[k] # "unborn"}

PoolInit ==
  /\ call = [j \in Jobs |-> "idle"]
  /\ owner = [j \in Jobs |-> NoWorker]
  /\ settled = [j \in Jobs |-> "none"]
  /\ jobs = <<>>
  /\ open = TRUE /\ lock = NoJob /\ sample = 0 /\ size = 1
  /\ thread = [k \in Threads |-> IF k = 1 THEN "waiting" ELSE "unborn"]
  /\ holding = [k \in Threads |-> NoJob]
  /\ queued = 0 /\ active = 0
  /\ joiner = [w \in Workers |-> "working"]

\* The sender of job j publishes, or is dropped ("shutdown").
Settle(j, outcome) == settled' = [settled EXCEPT ![j] = outcome]

-----------------------------------------------------------------------------
(* Worker::spawn_blocking, on any thread. *)

\* The two checks of the runtime shutdown have the same outcome and the cause
\* never goes away: this is the second one.
SpawnBlocking(j, w) ==
  /\ call[j] = "idle"
  /\ owner' = [owner EXCEPT ![j] = w]
  /\ call' = [call EXCEPT ![j] = IF Started THEN "returned" ELSE "checked"]
  /\ Settle(j, IF Started THEN "shutdown" ELSE "pending")
  /\ UNCHANGED <<threadVars, jobs, open, lock, sample, size, joiner, signalVars>>

\* Variant for testing the properties: the pool was looked up before the lock.
ExecuteLate(j) ==
  /\ call[j] = "checked" /\ lock = NoJob
  /\ call' = [call EXCEPT ![j] = "queued"]
  /\ jobs' = Append(jobs, j) /\ queued' = queued + 1
  /\ UNCHANGED <<owner, lock, sample, settled, open, size, thread, holding, active,
                 joiner, signalVars>>

\* Variant for testing the properties: a refused job keeps its sender.
ExecuteLeak(j) ==
  /\ call[j] = "checked" /\ lock = NoJob
  /\ call' = [call EXCEPT ![j] = IF open THEN "queued" ELSE "returned"]
  /\ jobs' = IF open THEN Append(jobs, j) ELSE jobs
  /\ queued' = IF open THEN queued + 1 ELSE queued
  /\ UNCHANGED <<owner, lock, sample, settled, open, size, thread, holding, active,
                 joiner, signalVars>>

\* Pool::execute, under the lock.  A pool that was taken drops the job.
Execute(j) ==
  /\ call[j] = "checked" /\ lock = NoJob
  /\ \/ /\ open
        /\ call' = [call EXCEPT ![j] = "queued"]
        /\ jobs' = Append(jobs, j) /\ queued' = queued + 1
        /\ UNCHANGED settled
     \/ /\ ~open
        /\ call' = [call EXCEPT ![j] = "returned"]
        /\ Settle(j, "shutdown")
        /\ UNCHANGED <<jobs, queued>>
  /\ UNCHANGED <<owner, lock, sample, open, size, thread, holding, active,
                 joiner, signalVars>>

\* Pool::grow_if_overloaded takes the lock again and loads active_count.
Measure(j) ==
  /\ call[j] = "queued" /\ lock = NoJob
  /\ \/ open /\ lock' = j /\ sample' = active /\ call' = [call EXCEPT ![j] = "measured"]
     \/ ~open /\ call' = [call EXCEPT ![j] = "returned"] /\ UNCHANGED <<lock, sample>>
  /\ UNCHANGED <<owner, threadVars, settled, jobs, open, size, joiner, signalVars>>

\* Variant for testing the properties: the limit is compared before it grows.
GrowPast(j) ==
  /\ call[j] = "measured" /\ lock = j
  /\ lock' = NoJob /\ sample' = 0 /\ call' = [call EXCEPT ![j] = "returned"]
  /\ IF sample + queued > size * TasksPerThread /\ size <= MaxThreads
     THEN size' = size + 1 /\ thread' = [k \in Threads |-> IF k = size + 1 THEN "waiting" ELSE thread[k]]
     ELSE UNCHANGED <<size, thread>>
  /\ UNCHANGED <<owner, holding, queued, active, settled, jobs, open, joiner,
                 signalVars>>

\* thread_pool_is_overloaded, with queued_count loaded second, and the growth by
\* one thread.
Grow(j) ==
  /\ call[j] = "measured" /\ lock = j
  /\ lock' = NoJob /\ sample' = 0 /\ call' = [call EXCEPT ![j] = "returned"]
  /\ \/ /\ sample + queued > size * TasksPerThread /\ size + 1 <= MaxThreads
        /\ size' = size + 1
        /\ thread' = [thread EXCEPT ![size + 1] = "waiting"]
     \/ /\ sample + queued <= size * TasksPerThread \/ size + 1 > MaxThreads
        /\ UNCHANGED <<size, thread>>
  /\ UNCHANGED <<owner, holding, queued, active, settled, jobs, open, joiner,
                 signalVars>>

-----------------------------------------------------------------------------
(* The loop of a pool thread. *)

\* Thread k goes from one label to the next.
Goto(k, from, to) ==
  /\ thread[k] = from
  /\ thread' = [thread EXCEPT ![k] = to]

Receive(k) ==
  /\ jobs # <<>>
  /\ Goto(k, "waiting", "received")
  /\ holding' = [holding EXCEPT ![k] = Head(jobs)]
  /\ jobs' = Tail(jobs)
  /\ UNCHANGED <<callVars, queued, active, settled, open, size, joiner, signalVars>>

\* The channel reports disconnection only when nothing is left in it.
ExitThread(k) ==
  /\ jobs = <<>> /\ ~open
  /\ Goto(k, "waiting", "exited")
  /\ UNCHANGED <<callVars, holding, queued, active, settled, jobs, open, size, joiner,
                 signalVars>>

CountActive(k) ==
  /\ Goto(k, "received", "active")
  /\ active' = active + 1
  /\ UNCHANGED <<callVars, holding, queued, settled, jobs, open, size, joiner, signalVars>>

CountDequeued(k) ==
  /\ Goto(k, "active", "dequeued")
  /\ queued' = queued - 1
  /\ UNCHANGED <<callVars, holding, active, settled, jobs, open, size, joiner, signalVars>>

\* The closure of spawn_blocking: a job that waited until the shutdown is
\* dropped with its sender.
StartJob(k) ==
  /\ \/ ~Started /\ Goto(k, "dequeued", "running") /\ UNCHANGED settled
     \/ Started /\ Goto(k, "dequeued", "finished") /\ Settle(holding[k], "shutdown")
  /\ UNCHANGED <<callVars, holding, queued, active, jobs, open, size, joiner, signalVars>>

\* BlockingTask::run, the function returned.
CompleteJob(k) ==
  /\ Goto(k, "running", "finished")
  /\ Settle(holding[k], "ok")
  /\ UNCHANGED <<callVars, holding, queued, active, jobs, open, size, joiner, signalVars>>

\* BlockingTask::run, the function panicked: under the shutdown policy the call
\* that sets the cause wakes the worker, before the result is published.
PanicJob(k) ==
  /\ \/ /\ PanicShutdown /\ ~Started
        /\ Goto(k, "running", "waking")
        /\ Begin("panic")
        /\ UNCHANGED settled
     \/ /\ ~PanicShutdown \/ Started
        /\ Goto(k, "running", "finished")
        /\ Settle(holding[k], "panicked")
        /\ UNCHANGED cause
  /\ UNCHANGED <<callVars, holding, queued, active, jobs, open, size, joiner, notified, primary, interrupted>>

\* Variant for testing the properties: the panic is published without a wake.
WakeNobody(k) ==
  /\ Goto(k, "waking", "interrupting")
  /\ UNCHANGED <<callVars, holding, queued, active, settled, jobs, open, size, joiner,
                 signalVars>>

WakeOwner(k) ==
  /\ Goto(k, "waking", "interrupting")
  /\ NotifyReady(owner[holding[k]])
  /\ UNCHANGED <<callVars, holding, queued, active, settled, jobs, open, size, joiner, cause, primary, interrupted>>

InterruptOwner(k) ==
  /\ Goto(k, "interrupting", "publishing")
  /\ WakeDriver(owner[holding[k]])
  /\ UNCHANGED <<callVars, holding, queued, active, settled, jobs, open, size, joiner, cause, notified, primary>>

PublishPanic(k) ==
  /\ Goto(k, "publishing", "finished")
  /\ Settle(holding[k], "panicked")
  /\ UNCHANGED <<callVars, holding, queued, active, jobs, open, size, joiner, signalVars>>

\* Variant for testing the properties: a job that panicked stays counted.
FinishJobLeak(k) ==
  /\ Goto(k, "finished", "waiting")
  /\ holding' = [holding EXCEPT ![k] = NoJob]
  /\ active' = IF settled[holding[k]] = "panicked" THEN active ELSE active - 1
  /\ UNCHANGED <<callVars, queued, settled, jobs, open, size, joiner, signalVars>>

\* Variant for testing the properties: a job that panicked is taken off twice, while
\* it unwinds and after catch_unwind.
FinishJobTwice(k) ==
  /\ Goto(k, "finished", "waiting")
  /\ holding' = [holding EXCEPT ![k] = NoJob]
  /\ active' = active - (IF settled[holding[k]] = "panicked" THEN 2 ELSE 1)
  /\ UNCHANGED <<callVars, queued, settled, jobs, open, size, joiner, signalVars>>

\* catch_unwind returned, with or without a panic.
FinishJob(k) ==
  /\ Goto(k, "finished", "waiting")
  /\ holding' = [holding EXCEPT ![k] = NoJob]
  /\ active' = active - 1
  /\ UNCHANGED <<callVars, queued, settled, jobs, open, size, joiner, signalVars>>

-----------------------------------------------------------------------------
(* Pool::join, called by each worker after its own shutdown. *)

\* Variant for testing the properties: the threads are detached.
TakePoolNoWait(w) ==
  /\ joiner[w] = "working" /\ lock = NoJob
  /\ open' = FALSE
  /\ joiner' = [joiner EXCEPT ![w] = "joined"]
  /\ UNCHANGED <<callVars, threadVars, settled, jobs, size, signalVars>>

\* Variant for testing the properties: the job sender outlives the pool.
TakePoolOpen(w) ==
  /\ joiner[w] = "working" /\ lock = NoJob
  /\ joiner' = [joiner EXCEPT ![w] = "joining"]
  /\ UNCHANGED <<callVars, threadVars, settled, jobs, open, size, signalVars>>

\* Pool::join takes the pool out under the lock.  The worker that took it
\* waits for the threads, a later one has nothing to wait for.
TakePool(w) ==
  /\ joiner[w] = "working" /\ lock = NoJob
  /\ open' = FALSE
  /\ joiner' = [joiner EXCEPT ![w] = IF open THEN "joining" ELSE "joined"]
  /\ UNCHANGED <<callVars, threadVars, settled, jobs, size, signalVars>>

\* JoinableThreadPool::shutdown_and_join, the last thread has ended.
JoinThreads(w) ==
  /\ joiner[w] = "joining"
  /\ \A k \in Alive : thread[k] = "exited"
  /\ joiner' = [joiner EXCEPT ![w] = "joined"]
  /\ UNCHANGED <<callVars, threadVars, settled, jobs, open, size, signalVars>>

-----------------------------------------------------------------------------
(* The pool on its own.  The runtime sets the cause (RequestStop), and a     *)
(* worker joins the pool once it is set; the Runtime module replaces both by *)
(* what the code does.                                                       *)

RequestStop == ~Started /\ Begin("stop") /\ UNCHANGED <<poolVars, notified, primary, interrupted>>

CallStep(j) == Execute(j) \/ Measure(j) \/ Grow(j)

ThreadStep(k) ==
  \/ Receive(k) \/ ExitThread(k) \/ CountActive(k) \/ CountDequeued(k) \/ StartJob(k)
  \/ CompleteJob(k) \/ PanicJob(k) \/ WakeOwner(k) \/ InterruptOwner(k)
  \/ PublishPanic(k) \/ FinishJob(k)

PoolStep ==
  \/ \E j \in Jobs, w \in Workers : SpawnBlocking(j, w)
  \/ \E j \in Jobs : CallStep(j)
  \/ \E k \in Threads : ThreadStep(k)

JoinStep(w) == (Started /\ TakePool(w)) \/ JoinThreads(w)

poolAllVars == <<poolVars, signalVars>>

PoolNext == PoolStep \/ RequestStop \/ \E w \in Workers : JoinStep(w)

PoolStart == SignalInit /\ PoolInit

PoolSpec == PoolStart /\ [][PoolNext]_poolAllVars

\* A call of spawn_blocking gets the lock once it stays free; pool threads keep
\* running and blocking functions end; workers join.
PoolFairness ==
  /\ \A j \in Jobs : WF_poolAllVars(CallStep(j))
  /\ \A k \in Threads : WF_poolAllVars(ThreadStep(k))
  /\ \A w \in Workers : WF_poolAllVars(JoinStep(w))

PoolFairSpec == PoolSpec /\ PoolFairness

-----------------------------------------------------------------------------
(* Properties. *)

CallLabels == {"idle", "checked", "queued", "measured", "returned"}
ThreadLabels == {"unborn", "waiting", "received", "active", "dequeued", "running",
                 "waking", "interrupting", "publishing", "finished", "exited"}

CallTypes ==
  /\ call \in [Jobs -> CallLabels]
  /\ owner \in [Jobs -> Workers \cup {NoWorker}]
  /\ lock \in Jobs \cup {NoJob} /\ sample \in Nat

ThreadTypes ==
  /\ thread \in [Threads -> ThreadLabels]
  /\ holding \in [Threads -> Jobs \cup {NoJob}]
  /\ queued \in Nat /\ active \in Nat

QueueTypes ==
  /\ settled \in [Jobs -> {"none", "pending", "ok", "panicked", "shutdown"}]
  /\ jobs \in Seq(Jobs)
  /\ open \in BOOLEAN
  /\ size \in Threads
  /\ joiner \in [Workers -> {"working", "joining", "joined"}]

PoolTypeOK == SignalTypeOK /\ CallTypes /\ ThreadTypes /\ QueueTypes

\* The threads that hold job j and have not settled it.
Holders(j) == {k \in Threads : holding[k] = j /\ thread[k] # "finished"}

\* A pending job is in exactly one place: a call that has not sent it, the
\* channel, or a pool thread.  A job that is nowhere is settled, so no join
\* handle waits for a sender that is gone, and no function runs twice.
PendingIsHeld ==
  \A j \in Jobs :
    LET inChannel == {i \in DOMAIN jobs : jobs[i] = j}
        places == Cardinality(inChannel) + Cardinality(Holders(j))
                  + (IF call[j] = "checked" THEN 1 ELSE 0)
    IN places = (IF settled[j] = "pending" THEN 1 ELSE 0)

\* The two counters are the jobs sent and not counted out, and the threads with
\* a job: fetch_sub never wraps, and the load is not forgotten when a job panics.
CountersExact ==
  /\ queued = Len(jobs) + Cardinality({k \in Threads : thread[k] \in {"received", "active"}})
  /\ active = Cardinality({k \in Threads : thread[k] \in
                {"active", "dequeued", "running", "waking", "interrupting", "publishing", "finished"}})

\* The pool never has more threads than its limit, whoever grows it, and its
\* threads are the ones that were pushed.
WithinLimit == size <= MaxThreads /\ Alive = 1..size

\* When every worker has come back from join, no pool thread is left, the
\* channel is empty, and no function runs: a worker that found the pool taken
\* did not return for the one that waits.
JoinedIsQuiet ==
  (\A w \in Workers : joiner[w] = "joined") =>
     /\ jobs = <<>>
     /\ \A k \in Alive : thread[k] = "exited"
     /\ \A j \in Jobs : settled[j] = "pending" => call[j] = "checked"

\* Every join handle of a blocking function resolves, also when the runtime
\* stops while the call is between its check and the lock.
JobsSettle == \A j \in Jobs : settled[j] = "pending" ~> settled[j] # "pending"

\* Once shutdown has started every worker comes back from join.
JoinsReturn == Started ~> \A w \in Workers : joiner[w] = "joined"
=============================================================================

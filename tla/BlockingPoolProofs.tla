------------------------- MODULE BlockingPoolProofs -------------------------
(***************************************************************************)
(* Machine-checked proofs about BlockingPool, for every set of jobs and    *)
(* workers, every limit on threads and tasks per thread, and both panic    *)
(* policies.                                                               *)
(***************************************************************************)
EXTENDS BlockingPool, FiniteSetTheorems, TLAPS

\* How many pool threads are at one of the labels L.
Count(f, L) == Cardinality({k \in Threads : f[k] \in L})

Dequeuing == {"received", "active"}
Working == {"active", "dequeued", "running", "waking", "interrupting", "publishing", "finished"}

\* The inductive invariant behind typing, the counters and the limit: the
\* counters stay natural numbers only because they are exact.
PoolInv == PoolTypeOK /\ WithinLimit /\ CountersExact

-----------------------------------------------------------------------------
(* Counting threads. *)

LEMMA ThreadsFinite == \A f, L : IsFiniteSet({k \in Threads : f[k] \in L}) /\ Count(f, L) \in Nat
<1> SUFFICES ASSUME NEW f, NEW L
             PROVE  IsFiniteSet({k \in Threads : f[k] \in L}) /\ Count(f, L) \in Nat
  OBVIOUS
<1>1. MaxThreads \in Int /\ 1 \in Int
  BY PoolAssumption
<1>2. IsFiniteSet(Threads)
  BY <1>1, FS_Interval DEF Threads
<1>3. {k \in Threads : f[k] \in L} \in SUBSET Threads
  OBVIOUS
<1>4. IsFiniteSet({k \in Threads : f[k] \in L})
  BY <1>2, <1>3, FS_Subset
<1> QED
  BY <1>4, FS_CardinalityType DEF Count

LEMMA CountSame ==
  ASSUME NEW f, NEW g, NEW L,
         \A k \in Threads : f[k] \in L <=> g[k] \in L
  PROVE  Count(g, L) = Count(f, L)
<1>1. {k \in Threads : f[k] \in L} = {k \in Threads : g[k] \in L}
  OBVIOUS
<1> QED
  BY <1>1 DEF Count

LEMMA CountUp ==
  ASSUME NEW f, NEW g, NEW L, NEW k \in Threads,
         f[k] \notin L, g[k] \in L,
         \A i \in Threads : i # k => g[i] = f[i]
  PROVE  Count(g, L) = Count(f, L) + 1
<1> DEFINE S == {i \in Threads : f[i] \in L}
<1>1. {i \in Threads : g[i] \in L} = S \cup {k}
  OBVIOUS
<1>2. k \notin S
  OBVIOUS
<1>3. IsFiniteSet(S)
  BY ThreadsFinite
<1>4. Cardinality(S \cup {k}) = Cardinality(S) + 1
  BY <1>2, <1>3, FS_AddElement
<1> QED
  BY <1>1, <1>4 DEF Count

LEMMA CountDown ==
  ASSUME NEW f, NEW g, NEW L, NEW k \in Threads,
         f[k] \in L, g[k] \notin L,
         \A i \in Threads : i # k => g[i] = f[i]
  PROVE  Count(g, L) = Count(f, L) - 1
<1>1. Count(f, L) = Count(g, L) + 1
  BY CountUp
<1>2. Count(f, L) \in Nat /\ Count(g, L) \in Nat
  BY ThreadsFinite
<1> QED
  BY <1>1, <1>2

LEMMA CountersAre ==
  CountersExact <=> queued = Len(jobs) + Count(thread, Dequeuing) /\ active = Count(thread, Working)
BY DEF CountersExact, Count, Dequeuing, Working

LEMMA CountersAreNext ==
  CountersExact' <=> queued' = Len(jobs') + Count(thread', Dequeuing) /\ active' = Count(thread', Working)
BY DEF CountersExact, Count, Dequeuing, Working

-----------------------------------------------------------------------------
(* The counters, the limit and the types are kept. *)

\* What every step of a pool thread has in common.
LEMMA Moved ==
  ASSUME PoolInv, NEW k \in Threads, NEW from, NEW to \in ThreadLabels,
         from # "unborn", to # "unborn", Goto(k, from, to), size' = size
  PROVE  /\ thread' \in [Threads -> ThreadLabels]
         /\ thread[k] = from /\ thread'[k] = to
         /\ \A i \in Threads : i # k => thread'[i] = thread[i]
         /\ WithinLimit'
<1>1. /\ thread' \in [Threads -> ThreadLabels]
      /\ thread[k] = from /\ thread'[k] = to
      /\ \A i \in Threads : i # k => thread'[i] = thread[i]
  BY DEF PoolInv, PoolTypeOK, ThreadTypes, Goto
<1>2. Alive' = Alive
  BY <1>1 DEF Alive
<1> QED
  BY <1>1, <1>2 DEF PoolInv, WithinLimit

\* A step of a pool thread that changes neither counter.
LEMMA Uncounted ==
  ASSUME PoolInv, NEW k \in Threads, NEW from, NEW to \in ThreadLabels,
         from # "unborn", to # "unborn", Goto(k, from, to), size' = size,
         UNCHANGED <<queued, active, jobs>>,
         from \in Dequeuing <=> to \in Dequeuing, from \in Working <=> to \in Working
  PROVE  CountersExact'
<1>1. /\ thread[k] = from /\ thread'[k] = to
      /\ \A i \in Threads : i # k => thread'[i] = thread[i]
  BY Moved
<1>2. \A i \in Threads : thread[i] \in Dequeuing <=> thread'[i] \in Dequeuing
  BY <1>1
<1>3. \A i \in Threads : thread[i] \in Working <=> thread'[i] \in Working
  BY <1>1
<1>4. Count(thread', Dequeuing) = Count(thread, Dequeuing)
  BY <1>2, CountSame
<1>5. Count(thread', Working) = Count(thread, Working)
  BY <1>3, CountSame
<1> QED
  BY <1>4, <1>5, CountersAre, CountersAreNext DEF PoolInv

LEMMA ReceiveKeeps ==
  ASSUME PoolInv, NEW k \in Threads, Receive(k)
  PROVE  PoolInv'
<1>1. /\ thread' \in [Threads -> ThreadLabels]
      /\ thread[k] = "waiting" /\ thread'[k] = "received"
      /\ \A i \in Threads : i # k => thread'[i] = thread[i]
      /\ WithinLimit'
  BY Moved DEF Receive, ThreadLabels
<1>2. jobs \in Seq(Jobs) /\ jobs # <<>>
  BY DEF PoolInv, PoolTypeOK, QueueTypes, Receive
<1>3. Head(jobs) \in Jobs /\ jobs' \in Seq(Jobs) /\ Len(jobs') = Len(jobs) - 1
  BY <1>2 DEF Receive
<1>4. Count(thread', Dequeuing) = Count(thread, Dequeuing) + 1
  BY <1>1, CountUp DEF Dequeuing
<1>5. Count(thread', Working) = Count(thread, Working)
  BY <1>1, CountSame DEF Working
<1>6. CountersExact'
  <2>1. Len(jobs) \in Nat
    BY <1>2
  <2>2. Count(thread, Dequeuing) \in Nat
    BY ThreadsFinite
  <2>3. queued' = queued /\ active' = active
    BY DEF Receive
  <2> QED
    BY <1>3, <1>4, <1>5, <2>1, <2>2, <2>3, CountersAre, CountersAreNext DEF PoolInv
<1>7. SignalTypeOK' /\ CallTypes'
  BY DEF PoolInv, PoolTypeOK, SignalTypeOK, CallTypes, Receive, callVars, signalVars
<1>8. ThreadTypes' /\ QueueTypes'
  BY <1>1, <1>3 DEF PoolInv, PoolTypeOK, ThreadTypes, QueueTypes, Receive
<1> QED
  BY <1>1, <1>6, <1>7, <1>8 DEF PoolInv, PoolTypeOK

LEMMA CountActiveKeeps ==
  ASSUME PoolInv, NEW k \in Threads, CountActive(k)
  PROVE  PoolInv'
<1>1. /\ thread' \in [Threads -> ThreadLabels]
      /\ thread[k] = "received" /\ thread'[k] = "active"
      /\ \A i \in Threads : i # k => thread'[i] = thread[i]
      /\ WithinLimit'
  BY Moved DEF CountActive, ThreadLabels
<1>2. Count(thread', Dequeuing) = Count(thread, Dequeuing)
  BY <1>1, CountSame DEF Dequeuing
<1>3. Count(thread', Working) = Count(thread, Working) + 1
  BY <1>1, CountUp DEF Working
<1>4. CountersExact'
  BY <1>2, <1>3, CountersAre, CountersAreNext DEF PoolInv, CountActive
<1>5. SignalTypeOK' /\ CallTypes' /\ QueueTypes'
  BY DEF PoolInv, PoolTypeOK, SignalTypeOK, CallTypes, QueueTypes, CountActive, callVars, signalVars
<1>6. ThreadTypes'
  BY <1>1 DEF PoolInv, PoolTypeOK, ThreadTypes, CountActive
<1> QED
  BY <1>1, <1>4, <1>5, <1>6 DEF PoolInv, PoolTypeOK

LEMMA CountDequeuedKeeps ==
  ASSUME PoolInv, NEW k \in Threads, CountDequeued(k)
  PROVE  PoolInv'
<1>1. /\ thread' \in [Threads -> ThreadLabels]
      /\ thread[k] = "active" /\ thread'[k] = "dequeued"
      /\ \A i \in Threads : i # k => thread'[i] = thread[i]
      /\ WithinLimit'
  BY Moved DEF CountDequeued, ThreadLabels
<1>2. Count(thread', Dequeuing) = Count(thread, Dequeuing) - 1
  BY <1>1, CountDown DEF Dequeuing
<1>3. Count(thread', Working) = Count(thread, Working)
  BY <1>1, CountSame DEF Working
<1>4. Count(thread, Dequeuing) \in Nat /\ Count(thread', Dequeuing) \in Nat
  BY ThreadsFinite
<1>5. Len(jobs) \in Nat /\ jobs' = jobs /\ queued' = queued - 1 /\ active' = active
  BY DEF PoolInv, PoolTypeOK, QueueTypes, CountDequeued
<1>6. CountersExact' /\ queued' \in Nat
  BY <1>2, <1>3, <1>4, <1>5, CountersAre, CountersAreNext DEF PoolInv
<1>7. SignalTypeOK' /\ CallTypes' /\ QueueTypes'
  BY DEF PoolInv, PoolTypeOK, SignalTypeOK, CallTypes, QueueTypes, CountDequeued, callVars, signalVars
<1>8. ThreadTypes'
  BY <1>1, <1>6 DEF PoolInv, PoolTypeOK, ThreadTypes, CountDequeued
<1> QED
  BY <1>1, <1>6, <1>7, <1>8 DEF PoolInv, PoolTypeOK

LEMMA FinishJobKeeps ==
  ASSUME PoolInv, NEW k \in Threads, FinishJob(k)
  PROVE  PoolInv'
<1>1. /\ thread' \in [Threads -> ThreadLabels]
      /\ thread[k] = "finished" /\ thread'[k] = "waiting"
      /\ \A i \in Threads : i # k => thread'[i] = thread[i]
      /\ WithinLimit'
  BY Moved DEF FinishJob, ThreadLabels
<1>2. Count(thread', Dequeuing) = Count(thread, Dequeuing)
  BY <1>1, CountSame DEF Dequeuing
<1>3. Count(thread', Working) = Count(thread, Working) - 1
  BY <1>1, CountDown DEF Working
<1>4. Count(thread, Working) \in Nat /\ Count(thread', Working) \in Nat
  BY ThreadsFinite
<1>5. jobs' = jobs /\ queued' = queued /\ active' = active - 1
  BY DEF FinishJob
<1>6. CountersExact' /\ active' \in Nat
  BY <1>2, <1>3, <1>4, <1>5, CountersAre, CountersAreNext DEF PoolInv
<1>7. SignalTypeOK' /\ CallTypes' /\ QueueTypes'
  BY DEF PoolInv, PoolTypeOK, SignalTypeOK, CallTypes, QueueTypes, FinishJob, callVars, signalVars
<1>8. ThreadTypes'
  BY <1>1, <1>6 DEF PoolInv, PoolTypeOK, ThreadTypes, FinishJob
<1> QED
  BY <1>1, <1>6, <1>7, <1>8 DEF PoolInv, PoolTypeOK

\* The steps of a pool thread between the counters.
LEMMA JobKeeps ==
  ASSUME PoolInv, NEW k \in Threads,
         \/ ExitThread(k) \/ StartJob(k) \/ CompleteJob(k) \/ PanicJob(k)
         \/ WakeOwner(k) \/ InterruptOwner(k) \/ PublishPanic(k)
  PROVE  PoolInv'
<1> USE DEF ExitThread, StartJob, CompleteJob, PanicJob, WakeOwner, InterruptOwner, PublishPanic
<1>1. /\ UNCHANGED <<queued, active, jobs, holding, size, open, joiner>>
      /\ UNCHANGED callVars
  OBVIOUS
<1>2. PICK from \in ThreadLabels, to \in ThreadLabels :
        /\ from # "unborn" /\ to # "unborn" /\ Goto(k, from, to)
        /\ from \in Dequeuing <=> to \in Dequeuing
        /\ from \in Working <=> to \in Working
  BY DEF ThreadLabels, Dequeuing, Working
<1>3. thread' \in [Threads -> ThreadLabels] /\ WithinLimit'
  BY <1>1, <1>2, Moved
<1>4. CountersExact'
  BY <1>1, <1>2, Uncounted
<1>5. CallTypes' /\ ThreadTypes'
  BY <1>1, <1>3 DEF PoolInv, PoolTypeOK, CallTypes, ThreadTypes, callVars
<1>6. settled' \in [Jobs -> {"none", "pending", "ok", "panicked", "shutdown"}]
  BY DEF PoolInv, PoolTypeOK, QueueTypes, Settle
<1>7. QueueTypes'
  BY <1>1, <1>6 DEF PoolInv, PoolTypeOK, QueueTypes
<1>8. SignalTypeOK'
  BY DEF PoolInv, PoolTypeOK, SignalTypeOK, signalVars, Causes, Begin, NotifyReady, WakeDriver
<1> QED
  BY <1>3, <1>4, <1>5, <1>7, <1>8 DEF PoolInv, PoolTypeOK

\* The steps of a call of spawn_blocking.
LEMMA ExecuteKeeps ==
  ASSUME PoolInv, NEW j \in Jobs, Execute(j)
  PROVE  PoolInv'
<1>1. UNCHANGED <<owner, lock, sample, open, size, thread, holding, active, joiner, signalVars>>
  BY DEF Execute
<1>2. WithinLimit'
  BY <1>1 DEF PoolInv, WithinLimit, Alive
<1>3. jobs \in Seq(Jobs) /\ Len(jobs) \in Nat /\ queued \in Nat
  BY DEF PoolInv, PoolTypeOK, QueueTypes, ThreadTypes
<1>4. /\ jobs' \in Seq(Jobs) /\ queued' \in Nat
      /\ Len(jobs') - Len(jobs) = queued' - queued /\ Len(jobs') \in Nat
  BY <1>3 DEF Execute
<1>5. CountersExact'
  <2>1. Count(thread, Dequeuing) \in Nat
    BY ThreadsFinite
  <2> QED
    BY <1>1, <1>3, <1>4, <2>1, CountersAre, CountersAreNext DEF PoolInv
<1>6. SignalTypeOK' /\ ThreadTypes'
  BY <1>1, <1>4 DEF PoolInv, PoolTypeOK, SignalTypeOK, ThreadTypes, signalVars
<1>7. CallTypes'
  BY DEF PoolInv, PoolTypeOK, CallTypes, CallLabels, Execute
<1>8. QueueTypes'
  BY <1>4 DEF PoolInv, PoolTypeOK, QueueTypes, Execute, Settle
<1> QED
  BY <1>2, <1>5, <1>6, <1>7, <1>8 DEF PoolInv, PoolTypeOK

LEMMA GrowKeeps ==
  ASSUME PoolInv, NEW j \in Jobs, Grow(j)
  PROVE  PoolInv'
<1>1. UNCHANGED <<owner, holding, queued, active, settled, jobs, open, joiner, signalVars>>
  BY DEF Grow
<1>2. /\ size \in 1..MaxThreads /\ MaxThreads \in Nat /\ Alive = 1..size
      /\ thread \in [Threads -> ThreadLabels]
  BY PoolAssumption DEF PoolInv, PoolTypeOK, QueueTypes, ThreadTypes, WithinLimit, Threads
<1>3. CASE UNCHANGED <<size, thread>>
  <2>1. WithinLimit' /\ CountersExact'
    BY <1>1, <1>3 DEF PoolInv, WithinLimit, Alive, CountersExact
  <2>2. SignalTypeOK' /\ ThreadTypes' /\ QueueTypes'
    BY <1>1, <1>3 DEF PoolInv, PoolTypeOK, SignalTypeOK, ThreadTypes, QueueTypes, signalVars
  <2>3. CallTypes'
    BY DEF PoolInv, PoolTypeOK, CallTypes, CallLabels, Grow
  <2> QED
    BY <2>1, <2>2, <2>3 DEF PoolInv, PoolTypeOK
<1>4. CASE size + 1 <= MaxThreads /\ size' = size + 1 /\ thread' = [thread EXCEPT ![size + 1] = "waiting"]
  <2>1. size + 1 \in Threads /\ thread[size + 1] = "unborn"
    BY <1>2, <1>4 DEF Alive, Threads
  <2>2. /\ thread' \in [Threads -> ThreadLabels] /\ thread'[size + 1] = "waiting"
        /\ \A i \in Threads : i # size + 1 => thread'[i] = thread[i]
    BY <1>2, <1>4, <2>1 DEF ThreadLabels
  <2>3. Alive' = Alive \cup {size + 1}
    BY <2>1, <2>2 DEF Alive
  <2>4. WithinLimit'
    BY <1>2, <1>4, <2>3 DEF WithinLimit
  <2>5. Count(thread', Dequeuing) = Count(thread, Dequeuing)
    BY <2>1, <2>2, CountSame DEF Dequeuing
  <2>6. Count(thread', Working) = Count(thread, Working)
    BY <2>1, <2>2, CountSame DEF Working
  <2>7. CountersExact'
    BY <1>1, <2>5, <2>6, CountersAre, CountersAreNext DEF PoolInv
  <2>8. SignalTypeOK' /\ ThreadTypes' /\ QueueTypes'
    BY <1>1, <1>4, <2>1, <2>2 DEF PoolInv, PoolTypeOK, SignalTypeOK, ThreadTypes, QueueTypes, signalVars
  <2>9. CallTypes'
    BY DEF PoolInv, PoolTypeOK, CallTypes, CallLabels, Grow
  <2> QED
    BY <2>4, <2>7, <2>8, <2>9 DEF PoolInv, PoolTypeOK
<1> QED
  BY <1>3, <1>4 DEF Grow

\* The steps that leave the threads, the counters and the channel alone.
LEMMA QuietKeeps ==
  ASSUME PoolInv,
         \/ \E j \in Jobs, w \in Workers : SpawnBlocking(j, w)
         \/ \E j \in Jobs : Measure(j)
         \/ RequestStop
         \/ \E w \in Workers : JoinStep(w)
         \/ UNCHANGED poolAllVars
  PROVE  PoolInv'
<1> USE DEF SpawnBlocking, Measure, RequestStop, JoinStep, TakePool, JoinThreads,
            poolVars, poolAllVars
<1>1. UNCHANGED <<threadVars, jobs, size>>
  OBVIOUS
<1>2. ThreadTypes' /\ WithinLimit' /\ CountersExact'
  BY <1>1 DEF PoolInv, PoolTypeOK, ThreadTypes, WithinLimit, Alive, CountersExact, threadVars
<1>3. SignalTypeOK'
  BY DEF PoolInv, PoolTypeOK, SignalTypeOK, signalVars, Causes, Begin
<1>4. CallTypes'
  BY DEF PoolInv, PoolTypeOK, CallTypes, ThreadTypes, CallLabels, callVars
<1>5. QueueTypes'
  BY <1>1 DEF PoolInv, PoolTypeOK, QueueTypes, Settle
<1> QED
  BY <1>2, <1>3, <1>4, <1>5 DEF PoolInv, PoolTypeOK

LEMMA PoolInitInv == PoolStart => PoolInv
<1> SUFFICES ASSUME SignalInit, PoolInit PROVE PoolInv
  BY DEF PoolStart
<1>1. MaxThreads \in Nat /\ MaxThreads >= 1 /\ 1 \in Threads
  BY PoolAssumption DEF Threads
<1>2. SignalTypeOK
  BY DEF SignalInit, SignalTypeOK
<1>3. CallTypes /\ ThreadTypes /\ QueueTypes
  BY <1>1 DEF PoolInit, CallTypes, ThreadTypes, QueueTypes, CallLabels, ThreadLabels
<1>4. Alive = {1}
  BY <1>1 DEF PoolInit, Alive
<1>5. WithinLimit
  BY <1>1, <1>4 DEF PoolInit, WithinLimit
<1>6. {k \in Threads : thread[k] \in Dequeuing} = {} /\ {k \in Threads : thread[k] \in Working} = {}
  BY DEF PoolInit, Dequeuing, Working
<1>7. Count(thread, Dequeuing) = 0 /\ Count(thread, Working) = 0
  BY <1>6, FS_EmptySet DEF Count
<1>8. queued = 0 /\ active = 0 /\ Len(jobs) = 0
  BY DEF PoolInit
<1>9. CountersExact
  BY <1>7, <1>8, CountersAre
<1> QED
  BY <1>2, <1>3, <1>5, <1>9 DEF PoolInv, PoolTypeOK

LEMMA PoolNextInv == PoolInv /\ [PoolNext]_poolAllVars => PoolInv'
<1> SUFFICES ASSUME PoolInv, [PoolNext]_poolAllVars PROVE PoolInv'
  OBVIOUS
<1>1. ASSUME NEW j \in Jobs, CallStep(j) PROVE PoolInv'
  BY <1>1, ExecuteKeeps, QuietKeeps, GrowKeeps DEF CallStep
<1>2. ASSUME NEW k \in Threads, ThreadStep(k) PROVE PoolInv'
  BY <1>2, ReceiveKeeps, CountActiveKeeps, CountDequeuedKeeps, FinishJobKeeps, JobKeeps
     DEF ThreadStep
<1> QED
  BY <1>1, <1>2, QuietKeeps DEF PoolNext, PoolStep

\* The state of the blocking pool keeps its types; in particular fetch_sub never
\* takes queued_count or active_count below zero.
THEOREM PoolTyping == PoolSpec => []PoolTypeOK
<1>1. PoolInv => PoolTypeOK
  BY DEF PoolInv
<1> QED
  BY <1>1, PoolInitInv, PoolNextInv, PTL DEF PoolSpec

\* The two load counters are the jobs sent and not counted out, and the threads
\* with a job, in any state of the pool.
THEOREM PoolCounters == PoolSpec => []CountersExact
<1>1. PoolInv => CountersExact
  BY DEF PoolInv
<1> QED
  BY <1>1, PoolInitInv, PoolNextInv, PTL DEF PoolSpec

\* The pool keeps its thread limit, however calls, pool threads and the shutdown
\* interleave.
THEOREM PoolLimits == PoolSpec => []WithinLimit
<1>1. PoolInv => WithinLimit
  BY DEF PoolInv
<1> QED
  BY <1>1, PoolInitInv, PoolNextInv, PTL DEF PoolSpec

-----------------------------------------------------------------------------
(* Joining the pool. *)

\* The sender of job j is with its call, in the channel, or with a pool thread
\* that has yet to settle it.
Located(j) ==
  \/ call[j] = "checked"
  \/ \E i \in DOMAIN jobs : jobs[i] = j
  \/ \E k \in Threads : holding[k] = j /\ thread[k] \in Dequeuing \cup (Working \ {"finished"})

\* No pending job is lost.
LocatedOK == \A j \in Jobs : settled[j] = "pending" => Located(j)

\* An open pool has all its threads and nobody joins it; a closed one gets
\* neither jobs nor threads, a thread has left it only when the channel was
\* empty, and once nobody waits for its threads they are all gone.
ClosedOK ==
  /\ lock # NoJob => open
  /\ open => (\A k \in Threads : thread[k] # "exited") /\ \A w \in Workers : joiner[w] = "working"
  /\ (\E k \in Threads : thread[k] = "exited") => jobs = <<>>
  /\ ~open /\ (\A w \in Workers : joiner[w] # "joining") => \A k \in Alive : thread[k] = "exited"

LEMMA JoinInit == PoolStart => ClosedOK /\ LocatedOK
BY DEF PoolStart, PoolInit, ClosedOK, LocatedOK

LEMMA CallKeepsClosed ==
  ASSUME PoolInv, ClosedOK, NEW j \in Jobs, CallStep(j)
  PROVE  ClosedOK'
<1>1. CASE Execute(j)
  BY <1>1 DEF Execute, ClosedOK, Alive
<1>2. CASE Measure(j)
  BY <1>2 DEF Measure, ClosedOK, Alive, threadVars
<1>3. CASE Grow(j)
  <2>1. lock' = NoJob /\ open /\ UNCHANGED <<jobs, open, joiner>>
    BY <1>3, PoolAssumption DEF Grow, ClosedOK
  <2>2. \A k \in Threads : thread'[k] # "exited"
    BY <1>3, <2>1 DEF Grow, ClosedOK, PoolInv, PoolTypeOK, ThreadTypes
  <2> QED
    BY <2>1, <2>2 DEF ClosedOK
<1> QED
  BY <1>1, <1>2, <1>3 DEF CallStep

LEMMA ThreadKeepsClosed ==
  ASSUME PoolInv, ClosedOK, NEW k \in Threads, ThreadStep(k)
  PROVE  ClosedOK'
<1> USE DEF ThreadStep, ExitThread, Receive, CountActive, CountDequeued, StartJob, CompleteJob,
            PanicJob, WakeOwner, InterruptOwner, PublishPanic, FinishJob, callVars
<1>1. UNCHANGED <<lock, open, joiner>>
  OBVIOUS
<1>2. PICK from \in ThreadLabels \ {"unborn", "exited"}, to \in ThreadLabels \ {"unborn"} :
        /\ Goto(k, from, to)
        /\ to = "exited" => ~open /\ jobs = <<>> /\ jobs' = jobs
  BY DEF ThreadLabels, Goto
<1>3. /\ thread[k] = from /\ thread'[k] = to
      /\ \A i \in Threads : i # k => thread'[i] = thread[i]
  BY <1>2 DEF Goto, PoolInv, PoolTypeOK, ThreadTypes
<1>4. jobs = <<>> => jobs' = <<>>
  OBVIOUS
<1>5. k \in Alive /\ thread[k] # "exited" /\ Alive' = Alive
  BY <1>2, <1>3 DEF Alive
<1>6. open => \A i \in Threads : thread'[i] # "exited"
  BY <1>2, <1>3 DEF ClosedOK
<1>7. (\E i \in Threads : thread'[i] = "exited") => jobs' = <<>>
  BY <1>2, <1>3, <1>4 DEF ClosedOK
<1>8. ~open => \E w \in Workers : joiner[w] = "joining"
  BY <1>5 DEF ClosedOK
<1> QED
  BY <1>1, <1>6, <1>7, <1>8 DEF ClosedOK

LEMMA JoinKeepsClosed ==
  ASSUME PoolInv, ClosedOK, NEW w \in Workers, TakePool(w) \/ JoinThreads(w)
  PROVE  ClosedOK'
<1>1. joiner \in [Workers -> {"working", "joining", "joined"}] /\ open \in BOOLEAN
  BY DEF PoolInv, PoolTypeOK, QueueTypes
<1>2. CASE TakePool(w)
  BY <1>1, <1>2 DEF TakePool, ClosedOK, Alive, callVars, threadVars
<1>3. CASE JoinThreads(w)
  BY <1>1, <1>3 DEF JoinThreads, ClosedOK, Alive, callVars, threadVars
<1> QED
  BY <1>2, <1>3

LEMMA ClosedNext == PoolInv /\ ClosedOK /\ [PoolNext]_poolAllVars => ClosedOK'
<1> SUFFICES ASSUME PoolInv, ClosedOK, [PoolNext]_poolAllVars PROVE ClosedOK'
  OBVIOUS
<1>1. ASSUME NEW j \in Jobs, NEW w \in Workers, SpawnBlocking(j, w) PROVE ClosedOK'
  BY <1>1 DEF SpawnBlocking, ClosedOK, Alive, threadVars
<1>2. CASE RequestStop \/ UNCHANGED poolAllVars
  BY <1>2 DEF RequestStop, ClosedOK, Alive, poolAllVars, poolVars, callVars, threadVars
<1> QED
  BY <1>1, <1>2, CallKeepsClosed, ThreadKeepsClosed, JoinKeepsClosed DEF PoolNext, PoolStep, JoinStep

\* Taking the head of the channel leaves every other job in it.
LEMMA TailKeeps ==
  ASSUME NEW q \in Seq(Jobs), q # <<>>, NEW j, NEW i \in DOMAIN q, q[i] = j, j # Head(q)
  PROVE  \E n \in DOMAIN Tail(q) : Tail(q)[n] = j
<1>1. i \in 1..Len(q) /\ i # 1
  OBVIOUS
<1>2. i - 1 \in DOMAIN Tail(q) /\ Tail(q)[i - 1] = q[i]
  BY <1>1
<1> QED
  BY <1>2

LEMMA CallKeepsLocated ==
  ASSUME PoolInv, LocatedOK, NEW j \in Jobs, CallStep(j)
  PROVE  LocatedOK'
<1> SUFFICES ASSUME NEW u \in Jobs, settled'[u] = "pending" PROVE Located(u)'
  BY DEF LocatedOK
<1>1. jobs \in Seq(Jobs) /\ call \in [Jobs -> CallLabels] /\ thread \in [Threads -> ThreadLabels]
      /\ settled \in [Jobs -> {"none", "pending", "ok", "panicked", "shutdown"}]
  BY DEF PoolInv, PoolTypeOK, QueueTypes, CallTypes, ThreadTypes
<1>2. CASE Execute(j)
  <2>1. CASE u = j
    <3>1. jobs' = Append(jobs, j)
      BY <1>1, <1>2, <2>1 DEF Execute, Settle
    <3>2. Len(jobs) + 1 \in DOMAIN jobs' /\ jobs'[Len(jobs) + 1] = j
      BY <1>1, <3>1
    <3> QED
      BY <2>1, <3>2 DEF Located
  <2>2. CASE u # j
    <3>1. Located(u) /\ call'[u] = call[u] /\ UNCHANGED <<holding, thread>>
      BY <1>1, <1>2, <2>2 DEF LocatedOK, Execute, Settle
    <3>2. \A i \in DOMAIN jobs : i \in DOMAIN jobs' /\ jobs'[i] = jobs[i]
      BY <1>1, <1>2 DEF Execute
    <3> QED
      BY <3>1, <3>2 DEF Located
  <2> QED
    BY <2>1, <2>2
<1>3. CASE Measure(j)
  <2>1. Located(u) /\ UNCHANGED <<jobs, holding, thread>>
    BY <1>3 DEF Measure, LocatedOK, threadVars
  <2>2. call[u] = "checked" => call'[u] = "checked"
    BY <1>1, <1>3 DEF Measure
  <2> QED
    BY <2>1, <2>2 DEF Located
<1>4. CASE Grow(j)
  <2>1. Located(u) /\ UNCHANGED <<jobs, holding>>
    BY <1>4 DEF Grow, LocatedOK
  <2>2. call[u] = "checked" => call'[u] = "checked"
    BY <1>1, <1>4 DEF Grow
  <2>3. \A k \in Threads : thread[k] # "unborn" => thread'[k] = thread[k]
    <3>1. size \in Nat /\ size + 1 \notin Alive
      BY PoolAssumption DEF PoolInv, PoolTypeOK, QueueTypes, WithinLimit, Threads
    <3> QED
      BY <1>1, <1>4, <3>1 DEF Grow, Alive
  <2> QED
    BY <2>1, <2>2, <2>3 DEF Located, Dequeuing, Working
<1> QED
  BY <1>2, <1>3, <1>4 DEF CallStep

LEMMA ThreadKeepsLocated ==
  ASSUME PoolInv, LocatedOK, NEW k \in Threads, ThreadStep(k)
  PROVE  LocatedOK'
<1> SUFFICES ASSUME NEW u \in Jobs, settled'[u] = "pending" PROVE Located(u)'
  BY DEF LocatedOK
<1> DEFINE Unsettled == Dequeuing \cup (Working \ {"finished"})
<1>1. /\ jobs \in Seq(Jobs) /\ thread \in [Threads -> ThreadLabels]
      /\ holding \in [Threads -> Jobs \cup {NoJob}]
      /\ settled \in [Jobs -> {"none", "pending", "ok", "panicked", "shutdown"}]
  BY DEF PoolInv, PoolTypeOK, QueueTypes, ThreadTypes
<1>2. /\ UNCHANGED call
      /\ \A i \in Threads : i # k => thread'[i] = thread[i] /\ holding'[i] = holding[i]
  BY <1>1 DEF ThreadStep, ExitThread, Receive, CountActive, CountDequeued, StartJob, CompleteJob,
              PanicJob, WakeOwner, InterruptOwner, PublishPanic, FinishJob, callVars, Goto
<1>3. Located(u)
  BY <1>1 DEF LocatedOK, ThreadStep, ExitThread, Receive, CountActive, CountDequeued, StartJob,
              CompleteJob, PanicJob, WakeOwner, InterruptOwner, PublishPanic, FinishJob, Settle
<1>4. CASE Receive(k)
  <2>1. /\ thread[k] = "waiting" /\ thread'[k] = "received" /\ holding'[k] = Head(jobs)
        /\ jobs # <<>> /\ jobs' = Tail(jobs)
    BY <1>1, <1>4 DEF Receive, Goto
  <2>2. CASE call[u] = "checked" \/ \E i \in Threads : holding[i] = u /\ thread[i] \in Unsettled
    BY <1>2, <2>1, <2>2 DEF Located, Dequeuing, Working
  <2>3. ASSUME NEW i \in DOMAIN jobs, jobs[i] = u PROVE Located(u)'
    <3>1. CASE u = Head(jobs)
      BY <2>1, <3>1 DEF Located, Dequeuing
    <3>2. CASE u # Head(jobs)
      BY <1>1, <2>1, <2>3, <3>2, TailKeeps DEF Located
    <3> QED
      BY <3>1, <3>2
  <2> QED
    BY <1>3, <2>2, <2>3 DEF Located
<1>5. CASE ~Receive(k)
  <2>1. jobs' = jobs
    BY <1>5 DEF ThreadStep, ExitThread, CountActive, CountDequeued, StartJob, CompleteJob,
                PanicJob, WakeOwner, InterruptOwner, PublishPanic, FinishJob
  <2>2. holding[k] = u /\ thread[k] \in Unsettled => holding'[k] = u /\ thread'[k] \in Unsettled
    BY <1>1, <1>5 DEF ThreadStep, ExitThread, CountActive, CountDequeued, StartJob, CompleteJob,
                PanicJob, WakeOwner, InterruptOwner, PublishPanic, FinishJob, Goto, Settle,
                Dequeuing, Working
  <2> QED
    BY <1>2, <1>3, <2>1, <2>2 DEF Located
<1> QED
  BY <1>4, <1>5

LEMMA LocatedNext == PoolInv /\ LocatedOK /\ [PoolNext]_poolAllVars => LocatedOK'
<1> SUFFICES ASSUME PoolInv, LocatedOK, [PoolNext]_poolAllVars PROVE LocatedOK'
  OBVIOUS
<1>1. ASSUME NEW j \in Jobs, NEW w \in Workers, SpawnBlocking(j, w) PROVE LocatedOK'
  <2>1. /\ call \in [Jobs -> CallLabels]
        /\ settled \in [Jobs -> {"none", "pending", "ok", "panicked", "shutdown"}]
    BY DEF PoolInv, PoolTypeOK, QueueTypes, CallTypes
  <2>2. UNCHANGED <<jobs, holding, thread>>
    BY <1>1 DEF SpawnBlocking, threadVars
  <2>3. \A u \in Jobs : settled'[u] = "pending" => call'[u] = "checked" \/ (u # j /\ settled[u] = "pending")
    BY <1>1, <2>1 DEF SpawnBlocking, Settle
  <2>4. \A u \in Jobs : u # j => call'[u] = call[u]
    BY <1>1, <2>1 DEF SpawnBlocking
  <2> QED
    BY <2>2, <2>3, <2>4 DEF LocatedOK, Located
<1>2. CASE RequestStop \/ UNCHANGED poolAllVars \/ \E w \in Workers : JoinStep(w)
  <2>1. UNCHANGED <<call, jobs, holding, thread, settled>>
    BY <1>2 DEF RequestStop, JoinStep, TakePool, JoinThreads, poolAllVars, poolVars, callVars, threadVars
  <2> QED
    BY <2>1 DEF LocatedOK, Located
<1> QED
  BY <1>1, <1>2, CallKeepsLocated, ThreadKeepsLocated DEF PoolNext, PoolStep

LEMMA JoinedQuiet ==
  ASSUME PoolInv, ClosedOK, LocatedOK
  PROVE  JoinedIsQuiet
<1> SUFFICES ASSUME \A w \in Workers : joiner[w] = "joined"
             PROVE  /\ jobs = <<>>
                    /\ \A k \in Alive : thread[k] = "exited"
                    /\ \A j \in Jobs : settled[j] = "pending" => call[j] = "checked"
  BY DEF JoinedIsQuiet
<1>1. ~open
  BY WorkersAssumption DEF ClosedOK
<1>2. \A k \in Alive : thread[k] = "exited"
  BY <1>1 DEF ClosedOK
<1>3. 1 \in Alive /\ Alive \subseteq Threads
  BY PoolAssumption DEF PoolInv, PoolTypeOK, QueueTypes, WithinLimit, Threads, Alive
<1>4. jobs = <<>>
  BY <1>2, <1>3 DEF ClosedOK
<1>5. \A k \in Threads : thread[k] \notin Dequeuing \cup (Working \ {"finished"})
  BY <1>2 DEF Alive, Dequeuing, Working
<1> QED
  BY <1>2, <1>4, <1>5 DEF LocatedOK, Located

\* When every worker is back from Pool::join, the channel is empty, no pool
\* thread is left, and every submitted job is settled: the workers that found
\* the pool taken did not leave a blocking function behind.
THEOREM JoinIsComplete == PoolSpec => []JoinedIsQuiet
<1> DEFINE JoinInv == PoolInv /\ ClosedOK /\ LocatedOK
<1>1. PoolStart => JoinInv
  BY PoolInitInv, JoinInit
<1>2. JoinInv /\ [PoolNext]_poolAllVars => JoinInv'
  BY PoolNextInv, ClosedNext, LocatedNext
<1>3. JoinInv => JoinedIsQuiet
  BY JoinedQuiet
<1> QED
  BY <1>1, <1>2, <1>3, PTL DEF PoolSpec

-----------------------------------------------------------------------------
(* A pending job is in exactly one place. *)

\* Thread k has a job that it has yet to settle.
Holding(k) == holding[k] # NoJob /\ thread[k] # "finished"

\* A thread has a job exactly from receiving it to the end of its loop.
BusyOK == \A k \in Threads : holding[k] # NoJob <=> thread[k] \in Dequeuing \cup Working

\* The places of a job exclude each other, and a job in a place is pending.
\* LocatedOK is the converse: a pending job is in a place.
CallsOK ==
  \A j \in Jobs :
    /\ call[j] = "idle" => settled[j] = "none"
    /\ call[j] = "checked" => settled[j] = "pending"
ChannelOK ==
  \A i \in DOMAIN jobs :
    /\ settled[jobs[i]] = "pending" /\ call[jobs[i]] # "checked"
    /\ \A n \in DOMAIN jobs : jobs[n] = jobs[i] => n = i
HoldersOK ==
  \A k \in Threads : Holding(k) =>
    /\ settled[holding[k]] = "pending" /\ call[holding[k]] # "checked"
    /\ \A i \in DOMAIN jobs : jobs[i] # holding[k]
    /\ \A n \in Threads : Holding(n) /\ holding[n] = holding[k] => n = k

PlacesOK == BusyOK /\ CallsOK /\ ChannelOK /\ HoldersOK

LEMMA PlacesInit == PoolStart => PlacesOK
<1> SUFFICES ASSUME PoolInit PROVE PlacesOK
  BY DEF PoolStart
<1>1. \A k \in Threads : holding[k] = NoJob
  BY DEF PoolInit
<1>2. BusyOK
  BY <1>1 DEF PoolInit, BusyOK, Dequeuing, Working
<1>3. CallsOK /\ ChannelOK
  BY DEF PoolInit, CallsOK, ChannelOK
<1>4. HoldersOK
  BY <1>1 DEF HoldersOK, Holding
<1> QED
  BY <1>2, <1>3, <1>4 DEF PlacesOK

LEMMA SpawnKeepsPlaces ==
  ASSUME PoolInv, PlacesOK, NEW j \in Jobs, NEW w \in Workers, SpawnBlocking(j, w)
  PROVE  PlacesOK'
<1>1. /\ call \in [Jobs -> CallLabels] /\ jobs \in Seq(Jobs)
      /\ settled \in [Jobs -> {"none", "pending", "ok", "panicked", "shutdown"}]
      /\ holding \in [Threads -> Jobs \cup {NoJob}]
  BY DEF PoolInv, PoolTypeOK, QueueTypes, CallTypes, ThreadTypes
<1>2. UNCHANGED <<jobs, holding, thread>> /\ settled[j] = "none"
  BY DEF SpawnBlocking, threadVars, PlacesOK, CallsOK
<1>3. \A u \in Jobs : u # j => settled'[u] = settled[u] /\ call'[u] = call[u]
  BY <1>1 DEF SpawnBlocking, Settle
<1>4. BusyOK'
  BY <1>2 DEF PlacesOK, BusyOK
<1>5. CallsOK'
  BY <1>1 DEF SpawnBlocking, Settle, PlacesOK, CallsOK
<1>6. \A i \in DOMAIN jobs : jobs[i] \in Jobs /\ jobs[i] # j
  BY <1>1, <1>2 DEF PlacesOK, ChannelOK
<1>7. ChannelOK'
  BY <1>2, <1>3, <1>6 DEF PlacesOK, ChannelOK
<1>8. \A k \in Threads : Holding(k) => holding[k] \in Jobs /\ holding[k] # j
  BY <1>1, <1>2 DEF PlacesOK, HoldersOK, Holding
<1>9. HoldersOK'
  BY <1>2, <1>3, <1>8 DEF PlacesOK, HoldersOK, Holding
<1> QED
  BY <1>4, <1>5, <1>7, <1>9 DEF PlacesOK

LEMMA ExecuteKeepsPlaces ==
  ASSUME PoolInv, PlacesOK, NEW j \in Jobs, Execute(j)
  PROVE  PlacesOK'
<1>1. /\ call \in [Jobs -> CallLabels] /\ jobs \in Seq(Jobs)
      /\ settled \in [Jobs -> {"none", "pending", "ok", "panicked", "shutdown"}]
      /\ holding \in [Threads -> Jobs \cup {NoJob}]
  BY DEF PoolInv, PoolTypeOK, QueueTypes, CallTypes, ThreadTypes
<1>2. UNCHANGED <<holding, thread>> /\ call[j] = "checked" /\ call'[j] \in {"queued", "returned"}
  BY <1>1 DEF Execute
<1>3. settled[j] = "pending"
  BY <1>2 DEF PlacesOK, CallsOK
<1>4. \A i \in DOMAIN jobs : jobs[i] \in Jobs /\ jobs[i] # j
  BY <1>1, <1>2 DEF PlacesOK, ChannelOK
<1>5. \A k \in Threads : Holding(k) => holding[k] \in Jobs /\ holding[k] # j
  BY <1>1, <1>2 DEF PlacesOK, HoldersOK, Holding
<1>6. \A u \in Jobs : u # j => settled'[u] = settled[u] /\ call'[u] = call[u]
  BY <1>1 DEF Execute, Settle
<1>7. BusyOK' /\ CallsOK'
  BY <1>2, <1>6 DEF PlacesOK, BusyOK, CallsOK
<1>8. CASE jobs' = jobs
  <2>1. ChannelOK'
    BY <1>4, <1>6, <1>8 DEF PlacesOK, ChannelOK
  <2>2. HoldersOK'
    BY <1>2, <1>5, <1>6, <1>8 DEF PlacesOK, HoldersOK, Holding
  <2> QED
    BY <1>7, <2>1, <2>2 DEF PlacesOK
<1>9. CASE jobs' = Append(jobs, j) /\ settled' = settled
  <2>1. /\ DOMAIN jobs' = DOMAIN jobs \cup {Len(jobs) + 1} /\ Len(jobs) + 1 \notin DOMAIN jobs
        /\ jobs'[Len(jobs) + 1] = j /\ \A i \in DOMAIN jobs : jobs'[i] = jobs[i]
    BY <1>1, <1>9
  <2>2. ChannelOK'
    BY <1>2, <1>3, <1>4, <1>6, <1>9, <2>1 DEF PlacesOK, ChannelOK
  <2>3. HoldersOK'
    BY <1>2, <1>5, <1>6, <1>9, <2>1 DEF PlacesOK, HoldersOK, Holding
  <2> QED
    BY <1>7, <2>2, <2>3 DEF PlacesOK
<1> QED
  BY <1>8, <1>9 DEF Execute

\* The second half of a call touches no place.
LEMMA GrowthKeepsPlaces ==
  ASSUME PoolInv, PlacesOK, NEW j \in Jobs, Measure(j) \/ Grow(j)
  PROVE  PlacesOK'
<1>1. /\ call \in [Jobs -> CallLabels] /\ thread \in [Threads -> ThreadLabels]
      /\ size \in Nat /\ size + 1 \notin Alive
  BY PoolAssumption DEF PoolInv, PoolTypeOK, CallTypes, ThreadTypes, QueueTypes, WithinLimit, Threads
<1>2. UNCHANGED <<jobs, holding, settled>>
  BY DEF Measure, Grow, threadVars
<1>3. \A u \in Jobs : /\ call'[u] = "checked" <=> call[u] = "checked"
                      /\ call'[u] = "idle" => call[u] = "idle"
  BY <1>1 DEF Measure, Grow
<1>4. \A k \in Threads : \/ thread'[k] = thread[k]
                         \/ thread[k] = "unborn" /\ thread'[k] = "waiting"
  BY <1>1 DEF Measure, Grow, threadVars, Alive
<1>5. BusyOK' /\ \A k \in Threads : Holding(k)' => Holding(k)
  BY <1>2, <1>4 DEF PlacesOK, BusyOK, Dequeuing, Working, Holding
<1>6. jobs \in Seq(Jobs) /\ holding \in [Threads -> Jobs \cup {NoJob}]
  BY DEF PoolInv, PoolTypeOK, QueueTypes, ThreadTypes
<1>7. CallsOK' /\ ChannelOK'
  BY <1>2, <1>3, <1>6 DEF PlacesOK, CallsOK, ChannelOK
<1>8. HoldersOK'
  BY <1>2, <1>3, <1>5, <1>6 DEF PlacesOK, HoldersOK, Holding
<1> QED
  BY <1>5, <1>7, <1>8 DEF PlacesOK

LEMMA ReceiveKeepsPlaces ==
  ASSUME PoolInv, PlacesOK, NEW k \in Threads, Receive(k)
  PROVE  PlacesOK'
<1>1. /\ jobs \in Seq(Jobs) /\ jobs # <<>> /\ jobs' = Tail(jobs)
      /\ thread \in [Threads -> ThreadLabels] /\ holding \in [Threads -> Jobs \cup {NoJob}]
  BY DEF PoolInv, PoolTypeOK, QueueTypes, ThreadTypes, Receive
<1>2. /\ UNCHANGED <<call, settled>> /\ Head(jobs) \in Jobs
      /\ thread[k] = "waiting" /\ thread'[k] = "received" /\ holding'[k] = Head(jobs)
      /\ \A i \in Threads : i # k => thread'[i] = thread[i] /\ holding'[i] = holding[i]
  BY <1>1 DEF Receive, Goto, callVars
<1>3. Head(jobs) = jobs[1] /\ 1 \in DOMAIN jobs
  BY <1>1
<1>4. \A i \in DOMAIN jobs' : i + 1 \in DOMAIN jobs /\ i + 1 # 1 /\ jobs'[i] = jobs[i + 1] /\ i \in Nat
  BY <1>1
<1>5. \A i \in DOMAIN jobs' : jobs'[i] # Head(jobs)
  BY <1>3, <1>4 DEF PlacesOK, ChannelOK
<1>6. BusyOK'
  BY <1>2, PoolAssumption DEF PlacesOK, BusyOK, Dequeuing, Working
<1>7. CallsOK'
  BY <1>2 DEF PlacesOK, CallsOK
<1>8. ChannelOK'
  <2> SUFFICES ASSUME NEW i \in DOMAIN jobs'
               PROVE  /\ settled[jobs'[i]] = "pending" /\ call[jobs'[i]] # "checked"
                      /\ \A n \in DOMAIN jobs' : jobs'[n] = jobs'[i] => n = i
    BY <1>2 DEF ChannelOK
  <2>1. settled[jobs'[i]] = "pending" /\ call[jobs'[i]] # "checked"
    BY <1>4 DEF PlacesOK, ChannelOK
  <2>2. ASSUME NEW n \in DOMAIN jobs', jobs'[n] = jobs'[i] PROVE n = i
    <3>1. n + 1 = i + 1
      BY <1>4, <2>2 DEF PlacesOK, ChannelOK
    <3> QED
      BY <1>4, <3>1
  <2> QED
    BY <2>1, <2>2
<1>9. HoldersOK'
  <2>1. ASSUME NEW i \in Threads, i # k, Holding(i)'
        PROVE  Holding(i) /\ holding'[i] = holding[i] /\ holding[i] # Head(jobs)
    BY <1>2, <1>3, <2>1 DEF PlacesOK, HoldersOK, Holding
  <2>2. \A i \in Threads : i # k /\ Holding(i)' => \A n \in DOMAIN jobs' : jobs'[n] # holding'[i]
    BY <1>4, <2>1 DEF PlacesOK, HoldersOK
  <2>3. settled[Head(jobs)] = "pending" /\ call[Head(jobs)] # "checked"
    BY <1>3 DEF PlacesOK, ChannelOK
  <2>4. \A i \in Threads : Holding(i)' => settled'[holding'[i]] = "pending" /\ call'[holding'[i]] # "checked"
    BY <1>2, <2>1, <2>3 DEF PlacesOK, HoldersOK
  <2>5. \A i, n \in Threads : Holding(i)' /\ Holding(n)' /\ holding'[n] = holding'[i] => n = i
    BY <1>2, <2>1 DEF PlacesOK, HoldersOK
  <2>6. \A i \in Threads : Holding(i)' => \A n \in DOMAIN jobs' : jobs'[n] # holding'[i]
    BY <1>2, <1>5, <2>2
  <2> QED
    BY <2>4, <2>5, <2>6 DEF HoldersOK
<1> QED
  BY <1>6, <1>7, <1>8, <1>9 DEF PlacesOK

\* The steps of a pool thread after it has received a job, and its exit.
LEMMA WorkKeepsPlaces ==
  ASSUME PoolInv, PlacesOK, NEW k \in Threads, ThreadStep(k), ~Receive(k)
  PROVE  PlacesOK'
<1> USE DEF ThreadStep, ExitThread, CountActive, CountDequeued, StartJob, CompleteJob,
            PanicJob, WakeOwner, InterruptOwner, PublishPanic, FinishJob
<1>1. /\ jobs \in Seq(Jobs) /\ thread \in [Threads -> ThreadLabels]
      /\ holding \in [Threads -> Jobs \cup {NoJob}] /\ call \in [Jobs -> CallLabels]
      /\ settled \in [Jobs -> {"none", "pending", "ok", "panicked", "shutdown"}]
  BY DEF PoolInv, PoolTypeOK, QueueTypes, ThreadTypes, CallTypes
<1>2. /\ UNCHANGED <<call, jobs>>
      /\ \A i \in Threads : i # k => thread'[i] = thread[i] /\ holding'[i] = holding[i]
  BY <1>1 DEF callVars, Goto
<1>3. BusyOK'
  <2>1. holding'[k] # NoJob <=> thread'[k] \in Dequeuing \cup Working
    BY <1>1 DEF PlacesOK, BusyOK, Goto, Dequeuing, Working
  <2> QED
    BY <1>2, <2>1 DEF PlacesOK, BusyOK
<1>4. CASE settled' = settled /\ (Holding(k)' => Holding(k) /\ holding'[k] = holding[k])
  <2>1. CallsOK' /\ ChannelOK'
    BY <1>2, <1>4 DEF PlacesOK, CallsOK, ChannelOK
  <2>2. \A i \in Threads : Holding(i)' => Holding(i) /\ holding'[i] = holding[i]
    BY <1>2, <1>4 DEF Holding
  <2>3. HoldersOK'
    BY <1>2, <1>4, <2>2 DEF PlacesOK, HoldersOK
  <2> QED
    BY <1>3, <2>1, <2>3 DEF PlacesOK
<1>5. CASE /\ Holding(k) /\ ~Holding(k)' /\ holding[k] \in Jobs
           /\ \A j \in Jobs : j # holding[k] => settled'[j] = settled[j]
  <2>1. CallsOK'
    BY <1>1, <1>2, <1>5 DEF PlacesOK, CallsOK, HoldersOK
  <2>2. \A i \in DOMAIN jobs : jobs[i] \in Jobs /\ jobs[i] # holding[k]
    BY <1>1, <1>5 DEF PlacesOK, HoldersOK
  <2>3. ChannelOK'
    BY <1>2, <1>5, <2>2 DEF PlacesOK, ChannelOK
  <2>4. \A i \in Threads : Holding(i)' => /\ i # k /\ Holding(i) /\ holding'[i] = holding[i]
                                          /\ holding[i] \in Jobs /\ holding[i] # holding[k]
    BY <1>1, <1>2, <1>5 DEF Holding, PlacesOK, HoldersOK
  <2>5. HoldersOK'
    BY <1>2, <1>5, <2>4 DEF PlacesOK, HoldersOK
  <2> QED
    BY <1>3, <2>1, <2>3, <2>5 DEF PlacesOK
<1>6. CASE ExitThread(k) \/ CountActive(k) \/ CountDequeued(k) \/ WakeOwner(k) \/ InterruptOwner(k)
  BY <1>1, <1>4, <1>6 DEF Holding, Goto
<1>7. CASE FinishJob(k)
  BY <1>1, <1>4, <1>7 DEF Holding, Goto
<1>8. CASE StartJob(k) \/ PanicJob(k)
  <2>1. holding[k] \in Jobs /\ Holding(k)
    BY <1>1, <1>8 DEF Holding, Goto, PlacesOK, BusyOK, Dequeuing, Working
  <2> QED
    BY <1>1, <1>4, <1>5, <1>8, <2>1 DEF Holding, Goto, Settle
<1>9. CASE CompleteJob(k) \/ PublishPanic(k)
  <2>1. holding[k] \in Jobs /\ Holding(k)
    BY <1>1, <1>9 DEF Holding, Goto, PlacesOK, BusyOK, Dequeuing, Working
  <2> QED
    BY <1>1, <1>5, <1>9, <2>1 DEF Holding, Goto, Settle
<1> QED
  BY <1>6, <1>7, <1>8, <1>9

LEMMA PlacesNext == PoolInv /\ PlacesOK /\ [PoolNext]_poolAllVars => PlacesOK'
<1> SUFFICES ASSUME PoolInv, PlacesOK, [PoolNext]_poolAllVars PROVE PlacesOK'
  OBVIOUS
<1>1. ASSUME NEW j \in Jobs, CallStep(j) PROVE PlacesOK'
  BY <1>1, ExecuteKeepsPlaces, GrowthKeepsPlaces DEF CallStep
<1>2. ASSUME NEW k \in Threads, ThreadStep(k) PROVE PlacesOK'
  BY <1>2, ReceiveKeepsPlaces, WorkKeepsPlaces
<1>3. CASE RequestStop \/ UNCHANGED poolAllVars \/ \E w \in Workers : JoinStep(w)
  <2>1. UNCHANGED <<call, jobs, holding, thread, settled>>
    BY <1>3 DEF RequestStop, JoinStep, TakePool, JoinThreads, poolAllVars, poolVars, callVars, threadVars
  <2> QED
    BY <2>1 DEF PlacesOK, BusyOK, CallsOK, ChannelOK, HoldersOK, Holding
<1> QED
  BY <1>1, <1>2, <1>3, SpawnKeepsPlaces DEF PoolNext, PoolStep

\* A set with at most one element has as many elements as it has members to show.
LEMMA AtMostOne ==
  ASSUME NEW S, \A x, y \in S : x = y
  PROVE  Cardinality(S) = IF S = {} THEN 0 ELSE 1
<1>1. CASE S = {}
  BY <1>1, FS_EmptySet
<1>2. CASE S # {}
  <2>1. PICK x \in S : S = {x}
    BY <1>2
  <2> QED
    BY <1>2, <2>1, FS_Singleton
<1> QED
  BY <1>1, <1>2

LEMMA JobsPlaced ==
  ASSUME LocatedOK, PlacesOK
  PROVE  PendingIsHeld
<1> SUFFICES ASSUME NEW j \in Jobs
             PROVE  Cardinality({i \in DOMAIN jobs : jobs[i] = j}) + Cardinality(Holders(j))
                      + (IF call[j] = "checked" THEN 1 ELSE 0)
                    = (IF settled[j] = "pending" THEN 1 ELSE 0)
  BY DEF PendingIsHeld
<1> DEFINE C == {i \in DOMAIN jobs : jobs[i] = j}
<1>1. \A k \in Threads : k \in Holders(j) <=> Holding(k) /\ holding[k] = j
  BY PoolAssumption DEF Holders, Holding
<1>2. Cardinality(C) = IF C = {} THEN 0 ELSE 1
  <2>1. \A x, y \in C : x = y
    BY DEF PlacesOK, ChannelOK
  <2> QED
    BY <2>1, AtMostOne
<1>3. Cardinality(Holders(j)) = IF Holders(j) = {} THEN 0 ELSE 1
  <2>1. \A x, y \in Holders(j) : x = y
    BY <1>1 DEF PlacesOK, HoldersOK, Holders
  <2> QED
    BY <2>1, AtMostOne
<1>4. settled[j] = "pending" <=> call[j] = "checked" \/ C # {} \/ Holders(j) # {}
  <2>1. settled[j] = "pending" => call[j] = "checked" \/ C # {} \/ Holders(j) # {}
    BY DEF LocatedOK, Located, Holders, Dequeuing, Working
  <2>2. call[j] = "checked" => settled[j] = "pending"
    BY DEF PlacesOK, CallsOK
  <2>3. C # {} => settled[j] = "pending"
    BY DEF PlacesOK, ChannelOK
  <2>4. Holders(j) # {} => settled[j] = "pending"
    BY <1>1 DEF PlacesOK, HoldersOK, Holders
  <2> QED
    BY <2>1, <2>2, <2>3, <2>4
<1>5. call[j] = "checked" => C = {} /\ Holders(j) = {}
  BY <1>1 DEF PlacesOK, ChannelOK, HoldersOK, Holders
<1>6. Holders(j) # {} => C = {}
  BY <1>1 DEF PlacesOK, HoldersOK, Holders
<1> HIDE DEF C
<1>7. Cardinality(C) + Cardinality(Holders(j)) + (IF call[j] = "checked" THEN 1 ELSE 0)
        = (IF settled[j] = "pending" THEN 1 ELSE 0)
  BY <1>2, <1>3, <1>4, <1>5, <1>6
<1> QED
  BY <1>7 DEF C

\* A pending job is with its call, in the channel or with one pool thread, never
\* in two places and never in none: every sender is dropped or publishes once.
THEOREM JobsAreHeld == PoolSpec => []PendingIsHeld
<1> DEFINE PlaceInv == PoolInv /\ LocatedOK /\ PlacesOK
<1>1. PoolStart => PlaceInv
  BY PoolInitInv, JoinInit, PlacesInit
<1>2. PlaceInv /\ [PoolNext]_poolAllVars => PlaceInv'
  BY PoolNextInv, LocatedNext, PlacesNext
<1>3. PlaceInv => PendingIsHeld
  BY JobsPlaced
<1> QED
  BY <1>1, <1>2, <1>3, PTL DEF PoolSpec
=============================================================================

----------------------- MODULE ExecutorLifecycleProofs -----------------------
(***************************************************************************)
(* Machine-checked proofs about what Executor does with its tasks as a     *)
(* whole: no task is queued twice, polled tasks are live, the task count   *)
(* is exact, shutdown is complete, the owner never parks on work, and the  *)
(* executor implements TaskLifecycle.  They rest on Typed, Accounted and   *)
(* WakeInv of ExecutorProofs.                                              *)
(***************************************************************************)
EXTENDS ExecutorProofs

Owned(t) == newTasks[t] + active[t] + pending[t]

\* A task that has never been polled: nobody has a waker of it.
Fresh(t) ==
  /\ sched[t] = "active" /\ awakened[t] = 0 /\ channel[t] = 0
  /\ wakers[t] = 0 /\ begun[t] = 0 /\ sent[t] = 0 /\ refused[t] = 0 /\ waking[t] = 0

\* Queues of the owner.
QueueOK(t) ==
  /\ newTasks[t] + active[t] <= 1 /\ newTasks[t] + pending[t] <= 1 /\ awakened[t] <= 1
  /\ newTasks[t] > 0 => Fresh(t)
  /\ pc \in {"swap", "drain", "append"} /\ active[t] > 0 => Fresh(t)
  /\ sched[t] # "retired" => Owned(t) >= 1

\* The notification of one task is in one place, also once the channel is closed.
SignalOK(t) ==
  /\ begun[t] + channel[t] + refused[t] <= 1
  /\ sched[t] \in {"active", "local"} => begun[t] + channel[t] + refused[t] = 0
  /\ awakened[t] > 0 \/ t \in toClear => sched[t] = "local"

\* What is queued is alive, except for the task that is ending, and except after
\* a context guard has panicked out of a cycle.
LiveOK(t) ==
  /\ payload[t] = "unborn" =>
       wakers[t] = 0 /\ begun[t] = 0 /\ sent[t] = 0 /\ refused[t] = 0 /\ waking[t] = 0
  /\ (/\ result # "unwound" /\ Owned(t) > 0
      /\ ~(pc \in {"finishing", "delivering"} /\ current = t))
       => payload[t] = "live" /\ sched[t] # "retired"
  /\ (outcome[t] # "none") <=> (payload[t] = "retired")

TasksOK == \A t \in Task : QueueOK(t) /\ SignalOK(t) /\ LiveOK(t)

\* No task is queued at all.
Vacant == \A t \in Task : newTasks[t] = 0 /\ active[t] = 0 /\ pending[t] = 0

Aborting == {"closing", "abort", "aborting", "cancelling"}

\* Shutdown and destruction, stage by stage.
StageOK ==
  /\ dropping => pc \in Aborting \cup {"close", "dropped", "aborted"}
  /\ result = "unwound" => pc = "between" \/ dropping
  /\ pc \in Aborting \cup {"close", "dropped", "aborted"} => Triggered
  /\ pc \in {"dropped", "aborted"} => closed
  /\ closed => Triggered
  /\ closed /\ pc # "closing" => IsEmpty(channel)
  /\ pc = "outcome" /\ Triggered => closed

\* Which queues are empty when.
EmptyOK ==
  /\ (\/ pc \in {"ready", "outcome"} \/ (pc = "between" /\ result # "unwound")
      \/ pc \in {"close", "closing"} /\ ~dropping)
       => IsEmpty(active)
  /\ pc \in {"swap", "drain", "append", "abort", "aborting", "cancelling"} => IsEmpty(newTasks)
  /\ pc \in {"abort", "aborting", "cancelling"} => IsEmpty(pending)
  /\ closed /\ ~dropping /\ result # "unwound" /\ pc \notin Aborting \cup {"aborted"} => Vacant
  /\ result = "shutdown" \/ pc = "dropped" =>
       closed /\ Vacant /\ pc \notin {"aborting", "cancelling"}

\* The outcome that is being delivered.
EndingOK ==
  /\ pc = "finishing" => ending # "none"
  /\ pc = "aborting" => ending = "cancelled"
  /\ ending = "cancelled" => Triggered
  /\ pc \in {"finishing"} /\ ending # "cancelled" => payload[current] = "live"

OwnedTasks == {t \in Task : Owned(t) > 0}

\* task_count, until the batch leaves it and after that.
CountOK ==
  /\ ~closed => taskCount = Cardinality(OwnedTasks)
  /\ closed => taskCount = 0 \/ (pc = "closing" /\ taskCount = Cardinality(OwnedTasks))

\* A remote notification is announced by the flag or about to be; the flag is
\* announced to the owner, about to be, or about to be read.
NoticeOK ==
  /\ IsEmpty(channel) \/ flag \/ ~IsEmpty(sent) \/ pc = "drain" \/ closed
  /\ flag => notified \/ ~IsEmpty(waking) \/ pc \in {"ready", "swap", "close"} \/ closed
  /\ pc = "between" /\ result = "suspend" /\ ~notified =>
       ~Triggered /\ IsEmpty(newTasks) /\ IsEmpty(awakened)

LifeInv == TasksOK /\ StageOK /\ EmptyOK /\ EndingOK /\ CountOK /\ NoticeOK

-----------------------------------------------------------------------------
(* Facts about one state. *)

\* A task whose waker anybody has is not among the new tasks.
LEMMA ReachableIsPolled ==
  ASSUME Typed, TasksOK, NEW t \in Task, CanReach(t)
  PROVE  newTasks[t] = 0 /\ ~(pc \in {"swap", "drain", "append"} /\ active[t] > 0)
<1> USE DEF Typed, TypeOK, TaskTypes, CallTypes, CurrentOK, Counts, TasksOK, QueueOK, Fresh
<1>1. CASE wakers[t] > 0
  BY <1>1
<1>2. CASE pc = "polling" /\ current = t
  BY <1>2
<1> QED
  BY <1>1, <1>2 DEF CanReach

\* A refused notification is the only one of its task.
LEMMA RefusedIsAlone ==
  ASSUME Typed, TasksOK, NEW t \in Task, refused[t] > 0
  PROVE  begun[t] = 0 /\ channel[t] = 0 /\ refused[t] = 1 /\ sched[t] # "local"
<1>1. begun[t] \in Nat /\ channel[t] \in Nat /\ refused[t] \in Nat
  BY DEF Typed, TypeOK, WakeTypes, CallTypes, Counts
<1>2. /\ begun[t] + channel[t] + refused[t] <= 1
      /\ sched[t] \in {"active", "local"} => begun[t] + channel[t] + refused[t] = 0
  BY DEF TasksOK, SignalOK
<1>3. begun[t] = 0 /\ channel[t] = 0 /\ refused[t] = 1
  BY <1>1, <1>2
<1>4. sched[t] # "local"
  BY <1>2, <1>3
<1> QED
  BY <1>3, <1>4

\* A task without a notification is not in the awakened queue.
LEMMA ActiveIsQuiet ==
  ASSUME Typed, TasksOK, NEW t \in Task, sched[t] = "active"
  PROVE  awakened[t] = 0
<1>1. awakened[t] \in Nat
  BY DEF Typed, TypeOK, WakeTypes, Counts
<1>2. ~(awakened[t] > 0)
  BY DEF TasksOK, SignalOK
<1> QED
  BY <1>1, <1>2

\* A woken task is held by another queue of the owner.
LEMMA AwakenedIsOwned ==
  ASSUME Typed, TasksOK, NEW t \in Task, awakened[t] > 0
  PROVE  sched[t] = "local" /\ Owned(t) > 0
<1>1. sched[t] = "local"
  BY DEF TasksOK, SignalOK
<1>2. Owned(t) \in Nat /\ Owned(t) >= 1
  BY <1>1 DEF Typed, TypeOK, TaskTypes, Counts, TasksOK, QueueOK, Owned
<1> QED
  BY <1>1, <1>2

\* An executor without tasks has no local wakes.
LEMMA VacantIsQuiet ==
  ASSUME Typed, TasksOK, Vacant
  PROVE  IsEmpty(awakened)
<1> SUFFICES ASSUME NEW t \in Task PROVE awakened[t] = 0
  BY DEF IsEmpty
<1>1. awakened[t] \in Nat /\ Owned(t) = 0
  BY DEF Typed, TypeOK, WakeTypes, Counts, Vacant, Owned
<1>2. ~(awakened[t] > 0)
  BY <1>1, AwakenedIsOwned
<1> QED
  BY <1>1, <1>2

\* A task that was never submitted is in no queue.
LEMMA NewIsNotOwned ==
  ASSUME WakesOK, NEW t \in Task, payload[t] = "unborn"
  PROVE  newTasks[t] = 0 /\ active[t] = 0 /\ pending[t] = 0
  BY DEF WakesOK, WakeOK

\* The tasks of the executor can be counted.
LEMMA OwnedIsFinite == IsFiniteSet(OwnedTasks)
  BY TaskAssumption, FS_Subset DEF OwnedTasks

\* While a task is polled or ends inside a cycle, the channel is open.
LEMMA InsideIsOpen ==
  ASSUME Typed, StageOK, EmptyOK, pc \in {"polling", "finishing", "delivering"}
  PROVE  ~closed
<1>1. ~dropping /\ result # "unwound" /\ pc \notin Aborting \cup {"aborted"}
  BY DEF StageOK, Aborting
<1>2. ~Vacant
  BY DEF Typed, CurrentOK, Vacant
<1> QED
  BY <1>1, <1>2 DEF EmptyOK

\* A step that moves no handle keeps the count.
LEMMA CountKept ==
  ASSUME CountOK, UNCHANGED <<newTasks, active, pending, taskCount, closed>>,
         pc = "closing" => pc' = "closing"
  PROVE  CountOK'
<1>1. OwnedTasks' = OwnedTasks
  BY DEF OwnedTasks, Owned
<1> QED
  BY <1>1 DEF CountOK

-----------------------------------------------------------------------------
(* The queues of the owner. *)

\* No step queues a task twice, or leaves one that can be woken without an owner.
LEMMA UserQueue ==
  ASSUME Typed, WakesOK, PhaseOK, TasksOK, StageOK, EmptyOK, EndingOK, NEW t \in Task,
       UserStep(t), NEW u \in Task
  PROVE  QueueOK(u)'
<1> USE DEF Typed, TypeOK, WakeTypes, CallTypes, TaskTypes, CycleTypes, CurrentOK,
     Labels, Counts, WakesOK, WakeOK, PhaseOK, TasksOK, QueueOK, SignalOK, LiveOK,
     Owned, Fresh, StageOK, EmptyOK, EndingOK, Vacant, Aborting, Triggered, IsEmpty,
     wakeVars, callVars, taskVars, cycleVars, Push, Pop, Clear, NoHandles, Goto
<1>1. CASE CloneWaker(t)
  <2>1. newTasks[t] = 0 /\ ~(pc \in {"swap", "drain", "append"} /\ active[t] > 0)
    BY <1>1, ReachableIsPolled DEF CloneWaker
  <2>2. CASE u = t
    BY <1>1, <2>1, <2>2 DEF CloneWaker
  <2>3. CASE u # t
    BY <1>1, <2>3 DEF CloneWaker
  <2> QED
    BY <2>2, <2>3
<1>2. CASE DropWaker(t)
  BY <1>2 DEF DropWaker
<1>3. CASE CoalescedWake(t)
  BY <1>3 DEF CoalescedWake, CanReach
<1>4. CASE LocalWake(t)
  <2>1. newTasks[t] = 0
    BY <1>4, ReachableIsPolled DEF LocalWake
  <2>2. sched[t] = "active"
    BY <1>4 DEF LocalWake, BeginNotification
  <2>3. awakened[t] = 0
    BY <2>2, ActiveIsQuiet
  <2>4. pc \notin {"swap", "drain", "append"}
    BY <1>4 DEF LocalWake, UserCode
  <2>5. CASE u = t
    BY <1>4, <2>1, <2>2, <2>3, <2>4, <2>5 DEF LocalWake, BeginNotification
  <2>6. CASE u # t
    BY <1>4, <2>6 DEF LocalWake, BeginNotification
  <2> QED
    BY <2>5, <2>6
<1>5. CASE RemoteBegin(t)
  <2>1. CASE u = t
    BY <1>5, <2>1 DEF RemoteBegin, BeginNotification
  <2>2. CASE u # t
    BY <1>5, <2>2 DEF RemoteBegin, BeginNotification
  <2> QED
    BY <2>1, <2>2
<1>6. CASE AcceptTask(t)
  <2>1. /\ newTasks[t] = 0 /\ active[t] = 0 /\ pending[t] = 0 /\ awakened[t] = 0
        /\ channel[t] = 0 /\ begun[t] = 0 /\ t \notin toClear
    BY <1>6 DEF AcceptTask
  <2>2. wakers[t] = 0 /\ sent[t] = 0 /\ refused[t] = 0 /\ waking[t] = 0
    BY <1>6 DEF AcceptTask
  <2>3. CASE u = t
    BY <1>6, <2>1, <2>2, <2>3 DEF AcceptTask
  <2>4. CASE u # t
    BY <1>6, <2>4 DEF AcceptTask
  <2> QED
    BY <2>3, <2>4
<1>7. CASE RefuseTask(t)
  BY <1>7 DEF RefuseTask, NotifySubmission, UserCode, Executing
<1> QED
  BY <1>1, <1>2, <1>3, <1>4, <1>5, <1>6, <1>7 DEF UserStep

LEMMA RemoteQueue ==
  ASSUME Typed, WakesOK, PhaseOK, TasksOK, StageOK, EmptyOK, EndingOK, NEW t \in Task,
       RemoteStep(t), NEW u \in Task
  PROVE  QueueOK(u)'
<1> USE DEF Typed, TypeOK, WakeTypes, CallTypes, TaskTypes, CycleTypes, CurrentOK,
     Labels, Counts, WakesOK, WakeOK, PhaseOK, TasksOK, QueueOK, SignalOK, LiveOK,
     Owned, Fresh, StageOK, EmptyOK, EndingOK, Vacant, Aborting, Triggered, IsEmpty,
     wakeVars, callVars, taskVars, cycleVars, Push, Pop, Clear, NoHandles, Goto
<1>1. CASE RemoteSend(t)
  <2>1. CASE u = t
    BY <1>1, <2>1 DEF RemoteSend
  <2>2. CASE u # t
    BY <1>1, <2>2 DEF RemoteSend
  <2> QED
    BY <2>1, <2>2
<1>2. CASE RemoteRefused(t)
  BY <1>2 DEF RemoteRefused, ClearNotification
<1>3. CASE RemotePublish(t)
  <2>1. CASE u = t
    BY <1>3, <2>1 DEF RemotePublish
  <2>2. CASE u # t
    BY <1>3, <2>2 DEF RemotePublish
  <2> QED
    BY <2>1, <2>2
<1>4. CASE RemoteNotify(t)
  BY <1>4 DEF RemoteNotify
<1> QED
  BY <1>1, <1>2, <1>3, <1>4 DEF RemoteStep

LEMMA TakeQueue ==
  ASSUME Typed, WakesOK, PhaseOK, TasksOK, StageOK, EmptyOK, EndingOK, NEW t \in Task,
       TakeStep(t), NEW u \in Task
  PROVE  QueueOK(u)'
<1> USE DEF Typed, TypeOK, WakeTypes, CallTypes, TaskTypes, CycleTypes, CurrentOK,
     Labels, Counts, WakesOK, WakeOK, PhaseOK, TasksOK, QueueOK, SignalOK, LiveOK,
     Owned, Fresh, StageOK, EmptyOK, EndingOK, Vacant, Aborting, Triggered, IsEmpty,
     wakeVars, callVars, taskVars, cycleVars, Push, Pop, Clear, NoHandles, Goto
<1>1. CASE DrainOne(t)
  BY <1>1 DEF DrainOne
<1>2. CASE ClearQueued(t)
  BY <1>2 DEF ClearQueued, ClearNotification
<1>3. CASE PollStart(t)
  BY <1>3 DEF PollStart
<1>4. CASE ShutdownAbort(t)
  <2>1. CASE u = t
    BY <1>4, <2>1 DEF ShutdownAbort, Retire
  <2>2. CASE u # t
    BY <1>4, <2>2 DEF ShutdownAbort, Retire
  <2> QED
    BY <2>1, <2>2
<1>5. CASE DropNotification(t)
  BY <1>5 DEF DropNotification
<1>6. CASE AbortStart(t)
  <2>1. awakened[t] > 0 => sched[t] = "local"
    OBVIOUS
  <2>2. /\ newTasks[t] = 0 /\ pending[t] = 0 /\ active[t] = 1 /\ newTasks[u] = 0
        /\ pc = "abort" /\ toClear = {}
    BY <1>6 DEF AbortStart
  <2>3. /\ sched'[t] = "retired" /\ awakened'[t] = 0 /\ active'[t] = 0
        /\ u # t => sched'[u] = sched[u] /\ awakened'[u] = awakened[u] /\ active'[u] = active[u]
    BY <1>6, <2>1, <2>2 DEF AbortStart, Retire
  <2>4. CASE u = t
    BY <1>6, <2>2, <2>3, <2>4 DEF AbortStart
  <2>5. CASE u # t
    BY <1>6, <2>2, <2>3, <2>5 DEF AbortStart
  <2> QED
    BY <2>4, <2>5
<1> QED
  BY <1>1, <1>2, <1>3, <1>4, <1>5, <1>6 DEF TakeStep

LEMMA CycleQueue ==
  ASSUME Typed, WakesOK, PhaseOK, TasksOK, StageOK, EmptyOK, EndingOK, CycleStep,
       NEW u \in Task
  PROVE  QueueOK(u)'
<1> USE DEF Typed, TypeOK, WakeTypes, CallTypes, TaskTypes, CycleTypes, CurrentOK,
     Labels, Counts, WakesOK, WakeOK, PhaseOK, TasksOK, QueueOK, SignalOK, LiveOK,
     Owned, Fresh, StageOK, EmptyOK, EndingOK, Vacant, Aborting, Triggered, IsEmpty,
     wakeVars, callVars, taskVars, cycleVars, Push, Pop, Clear, NoHandles, Goto
<1>1. CASE EnterCycle
  BY <1>1 DEF EnterCycle
<1>2. CASE DrainSwap
  BY <1>2 DEF DrainSwap
<1>3. CASE DrainEmpty
  BY <1>3 DEF DrainEmpty
<1>4. CASE Append
  BY <1>4 DEF Append, Queued
<1>5. CASE PollPending
  <2>1. CASE u = current
    BY <1>5, <2>1 DEF PollPending
  <2>2. CASE u # current
    BY <1>5, <2>2 DEF PollPending
  <2> QED
    BY <2>1, <2>2
<1>6. CASE PollDone("succeeded")
  <2>1. CASE u = current
    BY <1>6, <2>1 DEF PollDone, Retire
  <2>2. CASE u # current
    BY <1>6, <2>2 DEF PollDone, Retire
  <2> QED
    BY <2>1, <2>2
<1>7. CASE PollDone("panicked")
  <2>1. CASE u = current
    BY <1>7, <2>1 DEF PollDone, Retire
  <2>2. CASE u # current
    BY <1>7, <2>2 DEF PollDone, Retire
  <2> QED
    BY <2>1, <2>2
<1>8. CASE FinishDeliver
  BY <1>8 DEF FinishDeliver, Deliver
<1>9. CASE FinishTask
  BY <1>9 DEF FinishTask
<1>10. CASE PollsDone
  BY <1>10 DEF PollsDone
<1>11. CASE Close
  BY <1>11 DEF Close
<1>12. CASE PrepareAbort
  BY <1>12 DEF PrepareAbort, Batch
<1>13. CASE AbortDeliver
  BY <1>13 DEF AbortDeliver, Deliver
<1>14. CASE AbortFinish
  BY <1>14 DEF AbortFinish
<1>15. CASE AbortDone
  BY <1>15 DEF AbortDone
<1>16. CASE Outcome
  BY <1>16 DEF Outcome
<1>17. CASE Resume
  BY <1>17 DEF Resume
<1>18. CASE UnwindPoll
  BY <1>18 DEF UnwindPoll, Unwind
<1>19. CASE UnwindFinish
  BY <1>19 DEF UnwindFinish, Unwind
<1>20. CASE UnwindCancel
  BY <1>20 DEF UnwindCancel, Unwind
<1> QED
  BY <1>1, <1>2, <1>3, <1>4, <1>5, <1>6, <1>7, <1>8, <1>9, <1>10, <1>11, <1>12, <1>13,
       <1>14, <1>15, <1>16, <1>17, <1>18, <1>19, <1>20 DEF CycleStep

LEMMA NextQueue ==
  ASSUME Typed, WakesOK, PhaseOK, TasksOK, StageOK, EmptyOK, EndingOK, [Next]_vars,
       NEW u \in Task
  PROVE  QueueOK(u)'
<1>1. CASE OwnerStep
  BY <1>1, TakeQueue, CycleQueue DEF OwnerStep
<1>2. CASE \E t \in Task : RemoteStep(t) \/ UserStep(t)
  BY <1>2, RemoteQueue, UserQueue
<1>3. CASE Trigger
  BY <1>3 DEF Trigger, UserCode, Typed, TypeOK, WakeTypes, CallTypes, TaskTypes,
       CycleTypes, CurrentOK, Labels, Counts, WakesOK, WakeOK, PhaseOK, TasksOK,
       QueueOK, SignalOK, LiveOK, Owned, Fresh, StageOK, EmptyOK, EndingOK, Vacant,
       Aborting, Triggered, IsEmpty, wakeVars, callVars, taskVars, cycleVars, Push,
       Pop, Clear, NoHandles, Goto
<1>4. CASE DropExecutor
  BY <1>4 DEF DropExecutor, Typed, TypeOK, WakeTypes, CallTypes, TaskTypes, CycleTypes,
       CurrentOK, Labels, Counts, WakesOK, WakeOK, PhaseOK, TasksOK, QueueOK, SignalOK,
       LiveOK, Owned, Fresh, StageOK, EmptyOK, EndingOK, Vacant, Aborting, Triggered,
       IsEmpty, wakeVars, callVars, taskVars, cycleVars, Push, Pop, Clear, NoHandles,
       Goto
<1>5. CASE UNCHANGED vars
  BY <1>5 DEF vars, Typed, TypeOK, WakeTypes, CallTypes, TaskTypes, CycleTypes,
       CurrentOK, Labels, Counts, WakesOK, WakeOK, PhaseOK, TasksOK, QueueOK, SignalOK,
       LiveOK, Owned, Fresh, StageOK, EmptyOK, EndingOK, Vacant, Aborting, Triggered,
       IsEmpty, wakeVars, callVars, taskVars, cycleVars, Push, Pop, Clear, NoHandles,
       Goto
<1> QED
  BY <1>1, <1>2, <1>3, <1>4, <1>5 DEF Next

-----------------------------------------------------------------------------
(* Where the notification of a task is. *)

\* No step gives a task a second notification.
LEMMA UserSignal ==
  ASSUME Typed, WakesOK, PhaseOK, TasksOK, StageOK, EmptyOK, EndingOK, NEW t \in Task,
       UserStep(t), NEW u \in Task
  PROVE  SignalOK(u)'
<1> USE DEF Typed, TypeOK, WakeTypes, CallTypes, TaskTypes, CycleTypes, CurrentOK,
     Labels, Counts, WakesOK, WakeOK, PhaseOK, TasksOK, QueueOK, SignalOK, LiveOK,
     Owned, Fresh, StageOK, EmptyOK, EndingOK, Vacant, Aborting, Triggered, IsEmpty,
     wakeVars, callVars, taskVars, cycleVars, Push, Pop, Clear, NoHandles, Goto
<1>1. CASE CloneWaker(t)
  BY <1>1 DEF CloneWaker, CanReach
<1>2. CASE DropWaker(t)
  BY <1>2 DEF DropWaker
<1>3. CASE CoalescedWake(t)
  BY <1>3 DEF CoalescedWake, CanReach
<1>4. CASE LocalWake(t)
  <2>1. CASE u = t
    BY <1>4, <2>1 DEF LocalWake, BeginNotification, UserCode, Executing, CanReach
  <2>2. CASE u # t
    BY <1>4, <2>2 DEF LocalWake, BeginNotification, UserCode, Executing, CanReach
  <2> QED
    BY <2>1, <2>2
<1>5. CASE RemoteBegin(t)
  BY <1>5 DEF RemoteBegin, BeginNotification
<1>6. CASE AcceptTask(t)
  <2>1. /\ newTasks[t] = 0 /\ active[t] = 0 /\ pending[t] = 0 /\ awakened[t] = 0
        /\ channel[t] = 0 /\ begun[t] = 0 /\ t \notin toClear
    BY <1>6 DEF AcceptTask
  <2>2. wakers[t] = 0 /\ sent[t] = 0 /\ refused[t] = 0 /\ waking[t] = 0
    BY <1>6 DEF AcceptTask
  <2>3. CASE u = t
    BY <1>6, <2>1, <2>2, <2>3 DEF AcceptTask
  <2>4. CASE u # t
    BY <1>6, <2>4 DEF AcceptTask
  <2> QED
    BY <2>3, <2>4
<1>7. CASE RefuseTask(t)
  BY <1>7 DEF RefuseTask, NotifySubmission, UserCode, Executing
<1> QED
  BY <1>1, <1>2, <1>3, <1>4, <1>5, <1>6, <1>7 DEF UserStep

LEMMA RemoteSignal ==
  ASSUME Typed, WakesOK, PhaseOK, TasksOK, StageOK, EmptyOK, EndingOK, NEW t \in Task,
       RemoteStep(t), NEW u \in Task
  PROVE  SignalOK(u)'
<1> USE DEF Typed, TypeOK, WakeTypes, CallTypes, TaskTypes, CycleTypes, CurrentOK,
     Labels, Counts, WakesOK, WakeOK, PhaseOK, TasksOK, QueueOK, SignalOK, LiveOK,
     Owned, Fresh, StageOK, EmptyOK, EndingOK, Vacant, Aborting, Triggered, IsEmpty,
     wakeVars, callVars, taskVars, cycleVars, Push, Pop, Clear, NoHandles, Goto
<1>1. CASE RemoteSend(t)
  <2>1. CASE u = t
    BY <1>1, <2>1 DEF RemoteSend
  <2>2. CASE u # t
    BY <1>1, <2>2 DEF RemoteSend
  <2> QED
    BY <2>1, <2>2
<1>2. CASE RemoteRefused(t)
  <2>1. begun[t] = 0 /\ channel[t] = 0 /\ refused[t] = 1 /\ sched[t] # "local"
    BY <1>2, RefusedIsAlone DEF RemoteRefused
  <2>2. CASE u = t
    BY <1>2, <2>1, <2>2 DEF RemoteRefused, ClearNotification
  <2>3. CASE u # t
    BY <1>2, <2>3 DEF RemoteRefused, ClearNotification
  <2> QED
    BY <2>2, <2>3
<1>3. CASE RemotePublish(t)
  BY <1>3 DEF RemotePublish
<1>4. CASE RemoteNotify(t)
  BY <1>4 DEF RemoteNotify
<1> QED
  BY <1>1, <1>2, <1>3, <1>4 DEF RemoteStep

LEMMA TakeSignal ==
  ASSUME Typed, WakesOK, PhaseOK, TasksOK, StageOK, EmptyOK, EndingOK, NEW t \in Task,
       TakeStep(t), NEW u \in Task
  PROVE  SignalOK(u)'
<1> USE DEF Typed, TypeOK, WakeTypes, CallTypes, TaskTypes, CycleTypes, CurrentOK,
     Labels, Counts, WakesOK, WakeOK, PhaseOK, TasksOK, QueueOK, SignalOK, LiveOK,
     Owned, Fresh, StageOK, EmptyOK, EndingOK, Vacant, Aborting, Triggered, IsEmpty,
     wakeVars, callVars, taskVars, cycleVars, Push, Pop, Clear, NoHandles, Goto
<1>1. CASE DrainOne(t)
  BY <1>1 DEF DrainOne
<1>2. CASE ClearQueued(t)
  BY <1>2 DEF ClearQueued, ClearNotification
<1>3. CASE PollStart(t)
  BY <1>3 DEF PollStart
<1>4. CASE ShutdownAbort(t)
  BY <1>4 DEF ShutdownAbort, Retire
<1>5. CASE DropNotification(t)
  BY <1>5 DEF DropNotification
<1>6. CASE AbortStart(t)
  <2>1. awakened[t] > 0 => sched[t] = "local"
    OBVIOUS
  <2>2. /\ newTasks[t] = 0 /\ pending[t] = 0 /\ active[t] = 1 /\ newTasks[u] = 0
        /\ pc = "abort" /\ toClear = {}
    BY <1>6 DEF AbortStart
  <2>3. /\ sched'[t] = "retired" /\ awakened'[t] = 0 /\ active'[t] = 0
        /\ u # t => sched'[u] = sched[u] /\ awakened'[u] = awakened[u] /\ active'[u] = active[u]
    BY <1>6, <2>1, <2>2 DEF AbortStart, Retire
  <2>4. CASE u = t
    BY <1>6, <2>2, <2>3, <2>4 DEF AbortStart
  <2>5. CASE u # t
    BY <1>6, <2>2, <2>3, <2>5 DEF AbortStart
  <2> QED
    BY <2>4, <2>5
<1> QED
  BY <1>1, <1>2, <1>3, <1>4, <1>5, <1>6 DEF TakeStep

LEMMA CycleSignal ==
  ASSUME Typed, WakesOK, PhaseOK, TasksOK, StageOK, EmptyOK, EndingOK, CycleStep,
       NEW u \in Task
  PROVE  SignalOK(u)'
<1> USE DEF Typed, TypeOK, WakeTypes, CallTypes, TaskTypes, CycleTypes, CurrentOK,
     Labels, Counts, WakesOK, WakeOK, PhaseOK, TasksOK, QueueOK, SignalOK, LiveOK,
     Owned, Fresh, StageOK, EmptyOK, EndingOK, Vacant, Aborting, Triggered, IsEmpty,
     wakeVars, callVars, taskVars, cycleVars, Push, Pop, Clear, NoHandles, Goto
<1>1. CASE EnterCycle
  BY <1>1 DEF EnterCycle
<1>2. CASE DrainSwap
  BY <1>2 DEF DrainSwap
<1>3. CASE DrainEmpty
  BY <1>3 DEF DrainEmpty
<1>4. CASE Append
  BY <1>4 DEF Append, Queued
<1>5. CASE PollPending
  BY <1>5 DEF PollPending
<1>6. CASE PollDone("succeeded")
  BY <1>6 DEF PollDone, Retire
<1>7. CASE PollDone("panicked")
  BY <1>7 DEF PollDone, Retire
<1>8. CASE FinishDeliver
  BY <1>8 DEF FinishDeliver, Deliver
<1>9. CASE FinishTask
  BY <1>9 DEF FinishTask
<1>10. CASE PollsDone
  BY <1>10 DEF PollsDone
<1>11. CASE Close
  BY <1>11 DEF Close
<1>12. CASE PrepareAbort
  BY <1>12 DEF PrepareAbort, Batch
<1>13. CASE AbortDeliver
  BY <1>13 DEF AbortDeliver, Deliver
<1>14. CASE AbortFinish
  BY <1>14 DEF AbortFinish
<1>15. CASE AbortDone
  BY <1>15 DEF AbortDone
<1>16. CASE Outcome
  BY <1>16 DEF Outcome
<1>17. CASE Resume
  BY <1>17 DEF Resume
<1>18. CASE UnwindPoll
  BY <1>18 DEF UnwindPoll, Unwind
<1>19. CASE UnwindFinish
  BY <1>19 DEF UnwindFinish, Unwind
<1>20. CASE UnwindCancel
  BY <1>20 DEF UnwindCancel, Unwind
<1> QED
  BY <1>1, <1>2, <1>3, <1>4, <1>5, <1>6, <1>7, <1>8, <1>9, <1>10, <1>11, <1>12, <1>13,
       <1>14, <1>15, <1>16, <1>17, <1>18, <1>19, <1>20 DEF CycleStep

LEMMA NextSignal ==
  ASSUME Typed, WakesOK, PhaseOK, TasksOK, StageOK, EmptyOK, EndingOK, [Next]_vars,
       NEW u \in Task
  PROVE  SignalOK(u)'
<1>1. CASE OwnerStep
  BY <1>1, TakeSignal, CycleSignal DEF OwnerStep
<1>2. CASE \E t \in Task : RemoteStep(t) \/ UserStep(t)
  BY <1>2, RemoteSignal, UserSignal
<1>3. CASE Trigger
  BY <1>3 DEF Trigger, UserCode, Typed, TypeOK, WakeTypes, CallTypes, TaskTypes,
       CycleTypes, CurrentOK, Labels, Counts, WakesOK, WakeOK, PhaseOK, TasksOK,
       QueueOK, SignalOK, LiveOK, Owned, Fresh, StageOK, EmptyOK, EndingOK, Vacant,
       Aborting, Triggered, IsEmpty, wakeVars, callVars, taskVars, cycleVars, Push,
       Pop, Clear, NoHandles, Goto
<1>4. CASE DropExecutor
  BY <1>4 DEF DropExecutor, Typed, TypeOK, WakeTypes, CallTypes, TaskTypes, CycleTypes,
       CurrentOK, Labels, Counts, WakesOK, WakeOK, PhaseOK, TasksOK, QueueOK, SignalOK,
       LiveOK, Owned, Fresh, StageOK, EmptyOK, EndingOK, Vacant, Aborting, Triggered,
       IsEmpty, wakeVars, callVars, taskVars, cycleVars, Push, Pop, Clear, NoHandles,
       Goto
<1>5. CASE UNCHANGED vars
  BY <1>5 DEF vars, Typed, TypeOK, WakeTypes, CallTypes, TaskTypes, CycleTypes,
       CurrentOK, Labels, Counts, WakesOK, WakeOK, PhaseOK, TasksOK, QueueOK, SignalOK,
       LiveOK, Owned, Fresh, StageOK, EmptyOK, EndingOK, Vacant, Aborting, Triggered,
       IsEmpty, wakeVars, callVars, taskVars, cycleVars, Push, Pop, Clear, NoHandles,
       Goto
<1> QED
  BY <1>1, <1>2, <1>3, <1>4, <1>5 DEF Next

-----------------------------------------------------------------------------
(* What is queued is alive. *)

\* No step queues a task that has ended, or ends one without an outcome.
LEMMA UserLive ==
  ASSUME Typed, WakesOK, PhaseOK, TasksOK, StageOK, EmptyOK, EndingOK, NEW t \in Task,
       UserStep(t), NEW u \in Task
  PROVE  LiveOK(u)'
<1> USE DEF Typed, TypeOK, WakeTypes, CallTypes, TaskTypes, CycleTypes, CurrentOK,
     Labels, Counts, WakesOK, WakeOK, PhaseOK, TasksOK, QueueOK, SignalOK, LiveOK,
     Owned, Fresh, StageOK, EmptyOK, EndingOK, Vacant, Aborting, Triggered, IsEmpty,
     wakeVars, callVars, taskVars, cycleVars, Push, Pop, Clear, NoHandles, Goto
<1>1. CASE CloneWaker(t)
  <2>1. CASE u = t
    BY <1>1, <2>1 DEF CloneWaker, CanReach
  <2>2. CASE u # t
    BY <1>1, <2>2 DEF CloneWaker, CanReach
  <2> QED
    BY <2>1, <2>2
<1>2. CASE DropWaker(t)
  BY <1>2 DEF DropWaker
<1>3. CASE CoalescedWake(t)
  BY <1>3 DEF CoalescedWake, CanReach
<1>4. CASE LocalWake(t)
  BY <1>4 DEF LocalWake, BeginNotification, UserCode, Executing, CanReach
<1>5. CASE RemoteBegin(t)
  BY <1>5 DEF RemoteBegin, BeginNotification
<1>6. CASE AcceptTask(t)
  BY <1>6 DEF AcceptTask, NotifySubmission, UserCode, Executing
<1>7. CASE RefuseTask(t)
  BY <1>7 DEF RefuseTask, NotifySubmission, UserCode, Executing
<1> QED
  BY <1>1, <1>2, <1>3, <1>4, <1>5, <1>6, <1>7 DEF UserStep

LEMMA RemoteLive ==
  ASSUME Typed, WakesOK, PhaseOK, TasksOK, StageOK, EmptyOK, EndingOK, NEW t \in Task,
       RemoteStep(t), NEW u \in Task
  PROVE  LiveOK(u)'
<1> USE DEF Typed, TypeOK, WakeTypes, CallTypes, TaskTypes, CycleTypes, CurrentOK,
     Labels, Counts, WakesOK, WakeOK, PhaseOK, TasksOK, QueueOK, SignalOK, LiveOK,
     Owned, Fresh, StageOK, EmptyOK, EndingOK, Vacant, Aborting, Triggered, IsEmpty,
     wakeVars, callVars, taskVars, cycleVars, Push, Pop, Clear, NoHandles, Goto
<1>1. CASE RemoteSend(t)
  BY <1>1 DEF RemoteSend
<1>2. CASE RemoteRefused(t)
  BY <1>2 DEF RemoteRefused, ClearNotification
<1>3. CASE RemotePublish(t)
  BY <1>3 DEF RemotePublish
<1>4. CASE RemoteNotify(t)
  BY <1>4 DEF RemoteNotify
<1> QED
  BY <1>1, <1>2, <1>3, <1>4 DEF RemoteStep

LEMMA TakeLive ==
  ASSUME Typed, WakesOK, PhaseOK, TasksOK, StageOK, EmptyOK, EndingOK, NEW t \in Task,
       TakeStep(t), NEW u \in Task
  PROVE  LiveOK(u)'
<1> USE DEF Typed, TypeOK, WakeTypes, CallTypes, TaskTypes, CycleTypes, CurrentOK,
     Labels, Counts, WakesOK, WakeOK, PhaseOK, TasksOK, QueueOK, SignalOK, LiveOK,
     Owned, Fresh, StageOK, EmptyOK, EndingOK, Vacant, Aborting, Triggered, IsEmpty,
     wakeVars, callVars, taskVars, cycleVars, Push, Pop, Clear, NoHandles, Goto
<1>1. CASE DrainOne(t)
  BY <1>1 DEF DrainOne
<1>2. CASE ClearQueued(t)
  BY <1>2 DEF ClearQueued, ClearNotification
<1>3. CASE PollStart(t)
  BY <1>3 DEF PollStart
<1>4. CASE ShutdownAbort(t)
  BY <1>4 DEF ShutdownAbort, Retire
<1>5. CASE DropNotification(t)
  BY <1>5 DEF DropNotification
<1>6. CASE AbortStart(t)
  <2>1. awakened[t] > 0 => sched[t] = "local"
    OBVIOUS
  <2>2. /\ newTasks[t] = 0 /\ pending[t] = 0 /\ active[t] = 1 /\ newTasks[u] = 0
        /\ pc = "abort" /\ toClear = {}
    BY <1>6 DEF AbortStart
  <2>3. /\ sched'[t] = "retired" /\ awakened'[t] = 0 /\ active'[t] = 0
        /\ u # t => sched'[u] = sched[u] /\ awakened'[u] = awakened[u] /\ active'[u] = active[u]
    BY <1>6, <2>1, <2>2 DEF AbortStart, Retire
  <2>4. CASE u = t
    BY <1>6, <2>2, <2>3, <2>4 DEF AbortStart
  <2>5. CASE u # t
    BY <1>6, <2>2, <2>3, <2>5 DEF AbortStart
  <2> QED
    BY <2>4, <2>5
<1> QED
  BY <1>1, <1>2, <1>3, <1>4, <1>5, <1>6 DEF TakeStep

LEMMA CycleLive ==
  ASSUME Typed, WakesOK, PhaseOK, TasksOK, StageOK, EmptyOK, EndingOK, CycleStep,
       NEW u \in Task
  PROVE  LiveOK(u)'
<1> USE DEF Typed, TypeOK, WakeTypes, CallTypes, TaskTypes, CycleTypes, CurrentOK,
     Labels, Counts, WakesOK, WakeOK, PhaseOK, TasksOK, QueueOK, SignalOK, LiveOK,
     Owned, Fresh, StageOK, EmptyOK, EndingOK, Vacant, Aborting, Triggered, IsEmpty,
     wakeVars, callVars, taskVars, cycleVars, Push, Pop, Clear, NoHandles, Goto
<1>1. CASE EnterCycle
  <2>1. Owned(u)' = Owned(u)
    BY <1>1 DEF EnterCycle
  <2> QED
    BY <1>1, <2>1 DEF EnterCycle
<1>2. CASE DrainSwap
  BY <1>2 DEF DrainSwap
<1>3. CASE DrainEmpty
  BY <1>3 DEF DrainEmpty
<1>4. CASE Append
  <2>1. awakened[u] > 0 => sched[u] = "local" /\ Owned(u) > 0
    BY AwakenedIsOwned
  <2>2. Owned(u)' > 0 => Owned(u) > 0
    BY <1>4, <2>1 DEF Append
  <2> QED
    BY <1>4, <2>2 DEF Append
<1>5. CASE PollPending
  <2>1. CASE u = current
    BY <1>5, <2>1 DEF PollPending
  <2>2. CASE u # current
    BY <1>5, <2>2 DEF PollPending
  <2> QED
    BY <2>1, <2>2
<1>6. CASE PollDone("succeeded")
  BY <1>6 DEF PollDone, Retire
<1>7. CASE PollDone("panicked")
  BY <1>7 DEF PollDone, Retire
<1>8. CASE FinishDeliver
  BY <1>8 DEF FinishDeliver, Deliver
<1>9. CASE FinishTask
  <2>1. CASE u = current
    BY <1>9, <2>1 DEF FinishTask
  <2>2. CASE u # current
    BY <1>9, <2>2 DEF FinishTask
  <2> QED
    BY <2>1, <2>2
<1>10. CASE PollsDone
  BY <1>10 DEF PollsDone
<1>11. CASE Close
  BY <1>11 DEF Close
<1>12. CASE PrepareAbort
  BY <1>12 DEF PrepareAbort, Batch
<1>13. CASE AbortDeliver
  BY <1>13 DEF AbortDeliver, Deliver
<1>14. CASE AbortFinish
  BY <1>14 DEF AbortFinish
<1>15. CASE AbortDone
  BY <1>15 DEF AbortDone
<1>16. CASE Outcome
  BY <1>16 DEF Outcome
<1>17. CASE Resume
  BY <1>17 DEF Resume
<1>18. CASE UnwindPoll
  BY <1>18 DEF UnwindPoll, Unwind
<1>19. CASE UnwindFinish
  BY <1>19 DEF UnwindFinish, Unwind
<1>20. CASE UnwindCancel
  BY <1>20 DEF UnwindCancel, Unwind
<1> QED
  BY <1>1, <1>2, <1>3, <1>4, <1>5, <1>6, <1>7, <1>8, <1>9, <1>10, <1>11, <1>12, <1>13,
       <1>14, <1>15, <1>16, <1>17, <1>18, <1>19, <1>20 DEF CycleStep

LEMMA NextLive ==
  ASSUME Typed, WakesOK, PhaseOK, TasksOK, StageOK, EmptyOK, EndingOK, [Next]_vars,
       NEW u \in Task
  PROVE  LiveOK(u)'
<1>1. CASE OwnerStep
  BY <1>1, TakeLive, CycleLive DEF OwnerStep
<1>2. CASE \E t \in Task : RemoteStep(t) \/ UserStep(t)
  BY <1>2, RemoteLive, UserLive
<1>3. CASE Trigger
  BY <1>3 DEF Trigger, UserCode, Typed, TypeOK, WakeTypes, CallTypes, TaskTypes,
       CycleTypes, CurrentOK, Labels, Counts, WakesOK, WakeOK, PhaseOK, TasksOK,
       QueueOK, SignalOK, LiveOK, Owned, Fresh, StageOK, EmptyOK, EndingOK, Vacant,
       Aborting, Triggered, IsEmpty, wakeVars, callVars, taskVars, cycleVars, Push,
       Pop, Clear, NoHandles, Goto
<1>4. CASE DropExecutor
  BY <1>4 DEF DropExecutor, Typed, TypeOK, WakeTypes, CallTypes, TaskTypes, CycleTypes,
       CurrentOK, Labels, Counts, WakesOK, WakeOK, PhaseOK, TasksOK, QueueOK, SignalOK,
       LiveOK, Owned, Fresh, StageOK, EmptyOK, EndingOK, Vacant, Aborting, Triggered,
       IsEmpty, wakeVars, callVars, taskVars, cycleVars, Push, Pop, Clear, NoHandles,
       Goto
<1>5. CASE UNCHANGED vars
  BY <1>5 DEF vars, Typed, TypeOK, WakeTypes, CallTypes, TaskTypes, CycleTypes,
       CurrentOK, Labels, Counts, WakesOK, WakeOK, PhaseOK, TasksOK, QueueOK, SignalOK,
       LiveOK, Owned, Fresh, StageOK, EmptyOK, EndingOK, Vacant, Aborting, Triggered,
       IsEmpty, wakeVars, callVars, taskVars, cycleVars, Push, Pop, Clear, NoHandles,
       Goto
<1> QED
  BY <1>1, <1>2, <1>3, <1>4, <1>5 DEF Next

-----------------------------------------------------------------------------
(* Shutdown and destruction. *)

\* Shutdown never goes back, and a closed channel is emptied first.
LEMMA UserStage ==
  ASSUME Typed, PhaseOK, StageOK, EmptyOK, NEW t \in Task, UserStep(t)
  PROVE  StageOK'
<1> USE DEF Typed, TypeOK, WakeTypes, CallTypes, TaskTypes, CycleTypes, CurrentOK,
     Labels, Counts, PhaseOK, StageOK, Aborting, Triggered, IsEmpty, EmptyOK, Vacant,
     wakeVars, callVars, taskVars, cycleVars, Push, Pop, Clear, NoHandles, Goto
<1>1. CASE CloneWaker(t)
  BY <1>1 DEF CloneWaker, CanReach
<1>2. CASE DropWaker(t)
  BY <1>2 DEF DropWaker
<1>3. CASE CoalescedWake(t)
  BY <1>3 DEF CoalescedWake, CanReach
<1>4. CASE LocalWake(t)
  BY <1>4 DEF LocalWake, BeginNotification, UserCode, Executing, CanReach
<1>5. CASE RemoteBegin(t)
  BY <1>5 DEF RemoteBegin, BeginNotification
<1>6. CASE AcceptTask(t)
  BY <1>6 DEF AcceptTask, NotifySubmission, UserCode, Executing
<1>7. CASE RefuseTask(t)
  BY <1>7 DEF RefuseTask, NotifySubmission, UserCode, Executing
<1> QED
  BY <1>1, <1>2, <1>3, <1>4, <1>5, <1>6, <1>7 DEF UserStep

LEMMA RemoteStage ==
  ASSUME Typed, PhaseOK, StageOK, EmptyOK, NEW t \in Task, RemoteStep(t)
  PROVE  StageOK'
<1> USE DEF Typed, TypeOK, WakeTypes, CallTypes, TaskTypes, CycleTypes, CurrentOK,
     Labels, Counts, PhaseOK, StageOK, Aborting, Triggered, IsEmpty, EmptyOK, Vacant,
     wakeVars, callVars, taskVars, cycleVars, Push, Pop, Clear, NoHandles, Goto
<1>1. CASE RemoteSend(t)
  BY <1>1 DEF RemoteSend
<1>2. CASE RemoteRefused(t)
  BY <1>2 DEF RemoteRefused, ClearNotification
<1>3. CASE RemotePublish(t)
  BY <1>3 DEF RemotePublish
<1>4. CASE RemoteNotify(t)
  BY <1>4 DEF RemoteNotify
<1> QED
  BY <1>1, <1>2, <1>3, <1>4 DEF RemoteStep

LEMMA TakeStage ==
  ASSUME Typed, PhaseOK, StageOK, EmptyOK, NEW t \in Task, TakeStep(t)
  PROVE  StageOK'
<1> USE DEF Typed, TypeOK, WakeTypes, CallTypes, TaskTypes, CycleTypes, CurrentOK,
     Labels, Counts, PhaseOK, StageOK, Aborting, Triggered, IsEmpty, EmptyOK, Vacant,
     wakeVars, callVars, taskVars, cycleVars, Push, Pop, Clear, NoHandles, Goto
<1>1. CASE DrainOne(t)
  BY <1>1 DEF DrainOne
<1>2. CASE ClearQueued(t)
  BY <1>2 DEF ClearQueued, ClearNotification
<1>3. CASE PollStart(t)
  BY <1>3 DEF PollStart
<1>4. CASE ShutdownAbort(t)
  BY <1>4 DEF ShutdownAbort, Retire
<1>5. CASE DropNotification(t)
  BY <1>5 DEF DropNotification
<1>6. CASE AbortStart(t)
  BY <1>6 DEF AbortStart, Retire
<1> QED
  BY <1>1, <1>2, <1>3, <1>4, <1>5, <1>6 DEF TakeStep

LEMMA CycleStage ==
  ASSUME Typed, PhaseOK, StageOK, EmptyOK, CycleStep
  PROVE  StageOK'
<1> USE DEF Typed, TypeOK, WakeTypes, CallTypes, TaskTypes, CycleTypes, CurrentOK,
     Labels, Counts, PhaseOK, StageOK, Aborting, Triggered, IsEmpty, EmptyOK, Vacant,
     wakeVars, callVars, taskVars, cycleVars, Push, Pop, Clear, NoHandles, Goto
<1>1. CASE EnterCycle
  BY <1>1 DEF EnterCycle
<1>2. CASE DrainSwap
  BY <1>2 DEF DrainSwap
<1>3. CASE DrainEmpty
  BY <1>3 DEF DrainEmpty
<1>4. CASE Append
  BY <1>4 DEF Append, Queued
<1>5. CASE PollPending
  BY <1>5 DEF PollPending
<1>6. CASE PollDone("succeeded")
  BY <1>6 DEF PollDone, Retire
<1>7. CASE PollDone("panicked")
  BY <1>7 DEF PollDone, Retire
<1>8. CASE FinishDeliver
  BY <1>8 DEF FinishDeliver, Deliver
<1>9. CASE FinishTask
  BY <1>9 DEF FinishTask
<1>10. CASE PollsDone
  BY <1>10 DEF PollsDone
<1>11. CASE Close
  BY <1>11 DEF Close
<1>12. CASE PrepareAbort
  BY <1>12 DEF PrepareAbort, Batch
<1>13. CASE AbortDeliver
  BY <1>13 DEF AbortDeliver, Deliver
<1>14. CASE AbortFinish
  BY <1>14 DEF AbortFinish
<1>15. CASE AbortDone
  BY <1>15 DEF AbortDone
<1>16. CASE Outcome
  BY <1>16 DEF Outcome
<1>17. CASE Resume
  BY <1>17 DEF Resume
<1>18. CASE UnwindPoll
  BY <1>18 DEF UnwindPoll, Unwind
<1>19. CASE UnwindFinish
  BY <1>19 DEF UnwindFinish, Unwind
<1>20. CASE UnwindCancel
  BY <1>20 DEF UnwindCancel, Unwind
<1> QED
  BY <1>1, <1>2, <1>3, <1>4, <1>5, <1>6, <1>7, <1>8, <1>9, <1>10, <1>11, <1>12, <1>13,
       <1>14, <1>15, <1>16, <1>17, <1>18, <1>19, <1>20 DEF CycleStep

LEMMA NextStage ==
  ASSUME Typed, PhaseOK, StageOK, EmptyOK, [Next]_vars
  PROVE  StageOK'
<1>1. CASE OwnerStep
  BY <1>1, TakeStage, CycleStage DEF OwnerStep
<1>2. CASE \E t \in Task : RemoteStep(t) \/ UserStep(t)
  BY <1>2, RemoteStage, UserStage
<1>3. CASE Trigger
  BY <1>3 DEF Trigger, UserCode, Typed, TypeOK, WakeTypes, CallTypes, TaskTypes,
       CycleTypes, CurrentOK, Labels, Counts, PhaseOK, StageOK, Aborting, Triggered,
       IsEmpty, EmptyOK, Vacant, wakeVars, callVars, taskVars, cycleVars, Push, Pop,
       Clear, NoHandles, Goto
<1>4. CASE DropExecutor
  BY <1>4 DEF DropExecutor, Typed, TypeOK, WakeTypes, CallTypes, TaskTypes, CycleTypes,
       CurrentOK, Labels, Counts, PhaseOK, StageOK, Aborting, Triggered, IsEmpty,
       EmptyOK, Vacant, wakeVars, callVars, taskVars, cycleVars, Push, Pop, Clear,
       NoHandles, Goto
<1>5. CASE UNCHANGED vars
  BY <1>5 DEF vars, Typed, TypeOK, WakeTypes, CallTypes, TaskTypes, CycleTypes,
       CurrentOK, Labels, Counts, PhaseOK, StageOK, Aborting, Triggered, IsEmpty,
       EmptyOK, Vacant, wakeVars, callVars, taskVars, cycleVars, Push, Pop, Clear,
       NoHandles, Goto
<1> QED
  BY <1>1, <1>2, <1>3, <1>4, <1>5 DEF Next

-----------------------------------------------------------------------------
(* Which queues are empty when. *)

\* No step leaves a task behind where the next stage expects none.
LEMMA UserEmpty ==
  ASSUME Typed, WakesOK, PhaseOK, TasksOK, StageOK, EmptyOK, CountOK, NEW t \in Task,
       UserStep(t)
  PROVE  EmptyOK'
<1> USE DEF Typed, TypeOK, WakeTypes, CallTypes, TaskTypes, CycleTypes, CurrentOK,
     Labels, Counts, PhaseOK, StageOK, Aborting, Triggered, IsEmpty, EmptyOK, Vacant,
     CountOK, TasksOK, QueueOK, SignalOK, Owned, Fresh, Batch, wakeVars, callVars,
     taskVars, cycleVars, Push, Pop, Clear, NoHandles, Goto
<1>1. CASE CloneWaker(t)
  BY <1>1 DEF CloneWaker, CanReach
<1>2. CASE DropWaker(t)
  BY <1>2 DEF DropWaker
<1>3. CASE CoalescedWake(t)
  BY <1>3 DEF CoalescedWake, CanReach
<1>4. CASE LocalWake(t)
  BY <1>4 DEF LocalWake, BeginNotification, UserCode, Executing, CanReach
<1>5. CASE RemoteBegin(t)
  BY <1>5 DEF RemoteBegin, BeginNotification
<1>6. CASE AcceptTask(t)
  BY <1>6 DEF AcceptTask, NotifySubmission, UserCode, Executing
<1>7. CASE RefuseTask(t)
  BY <1>7 DEF RefuseTask, NotifySubmission, UserCode, Executing
<1> QED
  BY <1>1, <1>2, <1>3, <1>4, <1>5, <1>6, <1>7 DEF UserStep

LEMMA RemoteEmpty ==
  ASSUME Typed, WakesOK, PhaseOK, TasksOK, StageOK, EmptyOK, CountOK, NEW t \in Task,
       RemoteStep(t)
  PROVE  EmptyOK'
<1> USE DEF Typed, TypeOK, WakeTypes, CallTypes, TaskTypes, CycleTypes, CurrentOK,
     Labels, Counts, PhaseOK, StageOK, Aborting, Triggered, IsEmpty, EmptyOK, Vacant,
     CountOK, TasksOK, QueueOK, SignalOK, Owned, Fresh, Batch, wakeVars, callVars,
     taskVars, cycleVars, Push, Pop, Clear, NoHandles, Goto
<1>1. CASE RemoteSend(t)
  BY <1>1 DEF RemoteSend
<1>2. CASE RemoteRefused(t)
  BY <1>2 DEF RemoteRefused, ClearNotification
<1>3. CASE RemotePublish(t)
  BY <1>3 DEF RemotePublish
<1>4. CASE RemoteNotify(t)
  BY <1>4 DEF RemoteNotify
<1> QED
  BY <1>1, <1>2, <1>3, <1>4 DEF RemoteStep

LEMMA TakeEmpty ==
  ASSUME Typed, WakesOK, PhaseOK, TasksOK, StageOK, EmptyOK, CountOK, NEW t \in Task,
       TakeStep(t)
  PROVE  EmptyOK'
<1> USE DEF Typed, TypeOK, WakeTypes, CallTypes, TaskTypes, CycleTypes, CurrentOK,
     Labels, Counts, PhaseOK, StageOK, Aborting, Triggered, IsEmpty, EmptyOK, Vacant,
     CountOK, TasksOK, QueueOK, SignalOK, Owned, Fresh, Batch, wakeVars, callVars,
     taskVars, cycleVars, Push, Pop, Clear, NoHandles, Goto
<1>1. CASE DrainOne(t)
  BY <1>1 DEF DrainOne
<1>2. CASE ClearQueued(t)
  BY <1>2 DEF ClearQueued, ClearNotification
<1>3. CASE PollStart(t)
  BY <1>3 DEF PollStart
<1>4. CASE ShutdownAbort(t)
  BY <1>4 DEF ShutdownAbort, Retire
<1>5. CASE DropNotification(t)
  BY <1>5 DEF DropNotification
<1>6. CASE AbortStart(t)
  <2>1. ~dropping => result # "shutdown"
    BY <1>6 DEF AbortStart
  <2>2. result # "shutdown"
    BY <1>6 DEF AbortStart
  <2>3. /\ newTasks' = newTasks /\ pending' = pending /\ closed' = closed
        /\ dropping' = dropping /\ result' = result /\ pc = "abort" /\ pc' = "aborting"
    BY <1>6 DEF AbortStart
  <2> QED
    BY <2>2, <2>3
<1> QED
  BY <1>1, <1>2, <1>3, <1>4, <1>5, <1>6 DEF TakeStep

LEMMA CycleEmpty ==
  ASSUME Typed, WakesOK, PhaseOK, TasksOK, StageOK, EmptyOK, CountOK, CycleStep
  PROVE  EmptyOK'
<1> USE DEF Typed, TypeOK, WakeTypes, CallTypes, TaskTypes, CycleTypes, CurrentOK,
     Labels, Counts, PhaseOK, StageOK, Aborting, Triggered, IsEmpty, EmptyOK, Vacant,
     CountOK, TasksOK, QueueOK, SignalOK, Owned, Fresh, Batch, wakeVars, callVars,
     taskVars, cycleVars, Push, Pop, Clear, NoHandles, Goto
<1>1. CASE EnterCycle
  BY <1>1 DEF EnterCycle
<1>2. CASE DrainSwap
  BY <1>2 DEF DrainSwap
<1>3. CASE DrainEmpty
  BY <1>3 DEF DrainEmpty
<1>4. CASE Append
  <2>1. Vacant => IsEmpty(awakened)
    BY VacantIsQuiet
  <2>2. Vacant => Vacant'
    BY <1>4, <2>1 DEF Append
  <2>3. /\ newTasks' = newTasks /\ pending' = pending /\ closed' = closed
        /\ dropping' = dropping /\ result' = result /\ pc = "append" /\ pc' = "poll"
    BY <1>4 DEF Append
  <2> QED
    BY <2>2, <2>3
<1>5. CASE PollPending
  BY <1>5 DEF PollPending
<1>6. CASE PollDone("succeeded")
  BY <1>6 DEF PollDone, Retire
<1>7. CASE PollDone("panicked")
  BY <1>7 DEF PollDone, Retire
<1>8. CASE FinishDeliver
  BY <1>8 DEF FinishDeliver, Deliver
<1>9. CASE FinishTask
  BY <1>9 DEF FinishTask
<1>10. CASE PollsDone
  BY <1>10 DEF PollsDone
<1>11. CASE Close
  BY <1>11 DEF Close
<1>12. CASE PrepareAbort
  BY <1>12 DEF PrepareAbort, Batch
<1>13. CASE AbortDeliver
  BY <1>13 DEF AbortDeliver, Deliver
<1>14. CASE AbortFinish
  BY <1>14 DEF AbortFinish
<1>15. CASE AbortDone
  BY <1>15 DEF AbortDone
<1>16. CASE Outcome
  BY <1>16 DEF Outcome
<1>17. CASE Resume
  BY <1>17 DEF Resume
<1>18. CASE UnwindPoll
  BY <1>18 DEF UnwindPoll, Unwind
<1>19. CASE UnwindFinish
  BY <1>19 DEF UnwindFinish, Unwind
<1>20. CASE UnwindCancel
  BY <1>20 DEF UnwindCancel, Unwind
<1> QED
  BY <1>1, <1>2, <1>3, <1>4, <1>5, <1>6, <1>7, <1>8, <1>9, <1>10, <1>11, <1>12, <1>13,
       <1>14, <1>15, <1>16, <1>17, <1>18, <1>19, <1>20 DEF CycleStep

LEMMA NextEmpty ==
  ASSUME Typed, WakesOK, PhaseOK, TasksOK, StageOK, EmptyOK, CountOK, [Next]_vars
  PROVE  EmptyOK'
<1>1. CASE OwnerStep
  BY <1>1, TakeEmpty, CycleEmpty DEF OwnerStep
<1>2. CASE \E t \in Task : RemoteStep(t) \/ UserStep(t)
  BY <1>2, RemoteEmpty, UserEmpty
<1>3. CASE Trigger
  BY <1>3 DEF Trigger, UserCode, Typed, TypeOK, WakeTypes, CallTypes, TaskTypes,
       CycleTypes, CurrentOK, Labels, Counts, PhaseOK, StageOK, Aborting, Triggered,
       IsEmpty, EmptyOK, Vacant, CountOK, TasksOK, QueueOK, SignalOK, Owned, Fresh,
       Batch, wakeVars, callVars, taskVars, cycleVars, Push, Pop, Clear, NoHandles,
       Goto
<1>4. CASE DropExecutor
  BY <1>4 DEF DropExecutor, Typed, TypeOK, WakeTypes, CallTypes, TaskTypes, CycleTypes,
       CurrentOK, Labels, Counts, PhaseOK, StageOK, Aborting, Triggered, IsEmpty,
       EmptyOK, Vacant, CountOK, TasksOK, QueueOK, SignalOK, Owned, Fresh, Batch,
       wakeVars, callVars, taskVars, cycleVars, Push, Pop, Clear, NoHandles, Goto
<1>5. CASE UNCHANGED vars
  BY <1>5 DEF vars, Typed, TypeOK, WakeTypes, CallTypes, TaskTypes, CycleTypes,
       CurrentOK, Labels, Counts, PhaseOK, StageOK, Aborting, Triggered, IsEmpty,
       EmptyOK, Vacant, CountOK, TasksOK, QueueOK, SignalOK, Owned, Fresh, Batch,
       wakeVars, callVars, taskVars, cycleVars, Push, Pop, Clear, NoHandles, Goto
<1> QED
  BY <1>1, <1>2, <1>3, <1>4, <1>5 DEF Next

-----------------------------------------------------------------------------
(* The outcome that is being delivered. *)

\* An outcome is delivered for a reason.
LEMMA UserEnding ==
  ASSUME Typed, PhaseOK, TasksOK, StageOK, EndingOK, NEW t \in Task, UserStep(t)
  PROVE  EndingOK'
<1> USE DEF Typed, TypeOK, WakeTypes, CallTypes, TaskTypes, CycleTypes, CurrentOK,
     Labels, Counts, PhaseOK, StageOK, Aborting, Triggered, IsEmpty, EndingOK, TasksOK,
     LiveOK, Owned, wakeVars, callVars, taskVars, cycleVars, Push, Pop, Clear,
     NoHandles, Goto
<1>1. CASE CloneWaker(t)
  BY <1>1 DEF CloneWaker, CanReach
<1>2. CASE DropWaker(t)
  BY <1>2 DEF DropWaker
<1>3. CASE CoalescedWake(t)
  BY <1>3 DEF CoalescedWake, CanReach
<1>4. CASE LocalWake(t)
  BY <1>4 DEF LocalWake, BeginNotification, UserCode, Executing, CanReach
<1>5. CASE RemoteBegin(t)
  BY <1>5 DEF RemoteBegin, BeginNotification
<1>6. CASE AcceptTask(t)
  BY <1>6 DEF AcceptTask, NotifySubmission, UserCode, Executing
<1>7. CASE RefuseTask(t)
  BY <1>7 DEF RefuseTask, NotifySubmission, UserCode, Executing
<1> QED
  BY <1>1, <1>2, <1>3, <1>4, <1>5, <1>6, <1>7 DEF UserStep

LEMMA RemoteEnding ==
  ASSUME Typed, PhaseOK, TasksOK, StageOK, EndingOK, NEW t \in Task, RemoteStep(t)
  PROVE  EndingOK'
<1> USE DEF Typed, TypeOK, WakeTypes, CallTypes, TaskTypes, CycleTypes, CurrentOK,
     Labels, Counts, PhaseOK, StageOK, Aborting, Triggered, IsEmpty, EndingOK, TasksOK,
     LiveOK, Owned, wakeVars, callVars, taskVars, cycleVars, Push, Pop, Clear,
     NoHandles, Goto
<1>1. CASE RemoteSend(t)
  BY <1>1 DEF RemoteSend
<1>2. CASE RemoteRefused(t)
  BY <1>2 DEF RemoteRefused, ClearNotification
<1>3. CASE RemotePublish(t)
  BY <1>3 DEF RemotePublish
<1>4. CASE RemoteNotify(t)
  BY <1>4 DEF RemoteNotify
<1> QED
  BY <1>1, <1>2, <1>3, <1>4 DEF RemoteStep

LEMMA TakeEnding ==
  ASSUME Typed, PhaseOK, TasksOK, StageOK, EndingOK, NEW t \in Task, TakeStep(t)
  PROVE  EndingOK'
<1> USE DEF Typed, TypeOK, WakeTypes, CallTypes, TaskTypes, CycleTypes, CurrentOK,
     Labels, Counts, PhaseOK, StageOK, Aborting, Triggered, IsEmpty, EndingOK, TasksOK,
     LiveOK, Owned, wakeVars, callVars, taskVars, cycleVars, Push, Pop, Clear,
     NoHandles, Goto
<1>1. CASE DrainOne(t)
  BY <1>1 DEF DrainOne
<1>2. CASE ClearQueued(t)
  BY <1>2 DEF ClearQueued, ClearNotification
<1>3. CASE PollStart(t)
  BY <1>3 DEF PollStart
<1>4. CASE ShutdownAbort(t)
  BY <1>4 DEF ShutdownAbort, Retire
<1>5. CASE DropNotification(t)
  BY <1>5 DEF DropNotification
<1>6. CASE AbortStart(t)
  BY <1>6 DEF AbortStart, Retire
<1> QED
  BY <1>1, <1>2, <1>3, <1>4, <1>5, <1>6 DEF TakeStep

LEMMA CycleEnding ==
  ASSUME Typed, PhaseOK, TasksOK, StageOK, EndingOK, CycleStep
  PROVE  EndingOK'
<1> USE DEF Typed, TypeOK, WakeTypes, CallTypes, TaskTypes, CycleTypes, CurrentOK,
     Labels, Counts, PhaseOK, StageOK, Aborting, Triggered, IsEmpty, EndingOK, TasksOK,
     LiveOK, Owned, wakeVars, callVars, taskVars, cycleVars, Push, Pop, Clear,
     NoHandles, Goto
<1>1. CASE EnterCycle
  BY <1>1 DEF EnterCycle
<1>2. CASE DrainSwap
  BY <1>2 DEF DrainSwap
<1>3. CASE DrainEmpty
  BY <1>3 DEF DrainEmpty
<1>4. CASE Append
  BY <1>4 DEF Append, Queued
<1>5. CASE PollPending
  BY <1>5 DEF PollPending
<1>6. CASE PollDone("succeeded")
  BY <1>6 DEF PollDone, Retire
<1>7. CASE PollDone("panicked")
  BY <1>7 DEF PollDone, Retire
<1>8. CASE FinishDeliver
  BY <1>8 DEF FinishDeliver, Deliver
<1>9. CASE FinishTask
  BY <1>9 DEF FinishTask
<1>10. CASE PollsDone
  BY <1>10 DEF PollsDone
<1>11. CASE Close
  BY <1>11 DEF Close
<1>12. CASE PrepareAbort
  BY <1>12 DEF PrepareAbort, Batch
<1>13. CASE AbortDeliver
  BY <1>13 DEF AbortDeliver, Deliver
<1>14. CASE AbortFinish
  BY <1>14 DEF AbortFinish
<1>15. CASE AbortDone
  BY <1>15 DEF AbortDone
<1>16. CASE Outcome
  BY <1>16 DEF Outcome
<1>17. CASE Resume
  BY <1>17 DEF Resume
<1>18. CASE UnwindPoll
  BY <1>18 DEF UnwindPoll, Unwind
<1>19. CASE UnwindFinish
  BY <1>19 DEF UnwindFinish, Unwind
<1>20. CASE UnwindCancel
  BY <1>20 DEF UnwindCancel, Unwind
<1> QED
  BY <1>1, <1>2, <1>3, <1>4, <1>5, <1>6, <1>7, <1>8, <1>9, <1>10, <1>11, <1>12, <1>13,
       <1>14, <1>15, <1>16, <1>17, <1>18, <1>19, <1>20 DEF CycleStep

LEMMA NextEnding ==
  ASSUME Typed, PhaseOK, TasksOK, StageOK, EndingOK, [Next]_vars
  PROVE  EndingOK'
<1>1. CASE OwnerStep
  BY <1>1, TakeEnding, CycleEnding DEF OwnerStep
<1>2. CASE \E t \in Task : RemoteStep(t) \/ UserStep(t)
  BY <1>2, RemoteEnding, UserEnding
<1>3. CASE Trigger
  BY <1>3 DEF Trigger, UserCode, Typed, TypeOK, WakeTypes, CallTypes, TaskTypes,
       CycleTypes, CurrentOK, Labels, Counts, PhaseOK, StageOK, Aborting, Triggered,
       IsEmpty, EndingOK, TasksOK, LiveOK, Owned, wakeVars, callVars, taskVars,
       cycleVars, Push, Pop, Clear, NoHandles, Goto
<1>4. CASE DropExecutor
  BY <1>4 DEF DropExecutor, Typed, TypeOK, WakeTypes, CallTypes, TaskTypes, CycleTypes,
       CurrentOK, Labels, Counts, PhaseOK, StageOK, Aborting, Triggered, IsEmpty,
       EndingOK, TasksOK, LiveOK, Owned, wakeVars, callVars, taskVars, cycleVars, Push,
       Pop, Clear, NoHandles, Goto
<1>5. CASE UNCHANGED vars
  BY <1>5 DEF vars, Typed, TypeOK, WakeTypes, CallTypes, TaskTypes, CycleTypes,
       CurrentOK, Labels, Counts, PhaseOK, StageOK, Aborting, Triggered, IsEmpty,
       EndingOK, TasksOK, LiveOK, Owned, wakeVars, callVars, taskVars, cycleVars, Push,
       Pop, Clear, NoHandles, Goto
<1> QED
  BY <1>1, <1>2, <1>3, <1>4, <1>5 DEF Next

-----------------------------------------------------------------------------
(* The task count. *)

\* task_count moves with the tasks.
LEMMA UserCount ==
  ASSUME Typed, WakesOK, PhaseOK, TasksOK, StageOK, EmptyOK, CountOK, NEW t \in Task,
       UserStep(t)
  PROVE  CountOK'
<1> USE DEF wakeVars, callVars, taskVars, cycleVars, Push, Pop, Clear, NoHandles, Goto
<1>1. CASE CloneWaker(t) \/ DropWaker(t) \/ CoalescedWake(t) \/ LocalWake(t) \/
     RemoteBegin(t) \/ RefuseTask(t)
  <2>1. /\ UNCHANGED <<newTasks, active, pending, taskCount, closed>>
        /\ pc = "closing" => pc' = "closing"
    BY <1>1 DEF CloneWaker, DropWaker, CoalescedWake, LocalWake, RemoteBegin,
         RefuseTask
  <2> QED
    BY <2>1, CountKept
<1>2. CASE AcceptTask(t)
  <2>1. OwnedTasks' = OwnedTasks \cup {t} /\ t \notin OwnedTasks
    BY <1>2, NewIsNotOwned DEF AcceptTask, OwnedTasks, Owned, Typed, TypeOK, TaskTypes, Counts
  <2>2. Cardinality(OwnedTasks') = Cardinality(OwnedTasks) + 1
    BY <2>1, OwnedIsFinite, FS_AddElement
  <2>3. ~closed /\ ~closed' /\ taskCount' = taskCount + 1
    BY <1>2 DEF AcceptTask, StageOK, Triggered
  <2> QED
    BY <2>2, <2>3 DEF CountOK
<1> QED
  BY <1>1, <1>2 DEF UserStep

LEMMA RemoteCount ==
  ASSUME Typed, WakesOK, PhaseOK, TasksOK, StageOK, EmptyOK, CountOK, NEW t \in Task,
       RemoteStep(t)
  PROVE  CountOK'
<1> USE DEF wakeVars, callVars, taskVars, cycleVars, Push, Pop, Clear, NoHandles, Goto
<1>1. CASE RemoteSend(t) \/ RemoteRefused(t) \/ RemotePublish(t) \/ RemoteNotify(t)
  <2>1. /\ UNCHANGED <<newTasks, active, pending, taskCount, closed>>
        /\ pc = "closing" => pc' = "closing"
    BY <1>1 DEF RemoteSend, RemoteRefused, RemotePublish, RemoteNotify
  <2> QED
    BY <2>1, CountKept
<1> QED
  BY <1>1 DEF RemoteStep

LEMMA TakeCount ==
  ASSUME Typed, WakesOK, PhaseOK, TasksOK, StageOK, EmptyOK, CountOK, NEW t \in Task,
       TakeStep(t)
  PROVE  CountOK'
<1> USE DEF wakeVars, callVars, taskVars, cycleVars, Push, Pop, Clear, NoHandles, Goto
<1>1. CASE DrainOne(t) \/ ClearQueued(t) \/ PollStart(t) \/ ShutdownAbort(t) \/
     DropNotification(t)
  <2>1. /\ UNCHANGED <<newTasks, active, pending, taskCount, closed>>
        /\ pc = "closing" => pc' = "closing"
    BY <1>1 DEF DrainOne, ClearQueued, PollStart, ShutdownAbort, DropNotification
  <2> QED
    BY <2>1, CountKept
<1>2. CASE AbortStart(t)
  <2>1. closed /\ closed' /\ taskCount = 0 /\ taskCount' = taskCount
    BY <1>2 DEF AbortStart, CountOK, PhaseOK
  <2> QED
    BY <2>1 DEF CountOK
<1> QED
  BY <1>1, <1>2 DEF TakeStep

LEMMA CycleCount ==
  ASSUME Typed, WakesOK, PhaseOK, TasksOK, StageOK, EmptyOK, CountOK, CycleStep
  PROVE  CountOK'
<1> USE DEF wakeVars, callVars, taskVars, cycleVars, Push, Pop, Clear, NoHandles, Goto
<1>1. CASE DrainSwap \/ DrainEmpty \/ PollDone("succeeded") \/ PollDone("panicked") \/
     FinishDeliver \/ PollsDone \/ AbortDeliver
  <2>1. /\ UNCHANGED <<newTasks, active, pending, taskCount, closed>>
        /\ pc = "closing" => pc' = "closing"
    BY <1>1 DEF DrainSwap, DrainEmpty, PollDone, FinishDeliver, Deliver, PollsDone,
         AbortDeliver
  <2> QED
    BY <2>1, CountKept
<1>2. CASE AbortFinish \/ AbortDone \/ Outcome \/ Resume \/ UnwindPoll \/ UnwindFinish
     \/ UnwindCancel
  <2>1. /\ UNCHANGED <<newTasks, active, pending, taskCount, closed>>
        /\ pc = "closing" => pc' = "closing"
    BY <1>2 DEF AbortFinish, AbortDone, Outcome, Resume, UnwindPoll, Unwind,
         UnwindFinish, UnwindCancel
  <2> QED
    BY <2>1, CountKept
<1>3. CASE EnterCycle
  <2>1. ASSUME NEW u \in Task
        PROVE  Owned(u)' = Owned(u)
    BY <1>3 DEF EnterCycle, Owned, Typed, TypeOK, TaskTypes, Counts
  <2>2. OwnedTasks' = OwnedTasks
    BY <2>1 DEF OwnedTasks
  <2> QED
    BY <1>3, <2>2 DEF EnterCycle, CountOK
<1>4. CASE Append
  <2>1. ASSUME NEW u \in Task
        PROVE  Owned(u)' > 0 <=> Owned(u) > 0
    <3>1. /\ awakened[u] \in Nat /\ newTasks[u] \in Nat /\ active[u] \in Nat /\ pending[u] \in Nat
          /\ awakened[u] > 0 => newTasks[u] + active[u] + pending[u] > 0
      BY AwakenedIsOwned DEF Owned, Typed, TypeOK, WakeTypes, TaskTypes, Counts
    <3>2. Owned(u)' = newTasks[u] + (active[u] + awakened[u]) + pending[u]
      BY <1>4 DEF Append, Owned
    <3> QED
      BY <3>1, <3>2 DEF Owned
  <2>2. OwnedTasks' = OwnedTasks
    BY <2>1 DEF OwnedTasks
  <2> QED
    BY <1>4, <2>2 DEF Append, CountOK
<1>5. CASE PollPending
  <2>1. ASSUME NEW u \in Task
        PROVE  Owned(u)' > 0 <=> Owned(u) > 0
    <3>1. CASE u = current
      BY <1>5, <3>1 DEF PollPending, Owned, Typed, TypeOK, TaskTypes, Counts, CurrentOK
    <3>2. CASE u # current
      BY <1>5, <3>2 DEF PollPending, Owned, Typed, TypeOK, TaskTypes, Counts, CurrentOK
    <3> QED
      BY <3>1, <3>2
  <2>2. OwnedTasks' = OwnedTasks
    BY <2>1 DEF OwnedTasks
  <2> QED
    BY <1>5, <2>2 DEF PollPending, CountOK
<1>6. CASE FinishTask
  <2>1. PICK c \in Task : c = current
    BY <1>6 DEF FinishTask, Typed, CurrentOK
  <2>2. Owned(c) > 0 /\ Owned(c)' = 0 /\ ~closed
    BY <1>6, <2>1, InsideIsOpen DEF FinishTask, Typed, TypeOK, TaskTypes, Counts, CurrentOK, TasksOK,
         QueueOK, Owned
  <2>3. ASSUME NEW u \in Task, u # c
        PROVE  Owned(u)' = Owned(u)
    BY <1>6, <2>1, <2>3 DEF FinishTask, Typed, TypeOK, TaskTypes, Counts, Owned
  <2>4. OwnedTasks' = OwnedTasks \ {c} /\ c \in OwnedTasks
    BY <2>2, <2>3 DEF OwnedTasks
  <2>5. Cardinality(OwnedTasks') = Cardinality(OwnedTasks) - 1
    BY <2>4, OwnedIsFinite, FS_RemoveElement
  <2> QED
    BY <1>6, <2>2, <2>5 DEF FinishTask, CountOK
<1>7. CASE Close
  <2>1. OwnedTasks' = OwnedTasks
    BY <1>7 DEF Close, OwnedTasks, Owned
  <2> QED
    BY <1>7, <2>1 DEF Close, CountOK
<1>8. CASE PrepareAbort
  <2>1. ASSUME NEW u \in Task
        PROVE  Batch[u] > 0 <=> Owned(u) > 0
    BY DEF Batch, Owned, Typed, TypeOK, TaskTypes, Counts
  <2>2. Queued(Batch) = OwnedTasks
    BY <2>1 DEF Queued, OwnedTasks
  <2>3. Cardinality(OwnedTasks) \in Nat
    BY OwnedIsFinite, FS_CardinalityType
  <2>4. closed /\ closed' = closed
    BY <1>8 DEF PrepareAbort, PhaseOK
  <2>5. taskCount' = 0
    BY <1>8, <2>2, <2>3, <2>4 DEF PrepareAbort, CountOK
  <2> QED
    BY <2>4, <2>5 DEF CountOK
<1> QED
  BY <1>1, <1>2, <1>3, <1>4, <1>5, <1>6, <1>7, <1>8 DEF CycleStep

LEMMA NextCount ==
  ASSUME Typed, WakesOK, PhaseOK, TasksOK, StageOK, EmptyOK, CountOK, [Next]_vars
  PROVE  CountOK'
<1>1. CASE OwnerStep
  BY <1>1, TakeCount, CycleCount DEF OwnerStep
<1>2. CASE \E t \in Task : RemoteStep(t) \/ UserStep(t)
  BY <1>2, RemoteCount, UserCount
<1>3. CASE Trigger
  BY <1>3 DEF Trigger, UserCode, CountOK, OwnedTasks, Owned, wakeVars, callVars,
       taskVars, cycleVars, Push, Pop, Clear, NoHandles, Goto
<1>4. CASE DropExecutor
  BY <1>4 DEF DropExecutor, CountOK, OwnedTasks, Owned, wakeVars, callVars, taskVars,
       cycleVars, Push, Pop, Clear, NoHandles, Goto
<1>5. CASE UNCHANGED vars
  BY <1>5 DEF vars, CountOK, OwnedTasks, Owned, wakeVars, callVars, taskVars,
       cycleVars, Push, Pop, Clear, NoHandles, Goto
<1> QED
  BY <1>1, <1>2, <1>3, <1>4, <1>5 DEF Next

-----------------------------------------------------------------------------
(* What the owner is told before it parks. *)

\* Every wake is announced before the owner can park.
LEMMA UserNotice ==
  ASSUME Typed, PhaseOK, StageOK, EmptyOK, CountOK, NoticeOK, NEW t \in Task,
       UserStep(t)
  PROVE  NoticeOK'
<1> USE DEF Typed, TypeOK, WakeTypes, CallTypes, TaskTypes, CycleTypes, CurrentOK,
     Labels, Counts, PhaseOK, StageOK, Aborting, Triggered, IsEmpty, NoticeOK, EmptyOK,
     Vacant, wakeVars, callVars, taskVars, cycleVars, Push, Pop, Clear, NoHandles, Goto
<1>1. CASE CloneWaker(t)
  BY <1>1 DEF CloneWaker, CanReach
<1>2. CASE DropWaker(t)
  BY <1>2 DEF DropWaker
<1>3. CASE CoalescedWake(t)
  BY <1>3 DEF CoalescedWake, CanReach
<1>4. CASE LocalWake(t)
  BY <1>4 DEF LocalWake, BeginNotification, UserCode, Executing, CanReach
<1>5. CASE RemoteBegin(t)
  BY <1>5 DEF RemoteBegin, BeginNotification
<1>6. CASE AcceptTask(t)
  BY <1>6 DEF AcceptTask, NotifySubmission, UserCode, Executing
<1>7. CASE RefuseTask(t)
  BY <1>7 DEF RefuseTask, NotifySubmission, UserCode, Executing
<1> QED
  BY <1>1, <1>2, <1>3, <1>4, <1>5, <1>6, <1>7 DEF UserStep

LEMMA RemoteNotice ==
  ASSUME Typed, PhaseOK, StageOK, EmptyOK, CountOK, NoticeOK, NEW t \in Task,
       RemoteStep(t)
  PROVE  NoticeOK'
<1> USE DEF Typed, TypeOK, WakeTypes, CallTypes, TaskTypes, CycleTypes, CurrentOK,
     Labels, Counts, PhaseOK, StageOK, Aborting, Triggered, IsEmpty, NoticeOK, EmptyOK,
     Vacant, wakeVars, callVars, taskVars, cycleVars, Push, Pop, Clear, NoHandles, Goto
<1>1. CASE RemoteSend(t)
  BY <1>1 DEF RemoteSend
<1>2. CASE RemoteRefused(t)
  BY <1>2 DEF RemoteRefused, ClearNotification
<1>3. CASE RemotePublish(t)
  BY <1>3 DEF RemotePublish
<1>4. CASE RemoteNotify(t)
  BY <1>4 DEF RemoteNotify
<1> QED
  BY <1>1, <1>2, <1>3, <1>4 DEF RemoteStep

LEMMA TakeNotice ==
  ASSUME Typed, PhaseOK, StageOK, EmptyOK, CountOK, NoticeOK, NEW t \in Task,
       TakeStep(t)
  PROVE  NoticeOK'
<1> USE DEF Typed, TypeOK, WakeTypes, CallTypes, TaskTypes, CycleTypes, CurrentOK,
     Labels, Counts, PhaseOK, StageOK, Aborting, Triggered, IsEmpty, NoticeOK, EmptyOK,
     Vacant, wakeVars, callVars, taskVars, cycleVars, Push, Pop, Clear, NoHandles, Goto
<1>1. CASE DrainOne(t)
  BY <1>1 DEF DrainOne
<1>2. CASE ClearQueued(t)
  BY <1>2 DEF ClearQueued, ClearNotification
<1>3. CASE PollStart(t)
  BY <1>3 DEF PollStart
<1>4. CASE ShutdownAbort(t)
  BY <1>4 DEF ShutdownAbort, Retire
<1>5. CASE DropNotification(t)
  BY <1>5 DEF DropNotification
<1>6. CASE AbortStart(t)
  BY <1>6 DEF AbortStart, Retire
<1> QED
  BY <1>1, <1>2, <1>3, <1>4, <1>5, <1>6 DEF TakeStep

LEMMA CycleNotice ==
  ASSUME Typed, PhaseOK, StageOK, EmptyOK, CountOK, NoticeOK, CycleStep
  PROVE  NoticeOK'
<1> USE DEF Typed, TypeOK, WakeTypes, CallTypes, TaskTypes, CycleTypes, CurrentOK,
     Labels, Counts, PhaseOK, StageOK, Aborting, Triggered, IsEmpty, NoticeOK, EmptyOK,
     Vacant, wakeVars, callVars, taskVars, cycleVars, Push, Pop, Clear, NoHandles, Goto
<1>1. CASE EnterCycle
  BY <1>1 DEF EnterCycle
<1>2. CASE DrainSwap
  BY <1>2 DEF DrainSwap
<1>3. CASE DrainEmpty
  BY <1>3 DEF DrainEmpty
<1>4. CASE Append
  BY <1>4 DEF Append, Queued
<1>5. CASE PollPending
  BY <1>5 DEF PollPending
<1>6. CASE PollDone("succeeded")
  BY <1>6 DEF PollDone, Retire
<1>7. CASE PollDone("panicked")
  BY <1>7 DEF PollDone, Retire
<1>8. CASE FinishDeliver
  BY <1>8 DEF FinishDeliver, Deliver
<1>9. CASE FinishTask
  BY <1>9 DEF FinishTask
<1>10. CASE PollsDone
  BY <1>10 DEF PollsDone
<1>11. CASE Close
  BY <1>11 DEF Close
<1>12. CASE PrepareAbort
  BY <1>12 DEF PrepareAbort, Batch
<1>13. CASE AbortDeliver
  BY <1>13 DEF AbortDeliver, Deliver
<1>14. CASE AbortFinish
  BY <1>14 DEF AbortFinish
<1>15. CASE AbortDone
  BY <1>15 DEF AbortDone
<1>16. CASE Outcome
  <2>1. Triggered => taskCount = 0
    BY <1>16 DEF Outcome, CountOK
  <2>2. result' = "suspend" => ~Triggered /\ IsEmpty(newTasks) /\ IsEmpty(awakened)
    BY <1>16, <2>1 DEF Outcome
  <2>3. UNCHANGED <<wakeVars, callVars, newTasks, cause>> /\ pc = "outcome" /\ pc' = "between"
    BY <1>16 DEF Outcome
  <2> QED
    BY <2>2, <2>3
<1>17. CASE Resume
  BY <1>17 DEF Resume
<1>18. CASE UnwindPoll
  BY <1>18 DEF UnwindPoll, Unwind
<1>19. CASE UnwindFinish
  BY <1>19 DEF UnwindFinish, Unwind
<1>20. CASE UnwindCancel
  BY <1>20 DEF UnwindCancel, Unwind
<1> QED
  BY <1>1, <1>2, <1>3, <1>4, <1>5, <1>6, <1>7, <1>8, <1>9, <1>10, <1>11, <1>12, <1>13,
       <1>14, <1>15, <1>16, <1>17, <1>18, <1>19, <1>20 DEF CycleStep

LEMMA NextNotice ==
  ASSUME Typed, PhaseOK, StageOK, EmptyOK, CountOK, NoticeOK, [Next]_vars
  PROVE  NoticeOK'
<1>1. CASE OwnerStep
  BY <1>1, TakeNotice, CycleNotice DEF OwnerStep
<1>2. CASE \E t \in Task : RemoteStep(t) \/ UserStep(t)
  BY <1>2, RemoteNotice, UserNotice
<1>3. CASE Trigger
  BY <1>3 DEF Trigger, UserCode, Typed, TypeOK, WakeTypes, CallTypes, TaskTypes,
       CycleTypes, CurrentOK, Labels, Counts, PhaseOK, StageOK, Aborting, Triggered,
       IsEmpty, NoticeOK, EmptyOK, Vacant, wakeVars, callVars, taskVars, cycleVars,
       Push, Pop, Clear, NoHandles, Goto
<1>4. CASE DropExecutor
  BY <1>4 DEF DropExecutor, Typed, TypeOK, WakeTypes, CallTypes, TaskTypes, CycleTypes,
       CurrentOK, Labels, Counts, PhaseOK, StageOK, Aborting, Triggered, IsEmpty,
       NoticeOK, EmptyOK, Vacant, wakeVars, callVars, taskVars, cycleVars, Push, Pop,
       Clear, NoHandles, Goto
<1>5. CASE UNCHANGED vars
  BY <1>5 DEF vars, Typed, TypeOK, WakeTypes, CallTypes, TaskTypes, CycleTypes,
       CurrentOK, Labels, Counts, PhaseOK, StageOK, Aborting, Triggered, IsEmpty,
       NoticeOK, EmptyOK, Vacant, wakeVars, callVars, taskVars, cycleVars, Push, Pop,
       Clear, NoHandles, Goto
<1> QED
  BY <1>1, <1>2, <1>3, <1>4, <1>5 DEF Next

-----------------------------------------------------------------------------
(* The inductive invariant and what follows from it. *)

LEMMA InitLife == Init => LifeInv
<1> SUFFICES ASSUME Init PROVE LifeInv
  OBVIOUS
<1>1. TasksOK /\ StageOK /\ EmptyOK /\ EndingOK /\ NoticeOK
  BY DEF Init, NoHandles, TasksOK, QueueOK, SignalOK, LiveOK, Fresh, Owned, StageOK, Aborting,
         Triggered, EmptyOK, Vacant, IsEmpty, EndingOK, NoticeOK
<1>2. OwnedTasks = {}
  BY DEF Init, NoHandles, OwnedTasks, Owned
<1>3. CountOK
  BY <1>2, FS_EmptySet DEF Init, CountOK
<1> QED
  BY <1>1, <1>3 DEF LifeInv

LEMMA NextLife ==
  ASSUME Typed, WakeInv, LifeInv, [Next]_vars
  PROVE  LifeInv'
<1> USE DEF WakeInv, LifeInv
<1>1. ASSUME NEW u \in Task
      PROVE  QueueOK(u)' /\ SignalOK(u)' /\ LiveOK(u)'
  BY NextQueue, NextSignal, NextLive
<1>2. TasksOK'
  BY <1>1 DEF TasksOK
<1>3. StageOK' /\ EmptyOK' /\ EndingOK'
  BY NextStage, NextEmpty, NextEnding
<1>4. CountOK' /\ NoticeOK'
  BY NextCount, NextNotice
<1> QED
  BY <1>2, <1>3, <1>4

LEMMA AlwaysLife == Spec => [](Typed /\ Accounted /\ WakeInv /\ LifeInv)
<1>1. Init => Typed /\ Accounted /\ WakeInv /\ LifeInv
  BY InitTyped, InitAccounted, InitWakeInv, InitLife
<1>2. /\ Typed /\ Accounted /\ WakeInv /\ LifeInv /\ [Next]_vars
      => (Typed /\ Accounted /\ WakeInv /\ LifeInv)'
  BY NextTyped, NextAccounted, NextWakeInv, NextLife
<1> QED
  BY <1>1, <1>2, PTL DEF Spec

\* No queue of the owner holds a task twice and every woken task is held
\* elsewhere: clearing the awakened queue runs no task destructor.
THEOREM QueuesOwnOnce == Spec => []OwnedOnce
<1>1. ASSUME Typed, LifeInv, NEW t \in Task
      PROVE  /\ newTasks[t] + active[t] <= 1 /\ newTasks[t] + pending[t] <= 1
             /\ newTasks[t] + awakened[t] <= 1
             /\ awakened[t] > 0 => active[t] + pending[t] + Held(t) >= 1
  <2>1. /\ newTasks[t] \in Nat /\ active[t] \in Nat /\ pending[t] \in Nat
        /\ awakened[t] \in Nat /\ Held(t) \in Nat
    BY <1>1 DEF Typed, TypeOK, WakeTypes, TaskTypes, Counts, Held
  <2>2. /\ newTasks[t] + active[t] <= 1 /\ newTasks[t] + pending[t] <= 1 /\ awakened[t] <= 1
        /\ newTasks[t] > 0 => awakened[t] = 0
    BY <1>1 DEF LifeInv, TasksOK, QueueOK, Fresh
  <2>3. awakened[t] > 0 => newTasks[t] + active[t] + pending[t] > 0
    BY <1>1, AwakenedIsOwned DEF LifeInv, Owned
  <2> QED
    BY <2>1, <2>2, <2>3
<1>2. Typed /\ LifeInv => OwnedOnce
  BY <1>1 DEF OwnedOnce
<1> QED
  BY <1>2, AlwaysLife, PTL

\* poll_in_context never meets an emptied payload, however late wakes arrive.
THEOREM PollsAreLive == Spec => []PolledIsLive
<1>1. Typed /\ LifeInv => PolledIsLive
  <2> SUFFICES ASSUME Typed, LifeInv, pc = "polling"
               PROVE  payload[current] = "live" /\ sched[current] # "retired"
    BY DEF PolledIsLive
  <2>1. result # "unwound"
    BY DEF LifeInv, StageOK, Aborting
  <2>2. current \in Task /\ Owned(current) > 0
    BY DEF Typed, TypeOK, TaskTypes, Counts, CurrentOK, Owned
  <2> QED
    BY <2>1, <2>2 DEF LifeInv, TasksOK, LiveOK
<1> QED
  BY <1>1, AlwaysLife, PTL

\* task_count is the number of owned tasks until the cancellation batch leaves
\* it as a whole; it never underflows before that.
THEOREM CountIsExact == Spec => []CountExact
<1>1. LifeInv => CountExact
  BY DEF LifeInv, CountOK, CountExact, OwnedTasks, Owned
<1> QED
  BY <1>1, AlwaysLife, PTL

\* After CycleOutcome::Shutdown and after Executor::drop every submitted task
\* has its outcome, and only owned wakers keep task memory alive.
THEOREM ShutdownIsComplete == Spec => []ShutdownComplete
<1>1. Typed /\ Accounted /\ WakeInv /\ LifeInv => ShutdownComplete
  <2> SUFFICES ASSUME Typed, Accounted, WakeInv, LifeInv, NEW t \in Task,
                      pc = "dropped" \/ (pc = "between" /\ result = "shutdown")
               PROVE  /\ payload[t] # "unborn" => payload[t] = "retired" /\ outcome[t] # "none"
                      /\ strong[t] = OwnedWakers(t) + refused[t]
    BY DEF ShutdownComplete
  <2>1. Vacant /\ closed /\ channel[t] = 0
    BY DEF LifeInv, EmptyOK, StageOK, IsEmpty
  <2>2. awakened[t] = 0
    BY <2>1, VacantIsQuiet DEF LifeInv, IsEmpty
  <2>3. Held(t) = 0 /\ newTasks[t] = 0 /\ active[t] = 0 /\ pending[t] = 0
    BY <2>1 DEF Held, Vacant
  <2>4. payload[t] # "live"
    BY <2>3 DEF Accounted, PayloadOwned
  <2>5. payload[t] # "unborn" => payload[t] = "retired" /\ outcome[t] # "none"
    BY <2>4 DEF Typed, TypeOK, TaskTypes, LifeInv, TasksOK, LiveOK
  <2>6. OwnedWakers(t) \in Nat /\ refused[t] \in Nat
    BY DEF Typed, TypeOK, CallTypes, Counts, OwnedWakers
  <2>7. strong[t] = OwnedWakers(t) + refused[t]
    BY <2>1, <2>2, <2>3, <2>6 DEF Accounted, RefsExact, Handles
  <2> QED
    BY <2>5, <2>7
<1> QED
  BY <1>1, AlwaysLife, PTL

\* The owner never parks on work: what there is to do after Suspend comes with
\* a notification that is pending or still being sent.
THEOREM ParksWithNotice == Spec => []ParkedHasNotice
<1>1. LifeInv => ParkedHasNotice
  BY DEF LifeInv, NoticeOK, EmptyOK, StageOK, ParkedHasNotice
<1> QED
  BY <1>1, AlwaysLife, PTL

-----------------------------------------------------------------------------
(* The executor implements the task contract. *)

Stopped == result = "shutdown" \/ pc = "dropped"

\* A step that delivers nothing, starts nothing and reports nothing is invisible.
LEMMA Invisible ==
  ASSUME UNCHANGED <<payload, outcome, cause>>, Stopped' = Stopped
  PROVE  UNCHANGED Lifecycle!vars
  BY DEF Lifecycle!vars, Status, Triggered, Stopped

\* The outcome of a task is delivered once, and only for a reason.
LEMMA DeliverRefines ==
  ASSUME Typed, TasksOK, EndingOK, NEW next, Deliver(next), pc \in {"finishing", "aborting"},
         payload[current] # "unborn", next # "dropped"
  PROVE  Lifecycle!Next \/ UNCHANGED Lifecycle!vars
<1>1. PICK c \in Task : c = current
  BY DEF Typed, CurrentOK
<1>2. Stopped' = Stopped
  BY DEF Deliver, Stopped
<1>3. ending \in {"succeeded", "panicked", "cancelled"}
  BY DEF EndingOK, Typed, TypeOK, CycleTypes
<1>4. CASE payload[c] = "live"
  <2>1. outcome[c] = "none"
    BY <1>4 DEF TasksOK, LiveOK
  <2>2. Status[c] = "registered"
    BY <1>4, <2>1 DEF Status
  <2>3. outcome' = [outcome EXCEPT ![c] = ending] /\ payload' = [payload EXCEPT ![c] = "retired"]
    BY <1>1, <1>4 DEF Deliver
  <2>4. Status' = [Status EXCEPT ![c] = ending]
    BY <1>3, <2>3 DEF Status, Typed, TypeOK, TaskTypes
  <2>5. CASE ending = "succeeded"
    <3>1. Triggered' = Triggered
      BY <2>5 DEF Deliver, Triggered
    <3>2. Lifecycle!Succeed(c)
      BY <1>2, <2>2, <2>4, <2>5, <3>1 DEF Lifecycle!Succeed, Lifecycle!Becomes, Stopped
    <3> QED
      BY <3>2 DEF Lifecycle!Next
  <2>6. CASE ending = "panicked"
    <3>1. Triggered' = (Triggered \/ PanicPolicy = "shutdown")
      BY <2>6 DEF Deliver, Triggered
    <3>2. Lifecycle!Panic(c)
      BY <1>2, <2>2, <2>4, <2>6, <3>1 DEF Lifecycle!Panic, Lifecycle!Becomes, Stopped
    <3> QED
      BY <3>2 DEF Lifecycle!Next
  <2>7. CASE ending = "cancelled"
    <3>1. Triggered /\ Triggered' = Triggered
      BY <2>7 DEF Deliver, Triggered, EndingOK
    <3>2. Lifecycle!Cancel(c)
      BY <1>2, <2>2, <2>4, <2>7, <3>1 DEF Lifecycle!Cancel, Lifecycle!Becomes, Stopped
    <3> QED
      BY <3>2 DEF Lifecycle!Next
  <2> QED
    BY <1>3, <2>5, <2>6, <2>7
<1>5. CASE payload[c] # "live"
  <2>1. payload[c] = "retired"
    BY <1>1, <1>5 DEF Typed, TypeOK, TaskTypes
  <2>2. ending = "cancelled"
    BY <1>1, <1>5 DEF EndingOK
  <2>3. UNCHANGED <<payload, outcome, cause>>
    BY <1>1, <2>1, <2>2 DEF Deliver, Typed, TypeOK, TaskTypes
  <2> QED
    BY <1>2, <2>3, Invisible
<1> QED
  BY <1>4, <1>5

\* Completed shutdown is reported once, with no task left.
LEMMA ReportRefines ==
  ASSUME Typed, Accounted, TasksOK, Triggered, Vacant, pc \in {"outcome", "abort"}, ~Stopped,
         Stopped', UNCHANGED <<payload, outcome, cause>>
  PROVE  Lifecycle!Next
<1>1. ASSUME NEW t \in Task
      PROVE  Status[t] # "registered"
  <2>1. payload[t] # "live"
    BY DEF Accounted, PayloadOwned, Held, Vacant
  <2>2. outcome[t] # "none" => Status[t] = outcome[t] /\ outcome[t] # "registered"
    BY DEF Status, Typed, TypeOK, TaskTypes
  <2>3. outcome[t] = "none" => Status[t] = "new"
    BY <2>1 DEF Status, Typed, TypeOK, TaskTypes, TasksOK, LiveOK
  <2> QED
    BY <2>2, <2>3
<1>2. Status' = Status /\ Triggered' = Triggered
  BY DEF Status, Triggered
<1>3. Lifecycle!Report
  BY <1>1, <1>2 DEF Lifecycle!Report, Stopped
<1> QED
  BY <1>3 DEF Lifecycle!Next

\* A submission is registered, or refused at once.
LEMMA SubmitRefines ==
  ASSUME Typed, TasksOK, NEW t \in Task, AcceptTask(t) \/ RefuseTask(t)
  PROVE  Lifecycle!Next
<1>1. outcome[t] = "none" /\ Status[t] = "new" /\ Triggered' = Triggered /\ Stopped' = Stopped
  BY DEF AcceptTask, RefuseTask, TasksOK, LiveOK, Status, Triggered, Stopped, cycleVars
<1>2. CASE AcceptTask(t)
  <2>1. Status' = [Status EXCEPT ![t] = "registered"]
    BY <1>1, <1>2 DEF AcceptTask, Status, Typed, TypeOK, TaskTypes
  <2>2. Lifecycle!Submit(t)
    BY <1>1, <1>2, <2>1 DEF AcceptTask, Lifecycle!Submit, Lifecycle!Becomes, Stopped
  <2> QED
    BY <2>2 DEF Lifecycle!Next
<1>3. CASE RefuseTask(t)
  <2>1. Status' = [Status EXCEPT ![t] = "cancelled"]
    BY <1>1, <1>3 DEF RefuseTask, Status, Typed, TypeOK, TaskTypes
  <2>2. Lifecycle!Refuse(t)
    BY <1>1, <1>3, <2>1 DEF RefuseTask, Lifecycle!Refuse, Lifecycle!Becomes, Stopped
  <2> QED
    BY <2>2 DEF Lifecycle!Next
<1> QED
  BY <1>2, <1>3

\* Shutdown starts once.
LEMMA StopRefines ==
  ASSUME Typed, Trigger \/ DropExecutor
  PROVE  Lifecycle!Next \/ UNCHANGED Lifecycle!vars
<1>1. Stopped' = Stopped /\ Status' = Status /\ Triggered'
  BY DEF Trigger, DropExecutor, Stopped, Status, taskVars, Triggered, Typed, TypeOK, CycleTypes
<1>2. CASE Triggered
  BY <1>1, <1>2, Invisible DEF Trigger, DropExecutor, taskVars
<1>3. CASE ~Triggered
  <2>1. Lifecycle!Stop
    BY <1>1, <1>3 DEF Lifecycle!Stop, Stopped
  <2> QED
    BY <2>1 DEF Lifecycle!Next
<1> QED
  BY <1>2, <1>3

\* A cycle that ends after completed shutdown reports it again.
LEMMA OutcomeRefines ==
  ASSUME Typed, Accounted, TasksOK, StageOK, EmptyOK, CountOK, Outcome
  PROVE  Lifecycle!Next \/ UNCHANGED Lifecycle!vars
<1>1. UNCHANGED <<payload, outcome, cause>> /\ pc = "outcome" /\ pc' = "between"
  BY DEF Outcome, taskVars
<1>2. CASE Triggered
  <2>1. Vacant /\ taskCount = 0
    BY <1>1, <1>2 DEF StageOK, EmptyOK, CountOK, Aborting
  <2>2. Stopped'
    BY <1>2, <2>1 DEF Outcome, Stopped
  <2>3. CASE Stopped
    BY <1>1, <2>2, <2>3, Invisible DEF Stopped
  <2>4. CASE ~Stopped
    BY <1>1, <1>2, <2>1, <2>2, <2>4, ReportRefines
  <2> QED
    BY <2>3, <2>4
<1>3. CASE ~Triggered
  <2>1. ~Stopped
    BY <1>1, <1>3 DEF Stopped, EmptyOK, StageOK
  <2>2. ~Stopped'
    BY <1>1, <1>3 DEF Outcome, Stopped
  <2> QED
    BY <1>1, <2>1, <2>2, Invisible DEF Stopped
<1> QED
  BY <1>2, <1>3

LEMMA AbortDoneRefines ==
  ASSUME Typed, Accounted, TasksOK, StageOK, EmptyOK, AbortDone
  PROVE  Lifecycle!Next \/ UNCHANGED Lifecycle!vars
<1>1. UNCHANGED <<payload, outcome, cause, result>> /\ pc = "abort" /\ pc' \in {"dropped", "outcome"}
  BY DEF AbortDone, taskVars, Goto
<1>2. Triggered /\ Vacant
  BY <1>1 DEF StageOK, EmptyOK, Aborting, AbortDone, Vacant, IsEmpty
<1>3. CASE Stopped' = Stopped
  BY <1>1, <1>3, Invisible
<1>4. CASE ~Stopped /\ Stopped'
  BY <1>1, <1>2, <1>4, ReportRefines
<1> QED
  BY <1>1, <1>3, <1>4 DEF Stopped

\* No guard panics out of a cycle once completed shutdown was reported.
LEMMA UnwindInvisible ==
  ASSUME Typed, EmptyOK, UnwindPoll \/ UnwindFinish \/ UnwindCancel
  PROVE  Stopped' = Stopped
<1>1. ~Stopped
  BY DEF UnwindPoll, UnwindFinish, UnwindCancel, Stopped, EmptyOK, Vacant, Typed, CurrentOK
<1>2. ~Stopped'
  BY <1>1 DEF UnwindPoll, UnwindFinish, UnwindCancel, Unwind, Stopped
<1> QED
  BY <1>1, <1>2 DEF Stopped

LEMMA OwnerRefines ==
  ASSUME Typed, Accounted, WakeInv, LifeInv, OwnerStep
  PROVE  Lifecycle!Next \/ UNCHANGED Lifecycle!vars
<1> USE DEF LifeInv
<1>1. CASE FinishDeliver
  BY <1>1, DeliverRefines DEF FinishDeliver, WakeInv, PhaseOK
<1>2. CASE AbortDeliver
  BY <1>2, DeliverRefines DEF AbortDeliver, WakeInv, PhaseOK
<1>3. CASE AbortDone
  BY <1>3, AbortDoneRefines
<1>4. CASE Outcome
  BY <1>4, OutcomeRefines
<1>5. CASE UnwindPoll \/ UnwindFinish \/ UnwindCancel
  <2>1. UNCHANGED <<payload, outcome, cause>>
    BY <1>5 DEF UnwindPoll, UnwindFinish, UnwindCancel, Unwind, taskVars
  <2> QED
    BY <1>5, <2>1, UnwindInvisible, Invisible
<1>6. CASE EnterCycle \/ DrainSwap \/ DrainEmpty \/ Append \/ PollsDone \/ Close \/ Resume
  <2>1. UNCHANGED <<payload, outcome, cause, result>> /\ pc # "dropped" /\ pc' # "dropped"
    BY <1>6 DEF EnterCycle, DrainSwap, DrainEmpty, Append, PollsDone, Close, Resume, Goto, taskVars
  <2> QED
    BY <2>1, Invisible DEF Stopped
<1>7. CASE \/ PollPending \/ PollDone("succeeded") \/ PollDone("panicked") \/ FinishTask
           \/ PrepareAbort \/ AbortFinish
  <2>1. UNCHANGED <<payload, outcome, cause, result>> /\ pc # "dropped" /\ pc' # "dropped"
    BY <1>7 DEF PollPending, PollDone, FinishTask, PrepareAbort, AbortFinish, Goto, taskVars
  <2> QED
    BY <2>1, Invisible DEF Stopped
<1>8. CASE \E t \in Task : TakeStep(t)
  <2>1. UNCHANGED <<payload, outcome, cause, result>> /\ pc # "dropped" /\ pc' # "dropped"
    BY <1>8 DEF TakeStep, DrainOne, ClearQueued, PollStart, ShutdownAbort, DropNotification,
         AbortStart, taskVars, cycleVars
  <2> QED
    BY <2>1, Invisible DEF Stopped
<1> QED
  BY <1>1, <1>2, <1>3, <1>4, <1>5, <1>6, <1>7, <1>8 DEF OwnerStep, CycleStep

LEMMA NextRefines ==
  ASSUME Typed, Accounted, WakeInv, LifeInv, [Next]_vars
  PROVE  [Lifecycle!Next]_Lifecycle!vars
<1>1. CASE OwnerStep
  BY <1>1, OwnerRefines
<1>2. CASE Trigger \/ DropExecutor
  BY <1>2, StopRefines
<1>3. ASSUME NEW t \in Task, AcceptTask(t) \/ RefuseTask(t)
      PROVE  Lifecycle!Next
  BY <1>3, SubmitRefines DEF LifeInv
<1>4. ASSUME NEW t \in Task,
             \/ CloneWaker(t) \/ DropWaker(t) \/ CoalescedWake(t) \/ LocalWake(t)
             \/ RemoteBegin(t) \/ RemoteStep(t)
      PROVE  UNCHANGED Lifecycle!vars
  <2>1. UNCHANGED <<payload, outcome, cause, result, pc>>
    BY <1>4 DEF CloneWaker, DropWaker, CoalescedWake, LocalWake, RemoteBegin, RemoteStep,
         RemoteSend, RemoteRefused, RemotePublish, RemoteNotify, taskVars, cycleVars
  <2> QED
    BY <2>1, Invisible DEF Stopped
<1>5. CASE \E t \in Task : RemoteStep(t) \/ UserStep(t)
  BY <1>3, <1>4, <1>5 DEF UserStep
<1>6. CASE UNCHANGED vars
  BY <1>6, Invisible DEF vars, taskVars, cycleVars, Stopped
<1> QED
  BY <1>1, <1>2, <1>5, <1>6 DEF Next

LEMMA InitRefines == Init => Lifecycle!Init
  BY DEF Init, Lifecycle!Init, Status, Triggered

\* The executor implements TaskLifecycle: one outcome for each submitted task,
\* cancellation only once shutdown has started, and no report of completed
\* shutdown with a task left, for any number of tasks, wakers and threads.
THEOREM Refinement == Spec => LifecycleSpec
<1>1. Init => Lifecycle!Init
  BY InitRefines
<1>2. Typed /\ Accounted /\ WakeInv /\ LifeInv /\ [Next]_vars => [Lifecycle!Next]_Lifecycle!vars
  BY NextRefines
<1> QED
  BY <1>1, <1>2, AlwaysLife, PTL DEF Spec, LifecycleSpec, Lifecycle!Spec
=============================================================================

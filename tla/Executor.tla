------------------------------ MODULE Executor ------------------------------
(***************************************************************************)
(* The single-threaded task executor of the Arty runtime, crate            *)
(* arty_executor: task ownership, the wake protocol between the owner      *)
(* thread and any number of remote threads, execution cycles, contained    *)
(* task panics, shutdown, and executor destruction.                        *)
(*                                                                         *)
(* The owner thread runs the cycle, the polled futures and their           *)
(* destructors.  A remote thread runs only Waker calls.  Owner and remotes *)
(* share the schedule_state of a task, the remote wake channel, the        *)
(* remote_wakes_pending flag, the notification of the owner, and the       *)
(* reference counts; one action makes at most one access to that shared    *)
(* state that a remote step could observe.                                 *)
(*                                                                         *)
(* A queue of task handles is the number of handles it holds for each      *)
(* task: the order inside a queue is left open, and every order the code   *)
(* can produce is among those the model allows.                            *)
(***************************************************************************)
EXTENDS Integers, FiniteSets

CONSTANTS
  Task,          \* tasks that can be submitted
  NoTask,        \* no task is being polled or retired
  MaxWakers,     \* bound on the owned wakers of one task, calls included
  PanicPolicy,   \* ExecutorBuilder::panic_policy: "shutdown" or "ignore"
  HookPanics     \* where a context guard may panic: "poll", "finish", "cancel"

ASSUME TaskAssumption == IsFiniteSet(Task) /\ NoTask \notin Task
ASSUME ConfigAssumption ==
  /\ MaxWakers \in Nat
  /\ PanicPolicy \in {"shutdown", "ignore"}
  /\ HookPanics \subseteq {"poll", "finish", "cancel"}

VARIABLES
  sched,      \* WakeSignal::schedule_state of each task
  payload,    \* "unborn" before add_task, "live" while Some, then "retired"
  outcome,    \* what the completion target of each task was told
  strong,     \* strong references to the pooled allocation of each task
  newTasks,   \* ExecutorSharedInner::new_tasks
  active,     \* Executor::active
  pending,    \* Executor::pending, the intrusive list
  awakened,   \* executor_context::State::awakened
  toClear,    \* appended wakes whose notification is not cleared yet
  taskCount,  \* ExecutorSharedInner::task_count
  channel,    \* RemoteWake notifications in the remote wake channel
  closed,     \* the remote wake channel is closed
  flag,       \* WakeSharedInner::remote_wakes_pending
  notified,   \* the owner was notified through parent_waker
  wakers,     \* owned wakers of each task that no call is using
  begun,      \* remote wake calls that won begin_notification
  sent,       \* remote wake calls whose notification is in the channel
  refused,    \* remote wake calls whose notification was refused
  waking,     \* remote wake calls about to notify the owner
  cause,      \* ShutdownInner::cause, "none" while unset
  pc,         \* where the owner thread is
  current,    \* the task being polled or retired
  ending,     \* the terminal outcome being delivered
  result,     \* how the last cycle ended
  dropping,   \* Executor::drop is running
  owed        \* history: a wake was requested since the last poll began

wakeVars   == <<sched, awakened, channel, closed, flag, notified>>
callVars   == <<wakers, begun, sent, refused, waking>>
taskVars   == <<payload, outcome, newTasks, active, pending, toClear, taskCount>>
cycleVars  == <<cause, pc, current, ending, result, dropping>>
vars == <<wakeVars, callVars, taskVars, cycleVars, strong, owed>>

-----------------------------------------------------------------------------
(* Queues of handles. *)

NoHandles == [t \in Task |-> 0]
IsEmpty(q) == \A t \in Task : q[t] = 0
Push(q, t) == [q EXCEPT ![t] = @ + 1]
Pop(q, t)  == [q EXCEPT ![t] = @ - 1]
Clear(q, t) == [q EXCEPT ![t] = 0]

\* Tasks with a handle in a queue.  A queue whose length the code takes never
\* holds two handles of one task (OwnedOnce), so this set has that length.
Queued(q) == {t \in Task : q[t] > 0}

Triggered == cause # "none"

\* Owner-thread user code runs: commands and timers between cycles, a future
\* being polled, or the destructors and completion target of a retired task.
UserCode ==
  pc \in {"ready", "between", "polling", "finishing", "delivering", "aborting", "cancelling"}

\* executor_context::is_executing.
Executing == ~dropping /\ pc \notin {"ready", "between", "dropped", "aborted"}

\* Somebody can call the waker of t: an owned waker exists, or t is being
\* polled and its future has the borrowed one.
CanReach(t) == wakers[t] > 0 \/ (pc = "polling" /\ current = t)

OwnedWakers(t) == wakers[t] + begun[t] + sent[t] + refused[t] + waking[t]

Init ==
  /\ sched = [t \in Task |-> "retired"]
  /\ payload = [t \in Task |-> "unborn"]
  /\ outcome = [t \in Task |-> "none"]
  /\ strong = NoHandles
  /\ newTasks = NoHandles /\ active = NoHandles
  /\ pending = NoHandles /\ awakened = NoHandles
  /\ toClear = {}
  /\ taskCount = 0
  /\ channel = NoHandles /\ closed = FALSE /\ flag = FALSE /\ notified = FALSE
  /\ wakers = NoHandles /\ begun = NoHandles /\ sent = NoHandles
  /\ refused = NoHandles /\ waking = NoHandles
  /\ cause = "none"
  /\ pc = "ready" /\ current = NoTask /\ ending = "none" /\ result = "none"
  /\ dropping = FALSE
  /\ owed = [t \in Task |-> FALSE]

-----------------------------------------------------------------------------
(* The wake protocol, wake.rs. *)

\* Variant for testing the properties: a queued task is queued again.
BeginNotificationAgain(t, to) ==
  /\ sched[t] # "retired"
  /\ sched' = [sched EXCEPT ![t] = to]

\* WakeSignal::begin_notification, the call that changes the state.
BeginNotification(t, to) ==
  /\ sched[t] = "active"
  /\ sched' = [sched EXCEPT ![t] = to]

\* WakeSignal::clear_notification.
ClearNotification(t) ==
  sched' = [sched EXCEPT ![t] = IF @ = "retired" THEN @ ELSE "active"]

\* Variant for testing the properties: retirement forgets the queued handle.
RetireKeepsWake(t) ==
  /\ sched' = [sched EXCEPT ![t] = "retired"]
  /\ owed' = [owed EXCEPT ![t] = FALSE]
  /\ UNCHANGED <<awakened, strong>>

\* WakeSignal::retire: the notification of a locally woken task leaves the
\* awakened queue with its reference.
Retire(t) ==
  /\ sched' = [sched EXCEPT ![t] = "retired"]
  /\ IF sched[t] = "local"
     THEN /\ awakened' = Clear(awakened, t)
          /\ strong' = [strong EXCEPT ![t] = @ - awakened[t]]
     ELSE UNCHANGED <<awakened, strong>>
  /\ owed' = [owed EXCEPT ![t] = FALSE]

\* waker_clone, on any thread.
CloneWaker(t) ==
  /\ CanReach(t)
  /\ OwnedWakers(t) < MaxWakers
  /\ wakers' = Push(wakers, t)
  /\ strong' = Push(strong, t)
  /\ UNCHANGED <<wakeVars, begun, sent, refused, waking, taskVars, cycleVars, owed>>

\* waker_drop, and the end of a consuming waker_wake, on any thread.
DropWaker(t) ==
  /\ wakers[t] > 0
  /\ wakers' = Pop(wakers, t)
  /\ strong' = Pop(strong, t)
  /\ UNCHANGED <<wakeVars, begun, sent, refused, waking, taskVars, cycleVars, owed>>

\* WakeSignal::wake that finds a notification queued: it is merged into it.
CoalescedWake(t) ==
  /\ CanReach(t)
  /\ sched[t] \in {"local", "remote"}
  /\ owed' = [owed EXCEPT ![t] = TRUE]
  /\ UNCHANGED <<wakeVars, callVars, taskVars, cycleVars, strong>>

\* Variant for testing the properties: the owner is not notified between cycles.
LocalWakeQuiet(t) ==
  /\ UserCode
  /\ CanReach(t)
  /\ BeginNotification(t, "local")
  /\ awakened' = Push(awakened, t)
  /\ strong' = Push(strong, t)
  /\ owed' = [owed EXCEPT ![t] = TRUE]
  /\ UNCHANGED <<channel, closed, flag, notified, callVars, taskVars, cycleVars>>

\* WakeSignal::wake and schedule_local on the owner thread.  Only the state
\* change is visible to remote threads; the awakened queue is thread-local.
LocalWake(t) ==
  /\ UserCode
  /\ CanReach(t)
  /\ BeginNotification(t, "local")
  /\ awakened' = Push(awakened, t)
  /\ strong' = Push(strong, t)
  /\ notified' = (notified \/ ~Executing)
  /\ owed' = [owed EXCEPT ![t] = TRUE]
  /\ UNCHANGED <<channel, closed, flag, callVars, taskVars, cycleVars>>

\* WakeSignal::wake on a remote thread, up to begin_notification.
RemoteBegin(t) ==
  /\ wakers[t] > 0
  /\ BeginNotification(t, "remote")
  /\ wakers' = Pop(wakers, t)
  /\ begun' = Push(begun, t)
  /\ owed' = [owed EXCEPT ![t] = TRUE]
  /\ UNCHANGED <<awakened, channel, closed, flag, notified, sent, refused, waking,
                 taskVars, cycleVars, strong>>

\* schedule_remote: RemoteWake::new retains the task, try_send moves the
\* notification into the channel unless the channel is closed.
RemoteSend(t) ==
  /\ begun[t] > 0
  /\ begun' = Pop(begun, t)
  /\ strong' = Push(strong, t)
  /\ IF closed
     THEN refused' = Push(refused, t) /\ UNCHANGED <<channel, sent>>
     ELSE channel' = Push(channel, t) /\ sent' = Push(sent, t) /\ UNCHANGED refused
  /\ UNCHANGED <<sched, awakened, closed, flag, notified, wakers, waking,
                 taskVars, cycleVars, owed>>

\* Variant for testing the properties: the refused notification is forgotten.
RemoteRefusedLeaks(t) ==
  /\ refused[t] > 0
  /\ ClearNotification(t)
  /\ refused' = Pop(refused, t)
  /\ wakers' = Push(wakers, t)
  /\ UNCHANGED <<awakened, channel, closed, flag, notified, begun, sent, waking,
                 taskVars, cycleVars, strong, owed>>

\* schedule_remote: the refused notification is undone and dropped.
RemoteRefused(t) ==
  /\ refused[t] > 0
  /\ ClearNotification(t)
  /\ refused' = Pop(refused, t)
  /\ strong' = Pop(strong, t)
  /\ wakers' = Push(wakers, t)
  /\ UNCHANGED <<awakened, channel, closed, flag, notified, begun, sent, waking,
                 taskVars, cycleVars, owed>>

\* Variant for testing the properties: the first notification skips the owner.
RemotePublishQuiet(t) ==
  /\ sent[t] > 0
  /\ sent' = Pop(sent, t)
  /\ flag' = TRUE
  /\ wakers' = Push(wakers, t)
  /\ UNCHANGED <<sched, awakened, channel, closed, notified, begun, refused, waking,
                 taskVars, cycleVars, strong, owed>>

\* schedule_remote: remote_wakes_pending.swap(true).
RemotePublish(t) ==
  /\ sent[t] > 0
  /\ sent' = Pop(sent, t)
  /\ flag' = TRUE
  /\ IF flag
     THEN wakers' = Push(wakers, t) /\ UNCHANGED waking
     ELSE waking' = Push(waking, t) /\ UNCHANGED wakers
  /\ UNCHANGED <<sched, awakened, channel, closed, notified, begun, refused,
                 taskVars, cycleVars, strong, owed>>

\* schedule_remote: parent_waker.wake_by_ref().
RemoteNotify(t) ==
  /\ waking[t] > 0
  /\ waking' = Pop(waking, t)
  /\ wakers' = Push(wakers, t)
  /\ notified' = TRUE
  /\ UNCHANGED <<sched, awakened, channel, closed, flag, begun, sent, refused,
                 taskVars, cycleVars, strong, owed>>

-----------------------------------------------------------------------------
(* Submission and shutdown requests by user code on the owner thread. *)

\* A submission outside a cycle through the scheduler of the worker notifies
\* the owner; a submission by a worker command precedes the cycle and does not.
NotifySubmission ==
  \/ ~Executing /\ notified' = TRUE
  \/ pc # "between" /\ UNCHANGED notified

\* ExecutorShared::add_task and register_task.  A new task is owed its first
\* poll.
AcceptTask(t) ==
  /\ UserCode
  /\ payload[t] = "unborn"
  /\ ~Triggered
  /\ sched' = [sched EXCEPT ![t] = "active"]
  /\ payload' = [payload EXCEPT ![t] = "live"]
  /\ newTasks' = Push(newTasks, t)
  /\ strong' = Push(strong, t)
  /\ taskCount' = taskCount + 1
  /\ owed' = [owed EXCEPT ![t] = TRUE]
  /\ NotifySubmission
  /\ UNCHANGED <<awakened, channel, closed, flag, callVars, outcome, active, pending,
                 toClear, cycleVars>>

\* ExecutorShared::add_task once shutdown is triggered: the task is never
\* registered, its completion target is cancelled at once.
RefuseTask(t) ==
  /\ UserCode \/ pc = "dropped"
  /\ payload[t] = "unborn"
  /\ Triggered
  /\ payload' = [payload EXCEPT ![t] = "retired"]
  /\ outcome' = [outcome EXCEPT ![t] = "cancelled"]
  /\ NotifySubmission
  /\ UNCHANGED <<sched, awakened, channel, closed, flag, callVars, newTasks, active,
                 pending, toClear, taskCount, cycleVars, strong, owed>>

\* Variant for testing the properties: the request does not wake the owner.
TriggerQuiet ==
  /\ UserCode
  /\ ~Triggered
  /\ cause' = "requested"
  /\ UNCHANGED <<wakeVars, callVars, taskVars, pc, current, ending, result, dropping,
                 strong, owed>>

\* Shutdown::trigger, the call that publishes the cause.
Trigger ==
  /\ UserCode
  /\ ~Triggered
  /\ cause' = "requested"
  /\ notified' = TRUE
  /\ UNCHANGED <<sched, awakened, channel, closed, flag, callVars, taskVars,
                 pc, current, ending, result, dropping, strong, owed>>

-----------------------------------------------------------------------------
(* One execution cycle, Executor::execute_cycle_with. *)

Goto(label) == pc' = label /\ UNCHANGED <<cause, current, ending, result, dropping>>

\* enter_cycle and accept_new_tasks: the empty active queue and the queue of
\* new tasks are swapped.
EnterCycle ==
  /\ pc = "ready"
  /\ Goto("swap")
  /\ IF IsEmpty(newTasks)
     THEN UNCHANGED <<newTasks, active>>
     ELSE active' = newTasks /\ newTasks' = active
  /\ UNCHANGED <<wakeVars, callVars, payload, outcome, pending, toClear, taskCount,
                 strong, owed>>

\* drain_remote_wakes: remote_wakes_pending.swap(false) decides whether the
\* channel is read at all.
DrainSwap ==
  /\ pc = "swap"
  /\ flag' = FALSE
  /\ Goto(IF flag THEN "drain" ELSE "append")
  /\ UNCHANGED <<sched, awakened, channel, closed, notified, callVars, taskVars,
                 strong, owed>>

\* try_recv and RemoteWake::schedule_local: the reference of the notification
\* moves to the awakened queue, or is dropped if the task retired meanwhile.
DrainOne(t) ==
  /\ pc = "drain"
  /\ channel[t] > 0
  /\ channel' = Pop(channel, t)
  /\ IF sched[t] = "remote"
     THEN /\ sched' = [sched EXCEPT ![t] = "local"]
          /\ awakened' = Push(awakened, t)
          /\ UNCHANGED strong
     ELSE /\ strong' = Pop(strong, t)
          /\ UNCHANGED <<sched, awakened>>
  /\ UNCHANGED <<closed, flag, notified, callVars, taskVars, cycleVars, owed>>

DrainEmpty ==
  /\ pc = "drain"
  /\ IsEmpty(channel)
  /\ Goto("append")
  /\ UNCHANGED <<wakeVars, callVars, taskVars, strong, owed>>

\* append_wakes: the awakened queue moves behind the accepted tasks.
Append ==
  /\ pc = "append"
  /\ active' = [t \in Task |-> active[t] + awakened[t]]
  /\ awakened' = NoHandles
  /\ toClear' = Queued(awakened)
  /\ Goto("poll")
  /\ UNCHANGED <<sched, channel, closed, flag, notified, callVars, payload, outcome,
                 newTasks, pending, taskCount, strong, owed>>

\* Variant for testing the properties: the appended task keeps its notification.
ClearQueuedForgets(t) ==
  /\ pc = "poll"
  /\ t \in toClear
  /\ toClear' = toClear \ {t}
  /\ UNCHANGED <<wakeVars, callVars, payload, outcome, newTasks, active, pending,
                 taskCount, cycleVars, strong, owed>>

\* clear_queued_notification, for each appended task before any is polled.
ClearQueued(t) ==
  /\ pc = "poll"
  /\ t \in toClear
  /\ toClear' = toClear \ {t}
  /\ ClearNotification(t)
  /\ UNCHANGED <<awakened, channel, closed, flag, notified, callVars, payload, outcome,
                 newTasks, active, pending, taskCount, cycleVars, strong, owed>>

\* poll_active_tasks: the next runnable task is polled.  It stays in the
\* active queue until the poll has returned.
PollStart(t) ==
  /\ pc = "poll" /\ toClear = {}
  /\ active[t] > 0
  /\ ~Triggered
  /\ pc' = "polling" /\ current' = t
  /\ owed' = [owed EXCEPT ![t] = FALSE]
  /\ UNCHANGED <<wakeVars, callVars, taskVars, cause, ending, result, dropping, strong>>

\* poll_active_tasks once shutdown is triggered: Task::abort up to the
\* destruction of the future.
ShutdownAbort(t) ==
  /\ pc = "poll" /\ toClear = {}
  /\ active[t] > 0
  /\ Triggered
  /\ pc' = "finishing" /\ current' = t /\ ending' = "cancelled"
  /\ Retire(t)
  /\ UNCHANGED <<channel, closed, flag, notified, callVars, taskVars, cause, result,
                 dropping>>

\* The poll returned Pending: the runnable handle is dropped if the pending
\* list already owns the task, and becomes that owner otherwise.
PollPending ==
  /\ pc = "polling"
  /\ active' = Pop(active, current)
  /\ IF pending[current] > 0
     THEN strong' = Pop(strong, current) /\ UNCHANGED pending
     ELSE pending' = Push(pending, current) /\ UNCHANGED strong
  /\ pc' = "poll" /\ current' = NoTask
  /\ UNCHANGED <<wakeVars, callVars, payload, outcome, newTasks, toClear, taskCount,
                 cause, ending, result, dropping, owed>>

\* The poll returned Ready or panicked: the wake signal is retired before any
\* other user code of the task runs.
PollDone(how) ==
  /\ pc = "polling"
  /\ pc' = "finishing" /\ ending' = how
  /\ Retire(current)
  /\ UNCHANGED <<channel, closed, flag, notified, callVars, taskVars, cause, current,
                 result, dropping>>

\* Variant for testing the properties: an emptied payload delivers again.
DeliverAgain(next) ==
  /\ payload' = [payload EXCEPT ![current] = "retired"]
  /\ outcome' = [outcome EXCEPT ![current] = ending]
  /\ cause' = IF ending = "panicked" /\ PanicPolicy = "shutdown" /\ ~Triggered
              THEN "panic" ELSE cause
  /\ pc' = next
  /\ UNCHANGED <<wakeVars, callVars, newTasks, active, pending, toClear, taskCount,
                 current, ending, result, dropping, strong, owed>>

\* finish_terminal and finish_panicked: the payload is emptied, then the
\* completion target is called.  A contained panic publishes shutdown between
\* the two, without notifying the owner.  A payload that is gone already
\* (a hook panicked in an earlier cycle) delivers nothing.
Deliver(next) ==
  /\ payload' = [payload EXCEPT ![current] = "retired"]
  /\ outcome' = IF payload[current] = "live"
                THEN [outcome EXCEPT ![current] = ending] ELSE outcome
  /\ cause' = IF ending = "panicked" /\ PanicPolicy = "shutdown" /\ ~Triggered
              THEN "panic" ELSE cause
  /\ pc' = next
  /\ UNCHANGED <<wakeVars, callVars, newTasks, active, pending, toClear, taskCount,
                 current, ending, result, dropping, strong, owed>>

FinishDeliver == pc = "finishing" /\ Deliver("delivering")

\* Variant for testing the properties: the finished task stays counted.
FinishTaskCounted ==
  /\ pc = "delivering"
  /\ pending' = Clear(pending, current)
  /\ active' = Pop(active, current)
  /\ strong' = [strong EXCEPT ![current] = @ - 1 - pending[current]]
  /\ pc' = "poll" /\ current' = NoTask /\ ending' = "none"
  /\ UNCHANGED <<wakeVars, callVars, payload, outcome, newTasks, toClear, taskCount,
                 cause, result, dropping, owed>>

\* Variant for testing the properties: the pending list is unlinked unchecked.
FinishTaskUnlinks ==
  /\ pc = "delivering"
  /\ taskCount' = taskCount - 1
  /\ pending' = Pop(pending, current)
  /\ active' = Pop(active, current)
  /\ strong' = [strong EXCEPT ![current] = @ - 2]
  /\ pc' = "poll" /\ current' = NoTask /\ ending' = "none"
  /\ UNCHANGED <<wakeVars, callVars, payload, outcome, newTasks, toClear, cause,
                 result, dropping, owed>>

\* poll_active_tasks after the task finished: its count, its pending link and
\* its runnable handle are given up.
FinishTask ==
  /\ pc = "delivering"
  /\ taskCount' = taskCount - 1
  /\ pending' = Clear(pending, current)
  /\ active' = Pop(active, current)
  /\ strong' = [strong EXCEPT ![current] = @ - 1 - pending[current]]
  /\ pc' = "poll" /\ current' = NoTask /\ ending' = "none"
  /\ UNCHANGED <<wakeVars, callVars, payload, outcome, newTasks, toClear, cause,
                 result, dropping, owed>>

\* cancel_if_shutting_down.
PollsDone ==
  /\ pc = "poll" /\ toClear = {}
  /\ IsEmpty(active)
  /\ Goto(IF Triggered THEN "close" ELSE "outcome")
  /\ UNCHANGED <<wakeVars, callVars, taskVars, strong, owed>>

-----------------------------------------------------------------------------
(* Cancellation of every remaining task: prepare_task_abort and              *)
(* abort_prepared_tasks, in a cycle and in Executor::drop.                   *)

\* close_remote_wakes: later sends are refused.
Close ==
  /\ pc = "close"
  /\ closed' = TRUE
  /\ Goto("closing")
  /\ UNCHANGED <<sched, awakened, channel, flag, notified, callVars, taskVars, strong,
                 owed>>

\* close_remote_wakes: the notifications already sent are dropped.
DropNotification(t) ==
  /\ pc = "closing"
  /\ channel[t] > 0
  /\ channel' = Pop(channel, t)
  /\ strong' = Pop(strong, t)
  /\ UNCHANGED <<sched, awakened, closed, flag, notified, callVars, taskVars, cycleVars,
                 owed>>

\* Variant for testing the properties: tasks not accepted yet are left out.
BatchWithoutNew == [t \in Task |-> active[t] + (IF active[t] > 0 THEN 0 ELSE pending[t])]

\* The batch takes over one handle of each task: the pending handle of a task
\* that is also runnable is released.
Batch == [t \in Task |->
            active[t] + newTasks[t] + (IF active[t] > 0 THEN 0 ELSE pending[t])]

\* The rest of prepare_task_abort.  The whole batch leaves the task count
\* here; a count that would underflow panics while the executor is being
\* destroyed, which ends the process.
PrepareAbort ==
  /\ pc = "closing"
  /\ IsEmpty(channel)
  /\ flag' = FALSE
  /\ awakened' = NoHandles
  /\ strong' = [t \in Task |->
                  strong[t] - awakened[t] - (IF active[t] > 0 THEN pending[t] ELSE 0)]
  /\ active' = Batch
  /\ newTasks' = NoHandles
  /\ pending' = NoHandles
  /\ LET aborted == Cardinality(Queued(Batch)) IN
     IF aborted > taskCount
     THEN Goto("aborted") /\ UNCHANGED taskCount
     ELSE Goto("abort") /\ taskCount' = taskCount - aborted
  /\ UNCHANGED <<sched, channel, closed, notified, callVars, payload, outcome, toClear,
                 owed>>

\* abort_prepared_tasks: the handle leaves the queue and Task::abort begins.
AbortStart(t) ==
  /\ pc = "abort"
  /\ active[t] > 0
  /\ active' = Pop(active, t)
  /\ pc' = "aborting" /\ current' = t /\ ending' = "cancelled"
  /\ Retire(t)
  /\ UNCHANGED <<channel, closed, flag, notified, callVars, payload, outcome, newTasks,
                 pending, toClear, taskCount, cause, result, dropping>>

AbortDeliver == pc = "aborting" /\ Deliver("cancelling")

\* The handle of the aborted task is dropped.
AbortFinish ==
  /\ pc = "cancelling"
  /\ strong' = Pop(strong, current)
  /\ pc' = "abort" /\ current' = NoTask /\ ending' = "none"
  /\ UNCHANGED <<wakeVars, callVars, taskVars, cause, result, dropping, owed>>

\* The batch is empty: the cycle goes on to its outcome, or the destruction of
\* the executor ends with executor_context::unregister.
AbortDone ==
  /\ pc = "abort"
  /\ IsEmpty(active)
  /\ IF dropping
     THEN /\ Goto("dropped")
          /\ awakened' = NoHandles
          /\ strong' = [t \in Task |-> strong[t] - awakened[t]]
     ELSE Goto("outcome") /\ UNCHANGED <<awakened, strong>>
  /\ UNCHANGED <<sched, channel, closed, flag, notified, callVars, taskVars, owed>>

-----------------------------------------------------------------------------
(* Between cycles. *)

\* cycle_outcome.  has_remote_wakes is a Relaxed load: it may miss a flag that
\* a remote thread has just raised.
Outcome ==
  /\ pc = "outcome"
  /\ \E seen \in {FALSE, flag} :
       result' = IF Triggered /\ taskCount = 0 THEN "shutdown"
                 ELSE IF ~IsEmpty(newTasks) \/ ~IsEmpty(awakened) \/ seen THEN "continue"
                 ELSE "suspend"
  /\ pc' = "between"
  /\ UNCHANGED <<wakeVars, callVars, taskVars, cause, current, ending, dropping,
                 strong, owed>>

\* The owner loop, Worker::execute_step: after Suspend it waits for a
\* notification and consumes it.
Resume ==
  /\ pc = "between"
  /\ \/ result \in {"continue", "shutdown"} /\ UNCHANGED notified
     \/ result = "suspend" /\ notified /\ notified' = FALSE
  /\ Goto("ready")
  /\ UNCHANGED <<sched, awakened, channel, closed, flag, callVars, taskVars, strong,
                 owed>>

\* Executor::drop up to prepare_task_abort.
DropExecutor ==
  /\ pc \in {"ready", "between"}
  /\ pc' = "close" /\ dropping' = TRUE
  /\ cause' = IF Triggered THEN cause ELSE "default"
  /\ UNCHANGED <<wakeVars, callVars, taskVars, current, ending, result, strong, owed>>

-----------------------------------------------------------------------------
(* The context guard around a task panics when it is dropped, and unwinds    *)
(* out of the cycle.  The executor is only good for being dropped afterwards.*)

Unwind ==
  /\ pc' = "between" /\ result' = "unwound"
  /\ current' = NoTask /\ ending' = "none"
  /\ UNCHANGED <<cause, dropping>>

\* Variant for testing the properties: the task left the queue before its poll.
UnwindPollReleases ==
  /\ "poll" \in HookPanics
  /\ pc = "polling"
  /\ active' = Pop(active, current)
  /\ strong' = Pop(strong, current)
  /\ Unwind
  /\ UNCHANGED <<wakeVars, callVars, payload, outcome, newTasks, pending, toClear,
                 taskCount, owed>>

\* The guard of a poll that returned Pending: the task is still active.
UnwindPoll ==
  /\ "poll" \in HookPanics
  /\ pc = "polling"
  /\ Unwind
  /\ UNCHANGED <<wakeVars, callVars, taskVars, strong, owed>>

\* The guard of a finished or cancelled task of poll_active_tasks: it is still
\* active and counted, its payload is gone.
UnwindFinish ==
  /\ "finish" \in HookPanics
  /\ pc = "delivering"
  /\ Unwind
  /\ UNCHANGED <<wakeVars, callVars, taskVars, strong, owed>>

\* The guard of a cancelled task of the batch: the local handle
\* is dropped.  In Executor::drop, FinishDrop prepares the rest again.
UnwindCancel ==
  /\ "cancel" \in HookPanics
  /\ pc = "cancelling"
  /\ strong' = Pop(strong, current)
  /\ IF dropping
     THEN /\ pc' = "close" /\ current' = NoTask /\ ending' = "none"
          /\ UNCHANGED <<cause, result, dropping>>
     ELSE Unwind
  /\ UNCHANGED <<wakeVars, callVars, taskVars, owed>>

-----------------------------------------------------------------------------

\* Steps of the cycle, of the owner loop and of the future being polled.
CycleStep ==
  \/ EnterCycle \/ DrainSwap \/ DrainEmpty \/ Append
  \/ PollPending \/ PollDone("succeeded") \/ PollDone("panicked")
  \/ FinishDeliver \/ FinishTask \/ PollsDone
  \/ Close \/ PrepareAbort \/ AbortDeliver \/ AbortFinish \/ AbortDone
  \/ Outcome \/ Resume
  \/ UnwindPoll \/ UnwindFinish \/ UnwindCancel

\* Steps of the cycle that take a task from a queue.
TakeStep(t) ==
  \/ DrainOne(t) \/ ClearQueued(t) \/ PollStart(t)
  \/ ShutdownAbort(t) \/ DropNotification(t) \/ AbortStart(t)

OwnerStep == CycleStep \/ \E t \in Task : TakeStep(t)

\* Steps of a wake call that has begun on a remote thread.
RemoteStep(t) ==
  RemoteSend(t) \/ RemoteRefused(t) \/ RemotePublish(t) \/ RemoteNotify(t)

\* Steps that user code on either side may take and need not take.
UserStep(t) ==
  \/ CloneWaker(t) \/ DropWaker(t) \/ CoalescedWake(t) \/ LocalWake(t) \/ RemoteBegin(t)
  \/ AcceptTask(t) \/ RefuseTask(t)

Next ==
  \/ OwnerStep
  \/ Trigger
  \/ DropExecutor
  \/ \E t \in Task : RemoteStep(t) \/ UserStep(t)

\* The owner thread and every thread inside a wake call keep running, and a
\* poll, a destructor and a completion target return.  Nothing is assumed of
\* when wakes, submissions, shutdown or destruction are requested.
Fairness ==
  /\ WF_vars(OwnerStep)
  /\ \A t \in Task : /\ WF_vars(RemoteSend(t)) /\ WF_vars(RemoteRefused(t))
                      /\ WF_vars(RemotePublish(t)) /\ WF_vars(RemoteNotify(t))

Spec == Init /\ [][Next]_vars
FairSpec == Spec /\ Fairness

-----------------------------------------------------------------------------
(* Properties. *)

Labels == {"ready", "swap", "drain", "append", "poll", "polling", "finishing",
           "delivering", "close", "closing", "abort", "aborting", "cancelling",
           "outcome", "between", "dropped", "aborted"}

Counts == [Task -> Nat]

WakeTypes ==
  /\ sched \in [Task -> {"active", "local", "remote", "retired"}]
  /\ awakened \in Counts /\ channel \in Counts
  /\ closed \in BOOLEAN /\ flag \in BOOLEAN /\ notified \in BOOLEAN

CallTypes ==
  /\ wakers \in Counts /\ begun \in Counts /\ sent \in Counts
  /\ refused \in Counts /\ waking \in Counts

TaskTypes ==
  /\ payload \in [Task -> {"unborn", "live", "retired"}]
  /\ outcome \in [Task -> {"none", "succeeded", "panicked", "cancelled"}]
  /\ newTasks \in Counts /\ active \in Counts /\ pending \in Counts
  /\ toClear \in SUBSET Task
  /\ taskCount \in Int
  /\ strong \in [Task -> Int]
  /\ owed \in [Task -> BOOLEAN]

CycleTypes ==
  /\ cause \in {"none", "requested", "panic", "default"}
  /\ pc \in Labels
  /\ current \in Task \cup {NoTask}
  /\ ending \in {"none", "succeeded", "panicked", "cancelled"}
  /\ result \in {"none", "continue", "suspend", "shutdown", "unwound"}
  /\ dropping \in BOOLEAN

\* Type invariant: no queue and no stage of a wake call ever holds fewer than
\* zero handles.  That the task count and the reference counts do not go below
\* zero either is CountExact and RefsExact.
TypeOK == WakeTypes /\ CallTypes /\ TaskTypes /\ CycleTypes

\* The handle a cancelled task of the batch is held by while it is retired.
Held(t) == IF pc \in {"aborting", "cancelling"} /\ current = t THEN 1 ELSE 0

\* Everything that owns one reference to the task; a refused call also holds
\* the notification it could not send.
Handles(t) == newTasks[t] + active[t] + pending[t] + awakened[t] + channel[t]
              + Held(t) + OwnedWakers(t) + refused[t]

\* The reference count of a task is the number of its handles, notifications
\* and owned wakers, at every step of every wake call: no reference is leaked
\* and none is released twice when a wake races draining, retirement, channel
\* closing or destruction.
RefsExact == \A t \in Task : strong[t] = Handles(t)

\* The safety argument of `unsafe impl Send for Task`: while a task has its
\* payload, the owner thread holds a scheduling reference to it, so the last
\* reference a remote waker releases never drops user state.
PayloadOwned == \A t \in Task :
  payload[t] = "live" => newTasks[t] + active[t] + pending[t] + Held(t) >= 1

\* No queue of the owner holds a task twice, and the awakened queue never holds
\* a task the owner does not also hold elsewhere: clearing or filtering it
\* under its RefCell borrow cannot run a task destructor.
OwnedOnce == \A t \in Task :
  /\ newTasks[t] + active[t] <= 1 /\ newTasks[t] + pending[t] <= 1
  /\ newTasks[t] + awakened[t] <= 1
  /\ awakened[t] > 0 => active[t] + pending[t] + Held(t) >= 1

\* poll_in_context never meets the payload it declares unreachable: a task
\* that is polled is live and can be woken, however late its wakes arrive.
PolledIsLive ==
  pc = "polling" => payload[current] = "live" /\ sched[current] # "retired"

\* A wake requested since the last poll began is never lost: some queue, the
\* channel or a call in progress will bring the task back to a poll, until the
\* channel is closed for shutdown.
NoLostWake == \A t \in Task :
  owed[t] /\ ~closed =>
    \/ newTasks[t] + awakened[t] + channel[t] + begun[t] > 0
    \/ active[t] > 0 /\ ~(pc = "polling" /\ current = t)

\* The owner never parks on work: whatever there is to do after Suspend comes
\* with a notification that is pending or still being sent.
ParkedHasNotice ==
  pc = "between" /\ result = "suspend" /\ ~notified =>
    /\ ~Triggered
    /\ IsEmpty(newTasks) /\ IsEmpty(awakened) /\ IsEmpty(active)
    /\ ~IsEmpty(channel) \/ flag => ~IsEmpty(sent) \/ ~IsEmpty(waking)

\* task_count is the number of tasks the executor owns, until the batch that
\* cancels them all leaves it as a whole; it never underflows before that.
CountExact ==
  LET owned == {t \in Task : newTasks[t] + active[t] + pending[t] > 0}
  IN taskCount = Cardinality(owned) \/ (closed /\ taskCount = 0)

\* CycleOutcome::Shutdown and the end of Executor::drop mean what the crate
\* documents: every submitted task has its outcome and no payload, and only
\* owned wakers keep task memory alive.
ShutdownComplete ==
  pc = "dropped" \/ (pc = "between" /\ result = "shutdown") =>
    \A t \in Task :
      /\ payload[t] # "unborn" => payload[t] = "retired" /\ outcome[t] # "none"
      /\ strong[t] = OwnedWakers(t) + refused[t]

\* Every requested wake, and every submission, leads to a poll or to the
\* retirement of the task.
WakesServed == \A t \in Task : owed[t] ~> ~owed[t]

\* A shutdown request is carried out: a cycle reports Shutdown or the executor
\* is dropped.
ShutdownFinishes ==
  Triggered ~> (pc = "dropped" \/ (pc = "between" /\ result = "shutdown"))

\* The comment on the FinishDrop guard: "Retire remaining payloads on their
\* owner if cancellation unwinds."  The process never ends with a payload of a
\* remaining task in place.
FallbackRetires == pc = "aborted" => \A t \in Task : payload[t] # "live"

-----------------------------------------------------------------------------
(* The abstract contract. *)

Status == [t \in Task |->
  IF outcome[t] # "none" THEN outcome[t]
  ELSE IF payload[t] = "unborn" THEN "new" ELSE "registered"]

Lifecycle == INSTANCE TaskLifecycle
  WITH status <- Status,
       stopping <- Triggered,
       stopped <- (result = "shutdown" \/ pc = "dropped")

\* The executor implements the task contract: no interleaving of wakes,
\* panics, hook failures, shutdown and destruction delivers a second outcome,
\* cancels a task before shutdown, or reports shutdown with a task left.
LifecycleSpec == Lifecycle!Spec
=============================================================================

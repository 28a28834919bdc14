------------------------------ MODULE Runtime -------------------------------
(***************************************************************************)
(* The Arty runtime above the executor, crate arty: the loop of every      *)
(* asynchronous worker, the dispatcher that sends commands to the workers, *)
(* the shutdown that any thread may start and that exactly one thread      *)
(* broadcasts, the join handles of dispatched tasks, external I/O access,  *)
(* the blocking pool the workers share, and the owner that waits for the   *)
(* worker threads.                                                         *)
(*                                                                         *)
(* An executor is what the Executor module shows of it: a cycle polls the  *)
(* tasks that are ready, a cycle that ends in Suspend leaves no ready task *)
(* without a notification, shutdown retires every task, and every task has *)
(* one outcome.  The I/O driver is external: its wake is kept until one of *)
(* its waits ends.                                                         *)
(***************************************************************************)
EXTENDS BlockingPool

CONSTANTS
  Tasks,      \* tasks dispatched to a worker, one call each
  Accesses,   \* requests for an I/O context from outside the workers
  Controls,   \* threads outside the runtime that have a RuntimeControl
  Failures,   \* what the I/O drivers may do: "create", "driver", "worker"
  Batch,      \* COMMANDS_PER_CYCLE
  MaxCalls    \* bound on the tasks, accesses and blocking functions that are begun

ASSUME RuntimeAssumption ==
  /\ IsFiniteSet(Tasks) /\ IsFiniteSet(Accesses) /\ Tasks \cap Accesses = {}
  /\ "shutdown" \notin Tasks \cup Accesses
  /\ Batch \in Nat \ {0} /\ MaxCalls \in Nat
  /\ Failures \subseteq {"create", "driver", "worker"}
  /\ IsFiniteSet(Controls) /\ Workers \cap Controls = {} /\ "host" \notin Workers \cup Controls

Requests == Tasks \cup Accesses

\* Callers of Core::stop_inner: a worker, the owner of the Runtime value, or a
\* thread outside the runtime.
Callers == Workers \cup Controls \cup {"host"}

VARIABLES
  request,    \* where the dispatching call of each request is
  home,       \* the worker a request is sent to
  handle,     \* what the caller of each request is told
  commands,   \* the command channel of each worker
  closed,     \* the worker dropped the receiver of its channel
  tasks,      \* tasks registered with each worker's executor
  ready,      \* registered tasks that have been woken
  waking,     \* where the remote wake call of each task is
  pc,         \* where each worker thread is
  budget,     \* commands the worker may still read in this cycle
  exhausted,  \* the batch of commands was used up
  polling,    \* tasks this cycle still has to poll
  panicked,   \* the worker thread unwinds
  stopper,    \* where the stop call of each caller is
  signaled,   \* Core::shutdown_signaled
  todo,       \* endpoints the elected broadcaster has not finished
  target,     \* the endpoint it is notifying
  result      \* what Runtime::stop returned

requestVars == <<request, home, handle, waking>>
workerVars  == <<pc, budget, exhausted, polling, panicked>>
stopVars    == <<stopper, signaled, todo, target>>
queueVars   == <<commands, closed, tasks, ready>>
rtVars == <<requestVars, workerVars, stopVars, queueVars, result>>
vars == <<rtVars, poolVars, signalVars>>

Shutdown == "shutdown"   \* Command::Shutdown

Init ==
  /\ PoolStart
  /\ request = [r \in Requests |-> "idle"]
  /\ home = [r \in Requests |-> NoWorker]
  /\ handle = [r \in Requests |-> "none"]
  /\ waking = [t \in Tasks |-> "idle"]
  /\ commands = [w \in Workers |-> <<>>] /\ closed = [w \in Workers |-> FALSE]
  /\ tasks = [w \in Workers |-> {}] /\ ready = [w \in Workers |-> {}]
  /\ pc = [w \in Workers |-> "commands"]
  /\ budget = [w \in Workers |-> Batch]
  /\ exhausted = [w \in Workers |-> FALSE]
  /\ polling = [w \in Workers |-> {}]
  /\ panicked = [w \in Workers |-> FALSE]
  /\ stopper = [c \in Callers |-> "idle"]
  /\ signaled = FALSE /\ todo = {} /\ target = NoWorker
  /\ result = "none"

-----------------------------------------------------------------------------
(* Core::enqueue and Core::access_io, on any thread. *)

\* The check of the shutdown.  A refused call hands out a resolved handle.
Dispatch(r, w) ==
  /\ request[r] = "idle"
  /\ home' = [home EXCEPT ![r] = w]
  /\ request' = [request EXCEPT ![r] = IF Started THEN "returned" ELSE "checked"]
  /\ handle' = [handle EXCEPT ![r] = IF Started THEN "shutdown" ELSE "pending"]
  /\ UNCHANGED <<waking, queueVars, workerVars, stopVars, result, poolVars, signalVars>>

\* The send.  A closed channel drops the command, and with it the sender.
Send(r) ==
  /\ request[r] = "checked"
  /\ request' = [request EXCEPT ![r] = "notifying"]
  /\ \/ /\ ~closed[home[r]]
        /\ commands' = [commands EXCEPT ![home[r]] = Append(@, r)]
        /\ UNCHANGED handle
     \/ /\ closed[home[r]]
        /\ handle' = [handle EXCEPT ![r] = "shutdown"]
        /\ UNCHANGED commands
  /\ UNCHANGED <<home, waking, closed, tasks, ready, workerVars, stopVars, result, poolVars,
                 signalVars>>

\* Variant for testing the properties: only the driver is woken.
NotifyWorkerNot(r) ==
  /\ request[r] = "notifying"
  /\ request' = [request EXCEPT ![r] = "interrupting"]
  /\ UNCHANGED <<home, handle, waking, queueVars, workerVars, stopVars, result, poolVars, signalVars>>

\* endpoint.waker.wake_by_ref(), the notification.
NotifyWorker(r) ==
  /\ request[r] = "notifying"
  /\ request' = [request EXCEPT ![r] = "interrupting"]
  /\ NotifyReady(home[r])
  /\ UNCHANGED <<home, handle, waking, queueVars, workerVars, primary, stopVars, result, poolVars,
                 cause, interrupted>>

\* endpoint.waker.wake_by_ref(), the driver.
InterruptWorker(r) ==
  /\ request[r] = "interrupting"
  /\ request' = [request EXCEPT ![r] = "returned"]
  /\ WakeDriver(home[r])
  /\ UNCHANGED <<home, handle, waking, queueVars, workerVars, primary, stopVars, result, poolVars,
                 cause, notified>>

\* A waker of a waiting task is called on another thread: the executor learns
\* of it, then the owner waker notifies the worker.
WakeTask(t) ==
  /\ waking[t] = "idle"
  /\ \E w \in Workers :
       /\ t \in tasks[w] \ ready[w]
       /\ ready' = [ready EXCEPT ![w] = @ \cup {t}]
  /\ waking' = [waking EXCEPT ![t] = "notifying"]
  /\ UNCHANGED <<request, home, handle, commands, closed, tasks, workerVars, stopVars, result,
                 poolVars, signalVars>>

NotifyWake(t) ==
  /\ waking[t] = "notifying"
  /\ waking' = [waking EXCEPT ![t] = "interrupting"]
  /\ NotifyReady(home[t])
  /\ UNCHANGED <<request, home, handle, queueVars, workerVars, primary, stopVars, result, poolVars,
                 cause, interrupted>>

InterruptWake(t) ==
  /\ waking[t] = "interrupting"
  /\ waking' = [waking EXCEPT ![t] = "idle"]
  /\ WakeDriver(home[t])
  /\ UNCHANGED <<request, home, handle, queueVars, workerVars, primary, stopVars, result, poolVars,
                 cause, notified>>

-----------------------------------------------------------------------------
(* Core::stop_inner.  StopBegin is part of the action that makes the call. *)

StopBegin(c, k) ==
  /\ stopper[c] = "idle"
  /\ stopper' = [stopper EXCEPT ![c] = "begun"]
  /\ Begin(k)

\* Variant for testing the properties: a set cause counts as a broadcast.
StopElectOnCause(c) ==
  /\ stopper[c] = "begun"
  /\ stopper' = [stopper EXCEPT ![c] = "stopped"]
  /\ signaled' = TRUE
  /\ UNCHANGED <<todo, target, requestVars, workerVars, queueVars, result, poolVars, signalVars>>

\* shutdown_signaled elects the broadcaster; for the others stop returns at
\* once, whether or not the broadcast is finished.
StopElect(c) ==
  /\ stopper[c] = "begun"
  /\ \/ signaled /\ stopper' = [stopper EXCEPT ![c] = "stopped"] /\ UNCHANGED <<signaled, todo>>
     \/ ~signaled /\ stopper' = [stopper EXCEPT ![c] = "sending"] /\ signaled' = TRUE /\ todo' = Workers
  /\ UNCHANGED <<target, requestVars, workerVars, queueVars, result, poolVars, signalVars>>

\* Command::Shutdown to the next endpoint; a closed channel does not take it.
StopSend(c, w) ==
  /\ stopper[c] = "sending" /\ w \in todo
  /\ target' = w
  /\ stopper' = [stopper EXCEPT ![c] = "notifying"]
  /\ commands' = IF closed[w] THEN commands ELSE [commands EXCEPT ![w] = Append(@, Shutdown)]
  /\ UNCHANGED <<signaled, todo, closed, tasks, ready, requestVars, workerVars, result, poolVars,
                 signalVars>>

StopNotify(c) ==
  /\ stopper[c] = "notifying"
  /\ stopper' = [stopper EXCEPT ![c] = "interrupting"]
  /\ NotifyReady(target)
  /\ UNCHANGED <<signaled, todo, target, queueVars, requestVars, workerVars, primary, result,
                 poolVars, cause, interrupted>>

\* Variant for testing the properties: the broadcast ends at the first endpoint.
StopInterruptFirst(c) ==
  /\ stopper[c] = "interrupting"
  /\ WakeDriver(target)
  /\ todo' = {} /\ target' = NoWorker
  /\ stopper' = [stopper EXCEPT ![c] = "stopped"]
  /\ UNCHANGED <<signaled, queueVars, requestVars, workerVars, primary, result, poolVars, cause, notified>>

StopInterrupt(c) ==
  /\ stopper[c] = "interrupting"
  /\ WakeDriver(target)
  /\ todo' = todo \ {target} /\ target' = NoWorker
  /\ stopper' = [stopper EXCEPT ![c] = IF todo' = {} THEN "stopped" ELSE "sending"]
  /\ UNCHANGED <<signaled, queueVars, requestVars, workerVars, primary, result, poolVars, cause,
                 notified>>

\* RuntimeControl::request_stop outside the workers.
ControlStop(c) ==
  /\ StopBegin(c, "stop")
  /\ UNCHANGED <<signaled, todo, target, queueVars, requestVars, workerVars, primary, result,
                 poolVars, notified, interrupted>>

\* Runtime::stop, or the drop of the Runtime value.
HostStop ==
  /\ StopBegin("host", "stop")
  /\ UNCHANGED <<signaled, todo, target, queueVars, requestVars, workerVars, primary, result,
                 poolVars, notified, interrupted>>

\* Runtime::wait after WorkerJoiner::join: the error of the cause, or that a
\* worker thread panicked, or success.
HostWait ==
  /\ stopper["host"] = "stopped" /\ result = "none"
  /\ \A w \in Workers : pc[w] = "exited"
  /\ result' = IF HasError(cause) \/ \E w \in Workers : panicked[w] THEN "err" ELSE "ok"
  /\ UNCHANGED <<requestVars, workerVars, stopVars, queueVars, poolVars, signalVars>>

-----------------------------------------------------------------------------
(* The loop of worker w, Worker::execute_step. *)

Step(w, from, to) == pc[w] = from /\ pc' = [pc EXCEPT ![w] = to]

\* Worker w made a call of stop and the call returned.
StopReturned(w) ==
  /\ stopper[w] = "stopped"
  /\ stopper' = [stopper EXCEPT ![w] = "idle"]
  /\ UNCHANGED <<signaled, todo, target>>

\* process_commands looks at the shutdown before each command.
CheckCommands(w) ==
  /\ Step(w, "commands", IF Started THEN "closing" ELSE "receive")
  /\ UNCHANGED <<budget, exhausted, polling, panicked, requestVars, queueVars, stopVars, result,
                 poolVars, signalVars>>

\* try_recv found nothing.
NoCommand(w) ==
  /\ commands[w] = <<>>
  /\ Step(w, "receive", "prepare")
  /\ exhausted' = [exhausted EXCEPT ![w] = FALSE]
  /\ UNCHANGED <<budget, polling, panicked, requestVars, queueVars, stopVars, result, poolVars,
                 signalVars>>

\* One of the Batch iterations of process_commands is used up.
CommandDone(w, from) ==
  /\ budget' = [budget EXCEPT ![w] = @ - 1]
  /\ exhausted' = [exhausted EXCEPT ![w] = budget[w] = 1]
  /\ Step(w, from, IF budget[w] = 1 THEN "prepare" ELSE "commands")
  /\ commands' = [commands EXCEPT ![w] = Tail(@)]

\* Command::EnqueueTask: the factory registers the task with the executor.
RegisterTask(w) ==
  /\ commands[w] # <<>> /\ Head(commands[w]) \in Tasks
  /\ CommandDone(w, "receive")
  /\ tasks' = [tasks EXCEPT ![w] = @ \cup {Head(commands[w])}]
  /\ ready' = [ready EXCEPT ![w] = @ \cup {Head(commands[w])}]
  /\ UNCHANGED <<polling, panicked, requestVars, closed, stopVars, result, poolVars, signalVars>>

\* Command::AccessIo: the host has or creates the driver, primary or secondary; the
\* answer is an error when the shutdown started meanwhile.
AccessIo(w) ==
  /\ commands[w] # <<>> /\ Head(commands[w]) \in Accesses
  /\ CommandDone(w, "receive")
  /\ \/ primary' = [primary EXCEPT ![w] = TRUE]
     \/ UNCHANGED primary
  /\ handle' = [handle EXCEPT ![Head(commands[w])] = IF Started THEN "shutdown" ELSE "ok"]
  /\ UNCHANGED <<polling, panicked, request, home, waking, closed, tasks, ready, stopVars, result,
                 poolVars, cause, notified, interrupted>>

\* Command::AccessIo: a driver, primary or secondary, cannot be created or one
\* failed on another worker, and fail_runtime stops the runtime before the
\* answer is sent.  The command stays at the head of commands until then.
AccessFails(w) ==
  /\ commands[w] # <<>> /\ Head(commands[w]) \in Accesses
  /\ "create" \in Failures
  /\ Step(w, "receive", "accessFailing")
  /\ StopBegin(w, "driver")
  /\ UNCHANGED <<budget, exhausted, polling, primary, panicked, requestVars, queueVars, signaled,
                 todo, target, result, poolVars, notified, interrupted>>

AccessFailed(w) ==
  /\ CommandDone(w, "accessFailing")
  /\ StopReturned(w)
  /\ handle' = [handle EXCEPT ![Head(commands[w])] = "failed"]
  /\ UNCHANGED <<polling, panicked, request, home, waking, closed, tasks, ready, result, poolVars,
                 signalVars>>

\* Command::Shutdown.
ShutdownCommand(w) ==
  /\ commands[w] # <<>> /\ Head(commands[w]) = Shutdown
  /\ Step(w, "receive", "closing")
  /\ commands' = [commands EXCEPT ![w] = Tail(@)]
  /\ UNCHANGED <<budget, exhausted, polling, panicked, requestVars, closed, tasks, ready, stopVars,
                 result, poolVars, signalVars>>

\* prepare_cycle after process_commands.
BeginCycle(w) ==
  /\ Step(w, "prepare", IF Started THEN "closing" ELSE "cycle")
  /\ polling' = [polling EXCEPT ![w] = IF Started THEN {} ELSE ready[w]]
  /\ UNCHANGED <<budget, exhausted, panicked, requestVars, queueVars, stopVars, result, poolVars,
                 signalVars>>

\* One poll of a cycle; what the task does is the rest of the action.
Poll(w, t) ==
  /\ t \in polling[w]
  /\ polling' = [polling EXCEPT ![w] = @ \ {t}]
  /\ ready' = [ready EXCEPT ![w] = @ \ {t}]

PollPending(w, t) ==
  /\ Poll(w, t) /\ Step(w, "cycle", "cycle")
  /\ UNCHANGED <<budget, exhausted, panicked, requestVars, commands, closed, tasks, stopVars, result,
                 poolVars, signalVars>>

\* The polled task asks for an I/O context, and the worker gets its
\* primary driver.
PollInstalls(w, t) ==
  /\ Poll(w, t) /\ Step(w, "cycle", "cycle")
  /\ ~primary[w] /\ primary' = [primary EXCEPT ![w] = TRUE]
  /\ UNCHANGED <<budget, exhausted, panicked, requestVars, commands, closed, tasks, stopVars, result,
                 poolVars, cause, notified, interrupted>>

\* Sender::completed.
PollReady(w, t) ==
  /\ Poll(w, t) /\ Step(w, "cycle", "cycle")
  /\ tasks' = [tasks EXCEPT ![w] = @ \ {t}]
  /\ handle' = [handle EXCEPT ![t] = "ok"]
  /\ UNCHANGED <<budget, exhausted, panicked, request, home, waking, commands, closed, stopVars,
                 result, poolVars, signalVars>>

\* Sender::panicked: under the shutdown policy the cause is set, not broadcast,
\* and the cycle ends in the cancellation of the other tasks.
PollPanics(w, t) ==
  /\ Poll(w, t) /\ Step(w, "cycle", IF PanicShutdown THEN "aborting" ELSE "cycle")
  /\ tasks' = [tasks EXCEPT ![w] = @ \ {t}]
  /\ handle' = [handle EXCEPT ![t] = "panicked"]
  /\ IF PanicShutdown THEN Begin("panic") ELSE UNCHANGED cause
  /\ UNCHANGED <<budget, exhausted, primary, panicked, request, home, waking, commands, closed,
                 stopVars, result, poolVars, notified, interrupted>>

\* The polled task calls RuntimeControl::request_stop, or its request for an
\* I/O context fails (fail_runtime): stop, then the executor is told, and the
\* cycle polls no other task.
PollStops(w, t, k) ==
  /\ t \in polling[w] /\ Step(w, "cycle", "requesting")
  /\ polling' = [polling EXCEPT ![w] = {t}]
  /\ ready' = [ready EXCEPT ![w] = @ \ {t}]
  /\ StopBegin(w, k)
  /\ UNCHANGED <<budget, exhausted, panicked, requestVars, commands, closed, tasks, signaled, todo,
                 target, result, poolVars, notified, primary, interrupted>>

\* Stop returned, and so does the poll: pending, with the task's result, or, after
\* Io::context failed, with its panic.  The cause is set by now.
PollStopped(w, t) ==
  /\ t \in polling[w] /\ Step(w, "requesting", "aborting")
  /\ StopReturned(w)
  /\ polling' = [polling EXCEPT ![w] = {}]
  /\ \/ UNCHANGED <<tasks, handle>>
     \/ /\ tasks' = [tasks EXCEPT ![w] = @ \ {t}]
        /\ \E h \in {"ok", "panicked"} : handle' = [handle EXCEPT ![t] = h]
  /\ ready' = [ready EXCEPT ![w] = @ \cap tasks'[w]]
  /\ UNCHANGED <<budget, exhausted, panicked, request, home, waking, commands, closed, result,
                 poolVars, signalVars>>

\* Variant for testing the properties: a cancelled task is only dropped from the
\* executor.
CancelSilently(w, t) ==
  /\ pc[w] \in {"aborting", "cancelling"} /\ t \in tasks[w]
  /\ tasks' = [tasks EXCEPT ![w] = @ \ {t}] /\ ready' = [ready EXCEPT ![w] = @ \ {t}]
  /\ UNCHANGED <<workerVars, requestVars, commands, closed, stopVars, result, poolVars, signalVars>>

\* Sender::cancelled, for each task the executor still has.
CancelTask(w, t) ==
  /\ pc[w] \in {"aborting", "cancelling"} /\ t \in tasks[w]
  /\ tasks' = [tasks EXCEPT ![w] = @ \ {t}] /\ ready' = [ready EXCEPT ![w] = @ \ {t}]
  /\ Begin("stop")
  /\ handle' = [handle EXCEPT ![t] = "shutdown"]
  /\ UNCHANGED <<workerVars, primary, request, home, waking, commands, closed, stopVars, result,
                 poolVars, notified, interrupted>>

\* CycleOutcome::Shutdown; the cause is set by now.
CycleShutdown(w) ==
  /\ tasks[w] = {} /\ Step(w, "aborting", "closing")
  /\ polling' = [polling EXCEPT ![w] = {}]
  /\ UNCHANGED <<budget, exhausted, panicked, requestVars, queueVars, stopVars, result, poolVars,
                 signalVars>>

\* Variant for testing the properties: a worker that read a full batch parks.
CanSuspendAnyway(w) ==
  \A t \in ready[w] : waking[t] = "notifying" \/ notified[w]

\* can_suspend.  A ready task the executor missed comes with a notification.
CanSuspend(w) ==
  /\ ~exhausted[w]
  /\ \A t \in ready[w] : waking[t] = "notifying" \/ notified[w]

\* The cycle is over and the timers are advanced: shut down, poll the drivers
\* and go on, or wait for the primary driver or the signal.
EndCycle(w) ==
  /\ polling[w] = {}
  /\ \/ Started /\ Step(w, "cycle", "closing")
     \/ ~Started /\ (exhausted[w] \/ ready[w] # {}) /\ Step(w, "cycle", "drive")
     \/ ~Started /\ CanSuspend(w) /\ Step(w, "cycle", IF primary[w] THEN "ioCheck" ELSE "parked")
  /\ budget' = [budget EXCEPT ![w] = Batch]
  /\ exhausted' = [exhausted EXCEPT ![w] = FALSE]
  /\ UNCHANGED <<polling, panicked, requestVars, queueVars, stopVars, result, poolVars, signalVars>>

\* execute_cycle with no wait.  The primary driver may use up its wake.
Drive(w) ==
  /\ Step(w, "drive", "commands")
  /\ \/ UNCHANGED interrupted
     \/ primary[w] /\ interrupted' = [interrupted EXCEPT ![w] = FALSE]
  /\ UNCHANGED <<budget, exhausted, polling, primary, panicked, requestVars, queueVars, stopVars,
                 result, poolVars, cause, notified>>

\* A driver cycle fails, or panics: either way stop is called, by fail_runtime
\* or by report_failure, and the worker shuts down after it.  Secondary drivers are
\* not kept, so the worker is one that has a primary driver.
DriverFails(w, from, k) ==
  /\ primary[w]
  /\ Step(w, from, "failing")
  /\ StopBegin(w, k)
  /\ panicked' = [panicked EXCEPT ![w] = k = "worker"]
  /\ UNCHANGED <<budget, exhausted, polling, primary, requestVars, queueVars, signaled, todo, target,
                 result, poolVars, notified, interrupted>>

FailureStopped(w) ==
  /\ Step(w, "failing", "closing")
  /\ StopReturned(w)
  /\ UNCHANGED <<budget, exhausted, polling, panicked, requestVars, queueVars, result, poolVars,
                 signalVars>>

\* io_wait: a notification that was kept turns the wait into a poll.
IoWait(w) ==
  /\ Step(w, "ioCheck", IF notified[w] THEN "drive" ELSE "ioWait")
  /\ notified' = [notified EXCEPT ![w] = FALSE]
  /\ UNCHANGED <<budget, exhausted, polling, primary, panicked, requestVars, queueVars, stopVars,
                 result, poolVars, cause, interrupted>>

IoInterrupted(w) ==
  /\ interrupted[w] /\ interrupted' = [interrupted EXCEPT ![w] = FALSE]
  /\ Step(w, "ioWait", "commands")
  /\ UNCHANGED <<budget, exhausted, polling, primary, panicked, requestVars, queueVars, stopVars,
                 result, poolVars, cause, notified>>

\* Signal::wait_for_notification.
Unpark(w) ==
  /\ notified[w] /\ notified' = [notified EXCEPT ![w] = FALSE]
  /\ Step(w, "parked", "commands")
  /\ UNCHANGED <<budget, exhausted, polling, primary, panicked, requestVars, queueVars, stopVars,
                 result, poolVars, cause, interrupted>>

\* A deadline or an I/O completion ends the wait.
WaitEnds(w, from) ==
  /\ Step(w, from, "commands")
  /\ UNCHANGED <<budget, exhausted, polling, panicked, requestVars, queueVars, stopVars, result,
                 poolVars, signalVars>>

-----------------------------------------------------------------------------
(* Worker::begin_shutdown and the end of the thread. *)

\* Variant for testing the properties: a worker that finds the cause set leaves
\* the broadcast to whoever set it.
CloseWorkerSilently(w) ==
  /\ Step(w, "closing", "stopping")
  /\ stopper' = [stopper EXCEPT ![w] = "stopped"]
  /\ UNCHANGED <<budget, exhausted, polling, panicked, requestVars, queueVars, signaled, todo, target,
                 result, poolVars, signalVars>>

\* begin_shutdown calls stop before it gives up anything.
CloseWorker(w) ==
  /\ Step(w, "closing", "stopping")
  /\ StopBegin(w, "stop")
  /\ UNCHANGED <<budget, exhausted, polling, primary, panicked, requestVars, queueVars, signaled,
                 todo, target, result, poolVars, notified, interrupted>>

\* Variant for testing the properties: queued commands are forgotten, their
\* senders are not dropped.
ReleaseLeak(w) ==
  /\ Step(w, "stopping", "cancelling") /\ StopReturned(w)
  /\ closed' = [closed EXCEPT ![w] = TRUE]
  /\ commands' = [commands EXCEPT ![w] = <<>>]
  /\ UNCHANGED <<budget, exhausted, polling, panicked, requestVars, tasks, ready, result, poolVars,
                 signalVars>>

\* The scheduler, the context and the command receiver go: queued commands are
\* dropped with their senders.
Release(w) ==
  /\ Step(w, "stopping", "cancelling") /\ StopReturned(w)
  /\ closed' = [closed EXCEPT ![w] = TRUE]
  /\ commands' = [commands EXCEPT ![w] = <<>>]
  /\ LET lost == {commands[w][i] : i \in DOMAIN commands[w]}
     IN handle' = [r \in Requests |-> IF r \in lost THEN "shutdown" ELSE handle[r]]
  /\ UNCHANGED <<budget, exhausted, polling, panicked, request, home, waking, tasks, ready, result,
                 poolVars, signalVars>>

\* DriverHost::shutdown_drivers, at the end of begin_shutdown.
UninstallDriver(w) ==
  /\ primary' = [primary EXCEPT ![w] = FALSE]
  /\ interrupted' = [interrupted EXCEPT ![w] = FALSE]

\* The executor is dropped and the driver host uninstalled.
Retired(w) ==
  /\ tasks[w] = {} /\ Step(w, "cancelling", "joining")
  /\ UninstallDriver(w)
  /\ UNCHANGED <<budget, exhausted, polling, panicked, requestVars, queueVars, stopVars, result,
                 poolVars, cause, notified>>

\* A driver that panics in its shutdown unwinds begin_shutdown: report_failure
\* calls stop again, and the drop of the worker finds no executor.
RetirePanics(w) ==
  /\ "worker" \in Failures /\ primary[w]
  /\ tasks[w] = {} /\ Step(w, "cancelling", "reporting")
  /\ UninstallDriver(w)
  /\ StopBegin(w, "worker")
  /\ panicked' = [panicked EXCEPT ![w] = TRUE]
  /\ UNCHANGED <<budget, exhausted, polling, requestVars, queueVars, signaled, todo, target, result,
                 poolVars, notified>>

PanicReported(w) ==
  /\ Step(w, "reporting", "joining")
  /\ StopReturned(w)
  /\ UNCHANGED <<budget, exhausted, polling, panicked, requestVars, queueVars, result, poolVars,
                 signalVars>>

JoinPool(w) ==
  /\ pc[w] = "joining"
  /\ TakePool(w) \/ JoinThreads(w)
  /\ UNCHANGED rtVars

ThreadEnds(w) ==
  /\ joiner[w] = "joined" /\ Step(w, "joining", "exited")
  /\ UNCHANGED <<budget, exhausted, polling, panicked, requestVars, queueVars, stopVars, result,
                 poolVars, signalVars>>

-----------------------------------------------------------------------------
(* The runtime. *)

RequestStep(r) == Send(r) \/ NotifyWorker(r) \/ InterruptWorker(r)
WakeStep(t) == NotifyWake(t) \/ InterruptWake(t)
StopStep(c) ==
  StopElect(c) \/ StopNotify(c) \/ StopInterrupt(c) \/ \E w \in Workers : StopSend(c, w)

CommandStep(w) ==
  \/ CheckCommands(w) \/ NoCommand(w) \/ RegisterTask(w) \/ AccessIo(w) \/ AccessFails(w)
  \/ AccessFailed(w) \/ ShutdownCommand(w)

CycleStep(w) ==
  \/ BeginCycle(w) \/ CycleShutdown(w) \/ EndCycle(w)
  \/ \E t \in Tasks :
       \/ PollPending(w, t) \/ PollInstalls(w, t) \/ PollReady(w, t) \/ PollPanics(w, t)
       \/ PollStops(w, t, "stop") \/ ("create" \in Failures /\ PollStops(w, t, "driver"))
       \/ PollStopped(w, t) \/ CancelTask(w, t)

WaitStep(w) == Drive(w) \/ IoWait(w) \/ IoInterrupted(w) \/ Unpark(w) \/ FailureStopped(w)

CloseStep(w) == CloseWorker(w) \/ Release(w) \/ Retired(w) \/ RetirePanics(w) \/ PanicReported(w)
  \/ JoinPool(w) \/ ThreadEnds(w)

WorkerStep(w) == CommandStep(w) \/ CycleStep(w) \/ WaitStep(w) \/ CloseStep(w)

\* What the world may do and need not: calls, wakes, completions, failures.
Outside ==
  \/ \E r \in Requests, w \in Workers : Dispatch(r, w)
  \/ \E t \in Tasks : WakeTask(t)
  \/ HostStop \/ \E c \in Controls : ControlStop(c)
  \/ \E w \in Workers, from \in {"parked", "ioWait"} : WaitEnds(w, from)
  \/ \E w \in Workers, from \in {"drive", "ioWait"}, k \in Failures \ {"create"} :
       DriverFails(w, from, k)

\* The tasks, accesses and blocking functions that were begun.
Calls == {r \in Requests : request[r] # "idle"} \cup {j \in Jobs : call[j] # "idle"}

Next ==
  /\ \/ Outside \/ HostWait
     \/ \E r \in Requests : RequestStep(r)
     \/ \E t \in Tasks : WakeStep(t)
     \/ \E c \in Callers : StopStep(c)
     \/ \E w \in Workers : WorkerStep(w)
     \/ PoolStep /\ UNCHANGED rtVars
  /\ Cardinality(Calls') <= MaxCalls

Spec == Init /\ [][Next]_vars

\* Threads that run keep running: workers outside their waits, calls that were
\* begun, pool threads (blocking functions end), and the waiting owner.
Fairness ==
  /\ \A w \in Workers : WF_vars(WorkerStep(w) \/ StopStep(w))
  /\ \A c \in Controls : WF_vars(StopStep(c))
  /\ WF_vars(StopStep("host") \/ HostWait)
  /\ \A r \in Requests : WF_vars(RequestStep(r))
  /\ \A t \in Tasks : WF_vars(WakeStep(t))
  /\ \A j \in Jobs : WF_vars(CallStep(j) /\ UNCHANGED rtVars)
  /\ \A k \in Threads : WF_vars(ThreadStep(k) /\ UNCHANGED rtVars)

FairSpec == Spec /\ Fairness

-----------------------------------------------------------------------------
(* Properties. *)

Labels == {"commands", "receive", "accessFailing", "prepare", "cycle", "requesting", "aborting",
           "drive", "ioCheck", "ioWait", "parked", "failing", "closing", "stopping",
           "cancelling", "reporting", "joining", "exited"}
WakeLabels == {"idle", "notifying", "interrupting"}

RequestTypes ==
  /\ request \in [Requests -> {"idle", "checked", "notifying", "interrupting", "returned"}]
  /\ home \in [Requests -> Workers \cup {NoWorker}]
  /\ handle \in [Requests -> {"none", "pending", "ok", "panicked", "shutdown", "failed"}]
  /\ waking \in [Tasks -> WakeLabels]

ChannelTypes ==
  /\ commands \in [Workers -> Seq(Requests \cup {Shutdown})]
  /\ closed \in [Workers -> BOOLEAN]
  /\ tasks \in [Workers -> SUBSET Tasks] /\ ready \in [Workers -> SUBSET Tasks]

LoopTypes ==
  /\ pc \in [Workers -> Labels]
  /\ budget \in [Workers -> 1..Batch \cup {0}] /\ exhausted \in [Workers -> BOOLEAN]
  /\ polling \in [Workers -> SUBSET Tasks]
  /\ panicked \in [Workers -> BOOLEAN]

StopTypes ==
  /\ stopper \in [Callers -> {"idle", "begun", "sending", "notifying", "interrupting", "stopped"}]
  /\ signaled \in BOOLEAN /\ todo \subseteq Workers /\ target \in Workers \cup {NoWorker}
  /\ result \in {"none", "ok", "err"}

TypeOK == PoolTypeOK /\ RequestTypes /\ ChannelTypes /\ LoopTypes /\ StopTypes

\* Somebody is between giving worker w something to do and the given effect of
\* its wake.
WakeOnItsWay(w, stages) ==
  \/ \E r \in Requests : home[r] = w /\ request[r] \in stages
  \/ \E t \in Tasks : home[t] = w /\ waking[t] \in stages
  \/ \E c \in Callers : target = w /\ stopper[c] \in stages

HasWork(w) == commands[w] # <<>> \/ ready[w] # {}

\* A worker never sleeps on work, whichever way it waits: on its signal the
\* notification is there or coming, in its driver the interrupt is.
SleepsOnlyWhenIdle ==
  \A w \in Workers : HasWork(w) =>
    /\ pc[w] = "parked" => notified[w] \/ WakeOnItsWay(w, {"notifying"})
    /\ pc[w] = "ioWait" => interrupted[w] \/ WakeOnItsWay(w, {"notifying", "interrupting"})

\* Worker w sleeps and nothing that has happened will wake it.
SleepsOn(w) ==
  LET panics(stages) == \E k \in Alive : thread[k] \in stages /\ owner[holding[k]] = w
  IN \/ /\ pc[w] = "parked" /\ ~notified[w]
        /\ ~WakeOnItsWay(w, {"notifying"}) /\ ~panics({"waking"})
     \/ /\ pc[w] = "ioWait" /\ ~interrupted[w]
        /\ ~WakeOnItsWay(w, {"notifying", "interrupting"}) /\ ~panics({"waking", "interrupting"})

\* A shutdown that has started does not get stuck.  Several paths set the cause
\* and do not broadcast it (a panic of a task or of a blocking function): until
\* the broadcaster is elected, somebody who will call stop is awake, and from
\* then on a worker that sleeps on is one the broadcaster still has to visit.
ShutdownIsCarried ==
  Started =>
    /\ ~signaled => (\E c \in Callers : stopper[c] = "begun") \/ (\E w \in Workers : ~SleepsOn(w))
    /\ signaled => \A w \in Workers : SleepsOn(w) =>
         w \in todo /\ \E c \in Callers : stopper[c] \in {"sending", "notifying", "interrupting"}

\* A pending request is in exactly one place: with its caller, in the channel
\* of its worker, or with the worker's executor.  So a send that races the
\* closing of the channel cannot strand the join handle.
RequestIsHeld ==
  \A r \in Requests :
    LET w == home[r]
        places == (IF request[r] = "checked" THEN 1 ELSE 0)
                  + (IF w \in Workers
                     THEN Cardinality({i \in DOMAIN commands[w] : commands[w][i] = r})
                          + Cardinality({x \in {w} : r \in tasks[x]})
                     ELSE 0)
    IN places = (IF handle[r] = "pending" THEN 1 ELSE 0)

\* A handle says "shutdown" only after the cause is set (it reports the error of
\* the cause), and a channel closes only after the broadcaster is elected.
ShutdownHasCause ==
  /\ \A r \in Requests : handle[r] = "shutdown" => Started
  /\ \A w \in Workers : closed[w] => Started /\ signaled

\* What Runtime::stop promises when it returns: no worker, no pool thread, no
\* task, and no join handle that a call handed out is left; Ok means that no
\* worker panicked and that the cause carries no error.
StopIsComplete ==
  result # "none" =>
     /\ \A w \in Workers : commands[w] = <<>> /\ tasks[w] = {}
     /\ \A r \in Requests : request[r] = "returned" => handle[r] # "pending"
     /\ jobs = <<>> /\ \A k \in Alive : thread[k] = "exited"
     /\ \A j \in Jobs : call[j] = "returned" => settled[j] # "pending"
     /\ result = "ok" => cause = "stop" /\ \A w \in Workers : ~panicked[w]

\* Whoever starts the shutdown, and whether or not it broadcasts, every worker
\* thread ends, also the ones asleep.
ShutdownReachesAll == Started ~> \A w \in Workers : pc[w] = "exited"

\* Runtime::stop returns.
StopReturns == stopper["host"] # "idle" ~> result # "none"

\* A command is taken from the channel or dropped with it, whatever else the
\* worker has to do.
CommandsServed ==
  \A r \in Requests : request[r] = "notifying" ~>
    \A w \in Workers : \A i \in DOMAIN commands[w] : commands[w][i] # r
=============================================================================

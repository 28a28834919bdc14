---------------------------- MODULE RuntimeProofs ----------------------------
(***************************************************************************)
(* Machine-checked proofs about Runtime, for every number of workers,      *)
(* tasks, I/O requests, blocking functions and threads outside the         *)
(* runtime, every batch size, both panic policies, and whatever the I/O    *)
(* drivers may do.                                                         *)
(*                                                                         *)
(* The inductive invariant RuntimeInv has one part per idea; a section     *)
(* below shows for each that every step keeps it.  Most steps concern one  *)
(* worker, so the sections share the lemmas of "Who changes what": a step  *)
(* is one worker's (Elsewhere) or somebody else's (FromOutside).           *)
(***************************************************************************)
EXTENDS Runtime, BlockingPoolProofs

-----------------------------------------------------------------------------
(* The parts of the invariant. *)

\* The stages of a call of stop that visits the endpoints, and of a worker that
\* has dropped its command receiver.
Broadcasting == {"sending", "notifying", "interrupting"}
Gone == {"cancelling", "reporting", "joining", "exited"}

\* What each label of the worker loop promises about the worker's own state.
LoopOf(w) ==
  /\ pc[w] \in {"commands", "receive", "accessFailing", "drive", "ioCheck", "ioWait", "parked"}
       => budget[w] # 0
  /\ pc[w] = "accessFailing" => commands[w] # <<>> /\ Head(commands[w]) \in Accesses
  /\ pc[w] \in {"ioCheck", "ioWait"} => primary[w]
  /\ pc[w] \in {"cycle", "requesting"} => polling[w] \subseteq tasks[w]
  /\ ready[w] \subseteq tasks[w]
  /\ closed[w] <=> pc[w] \in Gone
  /\ closed[w] => commands[w] = <<>>
  /\ pc[w] \in Gone \ {"cancelling"} => tasks[w] = {}
  /\ pc[w] = "exited" => joiner[w] = "joined"
LoopOK == \A w \in Workers : LoopOf(w)

\* A call of stop sets the cause before anything else and returns only after a
\* broadcaster was elected; there is one, and it has endpoints left.
StopOK ==
  /\ signaled => Started
  /\ target # NoWorker => signaled
  /\ \A c \in Callers : /\ stopper[c] # "idle" => Started
                        /\ stopper[c] \notin {"idle", "begun"} => signaled
                        /\ stopper[c] \in {"notifying", "interrupting"} => target \in todo
  /\ \A c, d \in Callers : stopper[c] \in Broadcasting /\ stopper[d] \in Broadcasting => c = d
  /\ todo # {} => \E c \in Callers : stopper[c] \in Broadcasting

\* A channel is closed, and a handle refused, by the shutdown only.
CauseOK ==
  /\ \A w \in Workers : closed[w] => Started /\ signaled
  /\ \A r \in Requests : handle[r] = "shutdown" => Started

\* A request has a worker from its check on, and is pending from then until it
\* is sent.
CallersOK ==
  \A r \in Requests :
    /\ request[r] = "idle" => handle[r] = "none" /\ home[r] = NoWorker
    /\ request[r] # "idle" => home[r] \in Workers
    /\ request[r] = "checked" => handle[r] = "pending"

\* The members of a channel; no request is in it twice.
Elems(q) == {q[i] : i \in DOMAIN q}
Once(q) == \A i, n \in DOMAIN q : q[i] \in Requests /\ q[n] = q[i] => n = i

\* Worker w has request r, in its channel or its executor; never in both.
At(r, w) == r \in Elems(commands[w]) \/ r \in tasks[w]
Apart(w) == Once(commands[w]) /\ \A t \in tasks[w] : t \notin Elems(commands[w])

\* What is with a worker is a pending request that was sent to this worker, and
\* a pending request is with its caller or with its worker.
WithWorker ==
  \A w \in Workers :
    /\ Apart(w)
    /\ \A r \in Requests : At(r, w) =>
         request[r] \notin {"idle", "checked"} /\ home[r] = w /\ handle[r] = "pending"
HeldOK == \A r \in Requests : handle[r] = "pending" => request[r] = "checked" \/ At(r, home[r])
RequestsOK == CallersOK /\ WithWorker /\ HeldOK

\* Worker w is notified, or will be; its driver is interrupted, or will be; a
\* pool thread that caught a panic has yet to wake it.
Notice(w) == notified[w] \/ WakeOnItsWay(w, {"notifying"})
Interrupt(w) == interrupted[w] \/ WakeOnItsWay(w, {"notifying", "interrupting"})
Panics(w, stages) == \E k \in Threads : thread[k] \in stages /\ owner[holding[k]] = w

\* A worker has a notice of what came after it looked: of commands from the
\* moment its channel was empty, of ready tasks from can_suspend on.  The check
\* before a wait in the driver uses the notification up, so that in the driver
\* only an interrupt still comes.
SleepOf(w) ==
  /\ pc[w] \in {"prepare", "cycle"} /\ ~exhausted[w] /\ commands[w] # <<>> => Notice(w)
  /\ pc[w] \in {"parked", "ioCheck"} /\ HasWork(w) => Notice(w)
  /\ pc[w] = "ioWait" /\ HasWork(w) => Interrupt(w)
SleepOK == \A w \in Workers : SleepOf(w)

\* Worker w does not sleep through the shutdown.  Before the election one worker
\* like that, or a call of stop, is enough; after it the worker the broadcaster
\* is at and the ones it is done with are all like that.
Carries(w) ==
  /\ pc[w] \in {"parked", "ioCheck"} => Notice(w) \/ Panics(w, {"waking"})
  /\ pc[w] = "ioWait" => Interrupt(w) \/ Panics(w, {"waking", "interrupting"})
CarryOK ==
  /\ Started /\ ~signaled => (\E c \in Callers : stopper[c] = "begun") \/ \E w \in Workers : Carries(w)
  /\ signaled => \A w \in Workers : w \notin todo \/ w = target => Carries(w)

\* A job that was spawned has a worker to wake.
OwnersOK == \A j \in Jobs : call[j] # "idle" => owner[j] \in Workers

\* What Runtime::stop saw when it returned.
DoneOK ==
  result # "none" =>
    /\ Started /\ \A w \in Workers : pc[w] = "exited"
    /\ result = "ok" => cause = "stop" /\ \A w \in Workers : ~panicked[w]

-----------------------------------------------------------------------------
(* Types, and the worker loop. *)

Types == RequestTypes /\ ChannelTypes /\ LoopTypes /\ StopTypes

Command == Requests \cup {Shutdown}

LEMMA SendTypes ==
  ASSUME Types, NEW w \in Workers, NEW m \in Command
  PROVE  [commands EXCEPT ![w] = Append(@, m)] \in [Workers -> Seq(Command)]
<1>1. commands \in [Workers -> Seq(Command)] /\ commands[w] \in Seq(Command)
  BY DEF Types, ChannelTypes, Command
<1>2. Append(commands[w], m) \in Seq(Command)
  BY <1>1
<1> QED
  BY <1>1, <1>2

LEMMA TakeTypes ==
  ASSUME Types, NEW w \in Workers, commands[w] # <<>>
  PROVE  [commands EXCEPT ![w] = Tail(@)] \in [Workers -> Seq(Command)] /\ Head(commands[w]) \in Command
<1>1. commands \in [Workers -> Seq(Command)] /\ commands[w] \in Seq(Command)
  BY DEF Types, ChannelTypes, Command
<1>2. Tail(commands[w]) \in Seq(Command) /\ Head(commands[w]) \in Command
  BY <1>1
<1> QED
  BY <1>1, <1>2

LEMMA RequestStepTypes ==
  ASSUME PoolInv, Types, CallersOK, NEW r \in Requests,
         RequestStep(r) \/ \E w \in Workers : Dispatch(r, w)
  PROVE  Types' /\ SignalTypeOK'
<1> USE DEF PoolInv, PoolTypeOK, SignalTypeOK, Types, RequestStep, Dispatch, Send, NotifyWorker,
            InterruptWorker
<1>1. RequestTypes'
  BY DEF RequestTypes
<1>2. ChannelTypes'
  <2>1. commands' \in [Workers -> Seq(Command)]
    <3>1. CASE UNCHANGED commands
      BY <3>1 DEF ChannelTypes, Command
    <3>2. CASE Send(r) /\ commands' # commands
      <4>1. home[r] \in Workers /\ r \in Command
        BY <3>2 DEF CallersOK, Command
      <4>2. commands' = [commands EXCEPT ![home[r]] = Append(@, r)]
        BY <3>2
      <4> QED
        BY ONLY <4>1, <4>2, SendTypes, Types
    <3> QED
      BY <3>1, <3>2 DEF queueVars
  <2> QED
    BY <2>1 DEF ChannelTypes, Command, queueVars
<1>3. LoopTypes' /\ StopTypes'
  BY DEF LoopTypes, StopTypes, workerVars, stopVars
<1>4. SignalTypeOK'
  BY DEF signalVars, NotifyReady, WakeDriver
<1> QED
  BY <1>1, <1>2, <1>3, <1>4

LEMMA WakeStepTypes ==
  ASSUME PoolInv, Types, NEW t \in Tasks, WakeStep(t) \/ WakeTask(t)
  PROVE  Types' /\ SignalTypeOK'
<1> USE DEF PoolInv, PoolTypeOK, SignalTypeOK, Types, WakeStep, WakeTask, NotifyWake, InterruptWake
<1>1. RequestTypes'
  BY DEF RequestTypes, WakeLabels
<1>2. ChannelTypes'
  <2>1. UNCHANGED <<commands, closed, tasks>>
    BY DEF queueVars
  <2>2. ready' \in [Workers -> SUBSET Tasks]
    BY DEF ChannelTypes, queueVars
  <2> QED
    BY <2>1, <2>2 DEF ChannelTypes
<1>3. LoopTypes' /\ StopTypes'
  BY DEF LoopTypes, StopTypes, workerVars, stopVars
<1>4. SignalTypeOK'
  BY DEF signalVars, NotifyReady, WakeDriver
<1> QED
  BY <1>1, <1>2, <1>3, <1>4

LEMMA StopStepTypes ==
  ASSUME PoolInv, Types, NEW c \in Callers,
         StopStep(c) \/ ControlStop(c) \/ (c = "host" /\ (HostStop \/ HostWait))
  PROVE  Types' /\ SignalTypeOK'
<1> USE DEF PoolInv, PoolTypeOK, SignalTypeOK, Types, StopStep, ControlStop, HostStop, HostWait,
            StopElect, StopSend, StopNotify, StopInterrupt, StopBegin
<1>1. RequestTypes' /\ LoopTypes'
  BY DEF RequestTypes, LoopTypes, requestVars, workerVars
<1>2. ChannelTypes'
  <2>1. commands' \in [Workers -> Seq(Command)]
    <3>1. CASE UNCHANGED commands
      BY <3>1 DEF ChannelTypes, Command
    <3>2. ASSUME NEW w \in Workers, StopSend(c, w), commands' # commands
          PROVE  commands' \in [Workers -> Seq(Command)]
      BY <3>2, SendTypes DEF Command
    <3> QED
      BY <3>1, <3>2 DEF queueVars
  <2> QED
    BY <2>1 DEF ChannelTypes, Command, queueVars
<1>3. StopTypes'
  BY DEF StopTypes, stopVars
<1>4. SignalTypeOK'
  BY DEF signalVars, NotifyReady, WakeDriver, Begin, Causes
<1> QED
  BY <1>1, <1>2, <1>3, <1>4

LEMMA CommandStepTypes ==
  ASSUME PoolInv, Types, LoopOK, NEW w \in Workers, CommandStep(w)
  PROVE  Types' /\ SignalTypeOK'
<1> USE DEF PoolInv, PoolTypeOK, SignalTypeOK, Types, CommandStep, CheckCommands, NoCommand,
            RegisterTask, AccessIo, AccessFails, AccessFailed, ShutdownCommand, CommandDone, Step
<1>1. RequestTypes'
  BY DEF RequestTypes, requestVars
<1>2. ChannelTypes'
  <2>1. commands' \in [Workers -> Seq(Command)]
    <3>1. CASE UNCHANGED commands
      BY <3>1 DEF ChannelTypes, Command
    <3>2. CASE commands[w] # <<>> /\ commands' = [commands EXCEPT ![w] = Tail(@)]
      BY <3>2, TakeTypes
    <3> QED
      BY <3>1, <3>2 DEF queueVars, LoopOK, LoopOf
  <2>2. closed' = closed
    BY DEF queueVars
  <2>3. CASE UNCHANGED <<tasks, ready>>
    BY <2>1, <2>2, <2>3 DEF ChannelTypes, Command
  <2>4. CASE RegisterTask(w)
    <3>1. /\ Head(commands[w]) \in Tasks
          /\ tasks' = [tasks EXCEPT ![w] = @ \cup {Head(commands[w])}]
          /\ ready' = [ready EXCEPT ![w] = @ \cup {Head(commands[w])}]
      BY <2>4
    <3>2. tasks' \in [Workers -> SUBSET Tasks] /\ ready' \in [Workers -> SUBSET Tasks]
      BY ONLY <3>1, Types DEF Types, ChannelTypes
    <3> QED
      BY <2>1, <2>2, <3>2 DEF ChannelTypes, Command
  <2> QED
    BY <2>3, <2>4 DEF queueVars
<1>3. LoopTypes'
  <2>1. pc' \in [Workers -> Labels]
    BY DEF LoopTypes, Labels
  <2>2. budget' \in [Workers -> 1..Batch \cup {0}]
    <3>1. Batch \in Nat /\ budget \in [Workers -> 1..Batch \cup {0}]
      BY RuntimeAssumption DEF LoopTypes
    <3>2. CASE UNCHANGED budget
      BY <3>1, <3>2
    <3>3. CASE budget[w] # 0 /\ budget' = [budget EXCEPT ![w] = @ - 1]
      <4>1. budget[w] - 1 \in 1..Batch \cup {0}
        BY <3>1, <3>3
      <4> QED
        BY <3>1, <3>3, <4>1
    <3> QED
      BY <3>2, <3>3 DEF LoopOK, LoopOf
  <2>3. exhausted' \in [Workers -> BOOLEAN] /\ panicked' \in [Workers -> BOOLEAN]
        /\ polling' \in [Workers -> SUBSET Tasks]
    BY DEF LoopTypes
  <2> QED
    BY <2>1, <2>2, <2>3 DEF LoopTypes
<1>4. StopTypes'
  BY DEF StopTypes, stopVars, StopBegin, StopReturned
<1>5. SignalTypeOK'
  BY DEF signalVars, StopBegin, Begin, Causes
<1> QED
  BY <1>1, <1>2, <1>3, <1>4, <1>5

LEMMA CycleStepTypes ==
  ASSUME PoolInv, Types, NEW w \in Workers, CycleStep(w)
  PROVE  Types' /\ SignalTypeOK'
<1> USE DEF PoolInv, PoolTypeOK, SignalTypeOK, Types, CycleStep, BeginCycle, CycleShutdown, EndCycle,
            PollPending, PollInstalls, PollReady, PollPanics, PollStops, PollStopped, CancelTask,
            Poll, Step
<1>1. RequestTypes'
  BY DEF RequestTypes, requestVars, Requests
<1>2. ChannelTypes'
  <2>1. UNCHANGED <<commands, closed>>
    BY DEF queueVars
  <2>2. tasks' \in [Workers -> SUBSET Tasks]
    <3>1. tasks' = tasks \/ \E t \in Tasks : tasks' = [tasks EXCEPT ![w] = tasks[w] \ {t}]
      BY DEF queueVars
    <3> QED
      BY ONLY <3>1, Types DEF Types, ChannelTypes
  <2>3. ready' \in [Workers -> SUBSET Tasks]
    BY DEF ChannelTypes, queueVars
  <2> QED
    BY <2>1, <2>2, <2>3 DEF ChannelTypes
<1>3. LoopTypes'
  <2>1. pc' \in [Workers -> Labels]
    BY DEF LoopTypes, Labels, workerVars
  <2>2. /\ budget' = budget \/ budget' = [budget EXCEPT ![w] = Batch]
        /\ exhausted' = exhausted \/ exhausted' = [exhausted EXCEPT ![w] = FALSE]
        /\ panicked' = panicked
    BY DEF workerVars
  <2>4. budget' \in [Workers -> 1..Batch \cup {0}] /\ exhausted' \in [Workers -> BOOLEAN]
    <3>1. Batch \in 1..Batch \cup {0}
      BY RuntimeAssumption
    <3>2. budget \in [Workers -> 1..Batch \cup {0}] /\ exhausted \in [Workers -> BOOLEAN]
      BY DEF LoopTypes
    <3> QED
      BY ONLY <2>2, <3>1, <3>2
  <2>3. polling' \in [Workers -> SUBSET Tasks]
    <3>1. /\ polling \in [Workers -> SUBSET Tasks] /\ ready[w] \subseteq Tasks
          /\ polling[w] \subseteq Tasks
      BY DEF LoopTypes, ChannelTypes
    <3>2. \/ polling' = polling
          \/ \E S \in {{}, ready[w]} : polling' = [polling EXCEPT ![w] = S]
          \/ \E t \in Tasks : polling' = [polling EXCEPT ![w] = polling[w] \ {t}]
          \/ \E t \in Tasks : polling' = [polling EXCEPT ![w] = {t}]
      BY DEF workerVars
    <3> QED
      BY ONLY <3>1, <3>2
  <2> QED
    BY <2>1, <2>2, <2>3, <2>4 DEF LoopTypes
<1>4. StopTypes'
  BY DEF StopTypes, stopVars, StopBegin, StopReturned
<1>5. SignalTypeOK'
  <2>1. UNCHANGED <<notified, interrupted>>
    BY DEF signalVars
  <2>2. primary' = primary \/ primary' = [primary EXCEPT ![w] = TRUE]
    BY DEF signalVars
  <2>3. cause' = cause \/ \E k \in Causes : cause' = k
    BY DEF signalVars, StopBegin, Begin, Causes
  <2> QED
    BY ONLY <2>1, <2>2, <2>3, PoolInv DEF PoolInv, PoolTypeOK, SignalTypeOK
<1> QED
  BY <1>1, <1>2, <1>3, <1>4, <1>5

LEMMA WaitStepTypes ==
  ASSUME PoolInv, Types, NEW w \in Workers,
         \/ WaitStep(w) \/ \E from : WaitEnds(w, from)
         \/ \E from, k : k \in {"driver", "worker"} /\ DriverFails(w, from, k)
  PROVE  Types' /\ SignalTypeOK'
<1> USE DEF PoolInv, PoolTypeOK, SignalTypeOK, Types, WaitStep, Drive, IoWait, IoInterrupted, Unpark,
            FailureStopped, WaitEnds, DriverFails, Step
<1>1. RequestTypes' /\ ChannelTypes'
  BY DEF RequestTypes, ChannelTypes, requestVars, queueVars
<1>2. LoopTypes'
  BY DEF LoopTypes, Labels
<1>3. StopTypes'
  BY DEF StopTypes, stopVars, StopBegin, StopReturned
<1>4. SignalTypeOK'
  BY DEF signalVars, StopBegin, Begin, Causes
<1> QED
  BY <1>1, <1>2, <1>3, <1>4

LEMMA CloseStepTypes ==
  ASSUME PoolInv, Types, NEW w \in Workers, CloseStep(w)
  PROVE  Types' /\ SignalTypeOK'
<1> USE DEF PoolInv, PoolTypeOK, SignalTypeOK, Types, CloseStep, CloseWorker, Release, Retired,
            RetirePanics, PanicReported, JoinPool, ThreadEnds, Step, UninstallDriver, rtVars
<1>1. RequestTypes'
  BY DEF RequestTypes, requestVars
<1>2. ChannelTypes'
  <2>1. UNCHANGED <<tasks, ready>>
    BY DEF queueVars
  <2>2. closed' \in [Workers -> BOOLEAN]
    BY DEF ChannelTypes, queueVars
  <2>3. commands' \in [Workers -> Seq(Command)]
    <3>1. commands \in [Workers -> Seq(Command)] /\ <<>> \in Seq(Command)
      BY DEF ChannelTypes, Command
    <3>2. UNCHANGED commands \/ commands' = [commands EXCEPT ![w] = <<>>]
      BY DEF queueVars
    <3> QED
      BY <3>1, <3>2
  <2> QED
    BY <2>1, <2>2, <2>3 DEF ChannelTypes, Command
<1>3. LoopTypes'
  BY DEF LoopTypes, Labels, workerVars
<1>4. StopTypes'
  BY DEF StopTypes, stopVars, StopBegin, StopReturned
<1>5. SignalTypeOK'
  BY DEF signalVars, StopBegin, Begin, Causes, TakePool, JoinThreads
<1> QED
  BY <1>1, <1>2, <1>3, <1>4, <1>5
-----------------------------------------------------------------------------
(* Who changes what. *)

\* A step of worker w, the ones that depend on the world included.
WorkerMove(w) ==
  \/ WorkerStep(w)
  \/ \E from \in {"parked", "ioWait"} : WaitEnds(w, from)
  \/ \E from \in {"drive", "ioWait"}, k \in Failures \ {"create"} : DriverFails(w, from, k)

\* A step of anybody else.
OtherMove ==
  \/ \E r \in Requests : RequestStep(r) \/ \E w \in Workers : Dispatch(r, w)
  \/ \E t \in Tasks : WakeStep(t) \/ WakeTask(t)
  \/ \E c \in Callers : StopStep(c)
  \/ HostStop \/ HostWait \/ \E c \in Controls : ControlStop(c)
  \/ PoolStep /\ UNCHANGED rtVars
  \/ UNCHANGED vars

LEMMA Moves == [Next]_vars => OtherMove \/ \E w \in Workers : WorkerMove(w)
BY DEF Next, Outside, OtherMove, WorkerMove

\* A worker's step leaves the state of the other workers alone.
LEMMA Elsewhere ==
  ASSUME PoolInv, Types, NEW w \in Workers, WorkerMove(w), NEW u \in Workers, u # w
  PROVE  /\ pc'[u] = pc[u] /\ budget'[u] = budget[u] /\ exhausted'[u] = exhausted[u]
         /\ polling'[u] = polling[u] /\ panicked'[u] = panicked[u]
         /\ commands'[u] = commands[u] /\ closed'[u] = closed[u]
         /\ tasks'[u] = tasks[u] /\ ready'[u] = ready[u]
         /\ primary'[u] = primary[u] /\ notified'[u] = notified[u] /\ interrupted'[u] = interrupted[u]
         /\ joiner'[u] = joiner[u]
<1>1. CASE CommandStep(w)
  <2> USE <1>1 DEF CommandStep, CheckCommands, NoCommand, RegisterTask, AccessIo, AccessFails, AccessFailed,
               ShutdownCommand, CommandDone, Step
  <2>1. /\ pc'[u] = pc[u] /\ budget'[u] = budget[u] /\ exhausted'[u] = exhausted[u]
        /\ polling'[u] = polling[u] /\ panicked'[u] = panicked[u]
    BY DEF Types, LoopTypes
  <2>2. /\ commands'[u] = commands[u] /\ closed'[u] = closed[u]
        /\ tasks'[u] = tasks[u] /\ ready'[u] = ready[u]
    BY DEF Types, ChannelTypes, queueVars
  <2>3. /\ primary'[u] = primary[u] /\ notified'[u] = notified[u] /\ interrupted'[u] = interrupted[u]
        /\ joiner'[u] = joiner[u]
    BY DEF PoolInv, PoolTypeOK, SignalTypeOK, signalVars, poolVars
  <2> QED
    BY <2>1, <2>2, <2>3
<1>2. CASE CycleStep(w)
  <2> USE <1>2 DEF CycleStep, BeginCycle, CycleShutdown, EndCycle, PollPending, PollInstalls, PollReady,
               PollPanics, PollStops, PollStopped, CancelTask, Poll, Step
  <2>1. /\ pc'[u] = pc[u] /\ budget'[u] = budget[u] /\ exhausted'[u] = exhausted[u]
        /\ polling'[u] = polling[u] /\ panicked'[u] = panicked[u]
    BY DEF Types, LoopTypes, workerVars
  <2>2. /\ commands'[u] = commands[u] /\ closed'[u] = closed[u]
        /\ tasks'[u] = tasks[u] /\ ready'[u] = ready[u]
    BY DEF Types, ChannelTypes, queueVars
  <2>3. /\ primary'[u] = primary[u] /\ notified'[u] = notified[u] /\ interrupted'[u] = interrupted[u]
        /\ joiner'[u] = joiner[u]
    BY DEF PoolInv, PoolTypeOK, SignalTypeOK, signalVars, poolVars
  <2> QED
    BY <2>1, <2>2, <2>3
<1>3. CASE CloseStep(w)
  <2> USE <1>3 DEF CloseStep, CloseWorker, Release, Retired, RetirePanics, PanicReported, JoinPool,
               ThreadEnds, Step, UninstallDriver, rtVars
  <2>1. /\ pc'[u] = pc[u] /\ budget'[u] = budget[u] /\ exhausted'[u] = exhausted[u]
        /\ polling'[u] = polling[u] /\ panicked'[u] = panicked[u]
    BY DEF Types, LoopTypes, workerVars
  <2>2. /\ commands'[u] = commands[u] /\ closed'[u] = closed[u]
        /\ tasks'[u] = tasks[u] /\ ready'[u] = ready[u]
    BY DEF Types, ChannelTypes, queueVars
  <2>3. /\ primary'[u] = primary[u] /\ notified'[u] = notified[u] /\ interrupted'[u] = interrupted[u]
        /\ joiner'[u] = joiner[u]
    BY DEF PoolInv, PoolTypeOK, SignalTypeOK, QueueTypes, signalVars, poolVars, TakePool, JoinThreads
  <2> QED
    BY <2>1, <2>2, <2>3
<1>4. CASE \/ WaitStep(w) \/ \E from : WaitEnds(w, from)
           \/ \E from, k : DriverFails(w, from, k)
  <2> USE <1>4 DEF WaitStep, Drive, IoWait, IoInterrupted, Unpark, FailureStopped, WaitEnds,
               DriverFails, Step
  <2>1. /\ pc'[u] = pc[u] /\ budget'[u] = budget[u] /\ exhausted'[u] = exhausted[u]
        /\ polling'[u] = polling[u] /\ panicked'[u] = panicked[u]
    BY DEF Types, LoopTypes
  <2>2. /\ commands'[u] = commands[u] /\ closed'[u] = closed[u]
        /\ tasks'[u] = tasks[u] /\ ready'[u] = ready[u]
    BY DEF queueVars
  <2>3. /\ primary'[u] = primary[u] /\ notified'[u] = notified[u] /\ interrupted'[u] = interrupted[u]
        /\ joiner'[u] = joiner[u]
    BY DEF PoolInv, PoolTypeOK, SignalTypeOK, signalVars, poolVars
  <2> QED
    BY <2>1, <2>2, <2>3
<1> QED
  BY <1>1, <1>2, <1>3, <1>4 DEF WorkerMove, WorkerStep

\* Nobody else changes where a worker is, what it polls, its tasks, its driver
\* or its place in Pool::join.
LEMMA FromOutside ==
  ASSUME OtherMove
  PROVE  UNCHANGED <<workerVars, tasks, closed, primary, joiner>>
<1>1. CASE PoolStep /\ UNCHANGED rtVars
  BY <1>1 DEF PoolStep, rtVars, queueVars, SpawnBlocking, CallStep, Execute, Measure, Grow, ThreadStep,
    Receive, ExitThread, CountActive, CountDequeued, StartJob, CompleteJob, PanicJob, WakeOwner,
    InterruptOwner, PublishPanic, FinishJob, signalVars
<1>2. CASE OtherMove /\ ~(PoolStep /\ UNCHANGED rtVars)
  BY <1>2 DEF OtherMove, RequestStep, Dispatch, Send, NotifyWorker, InterruptWorker, WakeStep, WakeTask,
    NotifyWake, InterruptWake, StopStep, StopElect, StopSend, StopNotify, StopInterrupt, HostStop,
    HostWait, ControlStop, vars, rtVars, queueVars, poolVars, signalVars
<1> QED
  BY <1>1, <1>2

\* Nobody else takes a command from a channel, and only an open channel gets
\* one; a task that is woken is a task of that worker.
LEMMA ChannelFromOutside ==
  ASSUME PoolInv, Types, CallersOK, OtherMove, NEW u \in Workers
  PROVE  /\ \/ commands'[u] = commands[u]
            \/ ~closed[u] /\ \E m \in Command : commands'[u] = Append(commands[u], m)
         /\ ready'[u] = ready[u] \/ \E t \in tasks[u] : ready'[u] = ready[u] \cup {t}
<1>1. CASE UNCHANGED <<commands, ready>>
  BY <1>1
<1>2. commands \in [Workers -> Seq(Command)] /\ ready \in [Workers -> SUBSET Tasks]
  BY DEF Types, ChannelTypes, Command
<1>3. ASSUME NEW m, NEW w, ~closed[w], commands' = [commands EXCEPT ![w] = Append(@, m)]
      PROVE  commands'[u] = commands[u] \/ (~closed[u] /\ commands'[u] = Append(commands[u], m))
  BY <1>2, <1>3
<1>4. ASSUME NEW t \in Tasks, NEW w \in Workers, t \in tasks[w], ready' = [ready EXCEPT ![w] = @ \cup {t}]
      PROVE  ready'[u] = ready[u] \/ (t \in tasks[u] /\ ready'[u] = ready[u] \cup {t})
  BY <1>2, <1>4
<1>5. Shutdown \in Command /\ Requests \subseteq Command
  BY DEF Command
<1> QED
  BY <1>1, <1>3, <1>4, <1>5
     DEF OtherMove, RequestStep, Dispatch, Send, NotifyWorker, InterruptWorker, WakeStep, WakeTask,
    NotifyWake, InterruptWake, StopStep, StopElect, StopSend, StopNotify, StopInterrupt, HostStop,
    HostWait, ControlStop, vars, rtVars, queueVars

LEMMA LoopFromOutside ==
  ASSUME PoolInv, Types, CallersOK, LoopOK, OtherMove
  PROVE  LoopOK'
<1> SUFFICES ASSUME NEW u \in Workers PROVE LoopOf(u)'
  BY DEF LoopOK
<1>1. UNCHANGED <<workerVars, tasks, closed, primary, joiner>>
  BY FromOutside
<1>2. commands[u] \in Seq(Command)
  BY DEF Types, ChannelTypes, Command
<1>3. \/ commands'[u] = commands[u]
      \/ ~closed[u] /\ \E m \in Command : commands'[u] = Append(commands[u], m)
  BY ChannelFromOutside
<1>4. ready'[u] = ready[u] \/ \E t \in tasks[u] : ready'[u] = ready[u] \cup {t}
  BY ChannelFromOutside
<1>5. commands[u] # <<>> => commands'[u] # <<>> /\ Head(commands'[u]) = Head(commands[u])
  BY ONLY <1>2, <1>3
<1>6. LoopOf(u)
  BY DEF LoopOK
<1> QED
  BY <1>1, <1>3, <1>4, <1>5, <1>6 DEF LoopOf, workerVars

LEMMA LoopOfOthers ==
  ASSUME PoolInv, Types, LoopOK, NEW w \in Workers, WorkerMove(w), LoopOf(w)'
  PROVE  LoopOK'
<1> SUFFICES ASSUME NEW u \in Workers, u # w PROVE LoopOf(u)'
  BY DEF LoopOK
<1>1. LoopOf(u)
  BY DEF LoopOK
<1> QED
  BY <1>1, Elsewhere DEF LoopOf

LEMMA CommandLoop ==
  ASSUME PoolInv, Types, LoopOK, NEW w \in Workers, CommandStep(w)
  PROVE  LoopOf(w)'
<1>1. LoopOf(w)
  BY DEF LoopOK
<1> USE <1>1 DEF LoopOf, Gone
<1>2. CASE CheckCommands(w)
  BY <1>2 DEF CheckCommands, Step, Types, LoopTypes, queueVars, signalVars, poolVars
<1>3. CASE NoCommand(w)
  BY <1>3 DEF NoCommand, Step, Types, LoopTypes, queueVars, signalVars, poolVars
<1>4. CASE RegisterTask(w)
  BY <1>4 DEF RegisterTask, CommandDone, Step, Types, LoopTypes, ChannelTypes, signalVars, poolVars
<1>5. CASE AccessIo(w)
  BY <1>5 DEF AccessIo, CommandDone, Step, Types, LoopTypes, ChannelTypes, poolVars
<1>6. CASE AccessFails(w)
  BY <1>6 DEF AccessFails, Step, Types, LoopTypes, queueVars, poolVars
<1>7. CASE AccessFailed(w)
  BY <1>7 DEF AccessFailed, CommandDone, Step, Types, LoopTypes, ChannelTypes, signalVars, poolVars
<1>8. CASE ShutdownCommand(w)
  BY <1>8 DEF ShutdownCommand, Step, Types, LoopTypes, ChannelTypes, signalVars, poolVars
<1> QED
  BY <1>2, <1>3, <1>4, <1>5, <1>6, <1>7, <1>8 DEF CommandStep

LEMMA CycleLoop ==
  ASSUME PoolInv, Types, LoopOK, NEW w \in Workers, CycleStep(w)
  PROVE  LoopOf(w)'
<1>1. LoopOf(w)
  BY DEF LoopOK
<1> USE <1>1 DEF LoopOf, Gone
<1>2. CASE BeginCycle(w)
  BY <1>2 DEF BeginCycle, Step, Types, LoopTypes, queueVars, signalVars, poolVars
<1>3. CASE CycleShutdown(w)
  BY <1>3 DEF CycleShutdown, Step, Types, LoopTypes, queueVars, signalVars, poolVars
<1>4. CASE EndCycle(w)
  BY <1>4, RuntimeAssumption DEF EndCycle, Step, Types, LoopTypes, queueVars, signalVars, poolVars
<1>5. ASSUME NEW t \in Tasks, PollPending(w, t) PROVE LoopOf(w)'
  BY <1>5 DEF PollPending, Poll, Step, Types, LoopTypes, ChannelTypes, signalVars, poolVars
<1>6. ASSUME NEW t \in Tasks, PollInstalls(w, t) PROVE LoopOf(w)'
  BY <1>6 DEF PollInstalls, Poll, Step, Types, LoopTypes, ChannelTypes, poolVars
<1>7. ASSUME NEW t \in Tasks, PollReady(w, t) PROVE LoopOf(w)'
  BY <1>7 DEF PollReady, Poll, Step, Types, LoopTypes, ChannelTypes, signalVars, poolVars
<1>8. ASSUME NEW t \in Tasks, PollPanics(w, t) PROVE LoopOf(w)'
  BY <1>8 DEF PollPanics, Poll, Step, Types, LoopTypes, ChannelTypes, poolVars
<1>9. ASSUME NEW t \in Tasks, NEW k, PollStops(w, t, k) PROVE LoopOf(w)'
  BY <1>9 DEF PollStops, Step, Types, LoopTypes, ChannelTypes, poolVars
<1>10. ASSUME NEW t \in Tasks, PollStopped(w, t) PROVE LoopOf(w)'
  BY <1>10 DEF PollStopped, Step, Types, LoopTypes, ChannelTypes, signalVars, poolVars
<1>11. ASSUME NEW t \in Tasks, CancelTask(w, t) PROVE LoopOf(w)'
  BY <1>11 DEF CancelTask, Types, LoopTypes, ChannelTypes, workerVars, poolVars
<1> QED
  BY <1>2, <1>3, <1>4, <1>5, <1>6, <1>7, <1>8, <1>9, <1>10, <1>11 DEF CycleStep

LEMMA WaitLoop ==
  ASSUME PoolInv, Types, LoopOK, NEW w \in Workers,
         \/ WaitStep(w) \/ \E from \in {"parked", "ioWait"} : WaitEnds(w, from)
         \/ \E from \in {"drive", "ioWait"} : \E k : DriverFails(w, from, k)
  PROVE  LoopOf(w)'
<1>1. LoopOf(w)
  BY DEF LoopOK
<1>2. UNCHANGED <<tasks, ready, commands, closed, polling, budget, primary, joiner>>
  BY DEF WaitStep, Drive, IoWait, IoInterrupted, Unpark, FailureStopped, WaitEnds, DriverFails,
         queueVars, signalVars, poolVars
<1>3. pc[w] \in {"drive", "ioCheck", "ioWait", "parked", "failing"}
      /\ pc'[w] \in {"commands", "drive", "ioWait", "failing", "closing"}
      /\ (pc'[w] = "ioWait" => pc[w] = "ioCheck") /\ (pc[w] = "failing" => pc'[w] = "closing")
  BY DEF WaitStep, Drive, IoWait, IoInterrupted, Unpark, FailureStopped, WaitEnds, DriverFails, Step,
         Types, LoopTypes
<1> QED
  BY <1>1, <1>2, <1>3 DEF LoopOf, Gone

LEMMA CloseLoop ==
  ASSUME PoolInv, Types, LoopOK, NEW w \in Workers, CloseStep(w)
  PROVE  LoopOf(w)'
<1>1. LoopOf(w)
  BY DEF LoopOK
<1> USE <1>1 DEF LoopOf, Gone
<1>2. CASE CloseWorker(w)
  BY <1>2 DEF CloseWorker, Step, Types, LoopTypes, queueVars, poolVars
<1>3. CASE Release(w)
  BY <1>3 DEF Release, Step, Types, LoopTypes, ChannelTypes, signalVars, poolVars
<1>4. CASE Retired(w)
  BY <1>4 DEF Retired, Step, Types, LoopTypes, queueVars, poolVars
<1>5. CASE RetirePanics(w)
  BY <1>5 DEF RetirePanics, Step, Types, LoopTypes, queueVars, poolVars
<1>6. CASE PanicReported(w)
  BY <1>6 DEF PanicReported, Step, Types, LoopTypes, queueVars, poolVars, signalVars
<1>7. CASE JoinPool(w)
  BY <1>7 DEF JoinPool, TakePool, JoinThreads, rtVars, workerVars, queueVars, signalVars
<1>8. CASE ThreadEnds(w)
  BY <1>8 DEF ThreadEnds, Step, Types, LoopTypes, queueVars, poolVars, signalVars
<1> QED
  BY <1>2, <1>3, <1>4, <1>5, <1>6, <1>7, <1>8 DEF CloseStep

LEMMA LoopNext ==
  ASSUME PoolInv, Types, CallersOK, LoopOK, [Next]_vars
  PROVE  LoopOK'
<1>1. ASSUME NEW w \in Workers, WorkerMove(w) PROVE LoopOK'
  BY <1>1, CommandLoop, CycleLoop, WaitLoop, CloseLoop, LoopOfOthers DEF WorkerMove, WorkerStep
<1> QED
  BY <1>1, LoopFromOutside, Moves
-----------------------------------------------------------------------------
(* The shutdown: its cause, its callers and its broadcaster. *)

LEMMA CauseStays ==
  ASSUME [Next]_vars, Started
  PROVE  cause' = cause
<1>1. CASE OtherMove
  BY <1>1 DEF OtherMove, RequestStep, Dispatch, Send, NotifyWorker, InterruptWorker, WakeStep, WakeTask,
    NotifyWake, InterruptWake, StopStep, StopElect, StopSend, StopNotify, StopInterrupt, HostStop,
    HostWait, ControlStop, vars, rtVars, signalVars, StopBegin, Begin, PoolStep, SpawnBlocking,
    CallStep, Execute, Measure, Grow, ThreadStep,
    Receive, ExitThread, CountActive, CountDequeued, StartJob, CompleteJob, PanicJob, WakeOwner,
    InterruptOwner, PublishPanic, FinishJob
<1>2. ASSUME NEW w \in Workers, WorkerMove(w) PROVE cause' = cause
  <2>1. CASE CommandStep(w)
    BY <2>1 DEF CommandStep, CheckCommands, NoCommand, RegisterTask, AccessIo, AccessFails, AccessFailed,
             ShutdownCommand, signalVars, StopBegin, Begin
  <2>2. CASE CycleStep(w)
    BY <2>2 DEF CycleStep, BeginCycle, CycleShutdown, EndCycle, PollPending, PollInstalls, PollReady,
             PollPanics, PollStops, PollStopped, CancelTask, signalVars, StopBegin, Begin
  <2>3. CASE CloseStep(w)
    BY <2>3 DEF CloseStep, CloseWorker, Release, Retired, RetirePanics, PanicReported, JoinPool,
             ThreadEnds, TakePool, JoinThreads, signalVars, StopBegin, Begin
  <2>4. CASE \/ WaitStep(w) \/ \E from : WaitEnds(w, from)
             \/ \E from, k : DriverFails(w, from, k)
    BY <2>4 DEF WaitStep, Drive, IoWait, IoInterrupted, Unpark, FailureStopped, WaitEnds, DriverFails,
                signalVars, StopBegin, Begin
  <2> QED
    BY <1>2, <2>1, <2>2, <2>3, <2>4 DEF WorkerMove, WorkerStep
<1> QED
  BY <1>1, <1>2, Moves

\* A worker's part in the shutdown: it calls stop, or a call of stop returns to it.
LEMMA WorkerStops ==
  ASSUME NEW w \in Workers, WorkerMove(w)
  PROVE  \/ UNCHANGED stopVars
         \/ (\E k \in Causes : StopBegin(w, k)) /\ UNCHANGED <<signaled, todo, target>>
         \/ StopReturned(w)
<1>1. CASE CommandStep(w)
  BY <1>1 DEF CommandStep, CheckCommands, NoCommand, RegisterTask, AccessIo, AccessFails, AccessFailed,
           ShutdownCommand, Causes
<1>2. CASE CycleStep(w)
  BY <1>2 DEF CycleStep, BeginCycle, CycleShutdown, EndCycle, PollPending, PollInstalls, PollReady,
           PollPanics, PollStops, PollStopped, CancelTask, Causes
<1>3. CASE CloseStep(w)
  BY <1>3 DEF CloseStep, CloseWorker, Release, Retired, RetirePanics, PanicReported, JoinPool,
           ThreadEnds, rtVars, Causes
<1>4. CASE \/ WaitStep(w) \/ \E from : WaitEnds(w, from)
           \/ \E from, k : k \in Failures \ {"create"} /\ DriverFails(w, from, k)
  BY <1>4, RuntimeAssumption DEF WaitStep, Drive, IoWait, IoInterrupted, Unpark, FailureStopped, WaitEnds,
           DriverFails, Causes
<1> QED
  BY <1>1, <1>2, <1>3, <1>4 DEF WorkerMove, WorkerStep

\* What a step does to the calls of stop.
LEMMA StopMoves ==
  ASSUME [Next]_vars
  PROVE  \/ UNCHANGED stopVars
         \/ \E c \in Callers : /\ \E k \in Causes : StopBegin(c, k)
                               /\ UNCHANGED <<signaled, todo, target>>
         \/ \E w \in Workers : StopReturned(w)
         \/ \E c \in Callers : StopStep(c)
<1>1. CASE OtherMove
  <2>1. CASE HostStop \/ \E c \in Controls : ControlStop(c)
    BY <2>1 DEF HostStop, ControlStop, Causes, Callers
  <2>2. CASE (PoolStep /\ UNCHANGED rtVars) \/ UNCHANGED vars
    BY <2>2 DEF rtVars, vars
  <2> QED
    BY <1>1, <2>1, <2>2 DEF OtherMove, RequestStep, Dispatch, Send, NotifyWorker, InterruptWorker,
      WakeStep, WakeTask, NotifyWake, InterruptWake, HostWait
<1>2. ASSUME NEW w \in Workers, WorkerMove(w), ~UNCHANGED stopVars, ~StopReturned(w)
      PROVE  /\ \E k \in Causes : StopBegin(w, k)
             /\ UNCHANGED <<signaled, todo, target>> /\ w \in Callers
  BY <1>2, WorkerStops DEF Callers
<1> QED
  BY <1>1, <1>2, Moves

LEMMA StopNext ==
  ASSUME Types, StopOK, [Next]_vars
  PROVE  StopOK'
<1>1. stopper \in [Callers -> {"idle", "begun", "sending", "notifying", "interrupting", "stopped"}]
      /\ Workers \subseteq Callers
  BY DEF Types, StopTypes, Callers
<1>2. Started => Started'
  BY CauseStays DEF Started
<1>3. CASE UNCHANGED stopVars
  BY <1>2, <1>3 DEF StopOK, stopVars
<1>4. ASSUME NEW c \in Callers, NEW k \in Causes, StopBegin(c, k), UNCHANGED <<signaled, todo, target>>
      PROVE  StopOK'
  <2>1. Started'
    BY <1>4 DEF StopBegin, Begin, Started, Causes
  <2>2. stopper[c] = "idle" /\ stopper'[c] = "begun" /\ \A d \in Callers : d # c => stopper'[d] = stopper[d]
    BY <1>1, <1>4 DEF StopBegin
  <2>3. \A d \in Callers : stopper'[d] \in Broadcasting <=> stopper[d] \in Broadcasting
    BY <2>2 DEF Broadcasting
  <2> QED
    BY <1>4, <2>1, <2>2, <2>3 DEF StopOK
<1>5. ASSUME NEW w \in Workers, StopReturned(w) PROVE StopOK'
  <2>1. stopper[w] = "stopped" /\ stopper'[w] = "idle" /\ \A d \in Callers : d # w => stopper'[d] = stopper[d]
    BY <1>1, <1>5 DEF StopReturned
  <2>2. \A d \in Callers : stopper'[d] \in Broadcasting <=> stopper[d] \in Broadcasting
    BY <2>1 DEF Broadcasting
  <2> QED
    BY <1>1, <1>2, <1>5, <2>1, <2>2 DEF StopOK, StopReturned
<1>6. ASSUME NEW c \in Callers, StopStep(c) PROVE StopOK'
  <2> USE DEF Broadcasting
  <2>1. CASE StopElect(c)
    BY <1>1, <1>2, <2>1 DEF StopElect, StopOK
  <2>2. ASSUME NEW w \in Workers, StopSend(c, w) PROVE StopOK'
    BY <1>1, <1>2, <2>2 DEF StopSend, StopOK
  <2>3. CASE StopNotify(c)
    BY <1>1, <1>2, <2>3 DEF StopNotify, StopOK
  <2>4. CASE StopInterrupt(c)
    BY <1>1, <1>2, <2>4 DEF StopInterrupt, StopOK
  <2> QED
    BY <1>6, <2>1, <2>2, <2>3, <2>4 DEF StopStep
<1> QED
  BY <1>3, <1>4, <1>5, <1>6, StopMoves


LEMMA SignaledStays ==
  ASSUME [Next]_vars, signaled
  PROVE  signaled'
BY StopMoves DEF stopVars, StopReturned, StopStep, StopElect, StopSend, StopNotify, StopInterrupt

\* A channel is closed, and a handle says "shutdown", only when the cause is set.
LEMMA CauseNext ==
  ASSUME PoolInv, Types, StopOK, CauseOK, CallersOK, [Next]_vars
  PROVE  CauseOK'
<1>1. Started => Started'
  BY CauseStays DEF Started
<1>2. signaled => signaled'
  BY SignaledStays
<1>3. /\ handle \in [Requests -> {"none", "pending", "ok", "panicked", "shutdown", "failed"}]
      /\ closed \in [Workers -> BOOLEAN] /\ Tasks \subseteq Requests
  BY DEF Types, RequestTypes, ChannelTypes, Requests
<1>4. CASE UNCHANGED <<handle, closed>>
  BY <1>1, <1>2, <1>4 DEF CauseOK
<1>5. ASSUME NEW r \in Requests, RequestStep(r) \/ \E w \in Workers : Dispatch(r, w) PROVE CauseOK'
  <2>1. UNCHANGED <<closed, cause, signaled>>
    BY <1>5 DEF RequestStep, Dispatch, Send, NotifyWorker, InterruptWorker, queueVars, stopVars, signalVars
  <2>2. handle'[r] = "shutdown" => Started
    <3>1. request[r] = "checked" => home[r] \in Workers
      BY DEF CallersOK
    <3> QED
      BY <1>3, <1>5, <3>1 DEF RequestStep, Dispatch, Send, NotifyWorker, InterruptWorker, CauseOK, requestVars
  <2>3. \A q \in Requests : q # r => handle'[q] = handle[q]
    BY <1>3, <1>5 DEF RequestStep, Dispatch, Send, NotifyWorker, InterruptWorker
  <2> QED
    BY <2>1, <2>2, <2>3 DEF CauseOK, Started
<1>6. ASSUME NEW w \in Workers, CommandStep(w) PROVE CauseOK'
  <2>1. closed' = closed
    BY <1>6 DEF CommandStep, CheckCommands, NoCommand, RegisterTask, AccessIo, AccessFails, AccessFailed,
           ShutdownCommand, queueVars
  <2>2. \A q \in Requests : handle'[q] = "shutdown" => Started \/ handle[q] = "shutdown"
    BY <1>3, <1>6 DEF CommandStep, CheckCommands, NoCommand, RegisterTask, AccessIo, AccessFails, AccessFailed,
           ShutdownCommand, requestVars
  <2> QED
    BY <1>1, <1>2, <2>1, <2>2 DEF CauseOK
<1>7. ASSUME NEW w \in Workers, CycleStep(w) PROVE CauseOK'
  <2>1. closed' = closed
    BY <1>7 DEF CycleStep, BeginCycle, CycleShutdown, EndCycle, PollPending, PollInstalls, PollReady,
           PollPanics, PollStops, PollStopped, CancelTask, queueVars
  <2>2. \A q \in Requests : handle'[q] = "shutdown" => Started' \/ handle[q] = "shutdown"
    <3>1. ASSUME NEW t \in Tasks, CancelTask(w, t) PROVE Started'
      BY <3>1 DEF CancelTask, Begin, Started, Causes
    <3> QED
      BY <1>3, <1>7, <3>1 DEF CycleStep, BeginCycle, CycleShutdown, EndCycle, PollPending, PollInstalls, PollReady,
           PollPanics, PollStops, PollStopped, requestVars
  <2> QED
    BY <1>1, <1>2, <2>1, <2>2 DEF CauseOK
<1>8. ASSUME NEW w \in Workers, Release(w) PROVE CauseOK'
  <2>1. Started /\ signaled
    BY <1>8 DEF Release, StopReturned, StopOK, Callers
  <2> QED
    BY <1>1, <1>2, <2>1 DEF CauseOK
<1> QED
  BY <1>4, <1>5, <1>6, <1>7, <1>8, Moves DEF OtherMove, WorkerMove, WorkerStep, WakeStep, WakeTask,
    NotifyWake, InterruptWake, StopStep, StopElect, StopSend, StopNotify, StopInterrupt, HostStop,
    HostWait, ControlStop, vars, rtVars, queueVars, requestVars, WaitStep, Drive, IoWait, IoInterrupted,
    Unpark, FailureStopped, WaitEnds, DriverFails, CloseStep, CloseWorker, Retired, RetirePanics,
    PanicReported, JoinPool, ThreadEnds
-----------------------------------------------------------------------------
(* Where a pending request is. *)

LEMMA AppendElems ==
  ASSUME NEW q \in Seq(Command), NEW m \in Command
  PROVE  /\ Elems(Append(q, m)) = Elems(q) \cup {m}
         /\ Once(q) /\ (m \notin Elems(q) \/ m \notin Requests) => Once(Append(q, m))
<1> DEFINE p == Append(q, m)
<1>1. /\ DOMAIN p = DOMAIN q \cup {Len(q) + 1} /\ Len(q) + 1 \notin DOMAIN q
      /\ p[Len(q) + 1] = m /\ \A i \in DOMAIN q : p[i] = q[i]
  OBVIOUS
<1> HIDE DEF p
<1>2. Elems(p) = Elems(q) \cup {m}
  BY <1>1 DEF Elems
<1>3. Once(q) /\ (m \notin Elems(q) \/ m \notin Requests) => Once(p)
  BY <1>1 DEF Once, Elems
<1> QED
  BY <1>2, <1>3 DEF p

LEMMA TailElems ==
  ASSUME NEW q \in Seq(Command), q # <<>>, Once(q)
  PROVE  /\ Elems(q) = Elems(Tail(q)) \cup {Head(q)} /\ Once(Tail(q))
         /\ Head(q) \in Requests => Head(q) \notin Elems(Tail(q))
<1> DEFINE p == Tail(q)
<1>1. 1 \in DOMAIN q /\ Head(q) = q[1]
  OBVIOUS
<1>2. \A i \in DOMAIN p : i \in Nat /\ i + 1 \in DOMAIN q /\ i + 1 # 1 /\ p[i] = q[i + 1]
  OBVIOUS
<1>3. \A i \in DOMAIN q : i # 1 => i - 1 \in DOMAIN p /\ p[i - 1] = q[i]
  OBVIOUS
<1> HIDE DEF p
<1>4. Elems(q) = Elems(p) \cup {Head(q)}
  BY <1>1, <1>2, <1>3 DEF Elems
<1>5. Once(p)
  <2> SUFFICES ASSUME NEW i \in DOMAIN p, NEW n \in DOMAIN p, p[i] \in Requests, p[n] = p[i]
               PROVE  n = i
    BY DEF Once
  <2>1. n + 1 = i + 1
    BY <1>2 DEF Once
  <2> QED
    BY <1>2, <2>1
<1>6. Head(q) \in Requests => Head(q) \notin Elems(p)
  BY <1>1, <1>2 DEF Elems, Once
<1> QED
  BY <1>4, <1>5, <1>6 DEF p

\* Requests D are settled, nothing else is moved from or to a worker.
LEMMA Settled ==
  ASSUME RequestsOK, home' = home, NEW D,
         \A r \in Requests : /\ request'[r] = "idle" <=> request[r] = "idle"
                             /\ request'[r] = "checked" <=> request[r] = "checked",
         \A r \in Requests \cap D : /\ handle'[r] # "pending" /\ \E w \in Workers : At(r, w),
         \A r \in Requests \ D : handle'[r] = handle[r],
         \A u \in Workers : Apart(u)',
         \A u \in Workers : \A r \in Requests : At(r, u)' <=> At(r, u) /\ r \notin D
  PROVE  RequestsOK'
<1>1. \A r \in Requests \cap D : request[r] \notin {"idle", "checked"}
  BY DEF RequestsOK, WithWorker
<1>2. CallersOK'
  BY <1>1 DEF RequestsOK, CallersOK
<1>3. WithWorker'
  BY DEF RequestsOK, WithWorker
<1>4. HeldOK'
  <2> SUFFICES ASSUME NEW r \in Requests, handle'[r] = "pending", request'[r] # "checked"
               PROVE  At(r, home[r])'
    BY DEF HeldOK
  <2>1. r \notin D /\ handle[r] = "pending" /\ request[r] # "checked"
    OBVIOUS
  <2>2. At(r, home[r]) /\ home[r] \in Workers
    BY <2>1 DEF RequestsOK, HeldOK, CallersOK
  <2> QED
    BY <2>1, <2>2
<1> QED
  BY <1>2, <1>3, <1>4 DEF RequestsOK

\* A request may move within its worker.
LEMMA Rearranged ==
  ASSUME RequestsOK, home' = home, handle' = handle,
         \A r \in Requests : /\ request'[r] = "idle" <=> request[r] = "idle"
                             /\ request'[r] = "checked" <=> request[r] = "checked",
         \A u \in Workers : Apart(u)',
         \A u \in Workers : \A r \in Requests : At(r, u)' <=> At(r, u)
  PROVE  RequestsOK'
<1>1. PICK D : D = {}
  OBVIOUS
<1>2. \A r \in Requests \cap D : /\ handle'[r] # "pending" /\ \E w \in Workers : At(r, w)
  BY <1>1
<1>3. \A r \in Requests \ D : handle'[r] = handle[r]
  OBVIOUS
<1>4. \A u \in Workers : \A r \in Requests : At(r, u)' <=> At(r, u) /\ r \notin D
  BY <1>1
<1> QED
  BY <1>2, <1>3, <1>4, Settled

\* The channel and the tasks of worker w decide what is at w.
LEMMA SamePlaces ==
  ASSUME NEW w \in Workers, Apart(w), commands'[w] = commands[w], tasks'[w] = tasks[w]
  PROVE  Apart(w)' /\ \A r : At(r, w)' <=> At(r, w)
BY DEF Apart, At

LEMMA UntouchedRequests ==
  ASSUME RequestsOK, UNCHANGED <<home, handle, commands, tasks>>,
         \A r \in Requests : /\ request'[r] = "idle" <=> request[r] = "idle"
                             /\ request'[r] = "checked" <=> request[r] = "checked"
  PROVE  RequestsOK'
<1>1. \A u \in Workers : Apart(u)' /\ \A r \in Requests : At(r, u)' <=> At(r, u)
  BY SamePlaces DEF RequestsOK, WithWorker
<1> QED
  BY <1>1, Rearranged

LEMMA DispatchRequests ==
  ASSUME Types, RequestsOK, NEW r \in Requests, NEW w \in Workers, Dispatch(r, w)
  PROVE  RequestsOK'
<1>1. /\ request \in [Requests -> {"idle", "checked", "notifying", "interrupting", "returned"}]
      /\ home \in [Requests -> Workers \cup {NoWorker}]
      /\ handle \in [Requests -> {"none", "pending", "ok", "panicked", "shutdown", "failed"}]
  BY DEF Types, RequestTypes
<1>2. /\ request[r] = "idle" /\ request'[r] # "idle" /\ home'[r] = w
      /\ handle'[r] = "pending" <=> request'[r] = "checked"
      /\ \A q \in Requests : q # r => request'[q] = request[q] /\ home'[q] = home[q] /\ handle'[q] = handle[q]
      /\ UNCHANGED <<commands, tasks>>
  BY <1>1 DEF Dispatch, queueVars
<1>3. \A u \in Workers : ~At(r, u)
  BY <1>2 DEF RequestsOK, WithWorker
<1>4. \A u \in Workers : Apart(u)' /\ \A q : At(q, u)' <=> At(q, u)
  BY <1>2, SamePlaces DEF RequestsOK, WithWorker
<1>5. CallersOK'
  BY <1>2 DEF RequestsOK, CallersOK
<1>6. WithWorker'
  BY <1>2, <1>3, <1>4 DEF RequestsOK, WithWorker
<1>7. HeldOK'
  <2> SUFFICES ASSUME NEW q \in Requests, handle'[q] = "pending", request'[q] # "checked"
               PROVE  At(q, home[q])'
    BY DEF HeldOK
  <2>1. q # r
    BY <1>2
  <2>2. At(q, home[q]) /\ home[q] \in Workers /\ home'[q] = home[q]
    BY <1>2, <2>1 DEF RequestsOK, HeldOK, CallersOK
  <2> QED
    BY <1>4, <2>2
<1> QED
  BY <1>5, <1>6, <1>7 DEF RequestsOK

LEMMA SendRequests ==
  ASSUME Types, RequestsOK, NEW r \in Requests, Send(r)
  PROVE  RequestsOK'
<1>1. /\ request \in [Requests -> {"idle", "checked", "notifying", "interrupting", "returned"}]
      /\ handle \in [Requests -> {"none", "pending", "ok", "panicked", "shutdown", "failed"}]
      /\ commands \in [Workers -> Seq(Command)]
  BY DEF Types, RequestTypes, ChannelTypes, Command
<1>2. /\ request[r] = "checked" /\ request'[r] = "notifying" /\ UNCHANGED <<home, tasks>>
      /\ \A q \in Requests : q # r => request'[q] = request[q]
  BY <1>1 DEF Send
<1>3. home[r] \in Workers /\ handle[r] = "pending" /\ \A u \in Workers : ~At(r, u)
  BY <1>2 DEF RequestsOK, CallersOK, WithWorker
<1>4. CASE ~closed[home[r]]
  <2>1. commands' = [commands EXCEPT ![home[r]] = Append(@, r)] /\ handle' = handle
    BY <1>4 DEF Send
  <2> DEFINE w == home[r]
  <2>2. /\ commands'[w] = Append(commands[w], r) /\ commands[w] \in Seq(Command) /\ r \in Command
        /\ \A u \in Workers : u # w => commands'[u] = commands[u]
    BY <1>1, <1>3, <2>1 DEF Command
  <2>3. r \notin Elems(commands[w]) /\ r \notin tasks[w] /\ Apart(w)
    BY <1>3 DEF At, RequestsOK, WithWorker
  <2>4. Elems(commands'[w]) = Elems(commands[w]) \cup {r} /\ Once(commands'[w])
    BY <2>2, <2>3, AppendElems DEF Apart
  <2>5. Apart(w)' /\ \A q : At(q, w)' <=> At(q, w) \/ q = r
    BY <1>2, <2>3, <2>4 DEF Apart, At
  <2>6. \A u \in Workers : u # w => Apart(u)' /\ \A q : At(q, u)' <=> At(q, u)
    BY <1>2, <2>2, SamePlaces DEF RequestsOK, WithWorker
  <2>7. CallersOK'
    BY <1>2, <1>3, <2>1 DEF RequestsOK, CallersOK
  <2>8. WithWorker'
    BY <1>2, <1>3, <2>1, <2>5, <2>6 DEF RequestsOK, WithWorker
  <2>9. HeldOK'
    <3> SUFFICES ASSUME NEW q \in Requests, handle'[q] = "pending", request'[q] # "checked"
                 PROVE  At(q, home[q])'
      BY DEF HeldOK
    <3>1. CASE q = r
      BY <1>2, <2>5, <3>1
    <3>2. CASE q # r
      <4>1. At(q, home[q]) /\ home[q] \in Workers
        BY <1>2, <2>1, <3>2 DEF RequestsOK, HeldOK, CallersOK
      <4> QED
        BY <1>2, <2>5, <2>6, <4>1
    <3> QED
      BY <3>1, <3>2
  <2> QED
    BY <2>7, <2>8, <2>9 DEF RequestsOK
<1>5. CASE closed[home[r]]
  <2>1. /\ commands' = commands /\ handle'[r] = "shutdown"
        /\ \A q \in Requests : q # r => handle'[q] = handle[q]
    BY <1>1, <1>5 DEF Send
  <2>2. \A u \in Workers : Apart(u)' /\ \A q : At(q, u)' <=> At(q, u)
    BY <1>2, <2>1, SamePlaces DEF RequestsOK, WithWorker
  <2>3. CallersOK'
    BY <1>2, <1>3, <2>1 DEF RequestsOK, CallersOK
  <2>4. WithWorker'
    BY <1>2, <1>3, <2>1, <2>2 DEF RequestsOK, WithWorker
  <2>5. HeldOK'
    <3> SUFFICES ASSUME NEW q \in Requests, handle'[q] = "pending", request'[q] # "checked"
                 PROVE  At(q, home[q])'
      BY DEF HeldOK
    <3>1. q # r /\ At(q, home[q]) /\ home[q] \in Workers
      BY <1>2, <2>1 DEF RequestsOK, HeldOK, CallersOK
    <3> QED
      BY <1>2, <2>2, <3>1
  <2> QED
    BY <2>3, <2>4, <2>5 DEF RequestsOK
<1> QED
  BY <1>4, <1>5

LEMMA StopSendRequests ==
  ASSUME Types, RequestsOK, NEW c, NEW w \in Workers, StopSend(c, w)
  PROVE  RequestsOK'
<1>1. commands \in [Workers -> Seq(Command)] /\ Shutdown \in Command /\ Shutdown \notin Requests
  BY RuntimeAssumption DEF Types, ChannelTypes, Command, Shutdown, Requests
<1>2. UNCHANGED <<request, home, handle, tasks>>
  BY DEF StopSend, requestVars
<1>3. CASE commands' = commands
  BY <1>2, <1>3, UntouchedRequests
<1>4. CASE commands' = [commands EXCEPT ![w] = Append(@, Shutdown)]
  <2>1. commands'[w] = Append(commands[w], Shutdown) /\ commands[w] \in Seq(Command)
        /\ \A u \in Workers : u # w => commands'[u] = commands[u]
    BY <1>1, <1>4
  <2>2. Apart(w)
    BY DEF RequestsOK, WithWorker
  <2>3. Elems(commands'[w]) = Elems(commands[w]) \cup {Shutdown} /\ Once(commands'[w])
    BY <1>1, <2>1, <2>2, AppendElems DEF Apart
  <2>4. \A t \in tasks[w] : t # Shutdown
    BY <1>1 DEF Types, ChannelTypes, Requests
  <2>5. Apart(w)' /\ \A q \in Requests : At(q, w)' <=> At(q, w)
    BY <1>1, <1>2, <2>2, <2>3, <2>4 DEF Apart, At
  <2>6. \A u \in Workers : Apart(u)' /\ \A q \in Requests : At(q, u)' <=> At(q, u)
    BY <1>2, <2>1, <2>5, SamePlaces DEF RequestsOK, WithWorker
  <2> QED
    BY <1>2, <2>6, Rearranged
<1> QED
  BY <1>3, <1>4 DEF StopSend

\* The command at the head of its channel is done.
LEMMA TakenRequests ==
  ASSUME Types, RequestsOK, NEW w \in Workers, commands[w] # <<>>,
         commands' = [commands EXCEPT ![w] = Tail(@)], UNCHANGED <<request, home>>,
         \/ /\ Head(commands[w]) \in Tasks /\ handle' = handle
            /\ tasks' = [tasks EXCEPT ![w] = @ \cup {Head(commands[w])}]
         \/ /\ Head(commands[w]) \in Accesses /\ tasks' = tasks
            /\ \E h \in {"ok", "shutdown", "failed"} :
                 handle' = [handle EXCEPT ![Head(commands[w])] = h]
         \/ Head(commands[w]) = Shutdown /\ UNCHANGED <<tasks, handle>>
  PROVE  RequestsOK'
<1> DEFINE h == Head(commands[w])
<1>1. /\ commands \in [Workers -> Seq(Command)] /\ tasks \in [Workers -> SUBSET Tasks]
      /\ Shutdown \notin Requests /\ Tasks \subseteq Requests /\ Accesses \subseteq Requests
      /\ Accesses \cap Tasks = {}
      /\ handle \in [Requests -> {"none", "pending", "ok", "panicked", "shutdown", "failed"}]
  BY RuntimeAssumption DEF Types, RequestTypes, ChannelTypes, Command, Shutdown, Requests
<1>2. /\ commands'[w] = Tail(commands[w]) /\ commands[w] \in Seq(Command)
      /\ \A u \in Workers : u # w => commands'[u] = commands[u] /\ tasks'[u] = tasks[u]
  BY <1>1
<1>3. Apart(w)
  BY DEF RequestsOK, WithWorker
<1>4. /\ Elems(commands[w]) = Elems(commands'[w]) \cup {h} /\ Once(commands'[w])
      /\ h \in Requests => h \notin Elems(commands'[w])
  BY <1>2, <1>3, TailElems DEF Apart
<1>5. \A u \in Workers : u # w => Apart(u)' /\ \A q : At(q, u)' <=> At(q, u)
  BY <1>2, SamePlaces DEF RequestsOK, WithWorker
<1>6. At(h, w)
  BY <1>4 DEF At
<1>7. h \in Requests => \A u \in Workers : u # w => ~At(h, u)
  BY <1>6 DEF RequestsOK, WithWorker
<1> HIDE DEF h
<1>8. CASE h \in Tasks /\ handle' = handle /\ tasks' = [tasks EXCEPT ![w] = @ \cup {h}]
  <2>1. tasks'[w] = tasks[w] \cup {h}
    BY <1>1, <1>8
  <2>2. Apart(w)' /\ \A q : At(q, w)' <=> At(q, w)
    BY <1>1, <1>3, <1>4, <1>8, <2>1 DEF Apart, At
  <2>3. \A u \in Workers : Apart(u)' /\ \A q \in Requests : At(q, u)' <=> At(q, u)
    BY <1>5, <2>2
  <2> QED
    BY <1>8, <2>3, Rearranged
<1>9. CASE /\ h \in Accesses /\ tasks' = tasks
           /\ \E x \in {"ok", "shutdown", "failed"} : handle' = [handle EXCEPT ![h] = x]
  <2>1. Apart(w)' /\ \A q : At(q, w)' <=> At(q, w) /\ q \notin {h}
    BY <1>1, <1>3, <1>4, <1>9 DEF Apart, At
  <2>2. \A u \in Workers : Apart(u)' /\ \A q \in Requests : At(q, u)' <=> At(q, u) /\ q \notin {h}
    BY <1>5, <1>7, <2>1
  <2>3. handle'[h] # "pending" /\ \A q \in Requests \ {h} : handle'[q] = handle[q]
    BY <1>1, <1>9
  <2> QED
    BY <1>6, <2>2, <2>3, Settled
<1>10. CASE h = Shutdown /\ UNCHANGED <<tasks, handle>>
  <2>1. Apart(w)' /\ \A q \in Requests : At(q, w)' <=> At(q, w)
    BY <1>1, <1>3, <1>4, <1>10 DEF Apart, At
  <2>2. \A u \in Workers : Apart(u)' /\ \A q \in Requests : At(q, u)' <=> At(q, u)
    BY <1>5, <2>1
  <2> QED
    BY <1>10, <2>2, Rearranged
<1> QED
  BY <1>8, <1>9, <1>10 DEF h

\* A task of a worker ends: completed, panicked or cancelled.
LEMMA EndedRequests ==
  ASSUME Types, RequestsOK, NEW w \in Workers, NEW t \in tasks[w],
         tasks' = [tasks EXCEPT ![w] = @ \ {t}], UNCHANGED <<request, home, commands>>,
         \E h \in {"ok", "panicked", "shutdown"} : handle' = [handle EXCEPT ![t] = h]
  PROVE  RequestsOK'
<1>1. /\ tasks \in [Workers -> SUBSET Tasks] /\ Tasks \subseteq Requests
      /\ handle \in [Requests -> {"none", "pending", "ok", "panicked", "shutdown", "failed"}]
  BY DEF Types, RequestTypes, ChannelTypes, Requests
<1>2. tasks'[w] = tasks[w] \ {t} /\ \A u \in Workers : u # w => tasks'[u] = tasks[u]
  BY <1>1
<1>3. Apart(w) /\ At(t, w) /\ t \in Requests
  BY <1>1 DEF RequestsOK, WithWorker, At
<1>4. \A u \in Workers : u # w => ~At(t, u)
  BY <1>3 DEF RequestsOK, WithWorker
<1>5. Apart(w)' /\ \A q : At(q, w)' <=> At(q, w) /\ q \notin {t}
  BY <1>2, <1>3 DEF Apart, At
<1>6. \A u \in Workers : u # w => Apart(u)' /\ \A q : At(q, u)' <=> At(q, u)
  BY <1>2, SamePlaces DEF RequestsOK, WithWorker
<1>7. \A u \in Workers : Apart(u)' /\ \A q \in Requests : At(q, u)' <=> At(q, u) /\ q \notin {t}
  BY <1>4, <1>5, <1>6
<1>8. handle'[t] # "pending" /\ \A q \in Requests \ {t} : handle'[q] = handle[q]
  BY <1>1, <1>3
<1> QED
  BY <1>3, <1>7, <1>8, Settled

LEMMA ReleaseRequests ==
  ASSUME Types, RequestsOK, NEW w \in Workers, Release(w)
  PROVE  RequestsOK'
<1> DEFINE D == Elems(commands[w])
<1>1. commands \in [Workers -> Seq(Command)]
  BY DEF Types, ChannelTypes, Command
<1>2. /\ commands'[w] = <<>> /\ \A u \in Workers : u # w => commands'[u] = commands[u]
      /\ UNCHANGED <<request, home, tasks>>
  BY <1>1 DEF Release
<1>3. \A r \in Requests : handle'[r] = IF r \in D THEN "shutdown" ELSE handle[r]
  BY DEF Release, Elems
<1>4. Apart(w) /\ \A r \in D : At(r, w)
  BY DEF RequestsOK, WithWorker, At
<1>5. \A r \in Requests \cap D : \A u \in Workers : u # w => ~At(r, u)
  BY <1>4 DEF RequestsOK, WithWorker
<1>6. Elems(commands'[w]) = {} /\ Once(commands'[w])
  BY <1>2 DEF Elems, Once
<1>7. Apart(w)' /\ \A q : At(q, w)' <=> At(q, w) /\ q \notin D
  BY <1>2, <1>4, <1>6 DEF Apart, At
<1>8. \A u \in Workers : u # w => Apart(u)' /\ \A q : At(q, u)' <=> At(q, u)
  BY <1>2, SamePlaces DEF RequestsOK, WithWorker
<1> HIDE DEF D
<1>9. \A u \in Workers : Apart(u)' /\ \A q \in Requests : At(q, u)' <=> At(q, u) /\ q \notin D
  BY <1>5, <1>7, <1>8
<1> QED
  BY <1>2, <1>3, <1>4, <1>9, Settled

LEMMA RequestsNext ==
  ASSUME Types, LoopOK, RequestsOK, [Next]_vars
  PROVE  RequestsOK'
<1>1. CASE UNCHANGED <<request, home, handle, commands, tasks>>
  BY <1>1, UntouchedRequests
<1>2. ASSUME NEW r \in Requests, NotifyWorker(r) \/ InterruptWorker(r) PROVE RequestsOK'
  <2>1. UNCHANGED <<home, handle, commands, tasks>>
    BY <1>2 DEF NotifyWorker, InterruptWorker, queueVars
  <2>2. \A q \in Requests : /\ request'[q] = "idle" <=> request[q] = "idle"
                            /\ request'[q] = "checked" <=> request[q] = "checked"
    BY <1>2 DEF NotifyWorker, InterruptWorker, Types, RequestTypes
  <2> QED
    BY <2>1, <2>2, UntouchedRequests
<1>3. ASSUME NEW w \in Workers, CommandStep(w) PROVE RequestsOK'
  <2>1. CASE CheckCommands(w) \/ NoCommand(w) \/ AccessFails(w)
    BY <1>1, <2>1 DEF CheckCommands, NoCommand, AccessFails, requestVars, queueVars
  <2>2. CASE RegisterTask(w)
    BY <2>2, TakenRequests DEF RegisterTask, CommandDone, requestVars
  <2>3. CASE AccessIo(w)
    BY <2>3, TakenRequests DEF AccessIo, CommandDone
  <2>4. CASE AccessFailed(w)
    <3>1. commands[w] # <<>> /\ Head(commands[w]) \in Accesses
      BY <2>4 DEF AccessFailed, CommandDone, Step, LoopOK, LoopOf
    <3> QED
      BY <2>4, <3>1, TakenRequests DEF AccessFailed, CommandDone
  <2>5. CASE ShutdownCommand(w)
    BY <2>5, TakenRequests DEF ShutdownCommand, requestVars
  <2> QED
    BY <1>3, <2>1, <2>2, <2>3, <2>4, <2>5 DEF CommandStep
<1>4. ASSUME NEW w \in Workers, CycleStep(w) PROVE RequestsOK'
  <2>1. ASSUME UNCHANGED tasks PROVE UNCHANGED <<request, home, handle, commands>>
    <3>1. \A t \in Tasks : ~PollReady(w, t) /\ ~PollPanics(w, t) /\ ~CancelTask(w, t)
      <4> SUFFICES ASSUME NEW t \in Tasks, PollReady(w, t) \/ PollPanics(w, t) \/ CancelTask(w, t) PROVE FALSE
        OBVIOUS
      <4>1. t \in tasks[w] /\ tasks' = [tasks EXCEPT ![w] = @ \ {t}]
        BY DEF PollReady, PollPanics, CancelTask, Poll, Step, LoopOK, LoopOf
      <4> QED
        BY <2>1, <4>1 DEF Types, ChannelTypes
    <3>2. ASSUME NEW t \in Tasks, PollStopped(w, t) PROVE handle' = handle
      <4>1. t \in tasks[w]
        BY <3>2 DEF PollStopped, Step, LoopOK, LoopOf
      <4>2. CASE tasks' = [tasks EXCEPT ![w] = @ \ {t}]
        BY <2>1, <4>1, <4>2 DEF Types, ChannelTypes
      <4> QED
        BY <3>2, <4>2 DEF PollStopped
    <3> QED
      BY <1>4, <3>1, <3>2 DEF CycleStep, BeginCycle, CycleShutdown, EndCycle, PollPending, PollInstalls,
           PollStops, PollStopped, requestVars, queueVars
  <2>2. CASE UNCHANGED tasks
    BY <1>1, <2>1, <2>2
  <2>3. CASE ~UNCHANGED tasks
    <3>1. PICK t \in Tasks : /\ tasks' = [tasks EXCEPT ![w] = @ \ {t}] /\ UNCHANGED <<request, home, commands>>
                             /\ \E h \in {"ok", "panicked", "shutdown"} : handle' = [handle EXCEPT ![t] = h]
                             /\ t \in tasks[w] \/ (pc[w] \in {"cycle", "requesting"} /\ t \in polling[w])
      BY <1>4, <2>3 DEF CycleStep, BeginCycle, CycleShutdown, EndCycle, PollPending, PollInstalls, PollReady,
           PollPanics, PollStops, PollStopped, CancelTask, Poll, Step, queueVars
    <3>2. t \in tasks[w]
      BY <3>1 DEF LoopOK, LoopOf
    <3> QED
      BY <3>1, <3>2, EndedRequests
  <2> QED
    BY <2>2, <2>3
<1>5. ASSUME NEW w \in Workers, CloseStep(w), ~Release(w) PROVE RequestsOK'
  BY <1>1, <1>5 DEF CloseStep, CloseWorker, Retired, RetirePanics, PanicReported, JoinPool, ThreadEnds,
    rtVars, requestVars, queueVars
<1>6. ASSUME NEW w \in Workers, \/ WaitStep(w) \/ \E from : WaitEnds(w, from)
                                \/ \E from, k : DriverFails(w, from, k)
      PROVE  RequestsOK'
  BY <1>1, <1>6 DEF WaitStep, Drive, IoWait, IoInterrupted, Unpark, FailureStopped, WaitEnds, DriverFails,
    requestVars, queueVars
<1>7. ASSUME NEW w \in Workers, WorkerMove(w) PROVE RequestsOK'
  BY <1>3, <1>4, <1>5, <1>6, <1>7, ReleaseRequests DEF WorkerMove, WorkerStep
<1>8. CASE OtherMove
  BY <1>1, <1>2, <1>8, DispatchRequests, SendRequests, StopSendRequests
     DEF OtherMove, RequestStep, WakeStep, WakeTask, NotifyWake, InterruptWake, StopStep, StopElect,
      StopNotify, StopInterrupt, HostStop, HostWait, ControlStop, vars, rtVars, requestVars, queueVars
<1> QED
  BY <1>7, <1>8, Moves
-----------------------------------------------------------------------------
(* Wakes arrive. *)

\* Only the worker itself uses up a notification, at the end of a wait or before
\* a wait in the driver; only its driver uses up an interrupt; and the driver
\* stays while the worker waits in it.
LEMMA SignalsStay ==
  ASSUME PoolInv, Types, [Next]_vars, NEW w \in Workers
  PROVE  /\ notified[w] => notified'[w] \/ (pc[w] \in {"ioCheck", "parked"} /\ pc'[w] # pc[w])
         /\ interrupted[w] /\ pc[w] = "ioWait" => interrupted'[w] \/ pc'[w] # "ioWait"
         /\ primary[w] /\ pc[w] \in {"ioCheck", "ioWait"} => primary'[w]
<1>1. /\ notified \in [Workers -> BOOLEAN] /\ primary \in [Workers -> BOOLEAN]
      /\ interrupted \in [Workers -> BOOLEAN] /\ pc \in [Workers -> Labels]
  BY DEF PoolInv, PoolTypeOK, SignalTypeOK, Types, LoopTypes
<1>2. CASE UNCHANGED <<notified, interrupted, primary>>
  BY <1>2
<1>3. ASSUME NEW u, UNCHANGED <<interrupted, primary>>, notified' = [notified EXCEPT ![u] = TRUE]
      PROVE  (notified[w] => notified'[w]) /\ interrupted' = interrupted /\ primary' = primary
  BY <1>1, <1>3
<1>4. ASSUME NEW u, UNCHANGED <<notified, primary>>, WakeDriver(u)
      PROVE  notified' = notified /\ (interrupted[w] => interrupted'[w]) /\ primary' = primary
  BY <1>1, <1>4 DEF WakeDriver
<1>5. CASE OtherMove
  <2>1. CASE PoolStep
    BY <1>2, <1>3, <1>4, <2>1 DEF PoolStep, SpawnBlocking, CallStep, Execute, Measure, Grow,
      ThreadStep, Receive, ExitThread, CountActive, CountDequeued, StartJob, CompleteJob, PanicJob,
      WakeOwner, InterruptOwner, PublishPanic, FinishJob, signalVars, NotifyReady
  <2> QED
    BY <1>2, <1>3, <1>4, <1>5, <2>1 DEF OtherMove, RequestStep, Dispatch, Send, NotifyWorker, InterruptWorker,
      WakeStep, WakeTask, NotifyWake, InterruptWake, StopStep, StopElect, StopSend, StopNotify,
      StopInterrupt, HostStop, HostWait, ControlStop, vars, signalVars, NotifyReady
<1>6. ASSUME NEW u \in Workers, u # w, WorkerMove(u)
      PROVE  notified'[w] = notified[w] /\ interrupted'[w] = interrupted[w] /\ primary'[w] = primary[w]
  BY <1>6, Elsewhere
<1>7. CASE CommandStep(w) \/ CycleStep(w)
  <2>1. UNCHANGED <<notified, interrupted>>
    BY <1>7 DEF CommandStep, CheckCommands, NoCommand, RegisterTask, AccessIo, AccessFails, AccessFailed,
             ShutdownCommand, CycleStep, BeginCycle, CycleShutdown, EndCycle, PollPending, PollInstalls,
             PollReady, PollPanics, PollStops, PollStopped, CancelTask, signalVars
  <2>2. pc[w] \notin {"ioCheck", "ioWait"}
    BY <1>7 DEF CommandStep, CheckCommands, NoCommand, RegisterTask, AccessIo, AccessFails, AccessFailed,
             ShutdownCommand, CommandDone, CycleStep, BeginCycle, CycleShutdown, EndCycle, PollPending,
             PollInstalls, PollReady, PollPanics, PollStops, PollStopped, CancelTask, Step
  <2> QED
    BY <2>1, <2>2
<1>8. CASE CloseStep(w)
  <2>1. UNCHANGED notified
    BY <1>8 DEF CloseStep, CloseWorker, Release, Retired, RetirePanics, PanicReported, JoinPool,
             ThreadEnds, TakePool, JoinThreads, signalVars
  <2>2. pc[w] \notin {"ioCheck", "ioWait"}
    BY <1>8 DEF CloseStep, CloseWorker, Release, Retired, RetirePanics, PanicReported, JoinPool,
             ThreadEnds, Step
  <2> QED
    BY <2>1, <2>2
<1>9. CASE \/ WaitStep(w) \/ \E from : WaitEnds(w, from)
           \/ \E from, k : DriverFails(w, from, k)
  BY <1>1, <1>9 DEF WaitStep, Drive, IoWait, IoInterrupted, Unpark, FailureStopped, WaitEnds, DriverFails,
                Step, signalVars
<1> QED
  BY <1>5, <1>6, <1>7, <1>8, <1>9, Moves DEF WorkerMove, WorkerStep

\* The wake of a request goes on to the notification, and then to the interrupt.
LEMMA RequestWakes ==
  ASSUME PoolInv, Types, CallersOK, [Next]_vars, NEW w \in Workers, NEW r \in Requests, home[r] = w
  PROVE  /\ home'[r] = w
         /\ request[r] = "notifying" => request'[r] = "notifying" \/ (request'[r] = "interrupting" /\ notified'[w])
         /\ request[r] = "interrupting" /\ primary[w] => request'[r] = "interrupting" \/ interrupted'[w]
<1>1. /\ notified \in [Workers -> BOOLEAN] /\ primary \in [Workers -> BOOLEAN]
      /\ interrupted \in [Workers -> BOOLEAN] /\ DOMAIN home = Requests
      /\ request \in [Requests -> {"idle", "checked", "notifying", "interrupting", "returned"}]
      /\ request[r] # "idle"
  BY PoolAssumption DEF PoolInv, PoolTypeOK, SignalTypeOK, Types, RequestTypes, CallersOK
<1>2. CASE UNCHANGED <<home, request>>
  BY <1>2
<1>3. ASSUME NEW q \in Requests, NEW u \in Workers, Dispatch(q, u) PROVE home'[r] = home[r] /\ request'[r] = request[r]
  <2>1. q # r
    BY <1>1, <1>3 DEF Dispatch
  <2> QED
    BY <1>1, <1>3, <2>1 DEF Dispatch
<1>4. ASSUME NEW q \in Requests, q # r, RequestStep(q) PROVE home'[r] = home[r] /\ request'[r] = request[r]
  BY <1>1, <1>4 DEF RequestStep, Send, NotifyWorker, InterruptWorker
<1>5. CASE RequestStep(r)
  BY <1>1, <1>5 DEF RequestStep, Send, NotifyWorker, InterruptWorker, NotifyReady, WakeDriver
<1>6. ASSUME NEW u \in Workers, WorkerMove(u) PROVE UNCHANGED <<home, request>>
  BY <1>6 DEF WorkerMove, WorkerStep, CommandStep, CheckCommands, NoCommand, RegisterTask, AccessIo,
    AccessFails, AccessFailed, ShutdownCommand, CycleStep, BeginCycle, CycleShutdown, EndCycle,
    PollPending, PollInstalls, PollReady, PollPanics, PollStops, PollStopped, CancelTask, CloseStep,
    CloseWorker, Release, Retired, RetirePanics, PanicReported, JoinPool, ThreadEnds, WaitStep, Drive,
    IoWait, IoInterrupted, Unpark, FailureStopped, WaitEnds, DriverFails, requestVars, rtVars
<1> QED
  BY <1>2, <1>3, <1>4, <1>5, <1>6, Moves DEF OtherMove, WakeStep, WakeTask, NotifyWake, InterruptWake,
      StopStep, StopElect, StopSend, StopNotify, StopInterrupt, HostStop, HostWait, ControlStop, vars,
      rtVars, requestVars

LEMMA TaskWakes ==
  ASSUME PoolInv, Types, CallersOK, [Next]_vars, NEW w \in Workers, NEW t \in Tasks, home[t] = w
  PROVE  /\ home'[t] = w
         /\ waking[t] = "notifying" => waking'[t] = "notifying" \/ (waking'[t] = "interrupting" /\ notified'[w])
         /\ waking[t] = "interrupting" /\ primary[w] => waking'[t] = "interrupting" \/ interrupted'[w]
<1>1. /\ notified \in [Workers -> BOOLEAN] /\ primary \in [Workers -> BOOLEAN]
      /\ interrupted \in [Workers -> BOOLEAN] /\ waking \in [Tasks -> WakeLabels]
  BY DEF PoolInv, PoolTypeOK, SignalTypeOK, Types, RequestTypes
<1>2. home'[t] = w
  BY RequestWakes DEF Requests
<1>3. CASE UNCHANGED waking
  BY <1>2, <1>3
<1>4. ASSUME NEW q \in Tasks, q # t, WakeStep(q) PROVE waking'[t] = waking[t]
  BY <1>1, <1>4 DEF WakeStep, NotifyWake, InterruptWake
<1>5. ASSUME NEW q \in Tasks, WakeTask(q) PROVE waking[t] # "idle" => waking'[t] = waking[t]
  BY <1>1, <1>5 DEF WakeTask
<1>6. CASE WakeStep(t)
  BY <1>1, <1>2, <1>6 DEF WakeStep, NotifyWake, InterruptWake, NotifyReady, WakeDriver
<1>7. ASSUME NEW u \in Workers, WorkerMove(u) PROVE UNCHANGED waking
  BY <1>7 DEF WorkerMove, WorkerStep, CommandStep, CheckCommands, NoCommand, RegisterTask, AccessIo,
    AccessFails, AccessFailed, ShutdownCommand, CycleStep, BeginCycle, CycleShutdown, EndCycle,
    PollPending, PollInstalls, PollReady, PollPanics, PollStops, PollStopped, CancelTask, CloseStep,
    CloseWorker, Release, Retired, RetirePanics, PanicReported, JoinPool, ThreadEnds, WaitStep, Drive,
    IoWait, IoInterrupted, Unpark, FailureStopped, WaitEnds, DriverFails, requestVars, rtVars
<1> QED
  BY <1>2, <1>3, <1>4, <1>5, <1>6, <1>7, Moves DEF OtherMove, RequestStep, Dispatch, Send, NotifyWorker,
      InterruptWorker, StopStep, StopElect, StopSend, StopNotify, StopInterrupt, HostStop, HostWait,
      ControlStop, vars, rtVars, requestVars

\* The broadcaster, too, finishes with an endpoint before it goes on.
LEMMA StopWakes ==
  ASSUME PoolInv, Types, StopOK, [Next]_vars, NEW w \in Workers, NEW c \in Callers, target = w
  PROVE  /\ stopper[c] = "notifying" =>
              target' = w /\ (stopper'[c] = "notifying" \/ (stopper'[c] = "interrupting" /\ notified'[w]))
         /\ stopper[c] = "interrupting" /\ primary[w] =>
              (target' = w /\ stopper'[c] = "interrupting") \/ interrupted'[w]
<1> SUFFICES ASSUME stopper[c] \in {"notifying", "interrupting"}
             PROVE  /\ stopper[c] = "notifying" =>
                         target' = w /\ (stopper'[c] = "notifying" \/ (stopper'[c] = "interrupting" /\ notified'[w]))
                    /\ stopper[c] = "interrupting" /\ primary[w] =>
                         (target' = w /\ stopper'[c] = "interrupting") \/ interrupted'[w]
  OBVIOUS
<1>1. /\ notified \in [Workers -> BOOLEAN] /\ primary \in [Workers -> BOOLEAN]
      /\ interrupted \in [Workers -> BOOLEAN] /\ Workers \subseteq Callers
      /\ stopper \in [Callers -> {"idle", "begun", "sending", "notifying", "interrupting", "stopped"}]
  BY DEF PoolInv, PoolTypeOK, SignalTypeOK, Types, StopTypes, Callers
<1>2. CASE UNCHANGED stopVars
  BY <1>2 DEF stopVars
<1>3. ASSUME NEW d \in Callers, NEW k \in Causes, StopBegin(d, k), target' = target
      PROVE  stopper'[c] = stopper[c] /\ target' = target
  BY <1>1, <1>3 DEF StopBegin
<1>4. ASSUME NEW d \in Workers, StopReturned(d) PROVE stopper'[c] = stopper[c] /\ target' = target
  BY <1>1, <1>4 DEF StopReturned
<1>5. ASSUME NEW d \in Callers, d # c, StopStep(d) PROVE stopper'[c] = stopper[c] /\ target' = target
  <2>1. stopper[d] \notin Broadcasting
    BY <1>5 DEF StopOK, Broadcasting
  <2> QED
    BY <1>1, <1>5, <2>1 DEF StopStep, StopElect, StopSend, StopNotify, StopInterrupt, Broadcasting
<1>6. CASE StopStep(c)
  BY <1>1, <1>6 DEF StopStep, StopElect, StopSend, StopNotify, StopInterrupt, NotifyReady, WakeDriver
<1> QED
  BY <1>2, <1>3, <1>4, <1>5, <1>6, StopMoves

LEMMA NoticeStays ==
  ASSUME PoolInv, Types, CallersOK, StopOK, [Next]_vars, NEW w \in Workers,
         WakeOnItsWay(w, {"notifying"})
  PROVE  WakeOnItsWay(w, {"notifying"})' \/ notified'[w]
BY RequestWakes, TaskWakes, StopWakes DEF WakeOnItsWay

LEMMA InterruptStays ==
  ASSUME PoolInv, Types, CallersOK, StopOK, [Next]_vars, NEW w \in Workers, primary[w],
         WakeOnItsWay(w, {"notifying", "interrupting"})
  PROVE  WakeOnItsWay(w, {"notifying", "interrupting"})' \/ interrupted'[w]
BY RequestWakes, TaskWakes, StopWakes DEF WakeOnItsWay
-----------------------------------------------------------------------------
(* The blocking pool inside the runtime. *)

LEMMA WorkerTypes ==
  ASSUME PoolInv, Types, LoopOK, NEW w \in Workers, WorkerMove(w)
  PROVE  Types' /\ SignalTypeOK'
<1>1. CASE \/ WaitStep(w) \/ \E from \in {"parked", "ioWait"} : WaitEnds(w, from)
           \/ \E from \in {"drive", "ioWait"}, k \in Failures \ {"create"} : DriverFails(w, from, k)
  BY <1>1, WaitStepTypes, RuntimeAssumption
<1> QED
  BY <1>1, CommandStepTypes, CycleStepTypes, CloseStepTypes DEF WorkerMove, WorkerStep

LEMMA TypesNext ==
  ASSUME PoolInv, Types, LoopOK, CallersOK, [Next]_vars
  PROVE  Types' /\ (SignalTypeOK' \/ (PoolStep /\ UNCHANGED rtVars))
<1>1. UNCHANGED rtVars => Types'
  BY DEF Types, RequestTypes, ChannelTypes, LoopTypes, StopTypes, rtVars, requestVars, workerVars,
              stopVars, queueVars
<1>2. CASE UNCHANGED vars
  BY <1>1, <1>2 DEF PoolInv, PoolTypeOK, SignalTypeOK, vars, signalVars
<1>3. CASE PoolStep /\ UNCHANGED rtVars
  BY <1>1, <1>3
<1>4. CASE HostStop \/ HostWait \/ \E c \in Controls : ControlStop(c)
  BY <1>4, StopStepTypes DEF Callers
<1>5. CASE OtherMove
  BY <1>2, <1>3, <1>4, <1>5, RequestStepTypes, WakeStepTypes, StopStepTypes DEF OtherMove
<1>6. ASSUME NEW w \in Workers, WorkerMove(w) PROVE Types' /\ SignalTypeOK'
  BY <1>6, WorkerTypes
<1> QED
  BY <1>5, <1>6, Moves

\* A step of the runtime is a step of the pool's own specification, or leaves
\* the pool alone.  A worker that joins has closed its channel, so the shutdown
\* has started.
LEMMA PoolMoves ==
  ASSUME LoopOK, CauseOK, [Next]_vars
  PROVE  [PoolNext]_poolAllVars \/ (UNCHANGED poolVars /\ ~(PoolStep /\ UNCHANGED rtVars))
<1>1. CASE PoolStep \/ UNCHANGED vars
  BY <1>1 DEF PoolNext, vars, poolAllVars
<1>2. ASSUME NEW w \in Workers, JoinPool(w) PROVE PoolNext
  <2>1. closed[w]
    BY <1>2 DEF JoinPool, LoopOK, LoopOf, Gone
  <2>2. Started
    BY <2>1 DEF CauseOK
  <2> QED
    BY <1>2, <2>2 DEF JoinPool, PoolNext, JoinStep
<1>3. CASE OtherMove /\ ~PoolStep /\ ~UNCHANGED vars
  BY <1>3 DEF OtherMove, RequestStep, Dispatch, Send, NotifyWorker, InterruptWorker, WakeStep, WakeTask,
    NotifyWake, InterruptWake, StopStep, StopElect, StopSend, StopNotify, StopInterrupt, HostStop,
    HostWait, ControlStop
<1>4. ASSUME NEW w \in Workers, WorkerMove(w), ~JoinPool(w) PROVE UNCHANGED poolVars
  BY <1>4 DEF WorkerMove, WorkerStep, CommandStep, CheckCommands, NoCommand, RegisterTask, AccessIo,
    AccessFails, AccessFailed, ShutdownCommand, CycleStep, BeginCycle, CycleShutdown, EndCycle,
    PollPending, PollInstalls, PollReady, PollPanics, PollStops, PollStopped, CancelTask, CloseStep,
    CloseWorker, Release, Retired, RetirePanics, PanicReported, ThreadEnds, WaitStep, Drive,
    IoWait, IoInterrupted, Unpark, FailureStopped, WaitEnds, DriverFails
<1> QED
  BY <1>1, <1>2, <1>3, <1>4, Moves

LEMMA PoolFrame ==
  ASSUME UNCHANGED poolVars
  PROVE  /\ PoolInv /\ SignalTypeOK' => PoolInv'
         /\ ClosedOK => ClosedOK'
         /\ LocatedOK => LocatedOK'
         /\ PlacesOK => PlacesOK'
<1> USE DEF poolVars, callVars, threadVars
<1>1. PoolInv /\ SignalTypeOK' => PoolInv'
  BY DEF PoolInv, PoolTypeOK, CallTypes, ThreadTypes, QueueTypes, WithinLimit, CountersExact, Alive
<1>2. ClosedOK => ClosedOK'
  BY DEF ClosedOK, Alive
<1>3. LocatedOK => LocatedOK'
  BY DEF LocatedOK, Located
<1>4. PlacesOK => PlacesOK'
  BY DEF PlacesOK, BusyOK, CallsOK, ChannelOK, HoldersOK, Holding
<1> QED
  BY <1>1, <1>2, <1>3, <1>4

PoolOK == PoolInv /\ ClosedOK /\ LocatedOK /\ PlacesOK

LEMMA PoolKeeps ==
  ASSUME PoolOK, Types, LoopOK, CallersOK, CauseOK, [Next]_vars
  PROVE  PoolOK'
<1>1. CASE [PoolNext]_poolAllVars
  BY <1>1, PoolNextInv, ClosedNext, LocatedNext, PlacesNext DEF PoolOK
<1>2. CASE UNCHANGED poolVars /\ ~(PoolStep /\ UNCHANGED rtVars)
  BY <1>2, TypesNext, PoolFrame DEF PoolOK
<1> QED
  BY <1>1, <1>2, PoolMoves

LEMMA OwnersNext ==
  ASSUME PoolInv, OwnersOK, LoopOK, CauseOK, [Next]_vars
  PROVE  OwnersOK' /\ \A j \in Jobs : call[j] # "idle" => call'[j] # "idle" /\ owner'[j] = owner[j]
<1>1. call \in [Jobs -> CallLabels] /\ owner \in [Jobs -> Workers \cup {NoWorker}]
  BY DEF PoolInv, PoolTypeOK, CallTypes
<1>2. CASE UNCHANGED callVars
  BY <1>2 DEF OwnersOK, callVars
<1>3. ASSUME NEW j \in Jobs, NEW w \in Workers, SpawnBlocking(j, w)
      PROVE  OwnersOK' /\ \A i \in Jobs : call[i] # "idle" => call'[i] # "idle" /\ owner'[i] = owner[i]
  <2>1. /\ call[j] = "idle" /\ owner'[j] = w
        /\ \A i \in Jobs : i # j => call'[i] = call[i] /\ owner'[i] = owner[i]
    BY <1>1, <1>3 DEF SpawnBlocking
  <2> QED
    BY <2>1 DEF OwnersOK
<1>4. ASSUME NEW j \in Jobs, CallStep(j)
      PROVE  OwnersOK' /\ \A i \in Jobs : call[i] # "idle" => call'[i] # "idle" /\ owner'[i] = owner[i]
  <2>1. owner' = owner /\ call[j] # "idle" /\ call'[j] # "idle" /\ \A i \in Jobs : i # j => call'[i] = call[i]
    BY <1>1, <1>4 DEF CallStep, Execute, Measure, Grow
  <2> QED
    BY <2>1 DEF OwnersOK
<1>5. ASSUME NEW k \in Threads, ThreadStep(k) PROVE UNCHANGED callVars
  BY <1>5 DEF ThreadStep, Receive, ExitThread, CountActive, CountDequeued, StartJob, CompleteJob, PanicJob,
    WakeOwner, InterruptOwner, PublishPanic, FinishJob
<1>6. ASSUME NEW w \in Workers, JoinStep(w) PROVE UNCHANGED callVars
  BY <1>6 DEF JoinStep, TakePool, JoinThreads
<1>7. CASE RequestStop \/ UNCHANGED poolAllVars \/ UNCHANGED poolVars
  BY <1>2, <1>7 DEF RequestStop, poolAllVars, poolVars
<1> QED
  BY <1>2, <1>3, <1>4, <1>5, <1>6, <1>7, PoolMoves DEF PoolNext, PoolStep

\* A thread that tells a panic goes on to the notification of the worker, and
\* then to the interrupt; the job it holds and the owner of the job stay.
LEMMA ThreadWakes ==
  ASSUME PoolInv, PlacesOK, OwnersOK, LoopOK, CauseOK, [Next]_vars,
         NEW w \in Workers, NEW k \in Threads, owner[holding[k]] = w
  PROVE  /\ thread[k] = "waking" =>
              /\ owner'[holding'[k]] = w
              /\ thread'[k] = "waking" \/ (thread'[k] = "interrupting" /\ notified'[w])
         /\ thread[k] = "interrupting" =>
              \/ owner'[holding'[k]] = w /\ thread'[k] = "interrupting"
              \/ primary[w] => interrupted'[w]
<1> SUFFICES ASSUME thread[k] \in {"waking", "interrupting"}
             PROVE  /\ thread[k] = "waking" =>
                         /\ owner'[holding'[k]] = w
                         /\ thread'[k] = "waking" \/ (thread'[k] = "interrupting" /\ notified'[w])
                    /\ thread[k] = "interrupting" =>
                         \/ owner'[holding'[k]] = w /\ thread'[k] = "interrupting"
                         \/ primary[w] => interrupted'[w]
  OBVIOUS
<1>1. /\ thread \in [Threads -> ThreadLabels] /\ holding \in [Threads -> Jobs \cup {NoJob}]
      /\ notified \in [Workers -> BOOLEAN] /\ primary \in [Workers -> BOOLEAN]
      /\ interrupted \in [Workers -> BOOLEAN] /\ size \in Nat /\ Alive = 1..size
  BY PoolAssumption
     DEF PoolInv, PoolTypeOK, ThreadTypes, SignalTypeOK, QueueTypes, Threads, WithinLimit
<1>2. holding[k] # NoJob /\ holding[k] \in Jobs
  BY <1>1 DEF PlacesOK, BusyOK, Working
<1>3. call[holding[k]] # "idle"
  BY <1>2 DEF PlacesOK, CallsOK, HoldersOK, Holding, Dequeuing, Working
<1>4. owner'[holding[k]] = w
  BY <1>2, <1>3, OwnersNext
<1>5. CASE UNCHANGED <<thread, holding>>
  BY <1>4, <1>5
<1>6. ASSUME NEW i \in Threads, i # k, ThreadStep(i) PROVE thread'[k] = thread[k] /\ holding'[k] = holding[k]
  BY <1>1, <1>6 DEF ThreadStep, Receive, ExitThread, CountActive, CountDequeued, StartJob, CompleteJob,
    PanicJob, WakeOwner, InterruptOwner, PublishPanic, FinishJob, Goto
<1>7. CASE ThreadStep(k)
  <2>1. (thread[k] = "waking" /\ WakeOwner(k)) \/ (thread[k] = "interrupting" /\ InterruptOwner(k))
    BY <1>7 DEF ThreadStep, Receive, ExitThread, CountActive, CountDequeued, StartJob, CompleteJob,
      PanicJob, WakeOwner, InterruptOwner, PublishPanic, FinishJob, Goto
  <2> QED
    BY <1>1, <1>4, <2>1 DEF WakeOwner, InterruptOwner, Goto, NotifyReady, WakeDriver
<1>8. ASSUME NEW j \in Jobs, CallStep(j) PROVE thread'[k] = thread[k] /\ holding'[k] = holding[k]
  <2>1. k # size + 1
    BY <1>1 DEF Alive
  <2> QED
    BY <1>1, <1>8, <2>1 DEF CallStep, Execute, Measure, Grow, threadVars
<1>9. CASE \/ \E j \in Jobs, u \in Workers : SpawnBlocking(j, u)
           \/ RequestStop \/ UNCHANGED poolAllVars \/ UNCHANGED poolVars
           \/ \E u \in Workers : JoinStep(u)
  BY <1>5, <1>9 DEF SpawnBlocking, RequestStop, poolAllVars, poolVars, JoinStep, TakePool, JoinThreads,
    threadVars
<1> QED
  BY <1>4, <1>6, <1>7, <1>8, <1>9, PoolMoves DEF PoolNext, PoolStep

LEMMA PanicsStay ==
  ASSUME PoolInv, PlacesOK, OwnersOK, LoopOK, CauseOK, [Next]_vars, NEW w \in Workers
  PROVE  /\ Panics(w, {"waking"}) => Panics(w, {"waking"})' \/ notified'[w]
         /\ Panics(w, {"waking", "interrupting"}) /\ primary[w] =>
              Panics(w, {"waking", "interrupting"})' \/ interrupted'[w]
BY ThreadWakes DEF Panics
-----------------------------------------------------------------------------
(* Nobody sleeps on work. *)

\* Who gives a worker something to do has the wake still to make.
LEMMA NewWork ==
  ASSUME PoolInv, Types, CallersOK, WithWorker, OtherMove, NEW w \in Workers,
         commands'[w] # commands[w] \/ ready'[w] # ready[w]
  PROVE  WakeOnItsWay(w, {"notifying"})'
<1>1. /\ commands \in [Workers -> Seq(Command)] /\ ready \in [Workers -> SUBSET Tasks]
      /\ request \in [Requests -> {"idle", "checked", "notifying", "interrupting", "returned"}]
      /\ waking \in [Tasks -> WakeLabels]
      /\ stopper \in [Callers -> {"idle", "begun", "sending", "notifying", "interrupting", "stopped"}]
  BY DEF Types, ChannelTypes, RequestTypes, StopTypes, Command
<1>2. ASSUME NEW r \in Requests, Send(r) PROVE WakeOnItsWay(w, {"notifying"})'
  <2>1. ready' = ready /\ home' = home /\ request'[r] = "notifying"
    BY <1>1, <1>2 DEF Send
  <2>2. home[r] = w
    BY <1>1, <1>2, <2>1 DEF Send
  <2> QED
    BY <2>1, <2>2 DEF WakeOnItsWay
<1>3. ASSUME NEW c \in Callers, NEW u \in Workers, StopSend(c, u) PROVE WakeOnItsWay(w, {"notifying"})'
  <2>1. ready' = ready /\ target' = u /\ stopper'[c] = "notifying"
    BY <1>1, <1>3 DEF StopSend
  <2>2. u = w
    BY <1>1, <1>3, <2>1 DEF StopSend
  <2> QED
    BY <2>1, <2>2 DEF WakeOnItsWay
<1>4. ASSUME NEW t \in Tasks, WakeTask(t) PROVE WakeOnItsWay(w, {"notifying"})'
  <2>1. commands' = commands /\ home' = home /\ waking'[t] = "notifying"
    BY <1>1, <1>4 DEF WakeTask
  <2>2. t \in tasks[w]
    BY <1>1, <1>4, <2>1 DEF WakeTask
  <2>3. home[t] = w
    BY <2>2 DEF WithWorker, At, Requests
  <2> QED
    BY <2>1, <2>3 DEF WakeOnItsWay
<1>5. ASSUME UNCHANGED <<commands, ready>> PROVE FALSE
  BY <1>5
<1> QED
  BY <1>2, <1>3, <1>4, <1>5 DEF OtherMove, RequestStep, Dispatch, NotifyWorker, InterruptWorker, WakeStep,
    NotifyWake, InterruptWake, StopStep, StopElect, StopNotify, StopInterrupt, HostStop,
    HostWait, ControlStop, vars, rtVars, queueVars

\* A notice is lost only to the worker itself, as it stops waiting.
LEMMA NoticeKept ==
  ASSUME PoolInv, Types, CallersOK, StopOK, [Next]_vars, NEW w \in Workers, Notice(w),
         pc[w] \in {"ioCheck", "parked"} => pc'[w] = pc[w]
  PROVE  Notice(w)'
BY NoticeStays, SignalsStay DEF Notice

LEMMA InterruptKept ==
  ASSUME PoolInv, Types, LoopOK, CallersOK, StopOK, [Next]_vars, NEW w \in Workers, Interrupt(w),
         pc[w] = "ioWait", pc'[w] = "ioWait"
  PROVE  Interrupt(w)'
<1>1. primary[w]
  BY DEF LoopOK, LoopOf
<1> QED
  BY <1>1, InterruptStays, SignalsStay DEF Interrupt

\* A worker that takes a step and then waits, or may wait, has a notice of what
\* it has not seen.
LEMMA OwnSleep ==
  ASSUME PoolInv, Types, LoopOK, CallersOK, WithWorker, StopOK, SleepOK, [Next]_vars,
         NEW w \in Workers, WorkerMove(w)
  PROVE  SleepOf(w)'
<1>1. /\ pc \in [Workers -> Labels] /\ exhausted \in [Workers -> BOOLEAN]
      /\ notified \in [Workers -> BOOLEAN] /\ SleepOf(w) /\ LoopOf(w)
  BY DEF Types, LoopTypes, PoolInv, PoolTypeOK, SignalTypeOK, SleepOK, LoopOK
<1>2. CASE CommandStep(w)
  <2>1. /\ pc'[w] \notin {"cycle", "parked", "ioCheck", "ioWait"}
        /\ pc'[w] = "prepare" => exhausted'[w] \/ commands'[w] = <<>>
    BY <1>1, <1>2 DEF CommandStep, CheckCommands, NoCommand, RegisterTask, AccessIo, AccessFails, AccessFailed,
               ShutdownCommand, CommandDone, Step, queueVars
  <2> QED
    BY <2>1 DEF SleepOf
<1>3. CASE CycleStep(w) /\ ~EndCycle(w)
  <2>1. /\ pc'[w] \notin {"prepare", "parked", "ioCheck", "ioWait"}
        /\ pc'[w] = "cycle" => pc[w] \in {"prepare", "cycle"} /\ UNCHANGED <<commands, exhausted>>
    BY <1>1, <1>3 DEF CycleStep, BeginCycle, CycleShutdown, PollPending, PollInstalls, PollReady, PollPanics,
               PollStops, PollStopped, CancelTask, Step, workerVars, queueVars
  <2>2. CASE pc'[w] = "cycle" /\ ~exhausted'[w] /\ commands'[w] # <<>>
    BY <1>1, <2>1, <2>2, NoticeKept DEF SleepOf
  <2> QED
    BY <2>1, <2>2 DEF SleepOf
<1>4. CASE EndCycle(w)
  <2>1. /\ pc[w] = "cycle" /\ pc'[w] \notin {"prepare", "cycle", "ioWait"}
        /\ UNCHANGED <<commands, ready>>
        /\ pc'[w] \in {"parked", "ioCheck"} => CanSuspend(w)
    BY <1>1, <1>4 DEF EndCycle, Step, queueVars
  <2>2. CASE pc'[w] \in {"parked", "ioCheck"} /\ HasWork(w)'
    <3>1. CASE commands[w] # <<>>
      BY <1>1, <2>1, <2>2, <3>1, NoticeKept DEF SleepOf, CanSuspend
    <3>2. CASE ready[w] # {}
      <4>1. PICK t \in ready[w] : waking[t] = "notifying" \/ notified[w]
        BY <2>1, <2>2, <3>2 DEF CanSuspend
      <4>2. t \in tasks[w] /\ t \in Tasks
        BY <1>1, <4>1 DEF LoopOf, Types, ChannelTypes
      <4>3. home[t] = w
        BY <4>2 DEF WithWorker, At, Requests
      <4>4. Notice(w)
        BY <4>1, <4>2, <4>3 DEF Notice, WakeOnItsWay
      <4> QED
        BY <2>1, <4>4, NoticeKept DEF SleepOf
    <3> QED
      BY <2>1, <2>2, <3>1, <3>2 DEF HasWork
  <2> QED
    BY <2>1, <2>2 DEF SleepOf
<1>5. CASE IoWait(w)
  <2>1. /\ pc[w] = "ioCheck" /\ pc'[w] \in {"drive", "ioWait"} /\ UNCHANGED <<commands, ready>>
        /\ pc'[w] = "ioWait" => ~notified[w] /\ ~notified'[w]
    BY <1>1, <1>5 DEF IoWait, Step, queueVars
  <2>2. CASE pc'[w] = "ioWait" /\ HasWork(w)'
    <3>1. WakeOnItsWay(w, {"notifying"})
      BY <1>1, <2>1, <2>2 DEF SleepOf, HasWork, Notice
    <3>2. WakeOnItsWay(w, {"notifying"})'
      BY <2>1, <2>2, <3>1, NoticeStays
    <3>3. WakeOnItsWay(w, {"notifying", "interrupting"})'
      BY <3>2 DEF WakeOnItsWay
    <3> QED
      BY <2>1, <3>3 DEF SleepOf, Interrupt
  <2> QED
    BY <2>1, <2>2 DEF SleepOf
<1>6. CASE \/ WaitStep(w) /\ ~IoWait(w)
           \/ \E from : WaitEnds(w, from)
           \/ \E from, k : DriverFails(w, from, k)
           \/ CloseStep(w)
  <2>1. pc'[w] \notin {"prepare", "cycle", "parked", "ioCheck", "ioWait"}
    BY <1>1, <1>6 DEF WaitStep, Drive, IoInterrupted, Unpark, FailureStopped, WaitEnds, DriverFails, Step,
      CloseStep, CloseWorker, Release, Retired, RetirePanics, PanicReported, JoinPool, ThreadEnds,
      rtVars, workerVars
  <2> QED
    BY <2>1 DEF SleepOf
<1> QED
  BY <1>2, <1>3, <1>4, <1>5, <1>6 DEF WorkerMove, WorkerStep

LEMMA SleepNext ==
  ASSUME PoolInv, Types, LoopOK, RequestsOK, StopOK, SleepOK, [Next]_vars
  PROVE  SleepOK'
<1> SUFFICES ASSUME NEW u \in Workers PROVE SleepOf(u)'
  BY DEF SleepOK
<1> CallersOK /\ WithWorker /\ SleepOf(u)
  BY DEF RequestsOK, SleepOK
<1>1. CASE WorkerMove(u)
  BY <1>1, OwnSleep
<1>2. ASSUME pc'[u] = pc[u], exhausted'[u] = exhausted[u],
             \/ commands'[u] = commands[u] /\ ready'[u] = ready[u]
             \/ WakeOnItsWay(u, {"notifying"})'
      PROVE  SleepOf(u)'
  <2>1. CASE WakeOnItsWay(u, {"notifying"})'
    <3>1. WakeOnItsWay(u, {"notifying", "interrupting"})'
      BY <2>1 DEF WakeOnItsWay
    <3> QED
      BY <2>1, <3>1 DEF SleepOf, Notice, Interrupt
  <2>2. CASE commands'[u] = commands[u] /\ ready'[u] = ready[u]
    <3>1. HasWork(u)' <=> HasWork(u)
      BY <2>2 DEF HasWork
    <3>2. Notice(u) => Notice(u)'
      BY <1>2, NoticeKept
    <3>3. Interrupt(u) /\ pc[u] = "ioWait" => Interrupt(u)'
      BY <1>2, InterruptKept
    <3> QED
      BY <1>2, <2>2, <3>1, <3>2, <3>3 DEF SleepOf
  <2> QED
    BY <1>2, <2>1, <2>2
<1>3. ASSUME NEW w \in Workers, w # u, WorkerMove(w) PROVE SleepOf(u)'
  BY <1>2, <1>3, Elsewhere
<1>4. CASE OtherMove
  <2>1. pc' = pc /\ exhausted' = exhausted
    BY <1>4, FromOutside DEF workerVars
  <2> QED
    BY <1>2, <1>4, <2>1, NewWork
<1> QED
  BY <1>1, <1>3, <1>4, Moves
-----------------------------------------------------------------------------
(* A shutdown that has started is carried on. *)

\* Once the shutdown has started no worker begins to wait; one that was about to
\* wait in its driver goes on only without a notification.
LEMMA NoNewWait ==
  ASSUME PoolInv, Types, [Next]_vars, Started, NEW w \in Workers
  PROVE  /\ pc'[w] \in {"parked", "ioCheck"} => pc'[w] = pc[w]
         /\ pc'[w] = "ioWait" => pc[w] = "ioWait" \/ (pc[w] = "ioCheck" /\ ~notified'[w])
<1>1. pc \in [Workers -> Labels] /\ notified \in [Workers -> BOOLEAN]
  BY DEF Types, LoopTypes, PoolInv, PoolTypeOK, SignalTypeOK
<1>2. CASE OtherMove
  BY <1>2, FromOutside DEF workerVars
<1>3. ASSUME NEW u \in Workers, u # w, WorkerMove(u) PROVE pc'[w] = pc[w]
  BY <1>3, Elsewhere
<1>4. CASE CommandStep(w) \/ CycleStep(w)
  <2>1. pc'[w] \notin {"parked", "ioCheck", "ioWait"}
    BY <1>1, <1>4 DEF CommandStep, CheckCommands, NoCommand, RegisterTask, AccessIo, AccessFails, AccessFailed,
      ShutdownCommand, CommandDone, CycleStep, BeginCycle, CycleShutdown, EndCycle, PollPending,
      PollInstalls, PollReady, PollPanics, PollStops, PollStopped, CancelTask, Step, workerVars
  <2> QED
    BY <2>1
<1>5. CASE \/ WaitStep(w) \/ \E from : WaitEnds(w, from)
           \/ \E from, k : DriverFails(w, from, k)
           \/ CloseStep(w)
  BY <1>1, <1>5 DEF WaitStep, Drive, IoWait, IoInterrupted, Unpark, FailureStopped, WaitEnds, DriverFails,
    Step, CloseStep, CloseWorker, Release, Retired, RetirePanics, PanicReported, JoinPool, ThreadEnds,
    rtVars, workerVars
<1> QED
  BY <1>2, <1>3, <1>4, <1>5, Moves DEF WorkerMove, WorkerStep

LEMMA CarriesStays ==
  ASSUME PoolOK, Types, LoopOK, CallersOK, StopOK, CauseOK, OwnersOK, [Next]_vars, Started,
         NEW w \in Workers, Carries(w)
  PROVE  Carries(w)'
<1>1. PoolInv /\ PlacesOK
  BY DEF PoolOK
<1>2. CASE pc'[w] \in {"parked", "ioCheck"}
  <2>1. pc[w] = pc'[w]
    BY <1>1, <1>2, NoNewWait
  <2>2. Notice(w) => Notice(w)'
    BY <1>1, <2>1, NoticeKept
  <2>3. Panics(w, {"waking"}) => Panics(w, {"waking"})' \/ Notice(w)'
    BY <1>1, PanicsStay DEF Notice
  <2> QED
    BY <1>2, <2>1, <2>2, <2>3 DEF Carries
<1>3. CASE pc'[w] = "ioWait" /\ pc[w] = "ioWait"
  <2>1. primary[w]
    BY <1>3 DEF LoopOK, LoopOf
  <2>2. Interrupt(w) => Interrupt(w)'
    BY <1>1, <1>3, InterruptKept
  <2>3. Panics(w, {"waking", "interrupting"}) => Panics(w, {"waking", "interrupting"})' \/ Interrupt(w)'
    BY <1>1, <2>1, PanicsStay DEF Interrupt
  <2> QED
    BY <1>3, <2>2, <2>3 DEF Carries
<1>4. CASE pc'[w] = "ioWait" /\ pc[w] = "ioCheck" /\ ~notified'[w]
  <2>1. notified \in [Workers -> BOOLEAN]
    BY <1>1 DEF PoolInv, PoolTypeOK, SignalTypeOK
  <2>2. ~notified[w]
    <3>1. IoWait(w)
      <4>1. pc \in [Workers -> Labels]
        BY DEF Types, LoopTypes
      <4>2. CASE OtherMove
        BY <1>4, <4>2, FromOutside DEF workerVars
      <4>3. ASSUME NEW u \in Workers, u # w, WorkerMove(u) PROVE FALSE
        BY <1>1, <1>4, <4>3, Elsewhere
      <4>4. CASE WorkerMove(w)
        BY <1>4, <4>1, <4>4 DEF WorkerMove, WorkerStep, CommandStep, CheckCommands, NoCommand, RegisterTask,
          AccessIo, AccessFails, AccessFailed, ShutdownCommand, CommandDone, CycleStep, BeginCycle,
          CycleShutdown, EndCycle, PollPending, PollInstalls, PollReady, PollPanics, PollStops,
          PollStopped, CancelTask, CloseStep, CloseWorker, Release, Retired, RetirePanics,
          PanicReported, JoinPool, ThreadEnds, WaitStep, Drive, IoInterrupted, Unpark,
          FailureStopped, WaitEnds, DriverFails, Step
      <4> QED
        BY <4>2, <4>3, <4>4, Moves
    <3> QED
      BY <1>4, <2>1, <3>1 DEF IoWait, Step, Types, LoopTypes
  <2>3. WakeOnItsWay(w, {"notifying"}) \/ Panics(w, {"waking"})
    BY <1>4, <2>2 DEF Carries, Notice
  <2>4. CASE WakeOnItsWay(w, {"notifying"})
    <3>1. WakeOnItsWay(w, {"notifying"})'
      BY <1>1, <1>4, <2>4, NoticeStays
    <3>2. WakeOnItsWay(w, {"notifying", "interrupting"})'
      BY <3>1 DEF WakeOnItsWay
    <3> QED
      BY <1>4, <3>2 DEF Carries, Interrupt
  <2>5. CASE Panics(w, {"waking"})
    <3>1. Panics(w, {"waking"})'
      BY <1>1, <1>4, <2>5, PanicsStay
    <3>2. Panics(w, {"waking", "interrupting"})'
      BY <3>1 DEF Panics
    <3> QED
      BY <1>4, <3>2 DEF Carries
  <2> QED
    BY <2>3, <2>4, <2>5
<1> QED
  BY <1>1, <1>2, <1>3, <1>4, NoNewWait DEF Carries

\* Who sets the cause: a call of stop, a worker that is awake, or a thread of the
\* pool that goes on to wake the worker of its job.
LEMMA CauseSet ==
  ASSUME PoolInv, Types, PlacesOK, OwnersOK, [Next]_vars, ~Started, Started'
  PROVE  \/ \E c \in Callers, k \in Causes : StopBegin(c, k)
         \/ \E w \in Workers : pc'[w] \in {"aborting", "cancelling"}
         \/ \E w \in Workers : Panics(w, {"waking"})'
<1>1. CASE cause' = cause
  BY <1>1 DEF Started
<1>2. ASSUME NEW k \in Threads, PanicJob(k) PROVE cause' = cause \/ \E w \in Workers : Panics(w, {"waking"})'
  <2>1. CASE cause' # cause
    <3>1. /\ thread \in [Threads -> ThreadLabels] /\ holding \in [Threads -> Jobs \cup {NoJob}]
      BY DEF PoolInv, PoolTypeOK, ThreadTypes
    <3>2. thread[k] = "running" /\ thread'[k] = "waking" /\ UNCHANGED <<holding, owner>>
      BY <1>2, <2>1, <3>1 DEF PanicJob, Goto, callVars
    <3>3. holding[k] \in Jobs /\ call[holding[k]] # "idle"
      BY <3>1, <3>2 DEF PlacesOK, BusyOK, CallsOK, HoldersOK, Holding, Dequeuing, Working
    <3>4. owner[holding[k]] \in Workers
      BY <3>3 DEF OwnersOK
    <3> QED
      BY <3>2, <3>4 DEF Panics
  <2> QED
    BY <2>1
<1>3. CASE OtherMove
  <2>1. CASE PoolStep
    BY <1>1, <1>2, <2>1 DEF PoolStep, SpawnBlocking, CallStep, Execute, Measure, Grow, ThreadStep,
      Receive, ExitThread, CountActive, CountDequeued, StartJob, CompleteJob, WakeOwner,
      InterruptOwner, PublishPanic, FinishJob, signalVars
  <2>2. CASE HostStop \/ \E c \in Controls : ControlStop(c)
    BY <2>2 DEF HostStop, ControlStop, Causes, Callers
  <2> QED
    BY <1>1, <1>3, <2>1, <2>2 DEF OtherMove, RequestStep, Dispatch, Send, NotifyWorker, InterruptWorker,
      WakeStep, WakeTask, NotifyWake, InterruptWake, StopStep, StopElect, StopSend, StopNotify,
      StopInterrupt, HostWait, vars, signalVars
<1>4. ASSUME NEW w \in Workers, WorkerMove(w)
      PROVE  \/ cause' = cause
             \/ \E k \in Causes : StopBegin(w, k)
             \/ pc'[w] \in {"aborting", "cancelling"}
  <2>1. pc \in [Workers -> Labels]
    BY DEF Types, LoopTypes
  <2>2. CASE CommandStep(w)
    BY <2>2 DEF CommandStep, CheckCommands, NoCommand, RegisterTask, AccessIo, AccessFails, AccessFailed,
      ShutdownCommand, signalVars, Causes
  <2>3. CASE CycleStep(w)
    BY <2>1, <2>3 DEF CycleStep, BeginCycle, CycleShutdown, EndCycle, PollPending, PollInstalls, PollReady,
      PollPanics, PollStops, PollStopped, CancelTask, signalVars, Causes, Step, workerVars
  <2>4. CASE CloseStep(w)
    BY <2>4 DEF CloseStep, CloseWorker, Release, Retired, RetirePanics, PanicReported, JoinPool,
      ThreadEnds, TakePool, JoinThreads, signalVars, Causes
  <2>5. CASE \/ WaitStep(w) \/ \E from : WaitEnds(w, from)
             \/ \E from, k : k \in Failures \ {"create"} /\ DriverFails(w, from, k)
    BY <2>5, RuntimeAssumption DEF WaitStep, Drive, IoWait, IoInterrupted, Unpark, FailureStopped,
      WaitEnds, DriverFails, signalVars, Causes
  <2> QED
    BY <1>4, <2>2, <2>3, <2>4, <2>5 DEF WorkerMove, WorkerStep
<1> QED
  BY <1>1, <1>3, <1>4, Moves DEF Callers

LEMMA CarryNext ==
  ASSUME PoolOK, Types, LoopOK, CallersOK, StopOK, CauseOK, OwnersOK, CarryOK, [Next]_vars
  PROVE  CarryOK'
<1>1. /\ PoolInv /\ PlacesOK
      /\ stopper \in [Callers -> {"idle", "begun", "sending", "notifying", "interrupting", "stopped"}]
      /\ Workers \subseteq Callers /\ NoWorker \notin Workers
  BY PoolAssumption DEF PoolOK, Types, StopTypes, Callers
<1>2. ASSUME Started, NEW w \in Workers, Carries(w) PROVE Carries(w)'
  BY <1>2, CarriesStays
<1>3. ASSUME Started', ~signaled'
      PROVE  (\E c \in Callers : stopper'[c] = "begun") \/ \E w \in Workers : Carries(w)'
  <2>1. ~signaled
    BY <1>3, SignaledStays
  <2>2. ASSUME Started, NEW c \in Callers, stopper[c] = "begun" PROVE stopper'[c] = "begun"
    <3>1. ASSUME NEW d \in Callers, StopStep(d) PROVE stopper'[c] = "begun"
      <4>1. d # c
        BY <1>3, <2>1, <2>2, <3>1 DEF StopStep, StopElect, StopSend, StopNotify, StopInterrupt
      <4> QED
        BY <1>1, <2>2, <3>1, <4>1 DEF StopStep, StopElect, StopSend, StopNotify, StopInterrupt
    <3>2. ASSUME NEW d \in Callers, NEW k \in Causes, StopBegin(d, k) PROVE stopper'[c] = "begun"
      BY <1>1, <2>2, <3>2 DEF StopBegin
    <3>3. ASSUME NEW d \in Workers, StopReturned(d) PROVE stopper'[c] = "begun"
      BY <1>1, <2>2, <3>3 DEF StopReturned
    <3> QED
      BY <2>2, <3>1, <3>2, <3>3, StopMoves DEF stopVars
  <2>3. CASE Started
    BY <1>2, <2>1, <2>2, <2>3 DEF CarryOK
  <2>4. CASE ~Started
    <3>1. ASSUME NEW c \in Callers, NEW k \in Causes, StopBegin(c, k) PROVE stopper'[c] = "begun"
      BY <1>1, <3>1 DEF StopBegin
    <3>2. ASSUME NEW w \in Workers, pc'[w] \in {"aborting", "cancelling"} PROVE Carries(w)'
      BY <3>2 DEF Carries
    <3>3. ASSUME NEW w \in Workers, Panics(w, {"waking"})' PROVE Carries(w)'
      <4>1. Panics(w, {"waking", "interrupting"})'
        BY <3>3 DEF Panics
      <4> QED
        BY <3>3, <4>1 DEF Carries
    <3> QED
      BY <1>1, <1>3, <2>4, <3>1, <3>2, <3>3, CauseSet
  <2> QED
    BY <2>3, <2>4
<1>4. ASSUME signaled', NEW w \in Workers, w \notin todo' \/ w = target' PROVE Carries(w)'
  <2>1. CASE signaled /\ (w \notin todo \/ w = target)
    BY <1>2, <2>1 DEF CarryOK, StopOK
  <2>2. CASE signaled /\ w \in todo /\ w # target
    <3>1. PICK c \in Callers : StopSend(c, w)
      <4>1. ~UNCHANGED <<todo, target>>
        BY <1>4, <2>2
      <4>2. PICK d \in Callers : StopStep(d)
        BY <4>1, StopMoves DEF stopVars, StopReturned
      <4> QED
        BY <1>1, <1>4, <2>2, <4>1, <4>2 DEF StopStep, StopElect, StopSend, StopNotify, StopInterrupt
    <3>2. target' = w /\ stopper'[c] = "notifying"
      BY <1>1, <3>1 DEF StopSend
    <3>3. WakeOnItsWay(w, {"notifying"})' /\ WakeOnItsWay(w, {"notifying", "interrupting"})'
      BY <3>2 DEF WakeOnItsWay
    <3> QED
      BY <3>3 DEF Carries, Notice, Interrupt
  <2>3. CASE ~signaled
    <3>1. target = NoWorker
      BY <2>3 DEF StopOK
    <3>2. PICK d \in Callers : StopStep(d)
      BY <1>4, <2>3, StopMoves DEF stopVars, StopReturned
    <3>3. stopper[d] \in {"idle", "begun"}
      BY <2>3 DEF StopOK
    <3>4. todo' = Workers /\ target' = NoWorker
      BY <2>3, <3>1, <3>2, <3>3 DEF StopStep, StopElect, StopSend, StopNotify, StopInterrupt
    <3> QED
      BY <1>1, <1>4, <3>4
  <2> QED
    BY <2>1, <2>2, <2>3 DEF Types, StopTypes
<1> QED
  BY <1>3, <1>4 DEF CarryOK

LEMMA ResultStays ==
  ASSUME [Next]_vars, ~HostWait
  PROVE  result' = result
<1>1. CASE OtherMove
  BY <1>1 DEF OtherMove, RequestStep, Dispatch, Send, NotifyWorker, InterruptWorker, WakeStep, WakeTask,
    NotifyWake, InterruptWake, StopStep, StopElect, StopSend, StopNotify, StopInterrupt, HostStop,
    ControlStop, vars, rtVars
<1>2. ASSUME NEW w \in Workers, WorkerMove(w) PROVE result' = result
  <2>1. CASE CommandStep(w)
    BY <2>1 DEF CommandStep, CheckCommands, NoCommand, RegisterTask, AccessIo, AccessFails, AccessFailed,
      ShutdownCommand
  <2>2. CASE CycleStep(w)
    BY <2>2 DEF CycleStep, BeginCycle, CycleShutdown, EndCycle, PollPending, PollInstalls, PollReady,
      PollPanics, PollStops, PollStopped, CancelTask
  <2>3. CASE CloseStep(w)
    BY <2>3 DEF CloseStep, CloseWorker, Release, Retired, RetirePanics, PanicReported, JoinPool,
      ThreadEnds, rtVars
  <2>4. CASE \/ WaitStep(w) \/ \E from : WaitEnds(w, from)
             \/ \E from, k : DriverFails(w, from, k)
    BY <2>4 DEF WaitStep, Drive, IoWait, IoInterrupted, Unpark, FailureStopped, WaitEnds, DriverFails
  <2> QED
    BY <1>2, <2>1, <2>2, <2>3, <2>4 DEF WorkerMove, WorkerStep
<1> QED
  BY <1>1, <1>2, Moves

\* Nothing happens to an exited worker, so what Runtime::stop returned stays true.
LEMMA DoneNext ==
  ASSUME PoolInv, Types, StopOK, DoneOK, [Next]_vars
  PROVE  DoneOK'
<1>1. CASE HostWait
  <2>1. /\ stopper["host"] = "stopped" /\ "host" \in Callers /\ \A w \in Workers : pc[w] = "exited"
        /\ UNCHANGED <<pc, panicked, cause>>
        /\ result' = IF HasError(cause) \/ \E w \in Workers : panicked[w] THEN "err" ELSE "ok"
    BY <1>1 DEF HostWait, workerVars, signalVars, Callers
  <2>2. Started /\ cause \in Causes \cup {"none"}
    BY <2>1 DEF StopOK, PoolInv, PoolTypeOK, SignalTypeOK
  <2> QED
    BY <2>1, <2>2 DEF DoneOK, HasError, Started, Causes
<1>2. CASE ~HostWait /\ result = "none"
  BY <1>2, ResultStays DEF DoneOK
<1>3. CASE result # "none"
  <2>1. /\ Started /\ \A w \in Workers : pc[w] = "exited"
        /\ result = "ok" => cause = "stop" /\ \A w \in Workers : ~panicked[w]
    BY <1>3 DEF DoneOK
  <2>2. ASSUME NEW w \in Workers, WorkerMove(w) PROVE FALSE
    BY <2>1, <2>2 DEF WorkerMove, WorkerStep, CommandStep, CheckCommands, NoCommand, RegisterTask,
      AccessIo, AccessFails, AccessFailed, ShutdownCommand, CommandDone, CycleStep, BeginCycle,
      CycleShutdown, EndCycle, PollPending, PollInstalls, PollReady, PollPanics, PollStops,
      PollStopped, CancelTask, CloseStep, CloseWorker, Release, Retired, RetirePanics,
      PanicReported, JoinPool, ThreadEnds, WaitStep, Drive, IoWait, IoInterrupted, Unpark,
      FailureStopped, WaitEnds, DriverFails, Step
  <2>3. OtherMove
    BY <2>2, Moves
  <2>4. cause' = cause /\ pc' = pc /\ panicked' = panicked
    BY <2>1, <2>3, CauseStays, FromOutside DEF workerVars
  <2>5. result' = result
    BY <1>3, ResultStays DEF HostWait
  <2> QED
    BY <2>1, <2>4, <2>5 DEF DoneOK, Started
<1> QED
  BY <1>1, <1>2, <1>3
-----------------------------------------------------------------------------
(* The invariant, and what it says. *)

RuntimeInv ==
  /\ PoolOK /\ Types /\ LoopOK /\ StopOK /\ CauseOK /\ RequestsOK
  /\ SleepOK /\ OwnersOK /\ CarryOK /\ DoneOK

LEMMA RuntimeInit == Init => RuntimeInv
<1> SUFFICES ASSUME Init PROVE RuntimeInv
  OBVIOUS
<1>1. PoolOK
  BY PoolInitInv, JoinInit, PlacesInit DEF PoolOK, Init
<1>2. Batch \in Nat \ {0} /\ Batch \in 1..Batch
  BY RuntimeAssumption
<1>3. Types
  <2>1. RequestTypes /\ StopTypes
    BY DEF Init, RequestTypes, StopTypes, WakeLabels
  <2>2. ChannelTypes
    BY DEF Init, ChannelTypes
  <2>3. LoopTypes
    BY <1>2 DEF Init, LoopTypes, Labels
  <2> QED
    BY <2>1, <2>2, <2>3 DEF Types
<1>4. LoopOK
  BY <1>2 DEF Init, LoopOK, LoopOf, Gone
<1>5. ~Started /\ ~signaled
  BY DEF Init, PoolStart, SignalInit, Started
<1>6. StopOK /\ CauseOK /\ DoneOK /\ CarryOK
  BY <1>5 DEF Init, StopOK, Broadcasting, CauseOK, DoneOK, CarryOK
<1>7. RequestsOK
  <2>1. \A w \in Workers : Elems(commands[w]) = {} /\ tasks[w] = {} /\ Once(commands[w])
    BY DEF Init, Elems, Once
  <2> QED
    BY <2>1 DEF Init, RequestsOK, CallersOK, WithWorker, HeldOK, Apart, At
<1>8. SleepOK
  BY DEF Init, SleepOK, SleepOf
<1>9. OwnersOK
  BY DEF Init, PoolStart, PoolInit, OwnersOK
<1> QED
  BY <1>1, <1>3, <1>4, <1>6, <1>7, <1>8, <1>9 DEF RuntimeInv

LEMMA RuntimeNext == RuntimeInv /\ [Next]_vars => RuntimeInv'
<1> SUFFICES ASSUME RuntimeInv, [Next]_vars PROVE RuntimeInv'
  OBVIOUS
<1>1. /\ PoolOK /\ PoolInv /\ PlacesOK /\ Types /\ LoopOK /\ StopOK /\ CauseOK /\ RequestsOK
      /\ CallersOK /\ SleepOK /\ OwnersOK /\ CarryOK /\ DoneOK
  BY DEF RuntimeInv, RequestsOK, PoolOK
<1>2. PoolOK' /\ Types'
  BY <1>1, PoolKeeps, TypesNext
<1>3. LoopOK' /\ StopOK' /\ CauseOK' /\ RequestsOK'
  BY <1>1, LoopNext, StopNext, CauseNext, RequestsNext
<1>4. SleepOK' /\ OwnersOK'
  BY <1>1, SleepNext, OwnersNext
<1>5. CarryOK' /\ DoneOK'
  BY <1>1, CarryNext, DoneNext
<1> QED
  BY <1>2, <1>3, <1>4, <1>5 DEF RuntimeInv

\* Every variable of the runtime keeps its type: among others the budget of a
\* batch of commands never goes below zero, and a channel has commands only.
THEOREM RuntimeTyping == Spec => []TypeOK
<1>1. RuntimeInv => TypeOK
  BY DEF RuntimeInv, PoolOK, PoolInv, Types, TypeOK
<1> QED
  BY <1>1, RuntimeInit, RuntimeNext, PTL DEF Spec

\* A join handle resolves to a shutdown error, and a worker drops its command
\* receiver, only after somebody set the cause of the shutdown.
THEOREM CauseComesFirst == Spec => []ShutdownHasCause
<1>1. RuntimeInv => ShutdownHasCause
  BY DEF RuntimeInv, CauseOK, ShutdownHasCause
<1> QED
  BY <1>1, RuntimeInit, RuntimeNext, PTL DEF Spec

\* The places of one request add up to one while its handle is pending, and to
\* zero before and after: Core::enqueue against the drop of the receiver in
\* begin_shutdown.
LEMMA Placed ==
  ASSUME Types, RequestsOK
  PROVE  RequestIsHeld
<1> SUFFICES ASSUME NEW r \in Requests
             PROVE  LET w == home[r]
                        places == (IF request[r] = "checked" THEN 1 ELSE 0)
                                  + (IF w \in Workers
                                     THEN Cardinality({i \in DOMAIN commands[w] : commands[w][i] = r})
                                          + Cardinality({x \in {w} : r \in tasks[x]})
                                     ELSE 0)
                    IN places = (IF handle[r] = "pending" THEN 1 ELSE 0)
  BY DEF RequestIsHeld
<1> DEFINE w == home[r]
           Q == {i \in DOMAIN commands[w] : commands[w][i] = r}
           T == {x \in {w} : r \in tasks[x]}
<1>1. /\ request[r] = "idle" => handle[r] = "none"
      /\ request[r] # "idle" => w \in Workers
      /\ request[r] = "idle" => w = NoWorker
      /\ request[r] = "checked" => handle[r] = "pending"
  BY DEF RequestsOK, CallersOK
<1>2. CASE w \notin Workers
  BY <1>1, <1>2
<1>3. CASE w \in Workers
  <2>1. request[r] # "idle"
    BY <1>1, <1>3, PoolAssumption
  <2>2. Apart(w) /\ (At(r, w) => request[r] # "checked" /\ handle[r] = "pending")
    BY <1>3 DEF RequestsOK, WithWorker
  <2>3. handle[r] = "pending" => request[r] = "checked" \/ At(r, w)
    BY DEF RequestsOK, HeldOK
  <2>4. Q # {} <=> r \in Elems(commands[w])
    BY DEF Elems
  <2>5. T # {} <=> r \in tasks[w]
    OBVIOUS
  <2>6. ~(Q # {} /\ T # {})
    BY <2>2, <2>4, <2>5 DEF Apart
  <2>7. Cardinality(Q) = IF Q = {} THEN 0 ELSE 1
    <3>1. \A x, y \in Q : x = y
      BY <2>2 DEF Apart, Once
    <3> HIDE DEF Q
    <3> QED
      BY <3>1, AtMostOne
  <2>8. Cardinality(T) = IF T = {} THEN 0 ELSE 1
    <3>1. \A x, y \in T : x = y
      OBVIOUS
    <3> HIDE DEF T
    <3> QED
      BY <3>1, AtMostOne
  <2>9. (Q # {} \/ T # {}) <=> At(r, w)
    BY <2>4, <2>5 DEF At
  <2> HIDE DEF Q, T
  <2>10. (IF request[r] = "checked" THEN 1 ELSE 0) + (Cardinality(Q) + Cardinality(T))
           = (IF handle[r] = "pending" THEN 1 ELSE 0)
    BY ONLY <1>1, <2>1, <2>2, <2>3, <2>6, <2>7, <2>8, <2>9
  <2> USE DEF Q, T
  <2> QED
    BY <1>3, <2>10
<1> QED
  BY <1>2, <1>3

\* A pending request is with its caller, in the channel of its worker or with
\* the worker's executor, in one place only: a send that races the closing of the
\* channel strands no join handle, and no task is registered twice.
THEOREM RequestsAreHeld == Spec => []RequestIsHeld
<1>1. RuntimeInv => RequestIsHeld
  BY Placed DEF RuntimeInv
<1> QED
  BY <1>1, RuntimeInit, RuntimeNext, PTL DEF Spec

\* No worker sleeps on a command or a ready task, in Signal::wait_for_notification
\* or in its I/O driver, without a wake that is there or on its way.
THEOREM NoLostWake == Spec => []SleepsOnlyWhenIdle
<1>1. RuntimeInv => SleepsOnlyWhenIdle
  BY DEF RuntimeInv, SleepOK, SleepOf, SleepsOnlyWhenIdle, Notice, Interrupt
<1> QED
  BY <1>1, RuntimeInit, RuntimeNext, PTL DEF Spec

\* A shutdown whose cause is set never waits for nobody: before the election
\* somebody awake, or about to be woken, calls stop, and after it the broadcaster
\* still has to visit every worker that sleeps on.
THEOREM ShutdownGoesOn == Spec => []ShutdownIsCarried
<1>1. ASSUME NEW w \in Workers, Carries(w) PROVE ~SleepsOn(w)
  <2>1. ASSUME NEW stages, stages \subseteq {"waking", "interrupting"}, Panics(w, stages)
        PROVE  \E k \in Alive : thread[k] \in stages /\ owner[holding[k]] = w
    BY <2>1 DEF Panics, Alive
  <2> QED
    BY <1>1, <2>1 DEF Carries, SleepsOn, Notice, Interrupt
<1>2. RuntimeInv => ShutdownIsCarried
  <2> SUFFICES ASSUME RuntimeInv, Started PROVE ShutdownIsCarried
    BY DEF ShutdownIsCarried
  <2>1. ~signaled => (\E c \in Callers : stopper[c] = "begun") \/ \E w \in Workers : ~SleepsOn(w)
    BY <1>1 DEF RuntimeInv, CarryOK
  <2>2. ASSUME signaled, NEW w \in Workers, SleepsOn(w)
        PROVE  w \in todo /\ \E c \in Callers : stopper[c] \in {"sending", "notifying", "interrupting"}
    BY <1>1, <2>2 DEF RuntimeInv, CarryOK, StopOK, Broadcasting
  <2> QED
    BY <2>1, <2>2 DEF ShutdownIsCarried
<1> QED
  BY <1>2, RuntimeInit, RuntimeNext, PTL DEF Spec

\* When Runtime::stop has returned, no command, task, pool thread or queued job
\* is left and no join handle of a call that returned is pending; Ok means that
\* no worker panicked and that the cause carries no error.
THEOREM StopLeavesNothing == Spec => []StopIsComplete
<1>1. RuntimeInv => StopIsComplete
  <2> SUFFICES ASSUME RuntimeInv, result # "none"
               PROVE  /\ \A w \in Workers : commands[w] = <<>> /\ tasks[w] = {}
                      /\ \A r \in Requests : request[r] = "returned" => handle[r] # "pending"
                      /\ jobs = <<>> /\ \A k \in Alive : thread[k] = "exited"
                      /\ \A j \in Jobs : call[j] = "returned" => settled[j] # "pending"
                      /\ result = "ok" => cause = "stop" /\ \A w \in Workers : ~panicked[w]
    BY DEF StopIsComplete
  <2>1. /\ \A w \in Workers : pc[w] = "exited"
        /\ result = "ok" => cause = "stop" /\ \A w \in Workers : ~panicked[w]
    BY DEF RuntimeInv, DoneOK
  <2>2. \A w \in Workers : commands[w] = <<>> /\ tasks[w] = {} /\ joiner[w] = "joined"
    BY <2>1 DEF RuntimeInv, LoopOK, LoopOf, Gone
  <2>3. ASSUME NEW r \in Requests, request[r] = "returned" PROVE handle[r] # "pending"
    <3>1. home[r] \in Workers
      BY <2>3 DEF RuntimeInv, RequestsOK, CallersOK
    <3>2. ~At(r, home[r])
      BY <2>2, <3>1 DEF At, Elems
    <3> QED
      BY <2>3, <3>2 DEF RuntimeInv, RequestsOK, HeldOK
  <2>4. JoinedIsQuiet
    BY JoinedQuiet DEF RuntimeInv, PoolOK
  <2> QED
    BY <2>1, <2>2, <2>3, <2>4 DEF JoinedIsQuiet
<1> QED
  BY <1>1, RuntimeInit, RuntimeNext, PTL DEF Spec

\* The pool keeps its own promises inside the runtime, where panics of tasks,
\* failing drivers and calls of stop set the cause and workers join it at the end
\* of their loop: its counters, its limit, one place for a pending job, and
\* nothing left when every worker has come back from Pool::join.
THEOREM PoolInRuntime == Spec => [](CountersExact /\ WithinLimit /\ PendingIsHeld /\ JoinedIsQuiet)
<1>1. RuntimeInv => CountersExact /\ WithinLimit /\ PendingIsHeld /\ JoinedIsQuiet
  BY JobsPlaced, JoinedQuiet DEF RuntimeInv, PoolOK, PoolInv
<1> QED
  BY <1>1, RuntimeInit, RuntimeNext, PTL DEF Spec

-----------------------------------------------------------------------------
(* A join handle is resolved once. *)

\* The handle of every request but one stays as it is, and that one is pending.
OnlyPending(r) == handle[r] = "pending" /\ \A q \in Requests : q # r => handle'[q] = handle[q]

LEMMA WorkerResolves ==
  ASSUME Types, LoopOK, RequestsOK, NEW w \in Workers, WorkerMove(w), ~Release(w), handle' # handle
  PROVE  \E r \in Requests : OnlyPending(r)
<1>1. handle \in [Requests -> {"none", "pending", "ok", "panicked", "shutdown", "failed"}]
      /\ commands \in [Workers -> Seq(Command)] /\ LoopOf(w)
  BY DEF Types, RequestTypes, ChannelTypes, Command, LoopOK
<1>2. ASSUME NEW r \in Requests, At(r, w), NEW h, handle' = [handle EXCEPT ![r] = h]
      PROVE  OnlyPending(r)
  BY <1>1, <1>2 DEF OnlyPending, RequestsOK, WithWorker
<1>3. CASE CommandStep(w)
  <2>1. commands[w] # <<>> /\ Head(commands[w]) \in Accesses
        /\ \E h : handle' = [handle EXCEPT ![Head(commands[w])] = h]
    BY <1>1, <1>3 DEF CommandStep, CheckCommands, NoCommand, RegisterTask, AccessIo, AccessFails,
      AccessFailed, ShutdownCommand, CommandDone, Step, requestVars, LoopOf
  <2>2. commands[w] \in Seq(Command)
    BY <1>1
  <2>3. 1 \in DOMAIN commands[w] /\ Head(commands[w]) = commands[w][1]
    BY ONLY <2>1, <2>2
  <2>4. At(Head(commands[w]), w) /\ Head(commands[w]) \in Requests
    BY <2>1, <2>3 DEF At, Elems, Requests
  <2> QED
    BY <1>2, <2>1, <2>4
<1>4. CASE CycleStep(w)
  <2>1. PICK t \in Tasks : PollReady(w, t) \/ PollPanics(w, t) \/ PollStopped(w, t) \/ CancelTask(w, t)
    BY <1>4 DEF CycleStep, BeginCycle, CycleShutdown, EndCycle, PollPending, PollInstalls, PollStops,
      requestVars
  <2>2. t \in tasks[w]
    BY <1>1, <2>1 DEF PollReady, PollPanics, PollStopped, CancelTask, Poll, Step, LoopOf
  <2>3. \E h : handle' = [handle EXCEPT ![t] = h]
    BY <2>1 DEF PollReady, PollPanics, PollStopped, CancelTask
  <2> QED
    BY <1>2, <2>2, <2>3 DEF At, Requests
<1>5. CASE \/ WaitStep(w) \/ \E from : WaitEnds(w, from)
           \/ \E from, k : DriverFails(w, from, k)
           \/ CloseStep(w)
  BY <1>5 DEF WaitStep, Drive, IoWait, IoInterrupted, Unpark, FailureStopped, WaitEnds, DriverFails,
    CloseStep, CloseWorker, Retired, RetirePanics, PanicReported, JoinPool, ThreadEnds, rtVars,
    requestVars
<1> QED
  BY <1>3, <1>4, <1>5 DEF WorkerMove, WorkerStep

\* The result of a dispatched task or of an I/O request is published once: a
\* completion, a panic, a cancellation, a refused send and the drop of a queued
\* command never follow one another on the same sender.
ResolvesOnce ==
  [][\A r \in Requests : handle[r] \notin {"none", "pending"} => handle'[r] = handle[r]]_vars

LEMMA ResolvesStep ==
  ASSUME Types, LoopOK, RequestsOK, [Next]_vars, NEW r \in Requests, handle[r] \notin {"none", "pending"}
  PROVE  handle'[r] = handle[r]
<1>1. /\ handle \in [Requests -> {"none", "pending", "ok", "panicked", "shutdown", "failed"}]
      /\ CallersOK
  BY DEF Types, RequestTypes, RequestsOK
<1>2. CASE handle' = handle
  BY <1>2
<1>3. ASSUME NEW q \in Requests, NEW w \in Workers, Dispatch(q, w) PROVE handle'[r] = handle[r]
  <2>1. q # r
    BY <1>1, <1>3 DEF Dispatch, CallersOK
  <2> QED
    BY <1>1, <1>3, <2>1 DEF Dispatch
<1>4. ASSUME NEW q \in Requests, Send(q) PROVE handle'[r] = handle[r]
  <2>1. q # r
    BY <1>1, <1>4 DEF Send, CallersOK
  <2> QED
    BY <1>1, <1>4, <2>1 DEF Send
<1>5. ASSUME NEW w \in Workers, Release(w) PROVE handle'[r] = handle[r]
  <2>1. r \notin Elems(commands[w])
    BY DEF RequestsOK, WithWorker, At
  <2> QED
    BY <1>5, <2>1 DEF Release, Elems
<1>6. ASSUME NEW w \in Workers, WorkerMove(w), ~Release(w) PROVE handle'[r] = handle[r]
  BY <1>2, <1>6, WorkerResolves DEF OnlyPending
<1>7. CASE OtherMove
  BY <1>2, <1>3, <1>4, <1>7 DEF OtherMove, RequestStep, NotifyWorker, InterruptWorker, WakeStep, WakeTask,
    NotifyWake, InterruptWake, StopStep, StopElect, StopSend, StopNotify, StopInterrupt, HostStop,
    HostWait, ControlStop, vars, rtVars, requestVars
<1> QED
  BY <1>5, <1>6, <1>7, Moves

\* A join handle that is resolved keeps its result, for ever.
THEOREM HandlesResolveOnce == Spec => ResolvesOnce
<1> DEFINE Kept == \A r \in Requests : handle[r] \notin {"none", "pending"} => handle'[r] = handle[r]
<1>1. RuntimeInv /\ [Next]_vars => [Kept]_vars
  BY ResolvesStep DEF RuntimeInv
<1> HIDE DEF Kept
<1>2. Spec => [][Kept]_vars
  BY <1>1, RuntimeInit, RuntimeNext, PTL DEF Spec
<1> QED
  BY <1>2 DEF ResolvesOnce, Kept
=============================================================================

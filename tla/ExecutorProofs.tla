--------------------------- MODULE ExecutorProofs ---------------------------
(***************************************************************************)
(* Machine-checked proofs about Executor, for every set of tasks, every    *)
(* number of wakers and remote threads, both panic policies, and context   *)
(* guards that may panic anywhere.                                         *)
(***************************************************************************)
EXTENDS Executor, FiniteSetTheorems, TLAPS

\* While the owner is inside a task, that task is known, and it is still in
\* the active queue unless it belongs to the cancellation batch; once its
\* completion target has been called its payload is gone.
CurrentOK ==
  /\ pc \in {"polling", "finishing", "delivering", "aborting", "cancelling"}
       => current \in Task
  /\ pc \in {"polling", "finishing", "delivering"} => active[current] >= 1
  /\ pc \in {"delivering", "cancelling"} => payload[current] = "retired"

Typed == TypeOK /\ CurrentOK

\* The wake protocol of one task while the remote channel is open.  A remote
\* notification is one call or one channel entry, never two; a local one is in
\* the awakened queue or in the active queue with its flag about to be
\* cleared.
WakeOK(t) ==
  /\ sched[t] = "retired" => ~owed[t]
  /\ payload[t] = "unborn" =>
       /\ sched[t] = "retired"
       /\ newTasks[t] = 0 /\ active[t] = 0 /\ pending[t] = 0 /\ awakened[t] = 0
       /\ begun[t] + channel[t] = 0
  /\ t \in toClear => active[t] > 0 /\ awakened[t] = 0
  /\ ~closed =>
       /\ refused[t] = 0
       /\ sched[t] = "remote" => begun[t] + channel[t] = 1
       /\ sched[t] \in {"active", "local"} => begun[t] + channel[t] = 0
       /\ sched[t] = "local" => awakened[t] > 0 \/ t \in toClear
       /\ awakened[t] > 0 \/ t \in toClear => sched[t] = "local"

\* Where in the cycle the wake protocol allows what.
PhaseOK ==
  /\ toClear # {} => pc = "poll"
  /\ pc \in {"closing", "abort", "aborting", "cancelling"} => closed
  /\ pc \in {"polling", "finishing", "delivering", "aborting", "cancelling"}
       => payload[current] # "unborn"
  /\ pc \in {"finishing", "delivering", "aborting", "cancelling"}
       => sched[current] = "retired"

\* The inductive invariant behind NoLostWake.
WakesOK == \A t \in Task : WakeOK(t)
WakeInv == WakesOK /\ PhaseOK /\ NoLostWake

-----------------------------------------------------------------------------
(* Type correctness. *)

\* The length the code takes of a queue is a natural number.
LEMMA QueuedCount ==
  ASSUME NEW q
  PROVE  Cardinality(Queued(q)) \in Nat
<1>1. IsFiniteSet(Queued(q))
  BY TaskAssumption, FS_Subset DEF Queued
<1> QED
  BY <1>1, FS_CardinalityType

LEMMA InitTyped == Init => Typed
<1> SUFFICES ASSUME Init PROVE Typed
  OBVIOUS
<1>1. NoHandles \in Counts /\ NoHandles \in [Task -> Int]
  BY DEF NoHandles, Counts
<1>2. WakeTypes /\ CallTypes
  BY <1>1 DEF Init, WakeTypes, CallTypes
<1>3. owed \in [Task -> BOOLEAN]
  BY Zenon DEF Init
<1>4. TaskTypes
  BY <1>1, <1>3 DEF Init, TaskTypes
<1>5. CycleTypes /\ CurrentOK
  BY DEF Init, CycleTypes, CurrentOK, Labels
<1> QED
  BY <1>2, <1>4, <1>5 DEF Typed, TypeOK

LEMMA UserTyped ==
  ASSUME Typed, NEW t \in Task, UserStep(t)
  PROVE  Typed'
<1> USE DEF Typed, TypeOK, WakeTypes, CallTypes, TaskTypes, CycleTypes, CurrentOK, Labels,
         Counts, wakeVars, callVars, taskVars, cycleVars, Push, Pop, Clear, NoHandles,
         Goto
<1>1. CASE CloneWaker(t)
  BY <1>1 DEF CloneWaker
<1>2. CASE DropWaker(t)
  BY <1>2 DEF DropWaker
<1>3. CASE CoalescedWake(t)
  BY <1>3 DEF CoalescedWake
<1>4. CASE LocalWake(t)
  BY <1>4 DEF LocalWake, BeginNotification, UserCode
<1>5. CASE RemoteBegin(t)
  BY <1>5 DEF RemoteBegin, BeginNotification
<1>6. CASE AcceptTask(t)
  <2>1. WakeTypes' /\ CallTypes'
    BY <1>6 DEF AcceptTask, NotifySubmission
  <2>2. TaskTypes'
    BY <1>6 DEF AcceptTask, NotifySubmission
  <2>3. CycleTypes' /\ CurrentOK'
    BY <1>6 DEF AcceptTask, NotifySubmission
  <2> QED
    BY <2>1, <2>2, <2>3
<1>7. CASE RefuseTask(t)
  <2>1. WakeTypes' /\ CallTypes'
    BY <1>7 DEF RefuseTask, NotifySubmission
  <2>2. TaskTypes'
    BY <1>7 DEF RefuseTask, NotifySubmission
  <2>3. CycleTypes' /\ CurrentOK'
    BY <1>7 DEF RefuseTask, NotifySubmission
  <2> QED
    BY <2>1, <2>2, <2>3
<1> QED
  BY <1>1, <1>2, <1>3, <1>4, <1>5, <1>6, <1>7 DEF UserStep

LEMMA RemoteTyped ==
  ASSUME Typed, NEW t \in Task, RemoteStep(t)
  PROVE  Typed'
<1> USE DEF Typed, TypeOK, WakeTypes, CallTypes, TaskTypes, CycleTypes, CurrentOK, Labels,
         Counts, wakeVars, callVars, taskVars, cycleVars, Push, Pop, Clear, NoHandles,
         Goto
<1>1. CASE RemoteSend(t)
  BY <1>1 DEF RemoteSend
<1>2. CASE RemoteRefused(t)
  BY <1>2 DEF RemoteRefused, ClearNotification
<1>3. CASE RemotePublish(t)
  BY <1>3 DEF RemotePublish
<1>4. CASE RemoteNotify(t)
  BY <1>4 DEF RemoteNotify
<1> QED
  BY <1>1, <1>2, <1>3, <1>4 DEF RemoteStep

LEMMA TakeTyped ==
  ASSUME Typed, NEW t \in Task, TakeStep(t)
  PROVE  Typed'
<1> USE DEF Typed, TypeOK, WakeTypes, CallTypes, TaskTypes, CycleTypes, CurrentOK, Labels,
         Counts, wakeVars, callVars, taskVars, cycleVars, Push, Pop, Clear, NoHandles,
         Goto
<1>1. CASE DrainOne(t)
  BY <1>1 DEF DrainOne
<1>2. CASE ClearQueued(t)
  BY <1>2 DEF ClearQueued, ClearNotification
<1>3. CASE PollStart(t)
  BY <1>3 DEF PollStart
<1>4. CASE ShutdownAbort(t)
  BY <1>4 DEF ShutdownAbort, Retire
<1>5. CASE DropNotification(t)
  BY <1>5 DEF DropNotification
<1>6. CASE AbortStart(t)
  BY <1>6 DEF AbortStart, Retire
<1> QED
  BY <1>1, <1>2, <1>3, <1>4, <1>5, <1>6 DEF TakeStep

LEMMA CycleTyped ==
  ASSUME Typed, CycleStep
  PROVE  Typed'
<1> USE DEF Typed, TypeOK, WakeTypes, CallTypes, TaskTypes, CycleTypes, CurrentOK, Labels,
         Counts, wakeVars, callVars, taskVars, cycleVars, Push, Pop, Clear, NoHandles,
         Goto
<1>1. CASE EnterCycle
  BY <1>1 DEF EnterCycle
<1>2. CASE DrainSwap
  <2>1. WakeTypes' /\ CallTypes'
    BY <1>2 DEF DrainSwap
  <2>2. TaskTypes'
    BY <1>2 DEF DrainSwap
  <2>3. CycleTypes' /\ CurrentOK'
    BY <1>2 DEF DrainSwap
  <2> QED
    BY <2>1, <2>2, <2>3
<1>3. CASE DrainEmpty
  BY <1>3 DEF DrainEmpty
<1>4. CASE Append
  BY <1>4 DEF Append, Queued
<1>5. CASE PollPending
  BY <1>5 DEF PollPending
<1>6. CASE PollDone("succeeded")
  BY <1>6 DEF PollDone, Retire
<1>7. CASE PollDone("panicked")
  BY <1>7 DEF PollDone, Retire
<1>8. CASE FinishDeliver
  BY <1>8 DEF FinishDeliver, Deliver
<1>9. CASE FinishTask
  BY <1>9 DEF FinishTask
<1>10. CASE PollsDone
  BY <1>10 DEF PollsDone
<1>11. CASE Close
  BY <1>11 DEF Close
<1>12. CASE PrepareAbort
  <2>1. WakeTypes' /\ CallTypes'
    BY <1>12, QueuedCount DEF PrepareAbort, Batch
  <2>2. TaskTypes'
    BY <1>12, QueuedCount DEF PrepareAbort, Batch
  <2>3. CycleTypes' /\ CurrentOK'
    BY <1>12, QueuedCount DEF PrepareAbort, Batch
  <2> QED
    BY <2>1, <2>2, <2>3
<1>13. CASE AbortDeliver
  BY <1>13 DEF AbortDeliver, Deliver
<1>14. CASE AbortFinish
  BY <1>14 DEF AbortFinish
<1>15. CASE AbortDone
  BY <1>15 DEF AbortDone
<1>16. CASE Outcome
  BY <1>16 DEF Outcome
<1>17. CASE Resume
  <2>1. WakeTypes' /\ CallTypes'
    BY <1>17 DEF Resume
  <2>2. TaskTypes'
    BY <1>17 DEF Resume
  <2>3. CycleTypes' /\ CurrentOK'
    BY <1>17 DEF Resume
  <2> QED
    BY <2>1, <2>2, <2>3
<1>18. CASE UnwindPoll
  BY <1>18 DEF UnwindPoll, Unwind
<1>19. CASE UnwindFinish
  BY <1>19 DEF UnwindFinish, Unwind
<1>20. CASE UnwindCancel
  BY <1>20 DEF UnwindCancel, Unwind
<1> QED
  BY <1>1, <1>2, <1>3, <1>4, <1>5, <1>6, <1>7, <1>8, <1>9, <1>10, <1>11, <1>12, <1>13, <1>14, <1>15, <1>16, <1>17, <1>18, <1>19, <1>20 DEF CycleStep

LEMMA NextTyped ==
  ASSUME Typed, [Next]_vars
  PROVE  Typed'
<1>1. CASE OwnerStep
  BY <1>1, TakeTyped, CycleTyped DEF OwnerStep
<1>2. CASE \E t \in Task : RemoteStep(t) \/ UserStep(t)
  BY <1>2, RemoteTyped, UserTyped
<1>3. CASE Trigger
  BY <1>3 DEF Trigger, Typed, TypeOK, WakeTypes, CallTypes, TaskTypes, CycleTypes, CurrentOK, Labels,
         Counts, wakeVars, callVars, taskVars, cycleVars, Push, Pop, Clear, NoHandles,
         Goto
<1>4. CASE DropExecutor
  BY <1>4 DEF DropExecutor, Typed, TypeOK, WakeTypes, CallTypes, TaskTypes, CycleTypes, CurrentOK, Labels,
         Counts, wakeVars, callVars, taskVars, cycleVars, Push, Pop, Clear, NoHandles,
         Goto
<1>5. CASE UNCHANGED vars
  BY <1>5 DEF vars, Typed, TypeOK, WakeTypes, CallTypes, TaskTypes, CycleTypes, CurrentOK, Labels,
         Counts, wakeVars, callVars, taskVars, cycleVars, Push, Pop, Clear, NoHandles,
         Goto
<1> QED
  BY <1>1, <1>2, <1>3, <1>4, <1>5 DEF Next

\* Type correctness: no queue of handles and no stage of a wake call is ever
\* taken below zero, and the owner is only ever inside a known task.
THEOREM Typing == Spec => []TypeOK
<1>1. Init => Typed
  BY InitTyped
<1>2. Typed /\ [Next]_vars => Typed'
  BY NextTyped
<1>3. Typed => TypeOK
  BY DEF Typed
<1> QED
  BY <1>1, <1>2, <1>3, PTL DEF Spec

-----------------------------------------------------------------------------
(* Ownership of task memory. *)

Accounted == PayloadOwned /\ RefsExact

LEMMA InitAccounted == Init => Accounted
  BY DEF Init, Accounted, PayloadOwned, RefsExact, Handles, OwnedWakers, Held,
         NoHandles

LEMMA UserAccounted ==
  ASSUME Typed, Accounted, NEW t \in Task, UserStep(t)
  PROVE  Accounted'
<1> USE DEF Accounted, Typed, TypeOK, WakeTypes, CallTypes, TaskTypes, CycleTypes, CurrentOK, Labels,
         Counts, wakeVars, callVars, taskVars, cycleVars, Push, Pop, Clear, NoHandles,
         Goto, PayloadOwned, RefsExact, Handles,
         OwnedWakers, Held
<1>1. CASE CloneWaker(t)
  <2>1. PayloadOwned'
    BY <1>1 DEF CloneWaker
  <2>2. ASSUME NEW u \in Task
        PROVE  strong'[u] = Handles(u)'
    <3>1. Held(u)' = Held(u)
      BY <1>1 DEF CloneWaker
    <3>2. CASE u = t
      BY <1>1, <3>1, <3>2 DEF CloneWaker
    <3>3. CASE u # t
      BY <1>1, <3>1, <3>3 DEF CloneWaker
    <3> QED
      BY <3>2, <3>3
  <2>3. RefsExact'
    BY <2>2
  <2> QED
    BY <2>1, <2>3
<1>2. CASE DropWaker(t)
  BY <1>2 DEF DropWaker
<1>3. CASE CoalescedWake(t)
  BY <1>3 DEF CoalescedWake
<1>4. CASE LocalWake(t)
  BY <1>4 DEF LocalWake, BeginNotification, UserCode
<1>5. CASE RemoteBegin(t)
  <2>1. PayloadOwned'
    BY <1>5 DEF RemoteBegin, BeginNotification
  <2>2. RefsExact'
    BY <1>5 DEF RemoteBegin, BeginNotification
  <2> QED
    BY <2>1, <2>2
<1>6. CASE AcceptTask(t)
  BY <1>6 DEF AcceptTask, NotifySubmission
<1>7. CASE RefuseTask(t)
  BY <1>7 DEF RefuseTask, NotifySubmission
<1> QED
  BY <1>1, <1>2, <1>3, <1>4, <1>5, <1>6, <1>7 DEF UserStep

LEMMA RemoteAccounted ==
  ASSUME Typed, Accounted, NEW t \in Task, RemoteStep(t)
  PROVE  Accounted'
<1> USE DEF Accounted, Typed, TypeOK, WakeTypes, CallTypes, TaskTypes, CycleTypes, CurrentOK, Labels,
         Counts, wakeVars, callVars, taskVars, cycleVars, Push, Pop, Clear, NoHandles,
         Goto, PayloadOwned, RefsExact, Handles,
         OwnedWakers, Held
<1>1. CASE RemoteSend(t)
  BY <1>1 DEF RemoteSend
<1>2. CASE RemoteRefused(t)
  <2>1. PayloadOwned'
    BY <1>2 DEF RemoteRefused, ClearNotification
  <2>2. RefsExact'
    BY <1>2 DEF RemoteRefused, ClearNotification
  <2> QED
    BY <2>1, <2>2
<1>3. CASE RemotePublish(t)
  BY <1>3 DEF RemotePublish
<1>4. CASE RemoteNotify(t)
  <2>1. PayloadOwned'
    BY <1>4 DEF RemoteNotify
  <2>2. ASSUME NEW u \in Task
        PROVE  OwnedWakers(u)' = OwnedWakers(u) /\ Held(u)' = Held(u)
    <3>1. CASE u = t
      BY <1>4, <3>1 DEF RemoteNotify
    <3>2. CASE u # t
      BY <1>4, <3>2 DEF RemoteNotify
    <3> QED
      BY <3>1, <3>2
  <2>3. RefsExact'
    BY <1>4, <2>2 DEF RemoteNotify
  <2> QED
    BY <2>1, <2>3
<1> QED
  BY <1>1, <1>2, <1>3, <1>4 DEF RemoteStep

LEMMA TakeAccounted ==
  ASSUME Typed, Accounted, NEW t \in Task, TakeStep(t)
  PROVE  Accounted'
<1> USE DEF Accounted, Typed, TypeOK, WakeTypes, CallTypes, TaskTypes, CycleTypes, CurrentOK, Labels,
         Counts, wakeVars, callVars, taskVars, cycleVars, Push, Pop, Clear, NoHandles,
         Goto, PayloadOwned, RefsExact, Handles,
         OwnedWakers, Held
<1>1. CASE DrainOne(t)
  BY <1>1 DEF DrainOne
<1>2. CASE ClearQueued(t)
  BY <1>2 DEF ClearQueued, ClearNotification
<1>3. CASE PollStart(t)
  BY <1>3 DEF PollStart
<1>4. CASE ShutdownAbort(t)
  <2>1. PayloadOwned'
    BY <1>4 DEF ShutdownAbort, Retire
  <2>2. RefsExact'
    BY <1>4 DEF ShutdownAbort, Retire
  <2> QED
    BY <2>1, <2>2
<1>5. CASE DropNotification(t)
  BY <1>5 DEF DropNotification
<1>6. CASE AbortStart(t)
  BY <1>6 DEF AbortStart, Retire
<1> QED
  BY <1>1, <1>2, <1>3, <1>4, <1>5, <1>6 DEF TakeStep

LEMMA CycleAccounted ==
  ASSUME Typed, Accounted, CycleStep
  PROVE  Accounted'
<1> USE DEF Accounted, Typed, TypeOK, WakeTypes, CallTypes, TaskTypes, CycleTypes, CurrentOK, Labels,
         Counts, wakeVars, callVars, taskVars, cycleVars, Push, Pop, Clear, NoHandles,
         Goto, PayloadOwned, RefsExact, Handles,
         OwnedWakers, Held
<1>1. CASE EnterCycle
  BY <1>1 DEF EnterCycle
<1>2. CASE DrainSwap
  BY <1>2 DEF DrainSwap
<1>3. CASE DrainEmpty
  BY <1>3 DEF DrainEmpty
<1>4. CASE Append
  BY <1>4 DEF Append, Queued
<1>5. CASE PollPending
  <2>1. PayloadOwned'
    BY <1>5 DEF PollPending
  <2>2. RefsExact'
    BY <1>5 DEF PollPending
  <2> QED
    BY <2>1, <2>2
<1>6. CASE PollDone("succeeded")
  BY <1>6 DEF PollDone, Retire
<1>7. CASE PollDone("panicked")
  BY <1>7 DEF PollDone, Retire
<1>8. CASE FinishDeliver
  BY <1>8 DEF FinishDeliver, Deliver
<1>9. CASE FinishTask
  BY <1>9 DEF FinishTask
<1>10. CASE PollsDone
  BY <1>10 DEF PollsDone
<1>11. CASE Close
  BY <1>11 DEF Close
<1>12. CASE PrepareAbort
  BY <1>12 DEF PrepareAbort, Batch
<1>13. CASE AbortDeliver
  BY <1>13 DEF AbortDeliver, Deliver
<1>14. CASE AbortFinish
  BY <1>14 DEF AbortFinish
<1>15. CASE AbortDone
  BY <1>15 DEF AbortDone
<1>16. CASE Outcome
  BY <1>16 DEF Outcome
<1>17. CASE Resume
  BY <1>17 DEF Resume
<1>18. CASE UnwindPoll
  BY <1>18 DEF UnwindPoll, Unwind
<1>19. CASE UnwindFinish
  BY <1>19 DEF UnwindFinish, Unwind
<1>20. CASE UnwindCancel
  BY <1>20 DEF UnwindCancel, Unwind
<1> QED
  BY <1>1, <1>2, <1>3, <1>4, <1>5, <1>6, <1>7, <1>8, <1>9, <1>10, <1>11, <1>12, <1>13, <1>14, <1>15, <1>16, <1>17, <1>18, <1>19, <1>20 DEF CycleStep

LEMMA NextAccounted ==
  ASSUME Typed, Accounted, [Next]_vars
  PROVE  Accounted'
<1>1. CASE OwnerStep
  BY <1>1, TakeAccounted, CycleAccounted DEF OwnerStep
<1>2. CASE \E t \in Task : RemoteStep(t) \/ UserStep(t)
  BY <1>2, RemoteAccounted, UserAccounted
<1>3. CASE Trigger
  BY <1>3 DEF Trigger, Accounted, Typed, TypeOK, WakeTypes, CallTypes, TaskTypes, CycleTypes, CurrentOK, Labels,
         Counts, wakeVars, callVars, taskVars, cycleVars, Push, Pop, Clear, NoHandles,
         Goto, PayloadOwned, RefsExact, Handles,
         OwnedWakers, Held
<1>4. CASE DropExecutor
  BY <1>4 DEF DropExecutor, Accounted, Typed, TypeOK, WakeTypes, CallTypes, TaskTypes, CycleTypes, CurrentOK, Labels,
         Counts, wakeVars, callVars, taskVars, cycleVars, Push, Pop, Clear, NoHandles,
         Goto, PayloadOwned, RefsExact, Handles,
         OwnedWakers, Held
<1>5. CASE UNCHANGED vars
  BY <1>5 DEF vars, Accounted, Typed, TypeOK, WakeTypes, CallTypes, TaskTypes, CycleTypes, CurrentOK, Labels,
         Counts, wakeVars, callVars, taskVars, cycleVars, Push, Pop, Clear, NoHandles,
         Goto, PayloadOwned, RefsExact, Handles,
         OwnedWakers, Held
<1> QED
  BY <1>1, <1>2, <1>3, <1>4, <1>5 DEF Next

LEMMA AlwaysAccounted == Spec => []Accounted
<1>1. Init => Typed /\ Accounted
  BY InitTyped, InitAccounted
<1>2. Typed /\ Accounted /\ [Next]_vars => (Typed /\ Accounted)'
  BY NextTyped, NextAccounted
<1> QED
  BY <1>1, <1>2, PTL DEF Spec

\* Reference counting is exact for every interleaving of wakes with draining,
\* retirement, channel closing, unwinding and destruction.
THEOREM ExactReferences == Spec => []RefsExact
<1>1. Accounted => RefsExact
  BY DEF Accounted
<1> QED
  BY <1>1, AlwaysAccounted, PTL

\* The owner holds a reference to every live payload: the safety argument of
\* `unsafe impl Send for Task`.
THEOREM Ownership == Spec => []PayloadOwned
<1>1. Accounted => PayloadOwned
  BY DEF Accounted
<1> QED
  BY <1>1, AlwaysAccounted, PTL

-----------------------------------------------------------------------------
(* Wakes. *)

LEMMA InitWakeInv == Init => WakeInv
  BY DEF Init, WakeInv, WakesOK, WakeOK, PhaseOK, NoLostWake, NoHandles

LEMMA UserWakeInv ==
  ASSUME Typed, WakeInv, NEW t \in Task, UserStep(t)
  PROVE  WakeInv'
<1> USE DEF WakeInv, WakesOK, WakeOK, PhaseOK, NoLostWake, Typed, TypeOK, WakeTypes, CallTypes, TaskTypes, CycleTypes, CurrentOK, Labels,
         Counts, wakeVars, callVars, taskVars, cycleVars, Push, Pop, Clear, NoHandles,
         Goto
<1>1. CASE CloneWaker(t)
  BY <1>1 DEF CloneWaker
<1>2. CASE DropWaker(t)
  BY <1>2 DEF DropWaker
<1>3. CASE CoalescedWake(t)
  BY <1>3 DEF CoalescedWake
<1>4. CASE LocalWake(t)
  BY <1>4 DEF LocalWake, BeginNotification, UserCode
<1>5. CASE RemoteBegin(t)
  BY <1>5 DEF RemoteBegin, BeginNotification
<1>6. CASE AcceptTask(t)
  <2>1. WakesOK'
    BY <1>6 DEF AcceptTask, NotifySubmission
  <2>2. PhaseOK'
    BY <1>6 DEF AcceptTask, NotifySubmission
  <2>3. NoLostWake'
    BY <1>6 DEF AcceptTask, NotifySubmission
  <2> QED
    BY <2>1, <2>2, <2>3
<1>7. CASE RefuseTask(t)
  BY <1>7 DEF RefuseTask, NotifySubmission
<1> QED
  BY <1>1, <1>2, <1>3, <1>4, <1>5, <1>6, <1>7 DEF UserStep

LEMMA RemoteWakeInv ==
  ASSUME Typed, WakeInv, NEW t \in Task, RemoteStep(t)
  PROVE  WakeInv'
<1> USE DEF WakeInv, WakesOK, WakeOK, PhaseOK, NoLostWake, Typed, TypeOK, WakeTypes, CallTypes, TaskTypes, CycleTypes, CurrentOK, Labels,
         Counts, wakeVars, callVars, taskVars, cycleVars, Push, Pop, Clear, NoHandles,
         Goto
<1>1. CASE RemoteSend(t)
  BY <1>1 DEF RemoteSend
<1>2. CASE RemoteRefused(t)
  <2>1. WakesOK'
    BY <1>2 DEF RemoteRefused, ClearNotification
  <2>2. PhaseOK'
    BY <1>2 DEF RemoteRefused, ClearNotification
  <2>3. NoLostWake'
    BY <1>2 DEF RemoteRefused, ClearNotification
  <2> QED
    BY <2>1, <2>2, <2>3
<1>3. CASE RemotePublish(t)
  BY <1>3 DEF RemotePublish
<1>4. CASE RemoteNotify(t)
  BY <1>4 DEF RemoteNotify
<1> QED
  BY <1>1, <1>2, <1>3, <1>4 DEF RemoteStep

LEMMA TakeWakeInv ==
  ASSUME Typed, WakeInv, NEW t \in Task, TakeStep(t)
  PROVE  WakeInv'
<1> USE DEF WakeInv, WakesOK, WakeOK, PhaseOK, NoLostWake, Typed, TypeOK, WakeTypes, CallTypes, TaskTypes, CycleTypes, CurrentOK, Labels,
         Counts, wakeVars, callVars, taskVars, cycleVars, Push, Pop, Clear, NoHandles,
         Goto
<1>1. CASE DrainOne(t)
  BY <1>1 DEF DrainOne
<1>2. CASE ClearQueued(t)
  BY <1>2 DEF ClearQueued, ClearNotification
<1>3. CASE PollStart(t)
  BY <1>3 DEF PollStart
<1>4. CASE ShutdownAbort(t)
  BY <1>4 DEF ShutdownAbort, Retire
<1>5. CASE DropNotification(t)
  BY <1>5 DEF DropNotification
<1>6. CASE AbortStart(t)
  BY <1>6 DEF AbortStart, Retire
<1> QED
  BY <1>1, <1>2, <1>3, <1>4, <1>5, <1>6 DEF TakeStep

LEMMA CycleWakeInv ==
  ASSUME Typed, WakeInv, CycleStep
  PROVE  WakeInv'
<1> USE DEF WakeInv, WakesOK, WakeOK, PhaseOK, NoLostWake, Typed, TypeOK, WakeTypes, CallTypes, TaskTypes, CycleTypes, CurrentOK, Labels,
         Counts, wakeVars, callVars, taskVars, cycleVars, Push, Pop, Clear, NoHandles,
         Goto
<1>1. CASE EnterCycle
  BY <1>1 DEF EnterCycle
<1>2. CASE DrainSwap
  BY <1>2 DEF DrainSwap
<1>3. CASE DrainEmpty
  BY <1>3 DEF DrainEmpty
<1>4. CASE Append
  <2>1. WakesOK'
    BY <1>4 DEF Append, Queued
  <2>2. PhaseOK'
    BY <1>4 DEF Append, Queued
  <2>3. NoLostWake'
    BY <1>4 DEF Append, Queued
  <2> QED
    BY <2>1, <2>2, <2>3
<1>5. CASE PollPending
  BY <1>5 DEF PollPending
<1>6. CASE PollDone("succeeded")
  BY <1>6 DEF PollDone, Retire
<1>7. CASE PollDone("panicked")
  BY <1>7 DEF PollDone, Retire
<1>8. CASE FinishDeliver
  BY <1>8 DEF FinishDeliver, Deliver
<1>9. CASE FinishTask
  BY <1>9 DEF FinishTask
<1>10. CASE PollsDone
  BY <1>10 DEF PollsDone
<1>11. CASE Close
  BY <1>11 DEF Close
<1>12. CASE PrepareAbort
  BY <1>12 DEF PrepareAbort, Batch
<1>13. CASE AbortDeliver
  BY <1>13 DEF AbortDeliver, Deliver
<1>14. CASE AbortFinish
  BY <1>14 DEF AbortFinish
<1>15. CASE AbortDone
  BY <1>15 DEF AbortDone
<1>16. CASE Outcome
  BY <1>16 DEF Outcome
<1>17. CASE Resume
  BY <1>17 DEF Resume
<1>18. CASE UnwindPoll
  BY <1>18 DEF UnwindPoll, Unwind
<1>19. CASE UnwindFinish
  BY <1>19 DEF UnwindFinish, Unwind
<1>20. CASE UnwindCancel
  BY <1>20 DEF UnwindCancel, Unwind
<1> QED
  BY <1>1, <1>2, <1>3, <1>4, <1>5, <1>6, <1>7, <1>8, <1>9, <1>10, <1>11, <1>12, <1>13, <1>14, <1>15, <1>16, <1>17, <1>18, <1>19, <1>20 DEF CycleStep

LEMMA NextWakeInv ==
  ASSUME Typed, WakeInv, [Next]_vars
  PROVE  WakeInv'
<1>1. CASE OwnerStep
  BY <1>1, TakeWakeInv, CycleWakeInv DEF OwnerStep
<1>2. CASE \E t \in Task : RemoteStep(t) \/ UserStep(t)
  BY <1>2, RemoteWakeInv, UserWakeInv
<1>3. CASE Trigger
  BY <1>3 DEF Trigger, WakeInv, WakesOK, WakeOK, PhaseOK, NoLostWake, Typed, TypeOK, WakeTypes, CallTypes, TaskTypes, CycleTypes, CurrentOK, Labels,
         Counts, wakeVars, callVars, taskVars, cycleVars, Push, Pop, Clear, NoHandles,
         Goto
<1>4. CASE DropExecutor
  BY <1>4 DEF DropExecutor, WakeInv, WakesOK, WakeOK, PhaseOK, NoLostWake, Typed, TypeOK, WakeTypes, CallTypes, TaskTypes, CycleTypes, CurrentOK, Labels,
         Counts, wakeVars, callVars, taskVars, cycleVars, Push, Pop, Clear, NoHandles,
         Goto
<1>5. CASE UNCHANGED vars
  BY <1>5 DEF vars, WakeInv, WakesOK, WakeOK, PhaseOK, NoLostWake, Typed, TypeOK, WakeTypes, CallTypes, TaskTypes, CycleTypes, CurrentOK, Labels,
         Counts, wakeVars, callVars, taskVars, cycleVars, Push, Pop, Clear, NoHandles,
         Goto
<1> QED
  BY <1>1, <1>2, <1>3, <1>4, <1>5 DEF Next

\* No wake is lost while the executor accepts wakes, whatever the number of
\* tasks, wakers and threads.
THEOREM WakeSafety == Spec => []NoLostWake
<1>1. Init => Typed /\ WakeInv
  BY InitTyped, InitWakeInv
<1>2. Typed /\ WakeInv /\ [Next]_vars => (Typed /\ WakeInv)'
  BY NextTyped, NextWakeInv
<1>3. Typed /\ WakeInv => NoLostWake
  BY DEF WakeInv
<1> QED
  BY <1>1, <1>2, <1>3, PTL DEF Spec
=============================================================================

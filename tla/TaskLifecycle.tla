---------------------------- MODULE TaskLifecycle ----------------------------
(***************************************************************************)
(* What the executor promises the submitter of a task, whatever happens    *)
(* inside: one outcome for each submitted task, cancellation only once     *)
(* shutdown has started, no registration after that, and no report of      *)
(* completed shutdown while a task is still registered.                    *)
(***************************************************************************)
CONSTANTS Task, PanicPolicy

VARIABLES
  status,    \* of each task, as its completion target knows it
  stopping,  \* shutdown has started
  stopped    \* completed shutdown was reported, or the executor is gone

vars == <<status, stopping, stopped>>

Init ==
  /\ status = [t \in Task |-> "new"]
  /\ stopping = FALSE
  /\ stopped = FALSE

Becomes(t, from, to) ==
  /\ status[t] = from
  /\ status' = [status EXCEPT ![t] = to]

\* TaskSet::add, accepted.
Submit(t) == ~stopping /\ Becomes(t, "new", "registered") /\ UNCHANGED <<stopping, stopped>>

\* TaskSet::add during or after shutdown.
Refuse(t) == stopping /\ Becomes(t, "new", "cancelled") /\ UNCHANGED <<stopping, stopped>>

\* TaskCompletion::completed.
Succeed(t) == Becomes(t, "registered", "succeeded") /\ UNCHANGED <<stopping, stopped>>

\* TaskCompletion::panicked: the cause is recorded before the notification.
Panic(t) ==
  /\ Becomes(t, "registered", "panicked")
  /\ stopping' = (stopping \/ PanicPolicy = "shutdown")
  /\ UNCHANGED stopped

\* TaskCompletion::cancelled.
Cancel(t) == stopping /\ Becomes(t, "registered", "cancelled") /\ UNCHANGED <<stopping, stopped>>

\* Shutdown::trigger, or the start of Executor::drop.
Stop == ~stopping /\ stopping' = TRUE /\ UNCHANGED <<status, stopped>>

\* CycleOutcome::Shutdown, or the end of Executor::drop.
Report ==
  /\ stopping /\ ~stopped
  /\ \A t \in Task : status[t] # "registered"
  /\ stopped' = TRUE
  /\ UNCHANGED <<status, stopping>>

Next ==
  \/ Stop \/ Report
  \/ \E t \in Task : Submit(t) \/ Refuse(t) \/ Succeed(t) \/ Panic(t) \/ Cancel(t)

Spec == Init /\ [][Next]_vars
=============================================================================

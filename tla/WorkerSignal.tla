---------------------------- MODULE WorkerSignal ----------------------------
(***************************************************************************)
(* What every thread of an Arty runtime shares with every other: the       *)
(* one-shot shutdown cause (runtime/shutdown.rs) and the wake signal of    *)
(* each asynchronous worker (runtime/worker/asynchronous/signal.rs).       *)
(***************************************************************************)
EXTENDS Integers, FiniteSets, Sequences

CONSTANT Workers   \* asynchronous worker threads of the runtime

ASSUME WorkersAssumption == IsFiniteSet(Workers) /\ Workers # {}

VARIABLES
  cause,        \* Shutdown::inner, "none" while unset
  notified,     \* Signal::ready of each worker, a Notify with one permit
  primary,      \* DriverInterrupt::primary of each worker is set
  interrupted   \* the wake of each primary I/O driver, kept until a wait ends

signalVars == <<cause, notified, primary, interrupted>>

\* "stop" is the default cause, without an error; the others carry one.
Causes == {"stop", "panic", "driver", "worker"}
HasError(c) == c \in Causes \ {"stop"}

Started == cause # "none"

\* Shutdown::begin: the first cause stays.
Begin(c) == cause' = IF Started THEN cause ELSE c

\* The two effects of Signal::notify, in this order.  A worker without a
\* primary driver has nothing to interrupt.
NotifyReady(w) == notified' = [notified EXCEPT ![w] = TRUE]
WakeDriver(w) == interrupted' = [interrupted EXCEPT ![w] = @ \/ primary[w]]

SignalInit ==
  /\ cause = "none"
  /\ notified = [w \in Workers |-> FALSE]
  /\ primary = [w \in Workers |-> FALSE]
  /\ interrupted = [w \in Workers |-> FALSE]

SignalTypeOK ==
  /\ cause \in Causes \cup {"none"}
  /\ notified \in [Workers -> BOOLEAN]
  /\ primary \in [Workers -> BOOLEAN]
  /\ interrupted \in [Workers -> BOOLEAN]
=============================================================================

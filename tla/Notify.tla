------------------------------- MODULE Notify -------------------------------
(***************************************************************************)
(* The coalescing notification of crate performables, sync/notify.rs: one  *)
(* atomic word, a queue of waiters behind a lock, blocking waits of        *)
(* threads (with or without a timeout) and asynchronous waits that can be  *)
(* enabled, polled and dropped.  One step is one access to the word or one *)
(* critical section of the queue lock; enqueue_with is split where it      *)
(* gives other threads a view of the word between its two exchanges.       *)
(***************************************************************************)
EXTENDS Naturals, Sequences, FiniteSets, SequencesExt

CONSTANTS
  Threads,    \* calls of wait and wait_timeout, each on a thread of its own
  Timed,      \* the ones that call wait_timeout
  Futures,    \* calls of wait_async
  Notifiers,  \* calls of notify_one
  NoWait      \* no wait

Waits  == Threads \union Futures
Actors == Waits \union Notifiers

ASSUME NotifyAssumption ==
  /\ IsFiniteSet(Threads) /\ IsFiniteSet(Futures) /\ IsFiniteSet(Notifiers)
  /\ Timed \subseteq Threads /\ Threads \intersect Futures = {}
  /\ Waits \intersect Notifiers = {} /\ NoWait \notin Actors

VARIABLES
  state,      \* State::state
  queue,      \* State::queue, the waiters in registration order
  lock,       \* the wait that holds the queue lock between two steps
  pc,         \* where each wait is
  goal,       \* what a future's registration was for: enable, or a poll
  notified,   \* Waiter::notified
  received,   \* NotifyWait::received
  unparked,   \* the park token of each blocked thread
  waker,      \* Target::Task holds a waker
  scheduled,  \* the task of the future was woken and will be polled
  at,         \* where each actor's notify_from call is
  seen,       \* the word as that call last saw it
  target,     \* the waiter it popped and has yet to wake
  coalesced   \* how many notifications met a permit that was already stored

sharedVars == <<state, queue, lock, notified>>
waitVars   == <<pc, goal, received, unparked, waker, scheduled>>
callVars   == <<at, seen, target, coalesced>>
vars       == <<sharedVars, waitVars, callVars>>

Words == {"empty", "permit", "waiting"}

NotifyTypeOK ==
  /\ state \in Words /\ queue \in Seq(Waits) /\ lock \in Waits \union {NoWait}
  /\ pc \in [Waits -> {"start", "enqueue", "register", "check", "parked", "consumed",
                       "idle", "poll", "arm", "recheck", "pending", "release",
                       "done", "gone"}]
  /\ goal \in [Futures -> {"enable", "poll"}]
  /\ notified \in [Waits -> BOOLEAN] /\ received \in [Futures -> BOOLEAN]
  /\ unparked \in [Threads -> BOOLEAN]
  /\ waker \in [Futures -> BOOLEAN] /\ scheduled \in [Futures -> BOOLEAN]
  /\ at \in [Actors -> {"none", "load", "exchange", "pop", "wake", "returned"}]
  /\ seen \in [Actors -> Words] /\ target \in [Actors -> Waits \union {NoWait}]
  /\ coalesced \in Nat

Init ==
  /\ state = "empty" /\ queue = <<>> /\ lock = NoWait
  /\ pc = [w \in Waits |-> "start"] /\ goal = [f \in Futures |-> "poll"]
  /\ notified = [w \in Waits |-> FALSE] /\ received = [f \in Futures |-> FALSE]
  /\ unparked = [w \in Threads |-> FALSE]
  /\ waker = [f \in Futures |-> FALSE] /\ scheduled = [f \in Futures |-> FALSE]
  /\ at = [a \in Actors |-> "none"] /\ seen = [a \in Actors |-> "empty"]
  /\ target = [a \in Actors |-> NoWait] /\ coalesced = 0

Goto(w, label) == pc' = [pc EXCEPT ![w] = label]

\* State::try_take succeeds.
Take == state = "permit" /\ state' = "empty"
Miss == state # "permit" /\ UNCHANGED state

-----------------------------------------------------------------------------
(* State::notify_from, called by notify_one and by a wait that passes its    *)
(* notification on.                                                          *)

Call(a) == at' = [at EXCEPT ![a] = "load"]

NotifyOne(n) ==
  /\ n \in Notifiers /\ at[n] = "none"
  /\ Call(n)
  /\ UNCHANGED <<sharedVars, waitVars, seen, target, coalesced>>

\* Once a call has seen the word it either pops a waiter or tries to leave a
\* permit: only the latter compares with what was seen.
Route(a, word) ==
  \/ /\ word = "waiting"
     /\ seen' = [seen EXCEPT ![a] = "empty"] /\ at' = [at EXCEPT ![a] = "pop"]
  \/ /\ word # "waiting"
     /\ seen' = [seen EXCEPT ![a] = word] /\ at' = [at EXCEPT ![a] = "exchange"]

\* The load is relaxed: what it returns may be outdated when it is used, which
\* the steps of others between this one and the next one stand for.
Load(a) ==
  /\ at[a] = "load"
  /\ Route(a, state)
  /\ UNCHANGED <<sharedVars, waitVars, target, coalesced>>

\* Variant for testing the properties: the permit is stored without comparing.
ExchangeBlind(a) ==
  /\ at[a] = "exchange"
  /\ state' = "permit"
  /\ coalesced' = coalesced + (IF state = "permit" THEN 1 ELSE 0)
  /\ at' = [at EXCEPT ![a] = "returned"]
  /\ UNCHANGED <<queue, lock, notified, waitVars, seen, target>>

\* A weak exchange that fails spuriously leaves everything as it was.
Exchange(a) ==
  /\ at[a] = "exchange"
  /\ \/ /\ state = seen[a]
        /\ state' = "permit"
        /\ coalesced' = coalesced + (IF state = "permit" THEN 1 ELSE 0)
        /\ at' = [at EXCEPT ![a] = "returned"]
        /\ seen' = [seen EXCEPT ![a] = "empty"]
        /\ UNCHANGED <<queue, lock, notified>>
     \/ /\ state # seen[a]
        /\ Route(a, state)
        /\ UNCHANGED <<sharedVars, coalesced>>
  /\ UNCHANGED <<waitVars, target>>

\* notify_waiter under the lock.  The word and the flag of the waiter are
\* written before the lock is released; only the waiter itself reads its flag
\* without the lock.
Pop(a) ==
  /\ at[a] = "pop" /\ lock = NoWait
  /\ \/ /\ queue # <<>>
        /\ queue' = Tail(queue)
        /\ state' = IF Tail(queue) = <<>> THEN "empty" ELSE state
        /\ notified' = [notified EXCEPT ![Head(queue)] = TRUE]
        /\ target' = [target EXCEPT ![a] = Head(queue)]
        /\ at' = [at EXCEPT ![a] = "wake"]
     \/ /\ queue = <<>>
        /\ at' = [at EXCEPT ![a] = "load"]
        /\ UNCHANGED <<queue, state, notified, target>>
  /\ UNCHANGED <<lock, waitVars, seen, coalesced>>

\* Waiter::wake, after the lock is released.
Wake(a) ==
  /\ at[a] = "wake"
  /\ at' = [at EXCEPT ![a] = "returned"]
  /\ target' = [target EXCEPT ![a] = NoWait]
  /\ LET w == target[a] IN
       \/ /\ w \in Threads
          /\ unparked' = [unparked EXCEPT ![w] = TRUE]
          /\ UNCHANGED <<waker, scheduled>>
       \/ /\ w \in Futures
          /\ waker' = [waker EXCEPT ![w] = FALSE]
          /\ scheduled' = [scheduled EXCEPT ![w] = @ \/ waker[w]]
          /\ UNCHANGED unparked
  /\ UNCHANGED <<sharedVars, pc, goal, received, seen, coalesced>>

-----------------------------------------------------------------------------
(* State::enqueue and State::cancel.                                         *)

\* Where a wait goes on once it is registered or was handed the permit.
Registered(w) ==
  IF w \in Threads THEN "check" ELSE IF goal[w] = "enable" THEN "idle" ELSE "poll"

EnqueueTake(w) ==
  /\ pc[w] = "enqueue" /\ lock \in {NoWait, w}
  /\ \/ /\ Take
        /\ notified' = [notified EXCEPT ![w] = TRUE]
        /\ lock' = NoWait /\ Goto(w, Registered(w))
     \/ /\ Miss
        /\ lock' = w /\ Goto(w, "register")
        /\ UNCHANGED notified
  /\ UNCHANGED <<queue, goal, received, unparked, waker, scheduled, callVars>>

EnqueuePush(w) ==
  /\ pc[w] = "register"
  /\ \/ /\ state # "permit"
        /\ state' = "waiting" /\ queue' = Append(queue, w)
        /\ lock' = NoWait /\ Goto(w, Registered(w))
     \/ /\ state = "permit"
        /\ Goto(w, "enqueue")
        /\ UNCHANGED <<state, queue, lock>>
  /\ UNCHANGED <<notified, goal, received, unparked, waker, scheduled, callVars>>

\* remove_index_if: the slot of the waiter leaves the queue if the waiter is
\* still in it, and the last one resets the word.
Unregister(w) ==
  \/ \E i \in DOMAIN queue :
       /\ queue[i] = w
       /\ queue' = RemoveAt(queue, i)
       /\ state' = IF queue' = <<>> THEN "empty" ELSE state
  \/ w \notin ToSet(queue) /\ UNCHANGED <<queue, state>>

\* Variant for testing the properties: a cancelled wait keeps its notification.
CancelSilent(w) ==
  /\ pc[w] \in {"release", "consumed"} /\ lock = NoWait
  /\ Unregister(w)
  /\ Goto(w, IF pc[w] = "consumed" THEN "done" ELSE "gone")
  /\ UNCHANGED <<lock, notified, goal, received, unparked, waker, scheduled, callVars>>

\* State::cancel: Registration::drop of a thread (which has cleared its flag
\* when it consumed the notification) and NotifyWait::drop of a future.
Cancel(w) ==
  /\ pc[w] \in {"release", "consumed"} /\ lock = NoWait
  /\ Unregister(w)
  /\ Goto(w, IF pc[w] = "consumed" THEN "done" ELSE "gone")
  /\ \/ notified[w] /\ Call(w)
     \/ ~notified[w] /\ UNCHANGED at
  /\ UNCHANGED <<lock, notified, goal, received, unparked, waker, scheduled,
                 seen, target, coalesced>>

-----------------------------------------------------------------------------
(* Notify::wait and Notify::wait_timeout.                                    *)

Wait(w) ==
  /\ w \in Threads /\ pc[w] = "start"
  /\ \/ Take /\ Goto(w, "done")
     \/ Miss /\ Goto(w, "enqueue")
     \/ Miss /\ w \in Timed /\ Goto(w, "gone")  \* a zero timeout
  /\ UNCHANGED <<queue, lock, notified, goal, received, unparked, waker, scheduled, callVars>>

\* One turn of the loop of wait_contended.
Check(w) ==
  /\ pc[w] = "check"
  /\ \/ /\ notified[w]
        /\ notified' = [notified EXCEPT ![w] = FALSE] /\ Goto(w, "consumed")
     \/ /\ ~notified[w] /\ UNCHANGED notified
        /\ \/ Goto(w, "parked")
           \/ w \in Timed /\ Goto(w, "release")  \* the deadline has passed
  /\ UNCHANGED <<state, queue, lock, goal, received, unparked, waker, scheduled, callVars>>

Unpark(w) ==
  /\ w \in Threads /\ pc[w] = "parked" /\ unparked[w]
  /\ unparked' = [unparked EXCEPT ![w] = FALSE] /\ Goto(w, "check")
  /\ UNCHANGED <<sharedVars, goal, received, waker, scheduled, callVars>>

\* park may return for no reason, park_timeout when the time is over.
Resume(w) ==
  /\ w \in Threads /\ pc[w] = "parked"
  /\ Goto(w, "check")
  /\ UNCHANGED <<sharedVars, goal, received, unparked, waker, scheduled, callVars>>

-----------------------------------------------------------------------------
(* NotifyWait: enable, poll and drop.                                        *)

\* The first call of enable or poll: NotifyWait::enable up to the registration.
Begin(f, for) ==
  /\ f \in Futures /\ pc[f] = "start"
  /\ goal' = [goal EXCEPT ![f] = for]
  /\ \/ Take /\ for = "poll" /\ Goto(f, "done") /\ UNCHANGED received
     \/ /\ Take /\ for = "enable" /\ Goto(f, "idle")
        /\ received' = [received EXCEPT ![f] = TRUE]
     \/ Miss /\ Goto(f, "enqueue") /\ UNCHANGED received
  /\ UNCHANGED <<queue, lock, notified, unparked, waker, scheduled, callVars>>

\* A later poll, of a task that was woken or for no reason.
Poll(f) ==
  /\ f \in Futures /\ pc[f] \in {"idle", "pending"}
  /\ scheduled' = [scheduled EXCEPT ![f] = FALSE]
  /\ Goto(f, IF received[f] THEN "done" ELSE "poll")
  /\ UNCHANGED <<sharedVars, goal, received, unparked, waker, callVars>>

\* The end of enable: is the notification there already?
Enabled(f) ==
  /\ pc[f] = "poll"
  /\ Goto(f, IF notified[f] THEN "done" ELSE "arm")
  /\ UNCHANGED <<sharedVars, goal, received, unparked, waker, scheduled, callVars>>

\* Waiter::register.
Arm(f) ==
  /\ pc[f] = "arm"
  /\ waker' = [waker EXCEPT ![f] = TRUE] /\ Goto(f, "recheck")
  /\ UNCHANGED <<sharedVars, goal, received, unparked, scheduled, callVars>>

\* Variant for testing the properties: the flag is not read again.
RecheckNever(f) ==
  /\ pc[f] = "recheck"
  /\ Goto(f, "pending")
  /\ UNCHANGED <<sharedVars, goal, received, unparked, waker, scheduled, callVars>>

\* A notification that came before the waker was stored woke nobody: poll reads
\* the flag once more.
Recheck(f) ==
  /\ pc[f] = "recheck"
  /\ Goto(f, IF notified[f] THEN "done" ELSE "pending")
  /\ UNCHANGED <<sharedVars, goal, received, unparked, waker, scheduled, callVars>>

\* NotifyWait::drop before completion, between two polls.
Drop(f) ==
  /\ f \in Futures
  /\ \/ pc[f] = "start" /\ Goto(f, "gone") /\ UNCHANGED at
     \/ pc[f] \in {"idle", "pending"} /\ received[f] /\ Goto(f, "gone") /\ Call(f)
     \/ pc[f] \in {"idle", "pending"} /\ ~received[f] /\ Goto(f, "release") /\ UNCHANGED at
  /\ UNCHANGED <<sharedVars, goal, received, unparked, waker, scheduled,
                 seen, target, coalesced>>

-----------------------------------------------------------------------------
NotifyStep(a) == Load(a) \/ Exchange(a) \/ Pop(a) \/ Wake(a)
WaitStep(w) ==
  EnqueueTake(w) \/ EnqueuePush(w) \/ Cancel(w) \/ Check(w) \/ Unpark(w)
  \/ Enabled(w) \/ Arm(w) \/ Recheck(w)

Next ==
  \/ \E n \in Notifiers : NotifyOne(n)
  \/ \E a \in Actors : NotifyStep(a)
  \/ \E w \in Waits : WaitStep(w)
  \/ \E w \in Threads : Wait(w) \/ Resume(w)
  \/ \E f \in Futures : (\E for \in {"enable", "poll"} : Begin(f, for)) \/ Poll(f) \/ Drop(f)

Spec == Init /\ [][Next]_vars

\* A call that has begun runs on: its thread is scheduled.  A task that was woken
\* is polled.  Nothing obliges anyone to notify, to wait, to time out, to poll
\* without being woken, or to drop.
FairSpec ==
  /\ Spec
  /\ \A a \in Actors : WF_vars(NotifyStep(a))
  /\ \A w \in Waits : WF_vars(WaitStep(w))
  /\ \A f \in Futures : WF_vars(scheduled[f] /\ Poll(f))

-----------------------------------------------------------------------------
(* Properties. *)

Finished == {"done", "gone"}

\* The waits that have a Waiter and have neither been notified nor let go of it.
Queued ==
  {w \in Waits : /\ pc[w] \in {"check", "parked", "idle", "poll", "arm", "recheck",
                               "pending", "release"}
                 /\ ~notified[w] /\ (w \in Futures => ~received[w])}

\* The queue holds exactly the waits that are registered and not yet notified,
\* each once, and the word says WAITING exactly while there are any: no permit is
\* stored past a registered waiter, and nobody is woken who has returned.
QueueExact ==
  /\ (state = "waiting") <=> (queue # <<>>)
  /\ IsInjective(queue) /\ ToSet(queue) = Queued

Issued   == {n \in Notifiers : at[n] # "none"}
InFlight == {a \in Actors : at[a] \in {"load", "exchange", "pop"}}
Assigned == {w \in Waits : /\ pc[w] \notin Finished
                           /\ notified[w] \/ (w \in Futures /\ received[w])}
Consumed == {w \in Waits : pc[w] \in {"done", "consumed"}}

\* Every notification issued is in exactly one place: consumed by one wait that
\* returned, coalesced into a stored permit, stored as the permit, assigned to a
\* wait that has not returned, or on its way.  None is lost when the wait it was
\* assigned to times out or is dropped, and none is consumed twice.
Conserved ==
  Cardinality(Issued) =
    Cardinality(Consumed) + coalesced + Cardinality(Assigned) + Cardinality(InFlight)
    + (IF state = "permit" THEN 1 ELSE 0)

\* A thread that parked and a task that went to sleep are woken when a
\* notification is assigned to them, however the assignment raced with parking or
\* with storing the waker.
AssignedReturns ==
  \A w \in Waits : (pc[w] \in {"parked", "pending"} /\ notified[w]) ~> pc[w] \in Finished
=============================================================================

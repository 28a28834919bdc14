---------------------------- MODULE NotifyProofs ----------------------------
(***************************************************************************)
(* Machine-checked proofs about Notify, for any number of blocking and     *)
(* asynchronous waits, timeouts, drops and calls of notify_one.            *)
(***************************************************************************)
EXTENDS Notify, FiniteSetTheorems, SequenceTheorems, TLAPS

ThreadLabels == {"start", "enqueue", "register", "check", "parked", "consumed", "release",
                 "done", "gone"}
FutureLabels == {"start", "enqueue", "register", "idle", "poll", "arm", "recheck", "pending",
                 "release", "done", "gone"}

\* What one wait may have where: a thread never is where a future goes, a wait
\* has no notification before it is registered or after it has consumed one, a
\* permit is only kept for a future that was enabled and not polled since, and
\* only a wait that has returned passes a notification on.
WaitOK(w) ==
  /\ w \in Threads => pc[w] \in ThreadLabels
  /\ w \in Futures => pc[w] \in FutureLabels
  /\ pc[w] \in {"start", "enqueue", "register", "consumed"} => ~notified[w]
  /\ w \in Futures /\ received[w] => pc[w] \in {"idle", "done", "gone"}
  /\ pc[w] \notin Finished => at[w] = "none"

WaitsOK == \A w \in Waits : WaitOK(w)

\* A call that tries to leave a permit has not seen a waiter.
CallsOK == \A a \in Actors : at[a] = "exchange" => seen[a] \in {"empty", "permit"}

NotifyInv == NotifyTypeOK /\ WaitsOK /\ CallsOK

-----------------------------------------------------------------------------
(* Types and the state of each wait. *)

LEMMA InitNotify == Init => NotifyInv
<1> SUFFICES ASSUME Init PROVE NotifyInv
  OBVIOUS
<1>1. notified \in [Waits -> BOOLEAN] /\ received \in [Futures -> BOOLEAN]
      /\ unparked \in [Threads -> BOOLEAN] /\ waker \in [Futures -> BOOLEAN]
      /\ scheduled \in [Futures -> BOOLEAN]
  BY Zenon DEF Init
<1>2. NotifyTypeOK
  BY <1>1 DEF Init, NotifyTypeOK, Words
<1>3. WaitsOK /\ CallsOK
  BY DEF Init, WaitsOK, WaitOK, CallsOK, ThreadLabels, FutureLabels, Waits, Actors, Finished
<1> QED
  BY <1>2, <1>3 DEF NotifyInv

LEMMA CallInv ==
  ASSUME NotifyInv, NEW a \in Actors, (a \in Notifiers /\ NotifyOne(a)) \/ NotifyStep(a), QueueExact
  PROVE  NotifyInv'
<1> USE DEF NotifyInv, NotifyTypeOK, Words, sharedVars, waitVars, callVars, CallsOK
<1> USE DEF Call
<1>1. CASE NotifyOne(a)
  <2>1. NotifyTypeOK' /\ CallsOK'
    BY <1>1 DEF NotifyOne
  <2>2. a \notin Waits
    BY <1>1, NotifyAssumption DEF NotifyOne
  <2>3. WaitsOK'
    BY <1>1, <2>2 DEF NotifyOne, WaitsOK, WaitOK, Actors
  <2> QED
    BY <2>1, <2>3
<1>2. CASE Load(a)
  <2>1. NotifyTypeOK'
    BY <1>2 DEF Load, Route
  <2>3. CallsOK'
    BY <1>2 DEF Load, Route
  <2>2. WaitsOK'
    BY <1>2 DEF Load, Route, WaitsOK, WaitOK, Actors
  <2> QED
    BY <2>1, <2>2, <2>3
<1>3. CASE Exchange(a)
  <2>1. NotifyTypeOK'
    BY <1>3 DEF Exchange, Route
  <2>2. CallsOK'
    BY <1>3 DEF Exchange, Route
  <2>3. WaitsOK'
    BY <1>3 DEF Exchange, Route, WaitsOK, WaitOK, Actors
  <2> QED
    BY <2>1, <2>2, <2>3
<1>4. CASE Pop(a)
  <2>1. CASE queue = <<>>
    BY <1>4, <2>1 DEF Pop, WaitsOK, WaitOK, Actors
  <2>2. CASE queue # <<>>
    <3>1. Head(queue) \in Waits /\ Tail(queue) \in Seq(Waits) /\ Head(queue) \in Queued
      BY <2>2 DEF QueueExact, ToSet
    <3>2. queue' = Tail(queue) /\ state' \in Words
          /\ notified' = [notified EXCEPT ![Head(queue)] = TRUE]
          /\ target' = [target EXCEPT ![a] = Head(queue)] /\ at' = [at EXCEPT ![a] = "wake"]
          /\ at[a] = "pop" /\ UNCHANGED <<lock, waitVars, seen, coalesced>>
      BY <1>4, <2>2 DEF Pop
    <3>3. NotifyTypeOK' /\ CallsOK'
      BY <3>1, <3>2
    <3>4. WaitsOK'
      BY <3>1, <3>2 DEF WaitsOK, WaitOK, Actors, Queued
    <3> QED
      BY <3>3, <3>4
  <2> QED
    BY <2>1, <2>2
<1>5. CASE Wake(a)
  <2>1. NotifyTypeOK' /\ CallsOK'
    BY <1>5 DEF Wake
  <2>2. WaitsOK'
    BY <1>5 DEF Wake, WaitsOK, WaitOK, Actors
  <2> QED
    BY <2>1, <2>2
<1> QED
  BY <1>1, <1>2, <1>3, <1>4, <1>5 DEF NotifyStep

\* Taking one slot out of the queue.
LEMMA Removed ==
  ASSUME NEW S, NEW q \in Seq(S), NEW i \in DOMAIN q
  PROVE  /\ RemoveAt(q, i) \in Seq(S) /\ Len(RemoveAt(q, i)) = Len(q) - 1
         /\ \A n \in 1 .. Len(q) - 1 : RemoveAt(q, i)[n] = IF n < i THEN q[n] ELSE q[n + 1]
<1> DEFINE f == SubSeq(q, 1, i - 1)
           b == SubSeq(q, i + 1, Len(q))
<1>1. i \in 1 .. Len(q) /\ Len(q) \in Nat /\ i \in Nat
  OBVIOUS
<1>2. f \in Seq(S) /\ Len(f) = i - 1 /\ \A n \in 1 .. i - 1 : f[n] = q[n]
  BY <1>1
<1>3. b \in Seq(S) /\ Len(b) = Len(q) - i /\ \A n \in 1 .. Len(q) - i : b[n] = q[i + n]
  BY <1>1
<1> HIDE DEF f, b
<1>4. f \o b \in Seq(S) /\ Len(f \o b) = Len(q) - 1
  BY <1>1, <1>2, <1>3
<1>5. ASSUME NEW n \in 1 .. Len(q) - 1
      PROVE  (f \o b)[n] = IF n < i THEN q[n] ELSE q[n + 1]
  <2>1. CASE n < i
    BY <1>1, <1>2, <1>3, <2>1
  <2>2. CASE ~(n < i)
    <3>1. (f \o b)[n] = b[n - (i - 1)]
      <4>1. n \in 1 .. Len(f) + Len(b) /\ ~(n <= Len(f))
        BY <1>1, <1>2, <1>3, <2>2
      <4>2. (f \o b)[n] = b[n - Len(f)]
        BY <1>2, <1>3, <4>1, ConcatProperties
      <4> QED
        BY <1>2, <4>2
    <3>2. n - (i - 1) \in 1 .. Len(q) - i
      BY <1>1, <2>2
    <3>3. b[n - (i - 1)] = q[i + (n - (i - 1))] /\ i + (n - (i - 1)) = n + 1
      BY <1>1, <1>3, <3>2
    <3> QED
      BY <2>2, <3>1, <3>3
  <2> QED
    BY <2>1, <2>2
<1>6. RemoveAt(q, i) = f \o b
  BY DEF RemoveAt, f, b
<1> QED
  BY <1>4, <1>5, <1>6

LEMMA WaitInv ==
  ASSUME NotifyInv, NEW w \in Waits, WaitStep(w)
  PROVE  NotifyInv'
<1> USE DEF NotifyInv, NotifyTypeOK, Words, sharedVars, waitVars, callVars, CallsOK, Goto
<1>1. w \in Actors /\ (w \in Futures <=> w \notin Threads)
  BY NotifyAssumption DEF Actors, Waits
<1>2. CASE EnqueueTake(w)
  <2>1. Registered(w) \in {"check", "idle", "poll"} /\ (w \in Threads <=> Registered(w) = "check")
    BY <1>1 DEF Registered
  <2>2. UNCHANGED <<goal, received, unparked, waker, scheduled, callVars>>
    BY <1>2 DEF EnqueueTake
  <2>3. pc' = [pc EXCEPT ![w] = Registered(w)] \/ pc' = [pc EXCEPT ![w] = "register"]
        \/ pc' = [pc EXCEPT ![w] = "enqueue"]
    BY <1>2 DEF EnqueueTake
  <2>4. state' \in Words /\ lock' \in Waits \union {NoWait} /\ queue' \in Seq(Waits)
        /\ notified' \in [Waits -> BOOLEAN]
    BY <1>2 DEF EnqueueTake, Take, Miss
  <2>5. NotifyTypeOK' /\ CallsOK'
    BY <2>1, <2>2, <2>3, <2>4
  <2>6. WaitsOK'
    BY <1>1, <1>2, <2>1 DEF EnqueueTake, WaitsOK, WaitOK, ThreadLabels, FutureLabels, Finished
  <2> QED
    BY <2>5, <2>6
<1>3. CASE EnqueuePush(w)
  <2>1. Registered(w) \in {"check", "idle", "poll"} /\ (w \in Threads <=> Registered(w) = "check")
    BY <1>1 DEF Registered
  <2>2. UNCHANGED <<goal, received, unparked, waker, scheduled, callVars>>
    BY <1>3 DEF EnqueuePush
  <2>3. pc' = [pc EXCEPT ![w] = Registered(w)] \/ pc' = [pc EXCEPT ![w] = "register"]
        \/ pc' = [pc EXCEPT ![w] = "enqueue"]
    BY <1>3 DEF EnqueuePush
  <2>4. state' \in Words /\ lock' \in Waits \union {NoWait} /\ queue' \in Seq(Waits)
        /\ notified' \in [Waits -> BOOLEAN]
    <3>1. Append(queue, w) \in Seq(Waits) /\ UNCHANGED notified
      BY <1>3 DEF EnqueuePush
    <3>2. queue' \in Seq(Waits)
      BY <1>3, <3>1 DEF EnqueuePush
    <3>3. state' \in Words /\ lock' \in Waits \union {NoWait}
      BY <1>3 DEF EnqueuePush
    <3> QED
      BY <3>1, <3>2, <3>3
  <2>5. NotifyTypeOK' /\ CallsOK'
    BY <2>1, <2>2, <2>3, <2>4
  <2>6. WaitsOK'
    BY <1>1, <1>3, <2>1 DEF EnqueuePush, WaitsOK, WaitOK, ThreadLabels, FutureLabels, Finished
  <2> QED
    BY <2>5, <2>6
<1>4. CASE Cancel(w)
  <2>1. queue' \in Seq(Waits) /\ state' \in Words
    BY <1>4, Removed DEF Cancel, Unregister
  <2>2. NotifyTypeOK' /\ CallsOK'
    BY <1>1, <1>4, <2>1 DEF Cancel, Call
  <2>3. WaitsOK'
    BY <1>1, <1>4 DEF Cancel, Call, WaitsOK, WaitOK, ThreadLabels, FutureLabels, Finished, Actors
  <2> QED
    BY <2>2, <2>3
<1>5. CASE Check(w)
  <2>1. NotifyTypeOK' /\ CallsOK'
    BY <1>5 DEF Check
  <2>2. WaitsOK'
    BY <1>1, <1>5 DEF Check, WaitsOK, WaitOK, ThreadLabels, FutureLabels, Finished
  <2> QED
    BY <2>1, <2>2
<1>6. CASE Unpark(w)
  <2>1. NotifyTypeOK' /\ CallsOK'
    BY <1>6 DEF Unpark
  <2>2. WaitsOK'
    BY <1>1, <1>6 DEF Unpark, WaitsOK, WaitOK, ThreadLabels, FutureLabels, Finished
  <2> QED
    BY <2>1, <2>2
<1>7. CASE Enabled(w) \/ Recheck(w)
  <2>1. NotifyTypeOK' /\ CallsOK'
    BY <1>7 DEF Enabled, Recheck
  <2>2. WaitsOK'
    BY <1>1, <1>7 DEF Enabled, Recheck, WaitsOK, WaitOK, ThreadLabels, FutureLabels, Finished
  <2> QED
    BY <2>1, <2>2
<1>8. CASE Arm(w)
  <2>1. w \in Futures
    BY <1>1, <1>8 DEF Arm, WaitsOK, WaitOK, ThreadLabels
  <2>2. NotifyTypeOK' /\ CallsOK'
    BY <1>8, <2>1 DEF Arm
  <2>3. WaitsOK'
    BY <1>1, <1>8 DEF Arm, WaitsOK, WaitOK, ThreadLabels, FutureLabels, Finished
  <2> QED
    BY <2>2, <2>3
<1> QED
  BY <1>2, <1>3, <1>4, <1>5, <1>6, <1>7, <1>8 DEF WaitStep

LEMMA ThreadInv ==
  ASSUME NotifyInv, NEW w \in Threads, Wait(w) \/ Resume(w)
  PROVE  NotifyInv'
<1> USE DEF NotifyInv, NotifyTypeOK, Words, sharedVars, waitVars, callVars, CallsOK, Goto
<1>1. w \in Waits /\ w \notin Futures
  BY NotifyAssumption DEF Waits
<1>2. CASE Wait(w)
  <2>1. NotifyTypeOK' /\ CallsOK'
    BY <1>1, <1>2 DEF Wait, Take, Miss
  <2>2. WaitsOK'
    BY <1>1, <1>2 DEF Wait, WaitsOK, WaitOK, ThreadLabels, FutureLabels, Finished
  <2> QED
    BY <2>1, <2>2
<1>3. CASE Resume(w)
  <2>1. NotifyTypeOK' /\ CallsOK'
    BY <1>1, <1>3 DEF Resume
  <2>2. WaitsOK'
    BY <1>1, <1>3 DEF Resume, WaitsOK, WaitOK, ThreadLabels, FutureLabels, Finished
  <2> QED
    BY <2>1, <2>2
<1> QED
  BY <1>2, <1>3

LEMMA FutureInv ==
  ASSUME NotifyInv, NEW f \in Futures, NEW for \in {"enable", "poll"},
         Begin(f, for) \/ Poll(f) \/ Drop(f)
  PROVE  NotifyInv'
<1> USE DEF NotifyInv, NotifyTypeOK, Words, sharedVars, waitVars, callVars, CallsOK, Goto
<1>1. f \in Waits /\ f \notin Threads /\ f \in Actors
  BY NotifyAssumption DEF Waits, Actors
<1>2. CASE Begin(f, for)
  <2>1. NotifyTypeOK' /\ CallsOK'
    BY <1>1, <1>2 DEF Begin, Take, Miss
  <2>2. WaitsOK'
    BY <1>1, <1>2 DEF Begin, WaitsOK, WaitOK, ThreadLabels, FutureLabels, Finished
  <2> QED
    BY <2>1, <2>2
<1>3. CASE Poll(f)
  <2>1. NotifyTypeOK' /\ CallsOK'
    BY <1>1, <1>3 DEF Poll
  <2>2. WaitsOK'
    BY <1>1, <1>3 DEF Poll, WaitsOK, WaitOK, ThreadLabels, FutureLabels, Finished
  <2> QED
    BY <2>1, <2>2
<1>4. CASE Drop(f)
  <2>1. NotifyTypeOK' /\ CallsOK'
    BY <1>1, <1>4 DEF Drop, Call
  <2>2. WaitsOK'
    BY <1>1, <1>4 DEF Drop, Call, WaitsOK, WaitOK, ThreadLabels, FutureLabels, Finished, Actors
  <2> QED
    BY <2>1, <2>2
<1> QED
  BY <1>2, <1>3, <1>4

-----------------------------------------------------------------------------
(* The queue. *)

\* A step that leaves the queue and the registered waits alone keeps the queue
\* exact, unless it announces waiters or takes the announcement back.
LEMMA QueueKept ==
  ASSUME QueueExact, queue' = queue, state' = "waiting" <=> state = "waiting",
         \A w \in Waits : w \in Queued' <=> w \in Queued
  PROVE  QueueExact'
<1>1. Queued' = Queued
  BY DEF Queued
<1> QED
  BY <1>1 DEF QueueExact

LEMMA CallQueue ==
  ASSUME NotifyInv, QueueExact, NEW a \in Actors, NotifyOne(a) \/ NotifyStep(a)
  PROVE  QueueExact'
<1> USE DEF NotifyInv, NotifyTypeOK, sharedVars, waitVars
<1>1. CASE NotifyOne(a) \/ Load(a)
  <2>1. UNCHANGED <<queue, state, pc, notified, received>>
    BY <1>1 DEF NotifyOne, Load
  <2> QED
    BY <2>1, QueueKept DEF Queued
<1>2. CASE Wake(a)
  <2>1. UNCHANGED <<queue, state, pc, notified, received>>
    BY <1>2 DEF Wake
  <2> QED
    BY <2>1, QueueKept DEF Queued
<1>3. CASE Exchange(a)
  <2>1. UNCHANGED <<queue, pc, notified, received>> /\ (state' = "waiting" <=> state = "waiting")
    BY <1>3 DEF Exchange, CallsOK
  <2> QED
    BY <2>1, QueueKept DEF Queued
<1>4. CASE Pop(a) /\ queue = <<>>
  <2>1. UNCHANGED <<queue, state, pc, notified, received>>
    BY <1>4 DEF Pop
  <2> QED
    BY <2>1, QueueKept DEF Queued
<1>5. CASE Pop(a) /\ queue # <<>>
  <2>1. /\ queue' = Tail(queue) /\ notified' = [notified EXCEPT ![Head(queue)] = TRUE]
        /\ state' = IF Tail(queue) = <<>> THEN "empty" ELSE state
        /\ UNCHANGED <<pc, received>>
    BY <1>5 DEF Pop
  <2>2. /\ Head(queue) = queue[1] /\ 1 \in DOMAIN queue /\ Head(queue) \in Waits
        /\ \A i \in DOMAIN Tail(queue) : i + 1 \in DOMAIN queue /\ Tail(queue)[i] = queue[i + 1]
                                         /\ i \in Nat /\ i # 0
        /\ \A i \in DOMAIN queue : i \in Nat /\ (i # 1 => i - 1 \in DOMAIN Tail(queue)
                                                /\ Tail(queue)[i - 1] = queue[i])
    BY <1>5
  <2>3. state' = "waiting" <=> queue' # <<>>
    BY <1>5, <2>1 DEF QueueExact
  <2>4. IsInjective(Tail(queue))
    <3> SUFFICES ASSUME NEW i \in DOMAIN Tail(queue), NEW n \in DOMAIN Tail(queue),
                        Tail(queue)[i] = Tail(queue)[n]
                 PROVE  i = n
      BY DEF IsInjective
    <3>1. i + 1 = n + 1
      BY <2>2 DEF QueueExact, IsInjective
    <3> QED
      BY <2>2, <3>1
  <2>5. Queued' = Queued \ {Head(queue)}
    BY <2>1, <2>2 DEF Queued
  <2>6. ToSet(Tail(queue)) = ToSet(queue) \ {Head(queue)}
    <3>1. \A i \in DOMAIN Tail(queue) : Tail(queue)[i] # Head(queue)
      <4> SUFFICES ASSUME NEW i \in DOMAIN Tail(queue), Tail(queue)[i] = Head(queue) PROVE FALSE
        OBVIOUS
      <4>1. i + 1 = 1
        BY <2>2 DEF QueueExact, IsInjective
      <4> QED
        BY <2>2, <4>1
    <3>2. \A v : v \in ToSet(Tail(queue)) => v \in ToSet(queue) /\ v # Head(queue)
      BY <2>2, <3>1 DEF ToSet
    <3>3. ASSUME NEW i \in DOMAIN queue, queue[i] # Head(queue)
          PROVE  queue[i] \in ToSet(Tail(queue))
      <4>1. i - 1 \in DOMAIN Tail(queue) /\ Tail(queue)[i - 1] = queue[i]
        BY <2>2, <3>3
      <4> QED
        BY <4>1 DEF ToSet
    <3>4. \A v : v \in ToSet(queue) /\ v # Head(queue) => v \in ToSet(Tail(queue))
      BY <3>3 DEF ToSet
    <3> QED
      BY <3>2, <3>4
  <2> QED
    BY <2>1, <2>3, <2>4, <2>5, <2>6 DEF QueueExact
<1> QED
  BY <1>1, <1>2, <1>3, <1>4, <1>5 DEF NotifyStep

\* A registered wait leaves the queue from wherever it stands in it.
LEMMA CancelQueue ==
  ASSUME NotifyInv, QueueExact, NEW w \in Waits, Cancel(w)
  PROVE  QueueExact'
<1>1. queue \in Seq(Waits) /\ pc'[w] \in Finished /\ UNCHANGED <<notified, received>>
      /\ \A v \in Waits : v # w => pc'[v] = pc[v]
  BY DEF NotifyInv, NotifyTypeOK, Cancel, Goto, Finished
<1>2. Queued' = Queued \ {w}
  BY <1>1 DEF Queued, Finished
<1>3. CASE w \notin ToSet(queue) /\ UNCHANGED <<queue, state>>
  <2>1. Queued' = Queued
    BY <1>2, <1>3 DEF QueueExact
  <2> QED
    BY <1>3, <2>1 DEF QueueExact
<1>4. ASSUME NEW i \in DOMAIN queue, queue[i] = w, queue' = RemoveAt(queue, i),
             state' = IF queue' = <<>> THEN "empty" ELSE state
      PROVE  QueueExact'
  <2>1. /\ queue' \in Seq(Waits) /\ Len(queue') = Len(queue) - 1
        /\ \A n \in 1 .. Len(queue) - 1 : queue'[n] = IF n < i THEN queue[n] ELSE queue[n + 1]
    BY <1>1, <1>4, Removed
  <2>2. i \in 1 .. Len(queue) /\ Len(queue) \in Nat /\ DOMAIN queue = 1 .. Len(queue)
        /\ DOMAIN queue' = 1 .. Len(queue) - 1
    BY <1>1, <2>1
  <2>3. state' = "waiting" <=> queue' # <<>>
    BY <1>1, <1>4, <2>1, <2>2 DEF QueueExact
  <2>4. ASSUME NEW n \in DOMAIN queue'
        PROVE  \E k \in DOMAIN queue : k # i /\ queue'[n] = queue[k] /\ k = IF n < i THEN n ELSE n + 1
    BY <2>1, <2>2
  <2>5. IsInjective(queue')
    <3> SUFFICES ASSUME NEW m \in DOMAIN queue', NEW n \in DOMAIN queue', queue'[m] = queue'[n]
                 PROVE  m = n
      BY DEF IsInjective
    <3>1. (IF m < i THEN m ELSE m + 1) = (IF n < i THEN n ELSE n + 1)
      BY <2>4 DEF QueueExact, IsInjective
    <3>2. m \in Nat /\ n \in Nat /\ i \in Nat
      BY <2>2
    <3> QED
      BY <3>1, <3>2
  <2>6. \A v : v \in ToSet(queue') => v \in ToSet(queue) /\ v # w
    BY <1>4, <2>4 DEF ToSet, QueueExact, IsInjective
  <2>7. ASSUME NEW k \in DOMAIN queue, k # i PROVE queue[k] \in ToSet(queue')
    <3>1. CASE k < i
      <4>1. k \in DOMAIN queue' /\ queue'[k] = queue[k]
        BY <2>1, <2>2, <3>1
      <4> QED
        BY <4>1 DEF ToSet
    <3>2. CASE k > i
      <4>1. k - 1 \in DOMAIN queue' /\ queue'[k - 1] = queue[k]
        BY <2>1, <2>2, <3>2
      <4> QED
        BY <4>1 DEF ToSet
    <3> QED
      BY <2>2, <2>7, <3>1, <3>2
  <2>8. ToSet(queue') = ToSet(queue) \ {w}
    BY <1>4, <2>6, <2>7 DEF ToSet
  <2> QED
    BY <1>2, <2>3, <2>5, <2>8 DEF QueueExact
<1> QED
  BY <1>3, <1>4 DEF Cancel, Unregister

LEMMA PushQueue ==
  ASSUME NotifyInv, QueueExact, NEW w \in Waits, EnqueuePush(w)
  PROVE  QueueExact'
<1>1. queue \in Seq(Waits) /\ UNCHANGED <<notified, received>> /\ pc[w] = "register"
  BY DEF NotifyInv, NotifyTypeOK, EnqueuePush
<1>2. w \notin Queued /\ ~notified[w] /\ (w \in Futures => ~received[w])
  BY <1>1 DEF NotifyInv, WaitsOK, WaitOK, Queued
<1>3. CASE state = "permit"
  <2>1. UNCHANGED <<queue, state>> /\ pc' = [pc EXCEPT ![w] = "enqueue"]
    BY <1>3 DEF EnqueuePush, Goto
  <2>2. \A v \in Waits : v \in Queued' <=> v \in Queued
    BY <1>1, <2>1 DEF Queued, NotifyInv, NotifyTypeOK
  <2> QED
    BY <2>1, <2>2, QueueKept
<1>4. CASE state # "permit"
  <2>1. state' = "waiting" /\ queue' = Append(queue, w) /\ pc' = [pc EXCEPT ![w] = Registered(w)]
    BY <1>4 DEF EnqueuePush, Goto
  <2>2. Queued' = Queued \cup {w}
    BY <1>1, <1>2, <2>1 DEF Queued, Registered, NotifyInv, NotifyTypeOK
  <2>3. /\ DOMAIN queue' = DOMAIN queue \cup {Len(queue) + 1} /\ Len(queue) + 1 \notin DOMAIN queue
        /\ queue'[Len(queue) + 1] = w /\ \A i \in DOMAIN queue : queue'[i] = queue[i]
        /\ queue' # <<>>
    BY <1>1, <2>1
  <2>4. \A i \in DOMAIN queue : queue[i] # w
    BY <1>2 DEF QueueExact, ToSet
  <2>5. IsInjective(queue')
    BY <2>3, <2>4 DEF IsInjective, QueueExact
  <2>6. ToSet(queue') = ToSet(queue) \cup {w}
    BY <2>3 DEF ToSet
  <2> QED
    BY <2>1, <2>2, <2>3, <2>5, <2>6 DEF QueueExact
<1> QED
  BY <1>3, <1>4

LEMMA WaitQueue ==
  ASSUME NotifyInv, QueueExact, NEW w \in Waits, WaitStep(w), ~Cancel(w), ~EnqueuePush(w)
  PROVE  QueueExact'
<1> USE DEF NotifyInv, NotifyTypeOK, Goto, sharedVars, callVars
<1>1. CASE EnqueueTake(w)
  <2>1. queue' = queue /\ (state' = "waiting" <=> state = "waiting")
    BY <1>1 DEF EnqueueTake, Take, Miss
  <2>2. \A v \in Waits : v \in Queued' <=> v \in Queued
    BY <1>1 DEF EnqueueTake, Queued
  <2> QED
    BY <2>1, <2>2, QueueKept
<1>2. CASE Check(w)
  <2>1. UNCHANGED <<queue, state>>
    BY <1>2 DEF Check
  <2>2. \A v \in Waits : v \in Queued' <=> v \in Queued
    BY <1>2 DEF Check, Queued
  <2> QED
    BY <2>1, <2>2, QueueKept
<1>3. CASE Unpark(w) \/ Enabled(w) \/ Arm(w) \/ Recheck(w)
  <2>1. UNCHANGED <<queue, state>>
    BY <1>3 DEF Unpark, Enabled, Arm, Recheck
  <2>2. \A v \in Waits : v \in Queued' <=> v \in Queued
    BY <1>3 DEF Unpark, Enabled, Arm, Recheck, Queued
  <2> QED
    BY <2>1, <2>2, QueueKept
<1> QED
  BY <1>1, <1>2, <1>3 DEF WaitStep

LEMMA UserQueue ==
  ASSUME NotifyInv, QueueExact, NEW w \in Waits, NEW for \in {"enable", "poll"},
         Wait(w) \/ (w \in Threads /\ Resume(w)) \/ Begin(w, for) \/ Poll(w) \/ Drop(w)
  PROVE  QueueExact'
<1> USE DEF NotifyInv, NotifyTypeOK, Goto, sharedVars, callVars
<1>1. queue' = queue /\ (state' = "waiting" <=> state = "waiting")
  BY DEF Wait, Resume, Begin, Poll, Drop, Take, Miss
<1>2. CASE Wait(w) \/ Resume(w)
  <2>1. \A v \in Waits : v \in Queued' <=> v \in Queued
    BY <1>2 DEF Wait, Resume, Queued
  <2> QED
    BY <1>1, <2>1, QueueKept
<1>3. CASE Begin(w, for)
  <2>1. \A v \in Waits : v \in Queued' <=> v \in Queued
    BY <1>3 DEF Begin, Queued
  <2> QED
    BY <1>1, <2>1, QueueKept
<1>4. CASE Poll(w) \/ Drop(w)
  <2>1. \A v \in Waits : v \in Queued' <=> v \in Queued
    BY <1>4 DEF Poll, Drop, Queued
  <2> QED
    BY <1>1, <2>1, QueueKept
<1> QED
  BY <1>2, <1>3, <1>4

LEMMA InitQueue == Init => QueueExact
<1> SUFFICES ASSUME Init PROVE QueueExact
  OBVIOUS
<1>1. Queued = {} /\ queue = <<>> /\ state = "empty"
  BY DEF Init, Queued
<1>2. ToSet(queue) = {} /\ IsInjective(queue)
  BY <1>1 DEF ToSet, IsInjective
<1> QED
  BY <1>1, <1>2 DEF QueueExact

-----------------------------------------------------------------------------
(* The account of the notifications. *)

LEMMA Grown ==
  ASSUME NEW S, IsFiniteSet(S), NEW x, x \notin S, NEW T, T = S \union {x}
  PROVE  Cardinality(T) = Cardinality(S) + 1
BY FS_AddElement

LEMMA Shrunk ==
  ASSUME NEW S, IsFiniteSet(S), NEW x, x \in S, NEW T, T = S \ {x}
  PROVE  Cardinality(T) = Cardinality(S) - 1
BY FS_RemoveElement

LEMMA Finite ==
  /\ IsFiniteSet(Issued) /\ IsFiniteSet(Consumed) /\ IsFiniteSet(Assigned)
  /\ IsFiniteSet(InFlight)
  /\ Cardinality(Issued) \in Nat /\ Cardinality(Consumed) \in Nat
  /\ Cardinality(Assigned) \in Nat /\ Cardinality(InFlight) \in Nat
<1>1. IsFiniteSet(Waits) /\ IsFiniteSet(Notifiers)
  BY NotifyAssumption, FS_Union DEF Waits
<1>2. IsFiniteSet(Actors)
  BY <1>1, FS_Union DEF Actors
<1>3. Issued \subseteq Notifiers /\ Consumed \subseteq Waits /\ Assigned \subseteq Waits
      /\ InFlight \subseteq Actors
  BY DEF Issued, Consumed, Assigned, InFlight
<1>4. IsFiniteSet(Issued) /\ IsFiniteSet(Consumed) /\ IsFiniteSet(Assigned)
      /\ IsFiniteSet(InFlight)
  BY <1>1, <1>2, <1>3, FS_Subset
<1> QED
  BY <1>4, FS_CardinalityType

\* A step that moves no notification.
LEMMA Keep ==
  ASSUME Conserved, UNCHANGED <<Issued, Consumed, Assigned, InFlight, coalesced>>,
         state' = "permit" <=> state = "permit"
  PROVE  Conserved'
BY DEF Conserved

\* A step that moves one: from where to where.
LEMMA CallToFlight ==
  ASSUME Conserved, NEW a, a \notin Issued, a \notin InFlight, coalesced \in Nat,
         Issued' = Issued \union {a}, InFlight' = InFlight \union {a},
         UNCHANGED <<Consumed, Assigned, coalesced, state>>
  PROVE  Conserved'
<1>1. Cardinality(Issued') = Cardinality(Issued) + 1
      /\ Cardinality(InFlight') = Cardinality(InFlight) + 1
  BY Finite, Grown
<1> QED
  BY <1>1, Finite DEF Conserved

LEMMA FlightToPermit ==
  ASSUME Conserved, NEW a \in InFlight, coalesced \in Nat, InFlight' = InFlight \ {a},
         UNCHANGED <<Issued, Consumed, Assigned>>, state' = "permit",
         coalesced' = coalesced + (IF state = "permit" THEN 1 ELSE 0)
  PROVE  Conserved'
<1>1. Cardinality(InFlight') = Cardinality(InFlight) - 1
  BY Finite, Shrunk
<1> QED
  BY <1>1, Finite DEF Conserved

LEMMA FlightToAssigned ==
  ASSUME Conserved, NEW a \in InFlight, NEW w, w \notin Assigned, coalesced \in Nat,
         InFlight' = InFlight \ {a}, Assigned' = Assigned \union {w},
         UNCHANGED <<Issued, Consumed, coalesced>>, state' = "permit" <=> state = "permit"
  PROVE  Conserved'
<1>1. Cardinality(InFlight') = Cardinality(InFlight) - 1
      /\ Cardinality(Assigned') = Cardinality(Assigned) + 1
  BY Finite, Grown, Shrunk
<1> QED
  BY <1>1, Finite DEF Conserved

LEMMA AssignedToFlight ==
  ASSUME Conserved, NEW w \in Assigned, w \notin InFlight, coalesced \in Nat,
         Assigned' = Assigned \ {w}, InFlight' = InFlight \union {w},
         UNCHANGED <<Issued, Consumed, coalesced>>, state' = "permit" <=> state = "permit"
  PROVE  Conserved'
<1>1. Cardinality(InFlight') = Cardinality(InFlight) + 1
      /\ Cardinality(Assigned') = Cardinality(Assigned) - 1
  BY Finite, Grown, Shrunk
<1> QED
  BY <1>1, Finite DEF Conserved

LEMMA AssignedToConsumed ==
  ASSUME Conserved, NEW w \in Assigned, w \notin Consumed, coalesced \in Nat,
         Assigned' = Assigned \ {w}, Consumed' = Consumed \union {w},
         UNCHANGED <<Issued, InFlight, coalesced, state>>
  PROVE  Conserved'
<1>1. Cardinality(Consumed') = Cardinality(Consumed) + 1
      /\ Cardinality(Assigned') = Cardinality(Assigned) - 1
  BY Finite, Grown, Shrunk
<1> QED
  BY <1>1, Finite DEF Conserved

LEMMA PermitToAssigned ==
  ASSUME Conserved, Take, NEW w, w \notin Assigned, coalesced \in Nat,
         Assigned' = Assigned \union {w}, UNCHANGED <<Issued, Consumed, InFlight, coalesced>>
  PROVE  Conserved'
<1>1. Cardinality(Assigned') = Cardinality(Assigned) + 1
  BY Finite, Grown
<1> QED
  BY <1>1, Finite DEF Conserved, Take

LEMMA PermitToConsumed ==
  ASSUME Conserved, Take, NEW w, w \notin Consumed, coalesced \in Nat,
         Consumed' = Consumed \union {w}, UNCHANGED <<Issued, Assigned, InFlight, coalesced>>
  PROVE  Conserved'
<1>1. Cardinality(Consumed') = Cardinality(Consumed) + 1
  BY Finite, Grown
<1> QED
  BY <1>1, Finite DEF Conserved, Take

LEMMA InitConserved == Init => Conserved
<1> SUFFICES ASSUME Init PROVE Conserved
  OBVIOUS
<1>1. Issued = {} /\ Consumed = {} /\ Assigned = {} /\ InFlight = {} /\ coalesced = 0
      /\ state = "empty"
  BY DEF Init, Issued, Consumed, Assigned, InFlight, Actors, Waits
<1>2. Cardinality({}) = 0
  BY FS_EmptySet
<1> QED
  BY <1>1, <1>2 DEF Conserved

\* The steps of a call of notify_from.
LEMMA CallConserved ==
  ASSUME NotifyInv, QueueExact, Conserved, NEW a \in Actors,
         (a \in Notifiers /\ NotifyOne(a)) \/ NotifyStep(a)
  PROVE  Conserved'
<1> USE DEF NotifyInv, NotifyTypeOK, sharedVars, waitVars
<1>1. CASE a \in Notifiers /\ NotifyOne(a)
  <2>1. at[a] = "none" /\ at' = [at EXCEPT ![a] = "load"]
        /\ UNCHANGED <<state, pc, notified, received, coalesced>>
    BY <1>1 DEF NotifyOne, Call
  <2>2. a \notin Issued /\ a \notin InFlight /\ Issued' = Issued \union {a}
        /\ InFlight' = InFlight \union {a}
    BY <1>1, <2>1 DEF Issued, InFlight, Actors
  <2>3. UNCHANGED <<Consumed, Assigned>>
    BY <2>1 DEF Consumed, Assigned
  <2> QED
    BY <2>1, <2>2, <2>3, CallToFlight
<1>2. CASE Load(a)
  <2>1. at[a] = "load" /\ (at' = [at EXCEPT ![a] = "pop"] \/ at' = [at EXCEPT ![a] = "exchange"])
        /\ UNCHANGED <<state, pc, notified, received, coalesced>>
    BY <1>2 DEF Load, Route
  <2>2. UNCHANGED <<Issued, InFlight>>
    BY <2>1 DEF Issued, InFlight, Actors
  <2>3. UNCHANGED <<Consumed, Assigned>>
    BY <2>1 DEF Consumed, Assigned
  <2> QED
    BY <2>1, <2>2, <2>3, Keep
<1>3. CASE Exchange(a) /\ state = seen[a]
  <2>1. at[a] = "exchange" /\ at' = [at EXCEPT ![a] = "returned"] /\ state' = "permit"
        /\ coalesced' = coalesced + (IF state = "permit" THEN 1 ELSE 0)
        /\ UNCHANGED <<pc, notified, received>>
    BY <1>3 DEF Exchange
  <2>2. a \in InFlight /\ UNCHANGED Issued /\ InFlight' = InFlight \ {a}
    BY <2>1 DEF Issued, InFlight, Actors
  <2>3. UNCHANGED <<Consumed, Assigned>>
    BY <2>1 DEF Consumed, Assigned
  <2> QED
    BY <2>1, <2>2, <2>3, FlightToPermit
<1>4. CASE Exchange(a) /\ state # seen[a]
  <2>1. at[a] = "exchange"
        /\ (at' = [at EXCEPT ![a] = "pop"] \/ at' = [at EXCEPT ![a] = "exchange"])
        /\ UNCHANGED <<state, pc, notified, received, coalesced>>
    BY <1>4 DEF Exchange, Route
  <2>2. UNCHANGED <<Issued, InFlight>>
    BY <2>1 DEF Issued, InFlight, Actors
  <2>3. UNCHANGED <<Consumed, Assigned>>
    BY <2>1 DEF Consumed, Assigned
  <2> QED
    BY <2>1, <2>2, <2>3, Keep
<1>5. CASE Pop(a) /\ queue = <<>>
  <2>1. at[a] = "pop" /\ at' = [at EXCEPT ![a] = "load"]
        /\ UNCHANGED <<state, pc, notified, received, coalesced>>
    BY <1>5 DEF Pop
  <2>2. UNCHANGED <<Issued, InFlight>>
    BY <2>1 DEF Issued, InFlight, Actors
  <2>3. UNCHANGED <<Consumed, Assigned>>
    BY <2>1 DEF Consumed, Assigned
  <2> QED
    BY <2>1, <2>2, <2>3, Keep
<1>6. CASE Pop(a) /\ queue # <<>>
  <2>1. Head(queue) \in Queued
    BY <1>6 DEF QueueExact, ToSet
  <2>2. at[a] = "pop" /\ at' = [at EXCEPT ![a] = "wake"]
        /\ notified' = [notified EXCEPT ![Head(queue)] = TRUE]
        /\ UNCHANGED <<pc, received, coalesced>>
    BY <1>6 DEF Pop
  <2>3. state' = "permit" <=> state = "permit"
    BY <1>6 DEF Pop, QueueExact
  <2>4. a \in InFlight /\ UNCHANGED Issued /\ InFlight' = InFlight \ {a}
    BY <2>2 DEF Issued, InFlight, Actors
  <2>5. UNCHANGED Consumed
    BY <2>2 DEF Consumed
  <2>6. Head(queue) \notin Assigned /\ Assigned' = Assigned \union {Head(queue)}
    BY <2>1, <2>2 DEF Assigned, Queued, Finished
  <2> QED
    BY <2>2, <2>3, <2>4, <2>5, <2>6, FlightToAssigned
<1>7. CASE Wake(a)
  <2>1. at[a] = "wake" /\ at' = [at EXCEPT ![a] = "returned"]
        /\ UNCHANGED <<state, pc, notified, received, coalesced>>
    BY <1>7 DEF Wake
  <2>2. UNCHANGED <<Issued, InFlight>>
    BY <2>1 DEF Issued, InFlight, Actors
  <2>3. UNCHANGED <<Consumed, Assigned>>
    BY <2>1 DEF Consumed, Assigned
  <2> QED
    BY <2>1, <2>2, <2>3, Keep
<1> QED
  BY <1>1, <1>2, <1>3, <1>4, <1>5, <1>6, <1>7 DEF NotifyStep

\* A step of a wait that moves its label and nothing the account looks at.
LEMMA MoveConserved ==
  ASSUME NotifyInv, Conserved, NEW w \in Waits,
         UNCHANGED <<at, coalesced, notified, received>>, NEW label, Goto(w, label),
         state' = "permit" <=> state = "permit",
         pc[w] \in {"done", "consumed"} <=> label \in {"done", "consumed"},
         (notified[w] \/ (w \in Futures /\ received[w]))
           => (pc[w] \in Finished <=> label \in Finished)
  PROVE  Conserved'
<1>1. pc' = [pc EXCEPT ![w] = label] /\ DOMAIN pc = Waits
  BY DEF Goto, NotifyInv, NotifyTypeOK
<1>2. UNCHANGED <<Issued, InFlight>>
  BY DEF Issued, InFlight
<1>3. UNCHANGED Consumed
  BY <1>1 DEF Consumed
<1>4. UNCHANGED Assigned
  BY <1>1 DEF Assigned
<1> QED
  BY <1>2, <1>3, <1>4, Keep

\* A step in which a wait takes the notification it was assigned.
LEMMA ConsumeConserved ==
  ASSUME NotifyInv, Conserved, NEW w \in Assigned, pc[w] # "consumed",
         UNCHANGED <<at, coalesced, state, received>>,
         \/ Goto(w, "done") /\ UNCHANGED notified
         \/ Goto(w, "consumed") /\ w \notin Futures /\ notified' = [notified EXCEPT ![w] = FALSE]
  PROVE  Conserved'
<1>1. w \in Waits /\ w \notin Consumed
  BY DEF Assigned, Consumed, Finished
<1>2. UNCHANGED <<Issued, InFlight>>
  BY DEF Issued, InFlight
<1>3. Consumed' = Consumed \union {w}
  BY <1>1 DEF Consumed, Goto, NotifyInv, NotifyTypeOK
<1>4. Assigned' = Assigned \ {w}
  BY <1>1 DEF Assigned, Goto, NotifyInv, NotifyTypeOK, Finished
<1> QED
  BY <1>1, <1>2, <1>3, <1>4, AssignedToConsumed DEF NotifyInv, NotifyTypeOK

LEMMA CancelConserved ==
  ASSUME NotifyInv, QueueExact, Conserved, NEW w \in Waits, Cancel(w)
  PROVE  Conserved'
<1>1. state' = "permit" <=> state = "permit"
  BY DEF Cancel, Unregister, QueueExact, ToSet
<1>2. UNCHANGED <<notified, received, coalesced>>
  BY DEF Cancel
<1>3. CASE ~notified[w]
  <2>1. UNCHANGED at /\ Goto(w, IF pc[w] = "consumed" THEN "done" ELSE "gone")
        /\ pc[w] \in {"release", "consumed"}
    BY <1>3 DEF Cancel
  <2>2. ~(w \in Futures /\ received[w])
    BY <2>1 DEF NotifyInv, WaitsOK, WaitOK
  <2> QED
    BY <1>1, <1>2, <1>3, <2>1, <2>2, MoveConserved
<1>4. CASE notified[w]
  <2>1. pc[w] = "release" /\ at[w] = "none" /\ at' = [at EXCEPT ![w] = "load"]
        /\ pc' = [pc EXCEPT ![w] = "gone"]
    BY <1>4 DEF Cancel, Call, Goto, NotifyInv, WaitsOK, WaitOK, Finished
  <2>2. w \in Actors /\ w \notin Notifiers
    BY NotifyAssumption DEF Actors
  <2>3. w \notin InFlight /\ InFlight' = InFlight \union {w}
    BY <2>1, <2>2 DEF InFlight, NotifyInv, NotifyTypeOK
  <2>4. UNCHANGED Issued
    BY <2>1, <2>2 DEF Issued, NotifyInv, NotifyTypeOK, Actors
  <2>5. UNCHANGED Consumed
    BY <2>1 DEF Consumed, NotifyInv, NotifyTypeOK
  <2>6. w \in Assigned /\ Assigned' = Assigned \ {w}
    BY <1>2, <1>4, <2>1 DEF Assigned, NotifyInv, NotifyTypeOK, Finished
  <2> QED
    BY <1>1, <1>2, <2>3, <2>4, <2>5, <2>6, AssignedToFlight DEF NotifyInv, NotifyTypeOK
<1> QED
  BY <1>3, <1>4

LEMMA WaitConserved ==
  ASSUME NotifyInv, QueueExact, Conserved, NEW w \in Waits, WaitStep(w), ~Cancel(w)
  PROVE  Conserved'
<1> USE DEF sharedVars, callVars
<1>1. /\ DOMAIN pc = Waits /\ notified \in [Waits -> BOOLEAN]
      /\ coalesced \in Nat /\ (w \in Futures <=> w \notin Threads)
  BY NotifyAssumption DEF NotifyInv, NotifyTypeOK, Waits
<1>2. Registered(w) \in {"check", "idle", "poll"}
  BY DEF Registered
<1>3. CASE EnqueueTake(w) /\ Take
  <2>1. pc[w] = "enqueue" /\ pc' = [pc EXCEPT ![w] = Registered(w)]
        /\ notified' = [notified EXCEPT ![w] = TRUE] /\ UNCHANGED <<received, at, coalesced>>
    BY <1>3 DEF EnqueueTake, Goto, Take, Miss
  <2>2. ~notified[w] /\ ~(w \in Futures /\ received[w])
    BY <2>1 DEF NotifyInv, WaitsOK, WaitOK
  <2>3. UNCHANGED <<Issued, InFlight>>
    BY <2>1 DEF Issued, InFlight
  <2>4. UNCHANGED Consumed
    BY <1>1, <1>2, <2>1 DEF Consumed
  <2>5. w \notin Assigned /\ Assigned' = Assigned \union {w}
    BY <1>1, <1>2, <2>1, <2>2 DEF Assigned, Finished
  <2> QED
    BY <1>1, <1>3, <2>1, <2>3, <2>4, <2>5, PermitToAssigned
<1>4. CASE EnqueueTake(w) /\ Miss
  <2>1. pc[w] = "enqueue" /\ Goto(w, "register") /\ UNCHANGED <<state, notified, received, at, coalesced>>
    BY <1>4 DEF EnqueueTake, Take, Miss
  <2> QED
    BY <2>1, MoveConserved DEF Finished
<1>5. CASE EnqueuePush(w)
  <2>1. pc[w] = "register" /\ (Goto(w, Registered(w)) \/ Goto(w, "enqueue"))
        /\ UNCHANGED <<notified, received, at, coalesced>> /\ (state' = "permit" <=> state = "permit")
    BY <1>5 DEF EnqueuePush
  <2> QED
    BY <1>2, <2>1, MoveConserved DEF Finished
<1>6. CASE Check(w) /\ notified[w]
  <2>1. pc[w] = "check" /\ Goto(w, "consumed") /\ notified' = [notified EXCEPT ![w] = FALSE]
        /\ UNCHANGED <<state, received, at, coalesced>>
    BY <1>6 DEF Check
  <2>2. w \notin Futures
    BY <2>1 DEF NotifyInv, WaitsOK, WaitOK, FutureLabels
  <2>3. w \in Assigned
    BY <1>6, <2>1 DEF Assigned, Finished
  <2> QED
    BY <2>1, <2>2, <2>3, ConsumeConserved
<1>7. CASE Check(w) /\ ~notified[w]
  <2>1. pc[w] = "check" /\ (Goto(w, "parked") \/ Goto(w, "release"))
        /\ UNCHANGED <<state, notified, received, at, coalesced>>
    BY <1>7 DEF Check
  <2> QED
    BY <2>1, MoveConserved DEF Finished
<1>8. CASE (Enabled(w) \/ Recheck(w)) /\ notified[w]
  <2>1. pc[w] \in {"poll", "recheck"} /\ Goto(w, "done")
        /\ UNCHANGED <<state, notified, received, at, coalesced>>
    BY <1>8 DEF Enabled, Recheck
  <2>2. w \in Assigned
    BY <1>8, <2>1 DEF Assigned, Finished
  <2> QED
    BY <2>1, <2>2, ConsumeConserved
<1>9. CASE (Enabled(w) \/ Recheck(w)) /\ ~notified[w]
  <2>1. pc[w] \in {"poll", "recheck"} /\ (Goto(w, "arm") \/ Goto(w, "pending"))
        /\ UNCHANGED <<state, notified, received, at, coalesced>>
    BY <1>9 DEF Enabled, Recheck
  <2> QED
    BY <2>1, MoveConserved DEF Finished
<1>10. CASE Unpark(w) \/ Arm(w)
  <2>1. pc[w] \in {"parked", "arm"} /\ (Goto(w, "check") \/ Goto(w, "recheck"))
        /\ UNCHANGED <<state, notified, received, at, coalesced>>
    BY <1>10 DEF Unpark, Arm
  <2> QED
    BY <2>1, MoveConserved DEF Finished
<1> QED
  BY <1>3, <1>4, <1>5, <1>6, <1>7, <1>8, <1>9, <1>10 DEF WaitStep, EnqueueTake

LEMMA ThreadConserved ==
  ASSUME NotifyInv, Conserved, NEW w \in Threads, Wait(w) \/ Resume(w)
  PROVE  Conserved'
<1> USE DEF sharedVars, callVars
<1>1. /\ DOMAIN pc = Waits /\ coalesced \in Nat /\ w \in Waits /\ w \notin Futures
  BY NotifyAssumption DEF NotifyInv, NotifyTypeOK, Waits
<1>2. CASE Wait(w) /\ Take
  <2>1. pc[w] = "start" /\ pc' = [pc EXCEPT ![w] = "done"]
        /\ UNCHANGED <<notified, received, at, coalesced>>
    BY <1>2 DEF Wait, Goto, Take, Miss
  <2>2. ~notified[w]
    BY <1>1, <2>1 DEF NotifyInv, WaitsOK, WaitOK
  <2>3. UNCHANGED <<Issued, InFlight>>
    BY <2>1 DEF Issued, InFlight
  <2>4. w \notin Consumed /\ Consumed' = Consumed \union {w}
    BY <1>1, <2>1 DEF Consumed
  <2>5. UNCHANGED Assigned
    BY <1>1, <2>1, <2>2 DEF Assigned
  <2> QED
    BY <1>1, <1>2, <2>1, <2>3, <2>4, <2>5, PermitToConsumed
<1>3. CASE Wait(w) /\ Miss
  <2>1. pc[w] = "start" /\ (Goto(w, "enqueue") \/ Goto(w, "gone"))
        /\ UNCHANGED <<state, notified, received, at, coalesced>>
    BY <1>3 DEF Wait, Take, Miss
  <2>2. ~notified[w]
    BY <1>1, <2>1 DEF NotifyInv, WaitsOK, WaitOK
  <2> QED
    BY <1>1, <2>1, <2>2, MoveConserved
<1>4. CASE Resume(w)
  <2>1. pc[w] = "parked" /\ Goto(w, "check") /\ UNCHANGED <<state, notified, received, at, coalesced>>
    BY <1>4 DEF Resume
  <2> QED
    BY <1>1, <2>1, MoveConserved DEF Finished
<1> QED
  BY <1>2, <1>3, <1>4 DEF Wait

LEMMA FutureConserved ==
  ASSUME NotifyInv, Conserved, NEW f \in Futures, NEW for \in {"enable", "poll"},
         Begin(f, for) \/ Poll(f) \/ Drop(f)
  PROVE  Conserved'
<1> USE DEF sharedVars, callVars
<1>1. /\ DOMAIN pc = Waits /\ coalesced \in Nat /\ f \in Waits
      /\ f \in Actors /\ f \notin Notifiers /\ f \notin Threads
      /\ received \in [Futures -> BOOLEAN] /\ DOMAIN at = Actors
  BY NotifyAssumption DEF NotifyInv, NotifyTypeOK, Waits, Actors
<1>2. pc[f] = "start" => ~notified[f] /\ ~received[f]
  BY <1>1 DEF NotifyInv, WaitsOK, WaitOK
<1>3. CASE Begin(f, for) /\ Take /\ for = "poll"
  <2>1. pc[f] = "start" /\ pc' = [pc EXCEPT ![f] = "done"]
        /\ UNCHANGED <<notified, received, at, coalesced>>
    BY <1>3 DEF Begin, Goto, Take, Miss
  <2>3. UNCHANGED <<Issued, InFlight>>
    BY <2>1 DEF Issued, InFlight
  <2>4. f \notin Consumed /\ Consumed' = Consumed \union {f}
    BY <1>1, <2>1 DEF Consumed
  <2>5. UNCHANGED Assigned
    BY <1>1, <1>2, <2>1 DEF Assigned
  <2> QED
    BY <1>1, <1>3, <2>1, <2>3, <2>4, <2>5, PermitToConsumed
<1>4. CASE Begin(f, for) /\ Take /\ for = "enable"
  <2>1. pc[f] = "start" /\ pc' = [pc EXCEPT ![f] = "idle"]
        /\ received' = [received EXCEPT ![f] = TRUE] /\ UNCHANGED <<notified, at, coalesced>>
    BY <1>4 DEF Begin, Goto, Take, Miss
  <2>2. UNCHANGED <<Issued, InFlight>>
    BY <2>1 DEF Issued, InFlight
  <2>3. UNCHANGED Consumed
    BY <1>1, <2>1 DEF Consumed
  <2>4. f \notin Assigned /\ Assigned' = Assigned \union {f}
    BY <1>1, <1>2, <2>1 DEF Assigned, Finished
  <2> QED
    BY <1>1, <1>4, <2>1, <2>2, <2>3, <2>4, PermitToAssigned
<1>5. CASE Begin(f, for) /\ Miss
  <2>1. pc[f] = "start" /\ Goto(f, "enqueue") /\ UNCHANGED <<state, notified, received, at, coalesced>>
    BY <1>5 DEF Begin, Take, Miss
  <2> QED
    BY <1>1, <2>1, MoveConserved DEF Finished
<1>6. CASE Poll(f) /\ received[f]
  <2>1. pc[f] \in {"idle", "pending"} /\ Goto(f, "done")
        /\ UNCHANGED <<state, notified, received, at, coalesced>>
    BY <1>6 DEF Poll
  <2>2. f \in Assigned
    BY <1>1, <1>6, <2>1 DEF Assigned, Finished
  <2> QED
    BY <2>1, <2>2, ConsumeConserved
<1>7. CASE Poll(f) /\ ~received[f]
  <2>1. pc[f] \in {"idle", "pending"} /\ Goto(f, "poll")
        /\ UNCHANGED <<state, notified, received, at, coalesced>>
    BY <1>7 DEF Poll
  <2> QED
    BY <1>1, <2>1, MoveConserved DEF Finished
<1>8. CASE Drop(f) /\ UNCHANGED at
  <2>1. UNCHANGED <<state, notified, received, at, coalesced>>
        /\ \/ pc[f] = "start" /\ Goto(f, "gone")
           \/ pc[f] \in {"idle", "pending"} /\ Goto(f, "release")
    BY <1>1, <1>8 DEF Drop, Call, NotifyInv, WaitsOK, WaitOK, Finished
  <2> QED
    BY <1>1, <1>2, <2>1, MoveConserved DEF Finished
<1>9. CASE Drop(f) /\ Call(f) /\ received[f]
  <2>1. pc[f] \in {"idle", "pending"} /\ pc' = [pc EXCEPT ![f] = "gone"]
        /\ at' = [at EXCEPT ![f] = "load"] /\ UNCHANGED <<state, notified, received, coalesced>>
    BY <1>2, <1>9 DEF Drop, Call, Goto
  <2>2. at[f] = "none"
    BY <1>1, <2>1 DEF NotifyInv, WaitsOK, WaitOK, Finished
  <2>3. f \notin InFlight /\ InFlight' = InFlight \union {f}
    BY <1>1, <2>1, <2>2 DEF InFlight
  <2>4. UNCHANGED Issued
    BY <1>1, <2>1 DEF Issued, Actors
  <2>5. UNCHANGED Consumed
    BY <1>1, <2>1 DEF Consumed
  <2>6. f \in Assigned /\ Assigned' = Assigned \ {f}
    BY <1>1, <1>9, <2>1 DEF Assigned, Finished
  <2> QED
    BY <1>1, <2>1, <2>3, <2>4, <2>5, <2>6, AssignedToFlight
<1> QED
  BY <1>3, <1>4, <1>5, <1>6, <1>7, <1>8, <1>9 DEF Begin, Drop

-----------------------------------------------------------------------------
(* The theorems. *)

NotifyLedger == NotifyInv /\ QueueExact /\ Conserved

LEMMA NotifyInduction == Spec => []NotifyLedger
<1>1. Init => NotifyLedger
  BY InitNotify, InitQueue, InitConserved DEF NotifyLedger
<1>2. NotifyLedger /\ [Next]_vars => NotifyLedger'
  <2> SUFFICES ASSUME NotifyInv, QueueExact, Conserved, [Next]_vars
               PROVE  NotifyInv' /\ QueueExact' /\ Conserved'
    BY DEF NotifyLedger
  <2>1. ASSUME NEW n \in Notifiers, NotifyOne(n) PROVE NotifyInv' /\ QueueExact' /\ Conserved'
    <3>1. n \in Actors
      BY DEF Actors
    <3> QED
      BY <2>1, <3>1, CallInv, CallQueue, CallConserved
  <2>2. ASSUME NEW a \in Actors, NotifyStep(a) PROVE NotifyInv' /\ QueueExact' /\ Conserved'
    BY <2>2, CallInv, CallQueue, CallConserved
  <2>3. ASSUME NEW w \in Waits, WaitStep(w) PROVE NotifyInv' /\ QueueExact' /\ Conserved'
    BY <2>3, WaitInv, CancelQueue, PushQueue, WaitQueue, CancelConserved, WaitConserved
  <2>4. ASSUME NEW w \in Threads, Wait(w) \/ Resume(w)
        PROVE  NotifyInv' /\ QueueExact' /\ Conserved'
    <3>1. w \in Waits
      BY DEF Waits
    <3> QED
      BY <2>4, <3>1, ThreadInv, UserQueue, ThreadConserved
  <2>5. ASSUME NEW f \in Futures, NEW for \in {"enable", "poll"}, Begin(f, for) \/ Poll(f) \/ Drop(f)
        PROVE  NotifyInv' /\ QueueExact' /\ Conserved'
    <3>1. f \in Waits
      BY DEF Waits
    <3> QED
      BY <2>5, <3>1, FutureInv, UserQueue, FutureConserved
  <2>6. CASE UNCHANGED vars
    BY <2>6 DEF vars, sharedVars, waitVars, callVars, NotifyInv, NotifyTypeOK, WaitsOK, WaitOK,
                CallsOK, QueueExact, Queued, Conserved, Issued, Consumed, Assigned, InFlight
  <2> QED
    BY <2>1, <2>2, <2>3, <2>4, <2>5, <2>6 DEF Next
<1> QED
  BY <1>1, <1>2, PTL DEF Spec

\* The waiters in the queue are exactly the waits that are registered and not yet
\* notified, each once, and State::state says WAITING exactly while there are any,
\* however registrations, notifications, timeouts and drops interleave.
THEOREM QueueIsExact == Spec => []QueueExact
<1>1. NotifyLedger => QueueExact
  BY DEF NotifyLedger
<1> QED
  BY <1>1, NotifyInduction, PTL

\* No call of notify_one is lost or answered twice: each has been consumed by one
\* wait, was coalesced, is the stored permit, is assigned to a wait that has not
\* returned, or is being delivered, also when waits time out or are dropped.
THEOREM NotificationsAreConserved == Spec => []Conserved
<1>1. NotifyLedger => Conserved
  BY DEF NotifyLedger
<1> QED
  BY <1>1, NotifyInduction, PTL
=============================================================================

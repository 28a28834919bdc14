------------------------------- MODULE Breaker -------------------------------
(***************************************************************************)
(* The circuit breaker of crate seatbelt, src/breaker: the engine of one   *)
(* breaker id (engine_core.rs), the sliding health window (health.rs,      *)
(* health_eval.rs), the probes of the half-open circuit (engine/probing)   *)
(* and the calls of Breaker::execute with their AbandonedGuard             *)
(* (service.rs).  enter and exit read the clock before they take the lock, *)
(* so each is two steps and a reading may be old when it is used.  Stats,  *)
(* which only telemetry reads, are left out.                               *)
(***************************************************************************)
EXTENDS Integers, FiniteSets, SequencesExt

CONSTANTS
  Calls,          \* calls of Breaker::execute
  Policies,       \* values of AbandonedPolicy
  Sampling,       \* sampling_duration of the closed circuit
  BreakDuration,  \* EngineOptions::break_duration
  StageDuration,  \* cool-down of the single probe, duration of a health stage
  WindowCount,    \* WINDOW_COUNT
  HealthStages,   \* health probes after the single one: none in quick mode
  MinThroughput,  \* min_throughput of the closed circuit
  FailurePercent, \* failure_threshold
  AbandonPercent, \* threshold of AbandonedPolicy::rate_threshold
  MaxTime         \* bound on the clock

ASSUME BreakerAssumption ==
  /\ Policies \subseteq {"ignore", "as_failures", "rate_threshold"}
  /\ \A n \in {BreakDuration, HealthStages, MinThroughput, MaxTime} : n \in Nat
  /\ WindowCount \in Nat \ {0}
  /\ \A d \in {Sampling, StageDuration} : d \in Nat /\ d >= WindowCount
  /\ FailurePercent \in 0..99 /\ AbandonPercent \in 1..100

Results == {"success", "failure", "abandoned"}
Stages  == 1..(1 + HealthStages)
Never   == -1

VARIABLES
  clock,      \* Clock::instant
  policy,     \* the AbandonedPolicy the breaker was built with
  circuit,    \* State
  health,     \* State::Closed::health
  openUntil,  \* State::Open::open_until
  stage,      \* which of the probes Probes::current is
  probe,      \* its state
  pc,         \* where each call is
  seen,       \* its last reading of the clock
  mode,       \* its ExecutionMode
  result,     \* its ExecutionResult
  current,    \* history: the probes admitted since the circuit became half-open
  earned      \* history: the stages that recorded a success since then

circuitVars == <<circuit, health, openUntil, stage, probe, current, earned>>
callVars    == <<pc, seen, mode, result>>
vars == <<clock, policy, circuitVars, callVars>>

-----------------------------------------------------------------------------
(* HealthMetrics.                                                            *)

\* ExecutionInfo, its record, subtract and total.
NoCounts    == [r \in Results |-> 0]
Count(c, r) == [c EXCEPT ![r] = @ + 1]
Minus(c, d) == [r \in Results |-> IF c[r] >= d[r] THEN c[r] - d[r] ELSE 0]
Total(c)    == c["success"] + c["failure"] + c["abandoned"]

NoMetrics == [windows |-> <<>>, counts |-> NoCounts]

\* Instant::duration_since: zero when t is later than now.
Since(now, t) == IF now >= t THEN now - t ELSE 0

\* HealthMetrics::current_window, the windows that are popped from the front.
Expired(ws, now, sampling) ==
  {i \in DOMAIN ws : \A j \in 1..i : Since(now, ws[j].at) > sampling}

\* The rest of current_window, and update: result r goes to the newest window, or
\* to a new one.
Updated(ws, r, now, sampling) ==
  LET open == ws # <<>> /\ Since(now, Last(ws).at) < sampling \div WindowCount
      with == IF open THEN ws ELSE Append(ws, [at |-> now, counts |-> NoCounts])
  IN [with EXCEPT ![Len(with)].counts = Count(@, r)]

\* Variant for testing the properties: the aggregate keeps what expires.
RecordKeeping(m, r, now, sampling) ==
  LET n == Cardinality(Expired(m.windows, now, sampling))
  IN [windows |-> Updated(SubSeq(m.windows, n + 1, Len(m.windows)), r, now, sampling),
      counts  |-> Count(m.counts, r)]

\* What is left of the counts c once the first n windows were popped, each of them
\* subtracted in turn.
Subtracted(c, ws, n) ==
  LET left[i \in 0..n] == IF i = 0 THEN c ELSE Minus(left[i - 1], ws[i].counts)
  IN left[n]

\* HealthMetrics::record.
Record(m, r, now, sampling) ==
  LET n == Cardinality(Expired(m.windows, now, sampling))
  IN [windows |-> Updated(SubSeq(m.windows, n + 1, Len(m.windows)), r, now, sampling),
      counts  |-> Count(Subtracted(m.counts, m.windows, n), r)]

\* evaluate_threshold.
Reached(part, total, min, percent) ==
  total # 0 /\ total >= min /\ 100 * part >= percent * total

\* HealthEvaluator::evaluate.
Unhealthy(c, min) ==
  LET asFailures == \/ policy = "as_failures"
                    \/ /\ policy = "rate_threshold"
                       /\ Reached(c["abandoned"], Total(c), min, AbandonPercent)
  IN IF asFailures
       THEN Reached(c["failure"] + c["abandoned"], Total(c), min, FailurePercent)
       ELSE Reached(c["failure"], c["success"] + c["failure"], min, FailurePercent)

-----------------------------------------------------------------------------
(* Probes.  Stage 1 is a SingleProbe, which uses only the field at, its      *)
(* entered_at; the others are HealthProbes, whose at is sample_until.        *)

NewProbe == [at |-> Never, fallback |-> Never, metrics |-> NoMetrics]

\* Variant for testing the properties: one probe, however long its result takes.
AllowSingleOnce(p, now) ==
  IF p.at = Never THEN [ok |-> TRUE, probe |-> [p EXCEPT !.at = now]]
                  ELSE [ok |-> FALSE, probe |-> p]

\* SingleProbe::allow_probe.
AllowSingle(p, now) ==
  IF p.at = Never \/ Since(now, p.at) > StageDuration
    THEN [ok |-> TRUE, probe |-> [p EXCEPT !.at = now]]
    ELSE [ok |-> FALSE, probe |-> p]

\* HealthProbe::allow_probe, for both outcomes of the draw against probing_ratio.
AllowHealth(p, now) ==
  LET until    == IF p.at = Never THEN now + StageDuration ELSE p.at
      fallback == IF p.fallback = Never THEN until ELSE p.fallback
      timed    == [p EXCEPT !.at = until, !.fallback = fallback]
  IN {[ok |-> TRUE, probe |-> timed],
      IF now > fallback
        THEN [ok |-> TRUE, probe |-> [timed EXCEPT !.fallback = now + StageDuration]]
        ELSE [ok |-> FALSE, probe |-> timed]}

Allow(s, p, now) == IF s = 1 THEN {AllowSingle(p, now)} ELSE AllowHealth(p, now)

\* SingleProbe::record and HealthProbe::record: the state of the probe afterwards.
Recorded(s, p, r, now) ==
  IF s = 1 THEN p ELSE [p EXCEPT !.metrics = Record(@, r, now, StageDuration)]

\* And their verdicts, p being the state afterwards.
SingleVerdict(r) ==
  CASE r = "success" -> "success"
    [] r = "failure" -> "failure"
    [] r = "abandoned" -> IF policy = "as_failures" THEN "failure" ELSE "pending"

HealthVerdict(p, now) ==
  CASE p.at = Never \/ now < p.at -> "pending"
    [] OTHER -> IF Unhealthy(p.metrics.counts, 1) THEN "failure" ELSE "success"

Verdict(s, p, r, now) == IF s = 1 THEN SingleVerdict(r) ELSE HealthVerdict(p, now)

\* Variant for testing the properties: an abandoned execution may end a stage.
ConclusiveAny(v, r) == v

\* Probes::record: an abandoned execution does not end a stage with success.
Conclusive(v, r) == IF v = "success" /\ r = "abandoned" THEN "pending" ELSE v

-----------------------------------------------------------------------------
Init ==
  /\ clock = 0 /\ policy \in Policies
  /\ circuit = "closed" /\ health = NoMetrics
  /\ openUntil = 0 /\ stage = 1 /\ probe = NewProbe
  /\ current = {} /\ earned = {}
  /\ pc = [c \in Calls |-> "idle"] /\ seen = [c \in Calls |-> 0]
  /\ mode = [c \in Calls |-> "normal"] /\ result = [c \in Calls |-> "success"]

Tick ==
  /\ clock < MaxTime /\ clock' = clock + 1
  /\ UNCHANGED <<policy, circuitVars, callVars>>

\* The state changes of the circuit.
Open(now) ==
  /\ circuit' = "open" /\ openUntil' = now + BreakDuration
  /\ health' = NoMetrics /\ stage' = 1 /\ probe' = NewProbe
  /\ current' = {} /\ earned' = {}

Close(s) ==
  /\ circuit' = "closed" /\ openUntil' = 0
  /\ health' = NoMetrics /\ stage' = 1 /\ probe' = NewProbe
  /\ current' = {} /\ earned' = earned \union s

\* Call c is done; its mode and its readings are gone.
Done(c) ==
  /\ pc' = [pc EXCEPT ![c] = "done"] /\ seen' = [seen EXCEPT ![c] = 0]
  /\ mode' = [mode EXCEPT ![c] = "normal"] /\ result' = [result EXCEPT ![c] = "success"]

Run(c, m) ==
  /\ pc' = [pc EXCEPT ![c] = "running"] /\ seen' = [seen EXCEPT ![c] = 0]
  /\ mode' = [mode EXCEPT ![c] = m] /\ UNCHANGED result

-----------------------------------------------------------------------------
(* Breaker::execute.                                                         *)

\* EngineCore::enter reads the clock.
BeforeExecute(c) ==
  /\ pc[c] = "idle"
  /\ pc' = [pc EXCEPT ![c] = "entering"] /\ seen' = [seen EXCEPT ![c] = clock]
  /\ UNCHANGED <<clock, policy, circuitVars, mode, result>>

EnterClosed(c) ==
  /\ pc[c] = "entering" /\ circuit = "closed"
  /\ Run(c, "normal")
  /\ UNCHANGED <<clock, policy, circuitVars>>

EnterRejected(c) ==
  /\ pc[c] = "entering" /\ circuit = "open" /\ seen[c] < openUntil
  /\ Done(c)
  /\ UNCHANGED <<clock, policy, circuitVars>>

\* State::enter asks probe p of stage s.
Ask(c, s, p) ==
  \E a \in Allow(s, p, seen[c]) :
    /\ probe' = a.probe
    /\ \/ a.ok /\ Run(c, "probe") /\ current' = current \union {c}
       \/ ~a.ok /\ Done(c) /\ UNCHANGED current

\* The break is over: the circuit becomes half-open.
EnterOpen(c) ==
  /\ pc[c] = "entering" /\ circuit = "open" /\ seen[c] >= openUntil
  /\ circuit' = "halfopen" /\ openUntil' = 0
  /\ Ask(c, 1, NewProbe)
  /\ UNCHANGED <<clock, policy, health, stage, earned>>

EnterHalfOpen(c) ==
  /\ pc[c] = "entering" /\ circuit = "halfopen"
  /\ Ask(c, stage, probe)
  /\ UNCHANGED <<clock, policy, circuit, health, openUntil, stage, earned>>

\* The inner service answers, and recovery classifies the output; or the future is
\* dropped, and the AbandonedGuard exits for it.  exit reads the clock.
Complete(c, r) ==
  /\ pc[c] = "running"
  /\ pc' = [pc EXCEPT ![c] = "exiting"] /\ seen' = [seen EXCEPT ![c] = clock]
  /\ result' = [result EXCEPT ![c] = r]
  /\ UNCHANGED <<clock, policy, circuitVars, mode>>

\* The inner service or the callback on_probing panics: nobody exits.
Panic(c) ==
  /\ pc[c] = "running" /\ Done(c)
  /\ UNCHANGED <<clock, policy, circuitVars>>

\* State::exit of a closed circuit.
ExitClosed(c) ==
  LET after == Record(health, result[c], seen[c], Sampling) IN
  /\ pc[c] = "exiting" /\ circuit = "closed" /\ mode[c] = "normal"
  /\ \/ Unhealthy(after.counts, MinThroughput) /\ Open(seen[c])
     \/ /\ ~Unhealthy(after.counts, MinThroughput) /\ health' = after
        /\ UNCHANGED <<circuit, openUntil, stage, probe, current, earned>>
  /\ Done(c)
  /\ UNCHANGED <<clock, policy>>

\* A result that comes too late is ignored: of a probe when the circuit is closed,
\* of a normal execution when it is half-open, of any when it is open.
ExitIgnored(c) ==
  /\ pc[c] = "exiting"
  /\ \/ circuit = "closed" /\ mode[c] = "probe"
     \/ circuit = "halfopen" /\ mode[c] = "normal"
     \/ circuit = "open"
  /\ Done(c)
  /\ UNCHANGED <<clock, policy, circuitVars>>

\* State::exit of a half-open circuit, and Probes::record.
ExitProbe(c) ==
  LET after   == Recorded(stage, probe, result[c], seen[c])
      verdict == Conclusive(Verdict(stage, after, result[c], seen[c]), result[c])
      success == IF result[c] = "success" THEN {stage} ELSE {}
  IN
  /\ pc[c] = "exiting" /\ circuit = "halfopen" /\ mode[c] = "probe"
  /\ \/ verdict = "failure" /\ Open(seen[c])
     \/ verdict = "success" /\ stage + 1 \notin Stages /\ Close(success)
     \/ /\ \/ verdict = "success" /\ stage + 1 \in Stages
              /\ stage' = stage + 1 /\ probe' = NewProbe
           \/ verdict = "pending" /\ probe' = after /\ UNCHANGED stage
        /\ earned' = earned \union success
        /\ UNCHANGED <<circuit, health, openUntil, current>>
  /\ Done(c)
  /\ UNCHANGED <<clock, policy>>

Step(c) ==
  \/ BeforeExecute(c) \/ EnterClosed(c) \/ EnterRejected(c) \/ EnterOpen(c) \/ EnterHalfOpen(c)
  \/ (\E r \in Results : Complete(c, r)) \/ Panic(c)
  \/ ExitClosed(c) \/ ExitIgnored(c) \/ ExitProbe(c)

Next == Tick \/ \E c \in Calls : Step(c)

Spec == Init /\ [][Next]_vars

-----------------------------------------------------------------------------
(* Properties. *)

\* The results r in all windows.
Sum(ws, r) ==
  LET sum[i \in 0..Len(ws)] == IF i = 0 THEN 0 ELSE sum[i - 1] + ws[i].counts[r]
  IN sum[Len(ws)]

\* The metrics m agree with themselves.
MetricsOK(m, sampling) ==
  LET ws == m.windows IN
    /\ \A r \in Results : m.counts[r] = Sum(ws, r)
    /\ \A i \in DOMAIN ws : i > 1 => ws[i].at > ws[i - 1].at
    /\ Len(ws) <= 1 + sampling \div (sampling \div WindowCount)

\* The running aggregate from which health is decided is the sum of the windows,
\* the windows are in the order of time and there are no more of them than the
\* sampling duration holds, even though results are recorded with readings of the
\* clock that are out of order.
AggregateExact == MetricsOK(health, Sampling) /\ MetricsOK(probe.metrics, StageDuration)

\* The circuit closes only when each of its stages has recorded a success since it
\* became half-open: neither abandoned executions nor silence take it past one.
\* A result counts for the stage in which its probe exits.
RecoveryEarned ==
  [][circuit = "halfopen" /\ circuit' = "closed" => earned' = Stages]_vars

\* No circuit stays closed to everyone: whatever probes got lost, of a call that
\* enters once every duration has passed and another one that much later, one is
\* admitted, without luck.
NeverStuck ==
  LET wait  == 1 + BreakDuration + StageDuration
      Admits(p, now) == \A a \in Allow(stage, p, now) :
        a.ok \/ \A b \in Allow(stage, a.probe, now + wait) : b.ok
  IN /\ circuit = "open" => openUntil <= clock + wait
     /\ circuit = "halfopen" => Admits(probe, clock + wait)

\* "Probe-mode executions whose results arrived after the circuit had already
\* moved out of HalfOpen ... can no longer influence the recovery decision": only
\* a probe that was admitted since the circuit became half-open closes or reopens
\* it.
OldProbeDecidesNothing ==
  [][circuit = "halfopen" /\ circuit' # "halfopen" =>
       \E c \in current : pc[c] = "exiting" /\ pc'[c] = "done"]_vars

BreakerTypeOK ==
  /\ clock \in 0..MaxTime /\ policy \in Policies
  /\ circuit \in {"closed", "open", "halfopen"}
  /\ openUntil \in 0..(MaxTime + BreakDuration) /\ stage \in Stages
  /\ {probe.at, probe.fallback} \subseteq Never..(MaxTime + StageDuration)
  /\ pc \in [Calls -> {"idle", "entering", "running", "exiting", "done"}]
  /\ seen \in [Calls -> 0..MaxTime]
  /\ mode \in [Calls -> {"normal", "probe"}] /\ result \in [Calls -> Results]
  /\ current \subseteq Calls /\ earned \subseteq Stages
=============================================================================

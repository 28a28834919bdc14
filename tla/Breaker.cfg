\* Four calls; the single probe and one health stage; every abandoned policy.
CONSTANTS
  c1 = c1
  c2 = c2
  c3 = c3
  c4 = c4
  Calls = {c1, c2, c3, c4}
  Policies = {"ignore", "as_failures", "rate_threshold"}
  Sampling = 2
  BreakDuration = 1
  StageDuration = 2
  WindowCount = 2
  HealthStages = 1
  MinThroughput = 1
  FailurePercent = 50
  AbandonPercent = 100
  MaxTime = 4
SPECIFICATION Spec
SYMMETRY CallSymmetry
INVARIANTS AggregateExact NeverStuck
PROPERTY RecoveryEarned
CHECK_DEADLOCK FALSE

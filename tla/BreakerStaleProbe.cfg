\* Quick mode, one policy: who decides that the circuit closes or reopens.
CONSTANTS
  c1 = c1
  c2 = c2
  c3 = c3
  c4 = c4
  Calls = {c1, c2, c3, c4}
  Policies = {"rate_threshold"}
  Sampling = 2
  BreakDuration = 1
  StageDuration = 2
  WindowCount = 2
  HealthStages = 0
  MinThroughput = 1
  FailurePercent = 50
  AbandonPercent = 100
  MaxTime = 6
SPECIFICATION Spec
SYMMETRY CallSymmetry
PROPERTY OldProbeDecidesNothing
CHECK_DEADLOCK FALSE

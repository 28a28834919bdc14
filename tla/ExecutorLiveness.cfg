\* Two tasks, one owned waker each, panics of tasks ignored, hooks that behave.
CONSTANTS
  t1 = t1
  t2 = t2
  NoTask = NoTask
  Task = {t1, t2}
  MaxWakers = 1
  PanicPolicy = "ignore"
  HookPanics = {}
SPECIFICATION FairSpec
PROPERTIES WakesServed ShutdownFinishes
CHECK_DEADLOCK FALSE

\* A context guard panics while the executor cancels its tasks.
CONSTANTS
  t1 = t1
  t2 = t2
  NoTask = NoTask
  Task = {t1, t2}
  MaxWakers = 0
  PanicPolicy = "ignore"
  HookPanics = {"cancel"}
SPECIFICATION Spec
INVARIANT FallbackRetires
CHECK_DEADLOCK FALSE

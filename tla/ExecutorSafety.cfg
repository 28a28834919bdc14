\* Two tasks, two owned wakers each, context guards that may panic anywhere.
CONSTANTS
  t1 = t1
  t2 = t2
  NoTask = NoTask
  Task = {t1, t2}
  MaxWakers = 2
  PanicPolicy = "shutdown"
  HookPanics = {"poll", "finish", "cancel"}
SPECIFICATION Spec
SYMMETRY Symmetry
INVARIANTS
  TypeOK RefsExact PayloadOwned OwnedOnce PolledIsLive NoLostWake ParkedHasNotice
  CountExact ShutdownComplete
PROPERTY LifecycleSpec
\* The executor stops for good when it is dropped.
CHECK_DEADLOCK FALSE

\* One worker, a task and an I/O access, drivers whose creation may fail.
CONSTANTS
  w1 = w1
  t1 = t1
  a1 = a1
  NoJob = NoJob
  NoWorker = NoWorker
  Workers = {w1}
  Tasks = {t1}
  Accesses = {a1}
  Jobs = {}
  Controls = {}
  Failures = {"create"}
  MaxThreads = 1
  TasksPerThread = 1
  PanicShutdown = FALSE
  Batch = 1
  MaxCalls = 2
SPECIFICATION FairSpec
INVARIANTS SleepsOnlyWhenIdle RequestIsHeld
PROPERTY CommandsServed
\* A stopped runtime has nothing to do.
CHECK_DEADLOCK FALSE

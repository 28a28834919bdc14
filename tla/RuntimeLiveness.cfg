\* Two idle workers, stopped by the owner, by another thread, or by both.
CONSTANTS
  w1 = w1
  w2 = w2
  c1 = c1
  NoJob = NoJob
  NoWorker = NoWorker
  Workers = {w1, w2}
  Tasks = {}
  Accesses = {}
  Jobs = {}
  Controls = {c1}
  Failures = {}
  MaxThreads = 1
  TasksPerThread = 1
  PanicShutdown = TRUE
  Batch = 1
  MaxCalls = 1
SPECIFICATION FairSpec
PROPERTIES ShutdownReachesAll StopReturns
\* A stopped runtime has nothing to do.
CHECK_DEADLOCK FALSE

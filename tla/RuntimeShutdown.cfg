\* Two workers that share a pool, a task or a blocking function, drivers that may
\* fail or panic.
CONSTANTS
  w1 = w1
  w2 = w2
  t1 = t1
  j1 = j1
  NoJob = NoJob
  NoWorker = NoWorker
  Workers = {w1, w2}
  Tasks = {t1}
  Accesses = {}
  Jobs = {j1}
  Controls = {}
  Failures = {"driver", "worker"}
  MaxThreads = 1
  TasksPerThread = 1
  PanicShutdown = TRUE
  Batch = 1
  MaxCalls = 1
SPECIFICATION Spec
SYMMETRY RuntimeSymmetry
INVARIANTS ShutdownHasCause ShutdownIsCarried StopIsComplete
\* A stopped runtime has nothing to do.
CHECK_DEADLOCK FALSE

\* Two jobs, two workers on one pool that may grow to two threads.
CONSTANTS
  w1 = w1
  w2 = w2
  j1 = j1
  j2 = j2
  NoJob = NoJob
  NoWorker = NoWorker
  Workers = {w1, w2}
  Jobs = {j1, j2}
  MaxThreads = 2
  TasksPerThread = 1
  PanicShutdown = TRUE
SPECIFICATION PoolFairSpec
INVARIANTS PoolTypeOK PendingIsHeld CountersExact WithinLimit JoinedIsQuiet
PROPERTIES JobsSettle JoinsReturn
\* A joined pool has nothing to do.
CHECK_DEADLOCK FALSE

\* A blocking wait, one with a timeout and a future; two notifications.
CONSTANTS
  p1 = p1
  p2 = p2
  f1 = f1
  n1 = n1
  n2 = n2
  NoWait = NoWait
  Threads = {p1, p2}
  Timed = {p2}
  Futures = {f1}
  Notifiers = {n1, n2}
SPECIFICATION FairSpec
INVARIANTS QueueExact Conserved
PROPERTY AssignedReturns
\* Waits that nobody notifies sleep for good.
CHECK_DEADLOCK FALSE

\* Two calls of the same form or of two forms, or invalidations, and an insertion;
\* a primary tier with a TTL and a fallback tier without one.
CONSTANTS
  r1 = r1
  r2 = r2
  w1 = w1
  NoCell = NoCell
  NoEntry = NoEntry
  None = None
  Calls = {r1, r2}
  Mergers = {"get", "invalidate", "get_or_insert", "get_or_insert_with", "try_get_or_insert", "try_get_or_insert_with", "optionally_get_or_insert"}
  Uses <- MCUses
  Writers = {w1}
  Supplied <- MCSupplied
  PrimaryTtl = 1
  FallbackTtl = None
  Ttr = 1
  MaxTime = 2
SPECIFICATION FairSpec
INVARIANTS OneFlight RefreshIsOwned ServedInTime
PROPERTY CallsReturn
CHECK_DEADLOCK FALSE

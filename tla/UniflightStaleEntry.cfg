\* Two calls that may be dropped; the clock stands still.
CONSTANTS
  r1 = r1
  r2 = r2
  NoCell = NoCell
  NoEntry = NoEntry
  None = None
  Calls = {r1, r2}
  Mergers = {"get", "invalidate", "get_or_insert", "get_or_insert_with", "try_get_or_insert", "try_get_or_insert_with", "optionally_get_or_insert"}
  Uses <- MCUses
  Writers = {}
  Supplied <- MCSupplied
  PrimaryTtl = 1
  FallbackTtl = None
  Ttr = 1
  MaxTime = 0
SPECIFICATION Spec
INVARIANT NoStaleEntries
CHECK_DEADLOCK FALSE

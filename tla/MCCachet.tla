------------------------------ MODULE MCCachet ------------------------------
(* Finite instances of Cachet for TLC. *)
EXTENDS Cachet

CONSTANTS r1, r2

\* Calls of the same form or of two, or two invalidations, or one of each.
MCUses ==
  [k \in Calls |-> CASE k = r1 -> {"get_or_insert", "invalidate"}
                     [] k = r2 -> {"get", "get_or_insert", "get_or_insert_with", "invalidate"}]

\* CacheEntry::expires_at.
MCSupplied == {[at |-> 1, ttl |-> 0]}
=============================================================================

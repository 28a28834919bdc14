---------------------------- MODULE CachetProofs ----------------------------
(***************************************************************************)
(* A cache for any number of calls and writers, whatever entries callers   *)
(* hand in: its mergers keep their invariant through every step, one       *)
(* refresh of the key runs at a time, and no copy of an entry ever gets    *)
(* another stamp than its first, so that no tier serves it too long.       *)
(***************************************************************************)
EXTENDS Cachet, UniflightProofs, FiniteSetTheorems

\* What a call, its refresh task, a writer, the storage and the clock do to the
\* mergers.
LEMMA CallMerges ==
  ASSUME NEW k \in Calls, CallStep(k) \/ DropCall(k) \/ RefreshStep(k) \/ RefreshDropped(k)
  PROVE  FlightNext \/ UNCHANGED flightVars
<1>1. CASE Merge(k)
  BY <1>1 DEF Merge, FlightNext
<1>2. CASE ReadPrimary(k)
  BY <1>2 DEF ReadPrimary, Done, FlightNext
<1>3. CASE ReadFallback(k)
  BY <1>3 DEF ReadFallback, Done, FlightNext
<1>4. CASE Compute(k)
  BY <1>4 DEF Compute, Done, FlightNext
<1>5. CASE \E t \in Tiers : Store(k, t) \/ Remove(k, t)
  BY <1>5 DEF Store, Remove
<1>6. CASE Stored(k) \/ Removed(k)
  BY <1>6 DEF Stored, Removed, Done, FlightNext
<1>7. CASE DropCall(k)
  BY <1>7 DEF DropCall, FlightNext
<1>8. CASE RefreshStep(k) \/ RefreshDropped(k)
  BY <1>8 DEF RefreshStep, RefreshStart, RefreshFetch, RefreshPromote, RefreshDropped
<1> QED
  BY <1>1, <1>2, <1>3, <1>4, <1>5, <1>6, <1>7, <1>8 DEF CallStep

LEMMA OthersMergeNothing ==
  ASSUME \/ \E w \in Writers : WriteStep(w)
         \/ \E t \in Tiers : Evict(t)
         \/ Tick
         \/ UNCHANGED vars
  PROVE  UNCHANGED flightVars
BY DEF WriteStep, Write, StampFallback, StoreWritten, Written, Evict, Tick, vars

LEMMA FlightKept ==
  ASSUME FlightInv, [Next]_vars
  PROVE  FlightInv'
BY CallMerges, OthersMergeNothing, FlightStep DEF Next

-----------------------------------------------------------------------------
(* Types, and stamps.                                                        *)

\* A stamped entry that still has its first stamp, one that has no stamp yet, or
\* none.
Genuine == {e \in Entry : e.at = e.born}
Copy    == Genuine \union {NoEntry}
Carried == Copy \union Unstamped

\* The part of CachetTypeOK that is not about the mergers, in three groups, with
\* every entry genuine.
StoreTypeOK ==
  clock \in 0..MaxTime /\ store \in [Tiers -> Copy]
BodyTypeOK ==
  /\ body \in [Calls -> {"none", "primary", "fallback", "compute", "store", "remove"}]
  /\ hand \in [Inserts -> [Tiers -> Carried]]
  /\ todo \in [Calls -> SUBSET Tiers]
  /\ writer \in [Writers -> {"idle", "inserting", "returned"}]
RefreshTypeOK ==
  /\ inFlight \in BOOLEAN
  /\ task \in [Calls -> {"none", "spawned", "fetching", "promoting", "lost"}]
  /\ fetched \in [Calls -> Copy]

DataTypeOK == StoreTypeOK /\ BodyTypeOK /\ RefreshTypeOK

\* ensure_cached_at gives a stamp to an entry that has none, and leaves another
\* one as it is.
LEMMA StampGenuine ==
  ASSUME StoreTypeOK, NEW e \in Genuine \union Unstamped
  PROVE  Stamp(e) \in Genuine
<1>1. clock \in Nat /\ None \notin Nat
  BY CachetAssumption DEF StoreTypeOK
<1>2. CASE e \in Genuine
  BY <1>1, <1>2 DEF Genuine, Entry, Stamp
<1>3. CASE e \in Unstamped
  <2>1. Stamp(e) = [at |-> clock, born |-> clock, ttl |-> e.ttl]
    BY <1>3 DEF Unstamped, Stamp
  <2> QED
    BY <1>1, <1>3, <2>1 DEF Genuine, Entry, Unstamped
<1> QED
  BY <1>2, <1>3

LEMMA HandedInGenuine ==
  ASSUME NEW s \in Supplied \union {Plain}
  PROVE  HandedIn(s) \in Genuine \union Unstamped
<1>1. s \in [at : Nat \union {None}, ttl : Nat \union {None}]
  BY CachetAssumption DEF Plain
<1>2. HandedIn(s) = [at |-> s.at, born |-> s.at, ttl |-> s.ttl]
  BY DEF HandedIn
<1> QED
  BY <1>1, <1>2 DEF Genuine, Entry, Unstamped

\* What is in a tier and is served has its stamp.
LEMMA HitGenuine ==
  ASSUME StoreTypeOK, NEW t \in Tiers, Hit(t)
  PROVE  store[t] \in Genuine
BY DEF StoreTypeOK, Hit, Copy

LEMMA CarryTyped ==
  ASSUME BodyTypeOK, NEW x \in Inserts, NEW p \in Carried, NEW f \in Carried, Carry(x, p, f)
  PROVE  hand' \in [Inserts -> [Tiers -> Carried]]
BY DEF BodyTypeOK, Carry

LEMMA SpreadTyped ==
  ASSUME BodyTypeOK, StoreTypeOK, NEW x \in Inserts, NEW t \in Tiers, Spread(x, t)
  PROVE  /\ hand' \in [Inserts -> [Tiers -> Carried]]
         /\ store' \in [Tiers -> Copy]
<1>1. hand[x][t] \in Copy
  <2>1. hand[x][t] \in Carried /\ hand[x][t].at # None
    BY DEF BodyTypeOK, Spread
  <2> QED
    BY <2>1 DEF Carried, Unstamped
<1>2. store' \in [Tiers -> Copy]
  BY <1>1 DEF Spread, TryPut, Put, StoreTypeOK
<1>3. NoEntry \in Carried
  BY DEF Carried, Copy
<1>4. hand' = [hand EXCEPT ![x] = [hand[x] EXCEPT ![t] = NoEntry]]
  BY DEF Spread
<1>5. [hand[x] EXCEPT ![t] = NoEntry] \in [Tiers -> Carried]
  BY <1>3 DEF BodyTypeOK
<1> QED
  BY <1>2, <1>4, <1>5 DEF BodyTypeOK

LEMMA StoreTyped ==
  ASSUME DataTypeOK, [Next]_vars
  PROVE  StoreTypeOK'
<1> USE DEF DataTypeOK, StoreTypeOK
<1>0. NoEntry \in Copy /\ "primary" \in Tiers /\ Calls \subseteq Inserts /\ Writers \subseteq Inserts
  BY DEF Copy, Tiers, Inserts
<1>1. ASSUME NEW k \in Calls, CallStep(k) \/ DropCall(k) PROVE StoreTypeOK'
  <2>1. CASE Merge(k) \/ ReadPrimary(k) \/ ReadFallback(k) \/ Compute(k) \/ Stored(k)
             \/ Removed(k) \/ DropCall(k)
    BY <2>1 DEF Merge, ReadPrimary, ReadFallback, Compute, Stored, Removed, DropCall
  <2>2. ASSUME NEW t \in Tiers, Store(k, t) PROVE StoreTypeOK'
    BY <1>0, <2>2, SpreadTyped DEF Store
  <2>3. ASSUME NEW t \in Tiers, Remove(k, t) PROVE StoreTypeOK'
    BY <1>0, <2>3 DEF Remove, TryPut, Put
  <2> QED
    BY <1>1, <2>1, <2>2, <2>3 DEF CallStep
<1>2. ASSUME NEW k \in Calls, RefreshStep(k) \/ RefreshDropped(k) PROVE StoreTypeOK'
  BY <1>0, <1>2 DEF RefreshStep, RefreshStart, RefreshFetch, RefreshPromote, RefreshDropped,
     TryPut, Put, RefreshTypeOK
<1>3. ASSUME NEW w \in Writers, WriteStep(w) PROVE StoreTypeOK'
  <2>1. CASE Write(w) \/ StampFallback(w) \/ Written(w)
    BY <2>1 DEF Write, StampFallback, Written
  <2>2. ASSUME NEW t \in Tiers, StoreWritten(w, t) PROVE StoreTypeOK'
    BY <1>0, <2>2, SpreadTyped DEF StoreWritten
  <2> QED
    BY <1>3, <2>1, <2>2 DEF WriteStep
<1>4. CASE (\E t \in Tiers : Evict(t)) \/ UNCHANGED vars
  BY <1>0, <1>4 DEF Evict, Put, vars
<1>5. CASE Tick
  BY <1>5, CachetAssumption DEF Tick
<1> QED
  BY <1>1, <1>2, <1>3, <1>4, <1>5 DEF Next

LEMMA BodyTyped ==
  ASSUME DataTypeOK, [Next]_vars
  PROVE  BodyTypeOK'
<1> USE DEF DataTypeOK, BodyTypeOK
<1>0. /\ NoEntry \in Carried /\ Genuine \subseteq Carried /\ Unstamped \subseteq Carried
      /\ Calls \subseteq Inserts /\ Writers \subseteq Inserts
      /\ "primary" \in Tiers /\ "fallback" \in Tiers
  BY DEF Carried, Copy, Inserts, Tiers
<1>1. ASSUME NEW k \in Calls, Done(k), UNCHANGED <<todo, writer>> PROVE BodyTypeOK'
  BY <1>0, <1>1, CarryTyped DEF Done, GoOn
<1>2. ASSUME NEW k \in Calls, CallStep(k) \/ DropCall(k) PROVE BodyTypeOK'
  <2>1. CASE Merge(k)
    BY <2>1 DEF Merge, GoOn
  <2>2. CASE ReadPrimary(k)
    BY <1>1, <2>2 DEF ReadPrimary, GoOn
  <2>3. CASE ReadFallback(k)
    <3>1. CASE Hit("fallback") /\ GoOn(k, "store") /\ Carry(k, Stamp(store["fallback"]), NoEntry)
      <4>1. Stamp(store["fallback"]) \in Carried
        BY <1>0, <3>1, HitGenuine, StampGenuine
      <4> QED
        BY <1>0, <2>3, <3>1, <4>1, CarryTyped DEF ReadFallback, GoOn
    <3>2. CASE GoOn(k, "compute") /\ UNCHANGED hand
      BY <2>3, <3>2 DEF ReadFallback, GoOn
    <3> QED
      BY <1>1, <2>3, <3>1, <3>2 DEF ReadFallback
  <2>4. CASE Compute(k)
    <3>1. ASSUME NEW s \in Results(k), GoOn(k, "store"),
                 Carry(k, Stamp(HandedIn(s)), Stamp(HandedIn(s)))
          PROVE  BodyTypeOK'
      <4>1. Stamp(HandedIn(s)) \in Carried
        BY <1>0, <3>1, HandedInGenuine, StampGenuine DEF Results
      <4> QED
        BY <1>0, <2>4, <3>1, <4>1, CarryTyped DEF Compute, GoOn
    <3> QED
      BY <1>1, <2>4, <3>1 DEF Compute
  <2>5. ASSUME NEW t \in Tiers, Store(k, t) PROVE BodyTypeOK'
    BY <1>0, <2>5, SpreadTyped DEF Store
  <2>6. CASE Stored(k) \/ Removed(k)
    BY <1>1, <2>6 DEF Stored, Removed
  <2>7. ASSUME NEW t \in Tiers, Remove(k, t) PROVE BodyTypeOK'
    BY <2>7 DEF Remove
  <2>8. CASE DropCall(k)
    BY <1>0, <2>8, CarryTyped DEF DropCall, GoOn
  <2> QED
    BY <1>2, <2>1, <2>2, <2>3, <2>4, <2>5, <2>6, <2>7, <2>8 DEF CallStep
<1>3. ASSUME NEW k \in Calls, RefreshStep(k) \/ RefreshDropped(k) PROVE BodyTypeOK'
  BY <1>3 DEF RefreshStep, RefreshStart, RefreshFetch, RefreshPromote, RefreshDropped
<1>4. ASSUME NEW w \in Writers, WriteStep(w) PROVE BodyTypeOK'
  <2>1. CASE Write(w)
    <3>1. PICK s \in Supplied \union {Plain} : Carry(w, Stamp(HandedIn(s)), HandedIn(s))
      BY <2>1 DEF Write
    <3>2. Stamp(HandedIn(s)) \in Carried /\ HandedIn(s) \in Carried
      BY <1>0, HandedInGenuine, StampGenuine
    <3> QED
      BY <1>0, <2>1, <3>1, <3>2, CarryTyped DEF Write
  <2>2. CASE StampFallback(w)
    <3>1. hand[w]["fallback"] \in Genuine \union Unstamped
      BY <1>0, <2>2 DEF StampFallback, Carried, Copy
    <3>2. Stamp(hand[w]["fallback"]) \in Carried
      BY <1>0, <3>1, StampGenuine
    <3>3. hand' = [hand EXCEPT ![w] = [hand[w] EXCEPT !["fallback"] = Stamp(hand[w]["fallback"])]]
      BY <1>0, <2>2 DEF StampFallback
    <3>4. [hand[w] EXCEPT !["fallback"] = Stamp(hand[w]["fallback"])] \in [Tiers -> Carried]
      BY <1>0, <3>2
    <3> QED
      BY <1>0, <2>2, <3>3, <3>4 DEF StampFallback
  <2>3. ASSUME NEW t \in Tiers, StoreWritten(w, t) PROVE BodyTypeOK'
    BY <1>0, <2>3, SpreadTyped DEF StoreWritten
  <2>4. CASE Written(w)
    BY <1>0, <2>4, CarryTyped DEF Written
  <2> QED
    BY <1>4, <2>1, <2>2, <2>3, <2>4 DEF WriteStep
<1>5. CASE (\E t \in Tiers : Evict(t)) \/ Tick \/ UNCHANGED vars
  BY <1>5 DEF Evict, Tick, vars
<1> QED
  BY <1>2, <1>3, <1>4, <1>5 DEF Next

\* Only a read of the primary tier starts a refresh.
LEMMA RefreshUntouched ==
  ASSUME \/ \E k \in Calls : (CallStep(k) /\ ~ReadPrimary(k)) \/ DropCall(k)
         \/ \E w \in Writers : WriteStep(w)
         \/ \E t \in Tiers : Evict(t)
         \/ Tick
         \/ UNCHANGED vars
  PROVE  UNCHANGED refreshVars
<1>1. ASSUME NEW k \in Calls, (CallStep(k) /\ ~ReadPrimary(k)) \/ DropCall(k)
      PROVE  UNCHANGED refreshVars
  BY <1>1 DEF CallStep, Merge, ReadFallback, Compute, Store, Stored, Remove, Removed, DropCall
<1>2. ASSUME NEW w \in Writers, WriteStep(w) PROVE UNCHANGED refreshVars
  BY <1>2 DEF WriteStep, Write, StampFallback, StoreWritten, Written
<1>3. CASE (\E t \in Tiers : Evict(t)) \/ Tick \/ UNCHANGED vars
  BY <1>3 DEF Evict, Tick, vars
<1> QED
  BY <1>1, <1>2, <1>3

LEMMA RefreshTyped ==
  ASSUME DataTypeOK, [Next]_vars
  PROVE  RefreshTypeOK'
<1> USE DEF DataTypeOK, RefreshTypeOK
<1>1. CASE UNCHANGED refreshVars
  BY <1>1 DEF refreshVars
<1>2. ASSUME NEW k \in Calls, ReadPrimary(k) PROVE RefreshTypeOK'
  BY <1>1, <1>2 DEF ReadPrimary, DoRefresh
<1>3. ASSUME NEW q \in Calls, EndRefresh(q) PROVE RefreshTypeOK'
  BY <1>3 DEF EndRefresh, Copy
<1>4. ASSUME NEW q \in Calls, RefreshStep(q) \/ RefreshDropped(q) PROVE RefreshTypeOK'
  <2>1. CASE RefreshStart(q) \/ RefreshPromote(q) \/ RefreshDropped(q)
    BY <1>3, <2>1 DEF RefreshStart, RefreshPromote, RefreshDropped
  <2>2. CASE RefreshFetch(q)
    <3>1. CASE Hit("fallback") /\ task' = [task EXCEPT ![q] = "promoting"]
               /\ fetched' = [fetched EXCEPT ![q] = Stamp(store["fallback"])] /\ UNCHANGED inFlight
      <4>1. Stamp(store["fallback"]) \in Copy
        BY <3>1, HitGenuine, StampGenuine DEF Tiers, Copy
      <4> QED
        BY <3>1, <4>1
    <3> QED
      BY <1>3, <2>2, <3>1 DEF RefreshFetch
  <2> QED
    BY <1>4, <2>1, <2>2 DEF RefreshStep
<1> QED
  BY <1>1, <1>2, <1>4, RefreshUntouched DEF Next

LEMMA TypesStart == Init => DataTypeOK
<1>1. SUFFICES ASSUME Init PROVE DataTypeOK
  OBVIOUS
<1>2. NoEntry \in Copy /\ NoEntry \in Carried
  BY DEF Carried, Copy
<1>3. NoEntries \in [Tiers -> Copy] /\ NoEntries \in [Tiers -> Carried]
  BY <1>2 DEF NoEntries
<1>4. StoreTypeOK
  BY <1>1, <1>3, CachetAssumption DEF Init, StoreTypeOK
<1>5. BodyTypeOK
  BY <1>1, <1>3 DEF Init, BodyTypeOK
<1>6. RefreshTypeOK
  BY <1>1, <1>2 DEF Init, RefreshTypeOK
<1> QED
  BY <1>4, <1>5, <1>6 DEF DataTypeOK

LEMMA DataTyped ==
  ASSUME DataTypeOK
  PROVE  FlightTypeOK => CachetTypeOK
BY DEF DataTypeOK, StoreTypeOK, BodyTypeOK, RefreshTypeOK, Carried, Copy, Genuine, CachetTypeOK

-----------------------------------------------------------------------------
(* The refresh.                                                              *)

\* The call whose task the key is in flight for.
RefreshInv ==
  /\ \A p, q \in Calls : task[p] # "none" /\ task[q] # "none" => p = q
  /\ inFlight <=> \E q \in Calls : task[q] # "none"

LEMMA RefreshKept ==
  ASSUME DataTypeOK, RefreshInv, [Next]_vars
  PROVE  RefreshInv'
<1> USE DEF DataTypeOK, RefreshTypeOK
<1>1. CASE UNCHANGED refreshVars
  BY <1>1 DEF RefreshInv, refreshVars
<1>2. ASSUME NEW k \in Calls, ReadPrimary(k) PROVE RefreshInv'
  <2>1. CASE ~inFlight /\ inFlight' = TRUE /\ task' = [task EXCEPT ![k] = "spawned"]
    BY <2>1 DEF RefreshInv
  <2> QED
    BY <1>1, <1>2, <2>1 DEF ReadPrimary, DoRefresh
<1>3. ASSUME NEW k \in Calls, RefreshStep(k) \/ RefreshDropped(k) PROVE RefreshInv'
  <2>1. CASE task[k] # "none" /\ EndRefresh(k)
    BY <2>1 DEF EndRefresh, RefreshInv
  <2>2. CASE /\ task[k] # "none" /\ UNCHANGED inFlight
             /\ \E s \in {"fetching", "promoting", "lost"} : task' = [task EXCEPT ![k] = s]
    BY <2>2 DEF RefreshInv
  <2> QED
    BY <1>3, <2>1, <2>2 DEF RefreshStep, RefreshStart, RefreshFetch, RefreshPromote, RefreshDropped
<1> QED
  BY <1>1, <1>2, <1>3, RefreshUntouched DEF Next

LEMMA RefreshOwned ==
  ASSUME DataTypeOK, RefreshInv
  PROVE  RefreshIsOwned
<1> DEFINE Running == {q \in Calls : task[q] \in {"spawned", "fetching", "promoting"}}
<1>1. Cardinality(Running) <= 1
  <2>1. CASE Running = {}
    BY <2>1, FS_EmptySet
  <2>2. ASSUME NEW q \in Running PROVE Cardinality(Running) <= 1
    <3>1. Running = {q}
      BY <2>2 DEF RefreshInv
    <3>2. Cardinality({q}) = 1
      BY FS_Singleton
    <3> QED
      BY <3>1, <3>2
  <2> QED
    BY <2>1, <2>2
<1>2. Running # {} => inFlight
  BY DEF RefreshInv
<1>3. inFlight /\ Running = {} => \E q \in Calls : task[q] = "lost"
  BY DEF RefreshInv, DataTypeOK, RefreshTypeOK
<1> QED
  BY <1>1, <1>2, <1>3 DEF RefreshIsOwned

-----------------------------------------------------------------------------
(* The theorems.                                                             *)

\* The mergers, the types with the stamps, and the refresh together are inductive.
IndInv == FlightInv /\ DataTypeOK /\ RefreshInv

LEMMA Induction == Spec => []IndInv
<1>1. Init => FlightInv
  BY FlightStarts DEF Init
<1>2. Init => RefreshInv
  BY DEF Init, RefreshInv
<1>3. Init => IndInv
  BY <1>1, <1>2, TypesStart DEF IndInv
<1>4. IndInv /\ [Next]_vars => IndInv'
  <2>1. SUFFICES ASSUME IndInv, [Next]_vars PROVE IndInv'
    OBVIOUS
  <2>2. FlightInv' /\ RefreshInv'
    BY <2>1, FlightKept, RefreshKept DEF IndInv
  <2>3. DataTypeOK'
    BY <2>1, StoreTyped, BodyTyped, RefreshTyped DEF IndInv, DataTypeOK
  <2> QED
    BY <2>2, <2>3 DEF IndInv
<1> QED
  BY <1>3, <1>4, PTL DEF Spec

\* Every variable of the cache keeps its type.
THEOREM Typed == Spec => []CachetTypeOK
<1>1. IndInv => CachetTypeOK
  BY DataTyped DEF IndInv, FlightInv
<1> QED
  BY <1>1, Induction, PTL

\* However calls are merged, dropped and raced by insertions, refreshes and
\* evictions, one call of each form runs the function of the form at a time.  Two
\* calls of different forms may: each form has its own merger.
THEOREM StampedeProtection == Spec => []OneFlight
<1>1. IndInv => OneFlight
  BY DEF IndInv, FlightInv
<1> QED
  BY <1>1, Induction, PTL

\* One refresh task of the key runs at a time, and the key is in flight exactly
\* while it runs or because it was dropped before its first poll.
THEOREM OneRefresh == Spec => []RefreshIsOwned
<1>1. IndInv => RefreshIsOwned
  BY RefreshOwned DEF IndInv
<1> QED
  BY <1>1, Induction, PTL

\* Promotions and background refreshes never extend the life of an entry: whatever
\* TTLs the entry and the tiers have or lack, and however the copies of two
\* insertions overwrite each other, a tier serves what it holds only within the
\* TTL after its first stamp, also when the caller set that stamp.
THEOREM EntriesExpire == Spec => []ServedInTime
<1>1. ASSUME DataTypeOK, NEW t \in Tiers, Hit(t), TtlOf(t, store[t]) # None
      PROVE  clock <= store[t].born + TtlOf(t, store[t])
  <2> DEFINE e == store[t]
  <2>1. e \in Genuine
    BY <1>1, HitGenuine DEF DataTypeOK
  <2>2. e.at \in Nat /\ e.born = e.at /\ e.ttl \in Nat \union {None}
    BY <2>1 DEF Genuine, Entry
  <2>3. TtlOf(t, e) \in Nat
    BY <1>1, <2>2, CachetAssumption DEF TtlOf
  <2>4. clock \in Nat
    BY <1>1, CachetAssumption DEF DataTypeOK, StoreTypeOK
  <2>5. ~(clock - e.at > TtlOf(t, e))
    BY <1>1 DEF Hit, IsExpired
  <2> QED
    BY <2>2, <2>3, <2>4, <2>5
<1>2. IndInv => ServedInTime
  BY <1>1 DEF IndInv, ServedInTime
<1> QED
  BY <1>2, Induction, PTL
=============================================================================

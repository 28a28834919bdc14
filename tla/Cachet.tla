------------------------------- MODULE Cachet -------------------------------
(***************************************************************************)
(* One key of a two-tier cache of crate cachet with stampede protection    *)
(* and background refresh: cache.rs (the operations and their mergers),    *)
(* fallback.rs (primary and fallback tier), wrapper.rs (time stamps, TTL,  *)
(* insert policy), refresh.rs, and entry.rs of cachet_tier.  Each form of  *)
(* get and get_or_insert, and invalidate, has a merger of its own, insert  *)
(* has none.  Any operation of a tier may fail.  Values are not told       *)
(* apart: an entry is its stamp and its TTL.                               *)
(***************************************************************************)
EXTENDS Integers, Uniflight

CONSTANTS
  Writers,      \* calls of Cache::insert
  Supplied,     \* entries that callers hand in: a stamp and a TTL, or None
  PrimaryTtl,   \* CacheWrapper::ttl of the primary tier, or None
  FallbackTtl,  \* and of the fallback tier
  Ttr,          \* TimeToRefresh::duration
  MaxTime,      \* bound on the clock
  None,         \* Option::None
  NoEntry       \* no entry

Tiers == {"primary", "fallback"}

Inserts == Calls \union Writers

\* CacheEntry::new.  The other constructors are expires_after (a TTL) and
\* expires_at (a TTL and a stamp).
Plain == [at |-> None, ttl |-> None]

ASSUME CachetAssumption ==
  /\ Mergers = {"get", "invalidate", "get_or_insert", "get_or_insert_with", "try_get_or_insert",
                "try_get_or_insert_with", "optionally_get_or_insert"}
  /\ Calls \intersect Writers = {}
  /\ None \notin Int
  /\ Supplied \subseteq [at : Nat \union {None}, ttl : Nat \union {None}]
  /\ PrimaryTtl \in Nat \union {None} /\ FallbackTtl \in Nat \union {None}
  /\ Ttr \in Nat /\ MaxTime \in Nat

VARIABLES
  clock,    \* Clock::system_time
  store,    \* what each tier holds for the key
  body,     \* where the future of each leading call is
  hand,     \* the entry that each insertion is about to put into each tier
  todo,     \* the tiers that each removal has yet to reach
  writer,   \* where each Cache::insert is
  inFlight, \* TimeToRefresh::in_flight holds the key
  task,     \* where the refresh task is that each call spawned
  fetched   \* the entry that task got from the fallback tier

refreshVars == <<inFlight, task, fetched>>
vars == <<flightVars, clock, store, body, hand, todo, writer, refreshVars>>

\* CacheEntry.  A tier holds stamped entries; an entry that was handed in may have
\* no stamp yet.  The history field born is the stamp that the entry first got.
Entry == [at : Nat, born : Nat, ttl : Nat \union {None}]
Unstamped == [at : {None}, born : {None}, ttl : Nat \union {None}]

NoEntries == [t \in Tiers |-> NoEntry]

CachetTypeOK ==
  /\ FlightTypeOK
  /\ clock \in 0..MaxTime
  /\ store \in [Tiers -> Entry \union {NoEntry}]
  /\ body \in [Calls -> {"none", "primary", "fallback", "compute", "store", "remove"}]
  /\ hand \in [Inserts -> [Tiers -> Entry \union Unstamped \union {NoEntry}]]
  /\ todo \in [Calls -> SUBSET Tiers]
  /\ writer \in [Writers -> {"idle", "inserting", "returned"}]
  /\ inFlight \in BOOLEAN
  /\ task \in [Calls -> {"none", "spawned", "fetching", "promoting", "lost"}]
  /\ fetched \in [Calls -> Entry \union {NoEntry}]

Init ==
  /\ FlightInit
  /\ clock = 0
  /\ store = NoEntries
  /\ body = [k \in Calls |-> "none"]
  /\ hand = [x \in Inserts |-> NoEntries] /\ todo = [k \in Calls |-> {}]
  /\ writer = [w \in Writers |-> "idle"]
  /\ inFlight = FALSE
  /\ task = [k \in Calls |-> "none"] /\ fetched = [k \in Calls |-> NoEntry]

-----------------------------------------------------------------------------
(* A tier: CacheWrapper around its storage.                                  *)

\* An entry as its caller hands it in.
HandedIn(s) == [at |-> s.at, born |-> s.at, ttl |-> s.ttl]

\* Variant for testing the properties: every insertion stamps.
StampAlways(e) ==
  [e EXCEPT !.at = clock, !.born = IF e.at = None THEN clock ELSE @]

\* CacheEntry::ensure_cached_at, with which every insertion begins.
Stamp(e) == IF e.at = None THEN [e EXCEPT !.at = clock, !.born = clock] ELSE e

\* The TTL of the entry has precedence over that of the tier.
TtlOf(t, e) ==
  IF e.ttl # None THEN e.ttl ELSE IF t = "primary" THEN PrimaryTtl ELSE FallbackTtl

\* CacheWrapper::is_expired.  A stamp in the future counts as expired.
IsExpired(t, e) ==
  TtlOf(t, e) # None /\ (e.at > clock \/ clock - e.at > TtlOf(t, e))

\* CacheWrapper::handle_get_result.
Hit(t) == store[t] # NoEntry /\ ~IsExpired(t, store[t])

\* CacheWrapper::insert after the stamp, and invalidate.  The policy may reject
\* the entry, the storage may fail.
Put(t, e)  == store' = [store EXCEPT ![t] = e]
TryPut(t, e) == Put(t, e) \/ UNCHANGED store

\* The storage drops the entry: eviction, clear, or another process.
Evict(t) ==
  /\ store[t] # NoEntry
  /\ Put(t, NoEntry)
  /\ UNCHANGED <<flightVars, clock, body, hand, todo, writer, refreshVars>>

Tick ==
  /\ clock < MaxTime
  /\ clock' = clock + 1
  /\ UNCHANGED <<flightVars, store, body, hand, todo, writer, refreshVars>>

-----------------------------------------------------------------------------
(* Insertions: FallbackCache::insert, and the promotion of an entry.         *)

\* Insertion x is about to put p into the primary and f into the fallback tier.
Carry(x, p, f) ==
  hand' = [hand EXCEPT ![x] = [t \in Tiers |-> IF t = "primary" THEN p ELSE f]]

\* One half of the join! reaches its tier.
Spread(x, t) ==
  /\ hand[x][t] # NoEntry /\ hand[x][t].at # None
  /\ hand' = [hand EXCEPT ![x][t] = NoEntry]
  /\ TryPut(t, hand[x][t])

-----------------------------------------------------------------------------
(* The calls that merge: get, get_or_insert and its forms, invalidate.       *)

GoOn(k, label) == body' = [body EXCEPT ![k] = label]

\* The steps of the merger of the call; the caller that leads runs the function of
\* the call.
Merge(k) ==
  /\ \/ /\ Execute(k) \/ Insert(k) \/ Take(k) \/ Clean(k)
        /\ UNCHANGED <<body, todo>>
     \/ /\ Lead(k)
        /\ \/ via[k] # "invalidate" /\ GoOn(k, "primary") /\ UNCHANGED todo
           \/ via[k] = "invalidate" /\ GoOn(k, "remove") /\ todo' = [todo EXCEPT ![k] = Tiers]
  /\ UNCHANGED <<clock, store, hand, writer, refreshVars>>

\* The future of the leader ends, and its state with it.
Done(k) == Finish(k) /\ GoOn(k, "none") /\ Carry(k, NoEntry, NoEntry)

\* TimeToRefresh::should_refresh.
ShouldRefresh == store["primary"].at > clock \/ clock - store["primary"].at >= Ttr

\* Variant for testing the properties: the set of keys in flight is not asked.
DoRefreshAlways(k) ==
  /\ inFlight' = TRUE
  /\ task' = [task EXCEPT ![k] = "spawned"] /\ UNCHANGED fetched

\* FallbackCache::do_refresh: at most one refresh of the key at a time.
DoRefresh(k) ==
  \/ inFlight /\ UNCHANGED refreshVars
  \/ ~inFlight /\ inFlight' = TRUE /\ task' = [task EXCEPT ![k] = "spawned"]
     /\ UNCHANGED fetched

\* FallbackCache::get, the primary tier.  A tier that fails counts as a miss.
ReadPrimary(k) ==
  /\ body[k] = "primary"
  /\ \/ /\ Hit("primary") /\ Done(k)
        /\ \/ ShouldRefresh /\ DoRefresh(k)
           \/ ~ShouldRefresh /\ UNCHANGED refreshVars
     \/ GoOn(k, "fallback") /\ UNCHANGED <<flightVars, hand, refreshVars>>
  /\ UNCHANGED <<clock, store, todo, writer>>

\* get_from_fallback up to the answer of the fallback tier: a hit, which is to be
\* promoted, a miss, which ends a plain get, or an error, which ends the call.
ReadFallback(k) ==
  /\ body[k] = "fallback"
  /\ \/ /\ Hit("fallback")
        /\ GoOn(k, "store") /\ Carry(k, Stamp(store["fallback"]), NoEntry)
        /\ UNCHANGED flightVars
     \/ /\ ~Hit("fallback") /\ via[k] # "get"
        /\ GoOn(k, "compute") /\ UNCHANGED <<flightVars, hand>>
     \/ Done(k)
  /\ UNCHANGED <<clock, store, todo, writer, refreshVars>>

\* What the caller's function may return: the forms named "with" return an entry,
\* the others a value.
Results(k) ==
  {Plain} \union (IF via[k] \in {"get_or_insert_with", "try_get_or_insert_with"}
                  THEN Supplied ELSE {})

\* insert_computed_entry stamps what the function returned, for both tiers.  When
\* the function returns no value or an error, or panics, nothing is inserted.
Compute(k) ==
  /\ body[k] = "compute"
  /\ \/ /\ \E s \in Results(k) : LET e == Stamp(HandedIn(s)) IN Carry(k, e, e)
        /\ GoOn(k, "store") /\ UNCHANGED flightVars
     \/ Done(k)
  /\ UNCHANGED <<clock, store, todo, writer, refreshVars>>

\* The promotion of get_from_fallback, or one half of the insertion of
\* insert_computed_entry.
Store(k, t) ==
  /\ body[k] = "store"
  /\ Spread(k, t)
  /\ UNCHANGED <<flightVars, clock, body, todo, writer, refreshVars>>

\* Both tiers have answered: failures of a promotion are swallowed, those of an
\* insertion are the call's result.
Stored(k) ==
  /\ body[k] = "store" /\ hand[k] = NoEntries
  /\ Done(k)
  /\ UNCHANGED <<clock, store, todo, writer, refreshVars>>

\* Cache::invalidate: the leader removes the key from both tiers.
Remove(k, t) ==
  /\ t \in todo[k]
  /\ todo' = [todo EXCEPT ![k] = @ \ {t}]
  /\ TryPut(t, NoEntry)
  /\ UNCHANGED <<flightVars, clock, body, hand, writer, refreshVars>>

Removed(k) ==
  /\ body[k] = "remove" /\ todo[k] = {}
  /\ Done(k)
  /\ UNCHANGED <<clock, store, todo, writer, refreshVars>>

\* The caller drops its future: what it was doing stops where it was.
DropCall(k) ==
  /\ Drop(k)
  /\ GoOn(k, "none") /\ Carry(k, NoEntry, NoEntry) /\ todo' = [todo EXCEPT ![k] = {}]
  /\ UNCHANGED <<clock, store, writer, refreshVars>>

-----------------------------------------------------------------------------
(* Cache::insert.  The first poll of the join! stamps the entry of each tier, *)
(* the primary one first, each with its own reading of the clock.             *)

Write(w) ==
  /\ writer[w] = "idle"
  /\ writer' = [writer EXCEPT ![w] = "inserting"]
  /\ \E s \in Supplied \union {Plain} : LET e == HandedIn(s) IN Carry(w, Stamp(e), e)
  /\ UNCHANGED <<flightVars, clock, store, body, todo, refreshVars>>

StampFallback(w) ==
  /\ hand[w]["fallback"] # NoEntry /\ hand[w]["fallback"].at = None
  /\ hand' = [hand EXCEPT ![w]["fallback"] = Stamp(@)]
  /\ UNCHANGED <<flightVars, clock, store, body, todo, writer, refreshVars>>

StoreWritten(w, t) ==
  /\ Spread(w, t)
  /\ UNCHANGED <<flightVars, clock, body, todo, writer, refreshVars>>

\* The call returns, or is dropped after the first poll.
Written(w) ==
  /\ writer[w] = "inserting"
  /\ hand[w]["fallback"] # NoEntry => hand[w]["fallback"].at # None
  /\ writer' = [writer EXCEPT ![w] = "returned"]
  /\ Carry(w, NoEntry, NoEntry)
  /\ UNCHANGED <<flightVars, clock, store, body, todo, refreshVars>>

-----------------------------------------------------------------------------
(* The refresh task that call q spawned.                                     *)

\* The first poll creates the guard that ends the refresh when it is dropped.
RefreshStart(q) ==
  /\ task[q] = "spawned"
  /\ task' = [task EXCEPT ![q] = "fetching"]
  /\ UNCHANGED <<flightVars, clock, store, body, hand, todo, writer, inFlight, fetched>>

\* finish_refresh, run by the guard.
EndRefresh(q) ==
  /\ task' = [task EXCEPT ![q] = "none"] /\ fetched' = [fetched EXCEPT ![q] = NoEntry]
  /\ inFlight' = FALSE

\* fetch_and_promote: a miss or an error ends the refresh.
RefreshFetch(q) ==
  /\ task[q] = "fetching"
  /\ \/ /\ Hit("fallback")
        /\ task' = [task EXCEPT ![q] = "promoting"]
        /\ fetched' = [fetched EXCEPT ![q] = Stamp(store["fallback"])]
        /\ UNCHANGED inFlight
     \/ EndRefresh(q)
  /\ UNCHANGED <<flightVars, clock, store, body, hand, todo, writer>>

RefreshPromote(q) ==
  /\ task[q] = "promoting"
  /\ TryPut("primary", fetched[q])
  /\ EndRefresh(q)
  /\ UNCHANGED <<flightVars, clock, body, hand, todo, writer>>

\* The runtime drops the task, or the task panics.  Before the first poll there
\* is no guard: the key stays in flight.
RefreshDropped(q) ==
  /\ \/ task[q] \in {"fetching", "promoting"} /\ EndRefresh(q)
     \/ /\ task[q] = "spawned" /\ task' = [task EXCEPT ![q] = "lost"]
        /\ UNCHANGED <<inFlight, fetched>>
  /\ UNCHANGED <<flightVars, clock, store, body, hand, todo, writer>>

-----------------------------------------------------------------------------
CallStep(k) ==
  \/ Merge(k) \/ ReadPrimary(k) \/ ReadFallback(k) \/ Compute(k) \/ Stored(k) \/ Removed(k)
  \/ \E t \in Tiers : Store(k, t) \/ Remove(k, t)
WriteStep(w)  ==
  Write(w) \/ StampFallback(w) \/ (\E t \in Tiers : StoreWritten(w, t)) \/ Written(w)
RefreshStep(q) == RefreshStart(q) \/ RefreshFetch(q) \/ RefreshPromote(q)

Next ==
  \/ \E k \in Calls : CallStep(k) \/ DropCall(k) \/ RefreshStep(k) \/ RefreshDropped(k)
  \/ \E w \in Writers : WriteStep(w)
  \/ \E t \in Tiers : Evict(t)
  \/ Tick

Spec == Init /\ [][Next]_vars

\* A call that has begun is polled until it returns or is
\* dropped, the tiers answer and the caller's function ends.
FairSpec == Spec /\ \A k \in Calls : WF_vars(stage[k] # "idle" /\ CallStep(k))

-----------------------------------------------------------------------------
(* Properties. *)

\* A key is refreshed by one task at a time and is in flight while it is.  It
\* stays in flight without a task only when the task was dropped before its
\* first poll.
RefreshIsOwned ==
  LET Running == {q \in Calls : task[q] \in {"spawned", "fetching", "promoting"}} IN
    /\ Cardinality(Running) <= 1
    /\ Running # {} => inFlight
    /\ inFlight /\ Running = {} => \E q \in Calls : task[q] = "lost"

\* No tier serves an entry longer than its TTL after it was first stamped, however
\* often it is promoted or refreshed in between, by whom, and what it overwrites.
ServedInTime ==
  \A t \in Tiers : Hit(t) /\ TtlOf(t, store[t]) # None =>
    clock <= store[t].born + TtlOf(t, store[t])

\* No call waits for ever: when the leader is dropped a follower takes
\* over, and the last one returns or is dropped.
CallsReturn == []<>(\A k \in Calls : stage[k] \in {"idle", "ended"})
=============================================================================

----------------------------- MODULE Uniflight -----------------------------
(***************************************************************************)
(* Mergers of crate uniflight, lib.rs: concurrent calls of execute for one *)
(* key of one merger share one execution.  The map of a merger holds a     *)
(* weak pointer to a cell; every call that has not finished holds the      *)
(* cell, and the cell lives as long as a call holds it.  Keys are          *)
(* independent of each other: the module is about one, and about as many   *)
(* mergers as its user has.  Cells are named after the call that allocated *)
(* them.  The steps of the function a leader runs are those of the module  *)
(* that uses this one, and what it returns is not told apart.              *)
(***************************************************************************)
EXTENDS FiniteSets

CONSTANTS
  Calls,    \* calls of Merger::execute
  Mergers,  \* the mergers
  Uses,     \* the mergers that each call may be made on
  NoCell    \* no cell

ASSUME UniflightAssumption == NoCell \notin Calls /\ Uses \in [Calls -> SUBSET Mergers]

VARIABLES
  entry,  \* the Weak that MergerState::entries of each merger holds for the key
  via,    \* the merger of each call that is under way
  hold,   \* the Arc of the cell that each call holds
  stage,  \* where each call is
  filled  \* the cells whose OnceCell has its value or LeaderPanicked

flightVars == <<entry, via, hold, stage, filled>>

FlightTypeOK ==
  /\ entry \in [Mergers -> Calls \union {NoCell}]
  /\ via \in [Calls -> Mergers \union {"none"}]
  /\ hold \in [Calls -> Calls \union {NoCell}]
  /\ stage \in [Calls -> {"idle", "insert", "joined", "leading", "taken", "ended"}]
  /\ filled \subseteq Calls

FlightInit ==
  /\ entry = [m \in Mergers |-> NoCell]
  /\ via = [k \in Calls |-> "none"]
  /\ hold = [k \in Calls |-> NoCell] /\ stage = [k \in Calls |-> "idle"]
  /\ filled = {}

\* Weak::upgrade would succeed.
Alive(c) == \E k \in Calls : hold[k] = c /\ c # NoCell

Stage(k, s) == stage' = [stage EXCEPT ![k] = s]

Join(k, c) == hold' = [hold EXCEPT ![k] = c] /\ Stage(k, "joined")

\* get_or_create_cell, the lookup without the entry lock.
Execute(k) ==
  /\ stage[k] = "idle"
  /\ \E m \in Uses[k] :
       /\ via' = [via EXCEPT ![k] = m]
       /\ \/ Alive(entry[m]) /\ Join(k, entry[m])
          \/ ~Alive(entry[m]) /\ Stage(k, "insert") /\ UNCHANGED hold
  /\ UNCHANGED <<entry, filled>>

\* Variant for testing the properties: the slow path does not look again.
InsertBlind(k) ==
  /\ stage[k] = "insert"
  /\ Join(k, k) /\ entry' = [entry EXCEPT ![via[k]] = k]
  /\ UNCHANGED <<via, filled>>

\* insert_or_get_existing, under the entry lock: another call may have inserted
\* a cell since the lookup.
Insert(k) ==
  /\ stage[k] = "insert"
  /\ \/ Alive(entry[via[k]]) /\ Join(k, entry[via[k]]) /\ UNCHANGED entry
     \/ ~Alive(entry[via[k]]) /\ Join(k, k) /\ entry' = [entry EXCEPT ![via[k]] = k]
  /\ UNCHANGED <<via, filled>>

\* Variant for testing the properties: only the caller that made the cell may run
\* its future.
LeadCreator(k) ==
  /\ stage[k] = "joined" /\ hold[k] = k /\ hold[k] \notin filled
  /\ Stage(k, "leading")
  /\ UNCHANGED <<entry, via, hold, filled>>

\* External, async_once_cell: one of the callers whose cell is empty runs its own
\* future; when that one is dropped, another does.
Lead(k) ==
  /\ stage[k] = "joined" /\ hold[k] \notin filled
  /\ \A j \in Calls : hold[j] = hold[k] => stage[j] # "leading"
  /\ Stage(k, "leading")
  /\ UNCHANGED <<entry, via, hold, filled>>

\* PanicAwareCell::get_or_init: the leader's future returns or panics, and the
\* cell keeps the result or LeaderPanicked for everyone.
Finish(k) ==
  /\ stage[k] = "leading"
  /\ filled' = filled \union {hold[k]}
  /\ Stage(k, "joined")
  /\ UNCHANGED <<entry, via, hold>>

\* The result is cloned and drop(cell) releases the caller's Arc.
Take(k) ==
  /\ stage[k] = "joined" /\ hold[k] \in filled
  /\ hold' = [hold EXCEPT ![k] = NoCell] /\ Stage(k, "taken")
  /\ UNCHANGED <<entry, via, filled>>

\* remove_if: the entry goes when its cell is dead.  The call returns.
Clean(k) ==
  /\ stage[k] = "taken"
  /\ entry' = [entry EXCEPT ![via[k]] = IF Alive(@) THEN @ ELSE NoCell]
  /\ Stage(k, "ended") /\ via' = [via EXCEPT ![k] = "none"]
  /\ UNCHANGED <<hold, filled>>

\* The future of the call is dropped at an await, polled or not, and nothing is
\* cleaned up.  A closure that panics before it returns its future ends the call
\* in the same way.
Drop(k) ==
  /\ stage[k] \in {"joined", "leading"}
  /\ hold' = [hold EXCEPT ![k] = NoCell]
  /\ Stage(k, "ended") /\ via' = [via EXCEPT ![k] = "none"]
  /\ UNCHANGED <<entry, filled>>

-----------------------------------------------------------------------------
(* Properties. *)

\* Everyone who holds a cell holds the cell of the map.
HeldIsMapped == \A k \in Calls : hold[k] # NoCell => hold[k] = entry[via[k]]

\* At most one caller of a merger runs its function, however lookups, insertions,
\* clean-ups and drops of callers interleave.
OneFlight ==
  \A j, k \in Calls :
    stage[j] = "leading" /\ stage[k] = "leading" /\ via[j] = via[k] => j = k

\* What the module documentation says under Memory Management: entries go when
\* the last caller finishes, so that no stale entries accumulate.  While no call
\* is under way the maps are empty.
NoStaleEntries ==
  (\A k \in Calls : stage[k] \in {"idle", "ended"}) => \A m \in Mergers : entry[m] = NoCell
=============================================================================

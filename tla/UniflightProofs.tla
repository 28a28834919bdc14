-------------------------- MODULE UniflightProofs --------------------------
(***************************************************************************)
(* The calls of execute for one key of a merger share one execution, for   *)
(* any number of calls and mergers.  FlightStep is what a module that uses *)
(* mergers has to know of their steps.                                     *)
(***************************************************************************)
EXTENDS Uniflight, TLAPS

\* Exactly the calls that joined a cell and have not let go of it hold one.
HoldsWhileJoined ==
  \A k \in Calls : hold[k] # NoCell <=> stage[k] \in {"joined", "leading"}

\* A call that is under way has a merger.
HasMerger ==
  \A k \in Calls : stage[k] \in {"insert", "joined", "leading", "taken"} => via[k] \in Mergers

FlightInv == FlightTypeOK /\ HoldsWhileJoined /\ HasMerger /\ HeldIsMapped /\ OneFlight

\* The steps of the mergers.
FlightNext ==
  \E k \in Calls : \/ Execute(k) \/ Insert(k) \/ Lead(k) \/ Finish(k) \/ Take(k)
                   \/ Clean(k) \/ Drop(k)

\* When the cell of a merger's map is dead no call of the merger holds any cell.
LEMMA DeadMeansFree ==
  ASSUME FlightInv, NEW m \in Mergers, ~Alive(entry[m])
  PROVE  \A k \in Calls : via[k] = m => hold[k] = NoCell
BY DEF FlightInv, HeldIsMapped, Alive

\* Fresh mergers satisfy the invariant.
LEMMA FlightStarts == FlightInit => FlightInv
BY DEF FlightInit, FlightInv, FlightTypeOK, HoldsWhileJoined, HasMerger, HeldIsMapped, OneFlight

\* A call joins the cell of the map, which somebody holds.
LEMMA JoinKeeps ==
  ASSUME FlightInv, NEW k \in Calls, stage[k] \in {"idle", "insert"}, NEW m \in Mergers,
         Alive(entry[m]), Join(k, entry[m]), via' = [via EXCEPT ![k] = m],
         UNCHANGED <<entry, filled>>
  PROVE  FlightInv'
<1>1. entry[m] \in Calls
  BY DEF Alive, FlightInv, FlightTypeOK
<1>2. FlightTypeOK'
  BY <1>1 DEF FlightInv, FlightTypeOK, Join, Stage
<1>3. HoldsWhileJoined' /\ HasMerger'
  BY <1>1, UniflightAssumption DEF FlightInv, FlightTypeOK, HoldsWhileJoined, HasMerger, Join, Stage
<1>4. HeldIsMapped'
  BY DEF FlightInv, FlightTypeOK, HeldIsMapped, Join
<1>5. OneFlight'
  BY DEF FlightInv, FlightTypeOK, OneFlight, Join, Stage
<1> QED
  BY <1>2, <1>3, <1>4, <1>5 DEF FlightInv

\* A call puts a cell of its own into the map: the old one is dead.
LEMMA CreateKeeps ==
  ASSUME FlightInv, NEW k \in Calls, stage[k] = "insert", ~Alive(entry[via[k]]),
         Join(k, k), entry' = [entry EXCEPT ![via[k]] = k], UNCHANGED <<via, filled>>
  PROVE  FlightInv'
<1>0. via[k] \in Mergers
  BY DEF FlightInv, HasMerger
<1>1. \A j \in Calls : via[j] = via[k] => hold[j] = NoCell
  BY <1>0, DeadMeansFree
<1>2. FlightTypeOK'
  BY <1>0 DEF FlightInv, FlightTypeOK, Join, Stage
<1>3. HoldsWhileJoined' /\ HasMerger'
  BY <1>0, UniflightAssumption DEF FlightInv, FlightTypeOK, HoldsWhileJoined, HasMerger, Join, Stage
<1>4. HeldIsMapped'
  <2>1. SUFFICES ASSUME NEW j \in Calls, hold'[j] # NoCell PROVE hold'[j] = entry'[via[j]]
    BY DEF HeldIsMapped
  <2>2. CASE j = k
    BY <1>0, <2>2 DEF Join, FlightInv, FlightTypeOK
  <2>3. CASE j # k
    <3>1. hold[j] # NoCell /\ hold'[j] = hold[j]
      BY <2>1, <2>3 DEF Join, FlightInv, FlightTypeOK
    <3>2. via[j] # via[k] /\ via[j] \in Mergers
      BY <3>1, <1>1 DEF FlightInv, HoldsWhileJoined, HasMerger
    <3> QED
      BY <3>1, <3>2 DEF FlightInv, FlightTypeOK, HeldIsMapped
  <2> QED
    BY <2>2, <2>3
<1>5. OneFlight'
  BY DEF FlightInv, FlightTypeOK, OneFlight, Join, Stage
<1> QED
  BY <1>2, <1>3, <1>4, <1>5 DEF FlightInv

\* A call becomes the leader: another leader of its merger would hold the same cell.
LEMMA LeadKeeps ==
  ASSUME FlightInv, NEW k \in Calls, Lead(k)
  PROVE  FlightInv'
<1>1. FlightTypeOK' /\ HoldsWhileJoined' /\ HasMerger' /\ HeldIsMapped'
  BY DEF FlightInv, FlightTypeOK, HoldsWhileJoined, HasMerger, HeldIsMapped, Lead, Stage
<1>2. \A j \in Calls : via[j] = via[k] => stage[j] # "leading"
  <2>1. SUFFICES ASSUME NEW j \in Calls, via[j] = via[k], stage[j] = "leading" PROVE FALSE
    OBVIOUS
  <2>2. hold[j] = entry[via[k]] /\ hold[k] = entry[via[k]]
    BY <2>1 DEF FlightInv, HoldsWhileJoined, HeldIsMapped, Lead
  <2> QED
    BY <2>1, <2>2 DEF Lead
<1>3. OneFlight'
  BY <1>2 DEF FlightInv, FlightTypeOK, OneFlight, Lead, Stage
<1> QED
  BY <1>1, <1>3 DEF FlightInv

\* A call gives up its cell, with its result or because it is dropped.
LEMMA ReleaseKeeps ==
  ASSUME FlightInv, NEW k \in Calls, Take(k) \/ Drop(k)
  PROVE  FlightInv'
<1>1. CASE Take(k)
  BY <1>1 DEF FlightInv, FlightTypeOK, HoldsWhileJoined, HasMerger, HeldIsMapped, OneFlight,
     Take, Stage
<1>2. CASE Drop(k)
  BY <1>2 DEF FlightInv, FlightTypeOK, HoldsWhileJoined, HasMerger, HeldIsMapped, OneFlight,
     Drop, Stage
<1> QED
  BY <1>1, <1>2

\* The entry is removed only when nobody holds its cell.
LEMMA CleanKeeps ==
  ASSUME FlightInv, NEW k \in Calls, Clean(k)
  PROVE  FlightInv'
<1>0. via[k] \in Mergers /\ hold[k] = NoCell
  BY DEF FlightInv, HasMerger, HoldsWhileJoined, Clean
<1>1. FlightTypeOK' /\ HoldsWhileJoined' /\ HasMerger' /\ OneFlight'
  BY <1>0 DEF FlightInv, FlightTypeOK, HoldsWhileJoined, HasMerger, OneFlight, Clean, Stage
<1>2. HeldIsMapped'
  <2>1. CASE Alive(entry[via[k]])
    BY <1>0, <2>1 DEF FlightInv, FlightTypeOK, HeldIsMapped, Clean
  <2>2. CASE ~Alive(entry[via[k]])
    <3>1. SUFFICES ASSUME NEW j \in Calls, hold[j] # NoCell PROVE hold[j] = entry'[via'[j]]
      BY DEF HeldIsMapped, Clean
    <3>2. via[j] # via[k] /\ via[j] \in Mergers /\ j # k
      BY <1>0, <2>2, <3>1, DeadMeansFree DEF FlightInv, HoldsWhileJoined, HasMerger
    <3> QED
      BY <3>1, <3>2 DEF FlightInv, FlightTypeOK, HeldIsMapped, Clean
  <2> QED
    BY <2>1, <2>2
<1> QED
  BY <1>1, <1>2 DEF FlightInv

\* The leader fills the cell.
LEMMA FinishKeeps ==
  ASSUME FlightInv, NEW k \in Calls, Finish(k)
  PROVE  FlightInv'
<1>1. hold[k] \in Calls
  BY DEF FlightInv, FlightTypeOK, HoldsWhileJoined, Finish
<1> QED
  BY <1>1 DEF FlightInv, FlightTypeOK, HoldsWhileJoined, HasMerger, HeldIsMapped, OneFlight,
     Finish, Stage

\* Every step of a merger, of whatever the rest of the system does meanwhile,
\* keeps the invariant of which OneFlight is a part.
LEMMA FlightStep ==
  ASSUME FlightInv, FlightNext \/ UNCHANGED flightVars
  PROVE  FlightInv'
<1>1. CASE UNCHANGED flightVars
  BY <1>1 DEF flightVars, FlightInv, FlightTypeOK, HoldsWhileJoined, HasMerger, HeldIsMapped,
     OneFlight
<1>2. ASSUME NEW k \in Calls, Execute(k) PROVE FlightInv'
  <2>1. PICK m \in Mergers :
          /\ via' = [via EXCEPT ![k] = m]
          /\ \/ Alive(entry[m]) /\ Join(k, entry[m])
             \/ ~Alive(entry[m]) /\ Stage(k, "insert") /\ UNCHANGED hold
    BY <1>2, UniflightAssumption DEF Execute
  <2>2. CASE Alive(entry[m])
    BY <1>2, <2>1, <2>2, JoinKeeps DEF Execute
  <2>3. CASE ~Alive(entry[m])
    BY <1>2, <2>1, <2>3
      DEF Execute, Stage, FlightInv, FlightTypeOK, HoldsWhileJoined, HasMerger, HeldIsMapped,
          OneFlight
  <2> QED
    BY <2>2, <2>3
<1>3. ASSUME NEW k \in Calls, Insert(k) PROVE FlightInv'
  <2>1. via[k] \in Mergers /\ [via EXCEPT ![k] = via[k]] = via
    BY <1>3 DEF Insert, FlightInv, FlightTypeOK, HasMerger
  <2>2. CASE Alive(entry[via[k]])
    BY <1>3, <2>1, <2>2, JoinKeeps DEF Insert
  <2>3. CASE ~Alive(entry[via[k]])
    BY <1>3, <2>3, CreateKeeps DEF Insert
  <2> QED
    BY <2>2, <2>3
<1> QED
  BY <1>1, <1>2, <1>3, LeadKeeps, FinishKeeps, ReleaseKeeps, CleanKeeps DEF FlightNext
=============================================================================

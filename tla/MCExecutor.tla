----------------------------- MODULE MCExecutor -----------------------------
(* Finite instances of Executor for TLC. *)
EXTENDS Executor, TLC

Symmetry == Permutations(Task)
=============================================================================

------------------------------ MODULE MCRuntime ------------------------------
(* Finite instances of Runtime for TLC. *)
EXTENDS Runtime, TLC

RuntimeSymmetry == Permutations(Workers)
=============================================================================

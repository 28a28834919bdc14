------------------------------ MODULE MCBreaker ------------------------------
(* Breaker with the calls interchangeable. *)
EXTENDS Breaker, TLC

CallSymmetry == Permutations(Calls)
=============================================================================

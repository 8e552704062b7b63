------------------------------- MODULE MCApp -------------------------------
(* App with small constants. *)
EXTENDS App, TLC

Symmetry == Permutations(Pids)
=============================================================================

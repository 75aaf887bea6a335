---------------------------- MODULE MCRepository ----------------------------
(* An instance of the repository alone for TLC. *)
EXTENDS ThreadHistory, TLC

Symmetry == Permutations(Thread)
=============================================================================

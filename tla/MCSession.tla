----------------------------- MODULE MCSession -----------------------------
(* Instances of the terminal client for TLC. *)
EXTENDS CliSession, TLC

Symmetry == Permutations(Turn)
=============================================================================

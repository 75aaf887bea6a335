----------------------------- MODULE MCConsole -----------------------------
(* Instances of the terminal for TLC. *)
EXTENDS CliConsole, TLC

Symmetry == Permutations(Thread) \cup Permutations(Message)
=============================================================================

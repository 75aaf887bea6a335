----------------------------- MODULE MCService -----------------------------
(* Instances of the conversation service for TLC. *)
EXTENDS ConversationProperties, TLC

Symmetry == Permutations(Thread) \cup Permutations(Turn) \cup Permutations(Item)
=============================================================================

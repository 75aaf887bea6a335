-------------------------- MODULE MCSubscriptions --------------------------
(* Instances of the subscription path for TLC. *)
EXTENDS SubscriptionProperties, TLC

Symmetry == Permutations(Thread) \cup Permutations(Connection) \cup Permutations(Forwarder)
=============================================================================

-------------------------- MODULE MCDiscoveryTasks --------------------------
(* Instances of DiscoveryTasks for TLC. *)
EXTENDS DiscoveryTasks, TLC

Symmetry == Permutations(Worker)
=============================================================================

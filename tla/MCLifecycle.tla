---------------------------- MODULE MCLifecycle ----------------------------
(* Small instances of Lifecycle for TLC. *)
EXTENDS LifecycleCustody, TLC

Symmetry == Permutations(Claims) \cup Permutations(Devices)
=============================================================================

----------------------------- MODULE MCRegistry ------------------------------
(* Registry for TLC: addresses, leaves and local variables are interchangeable. *)
EXTENDS Registry, TLC

Symmetry == Permutations(Addr) \cup Permutations(Leaves) \cup Permutations(Locals)
=============================================================================

----------------------------- MODULE MCLibcData -----------------------------
(* LibcData for TLC: registers are interchangeable. *)
EXTENDS LibcData, TLC

Symmetry == Permutations(Registers)
=============================================================================

-------------------------- MODULE MCInstrumentation --------------------------
(* Instrumentation for TLC: registers are interchangeable. *)
EXTENDS Instrumentation, TLC

Symmetry == Permutations(Registers)
=============================================================================

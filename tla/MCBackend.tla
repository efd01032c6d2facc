------------------------------ MODULE MCBackend ------------------------------
(* Backend for TLC: registers are interchangeable, and the second input byte *)
(* is the complement of the first.                                           *)
EXTENDS Backend, TLC

Symmetry == Permutations(Registers)

MCLiterals == {NaN, 1}
MCInputs == {[k \in 0 .. 1 |-> IF k = 0 THEN n ELSE 3 - n] : n \in 0 .. 3}
=============================================================================

-------------------------- MODULE MCGenerationLoop --------------------------
(* Instance of GenerationLoop for TLC.  The target branches on the two bits *)
(* of its input, and does nothing with an empty one:                        *)
(*                                                                          *)
(*   block 1:  if (bit 1) { block 2 }    block 4:  if (bit 0) ...           *)
(*                                                                          *)
(* On b01 a condition that was not instrumented leads through block 16.     *)
EXTENDS GenerationLoop

CONSTANTS b00, b01, b10, b11, empty, n1, n2

MCInputs == {b00, b01, b10, b11, empty}

Cov(b) == [kind |-> "cov", block |-> b]
Push(s, t, F) == [kind |-> "push", taken |-> t, site |-> s, flips |-> F]

MCProgram ==
  b00 :> <<Cov(1), Push(1, FALSE, {b10}), Cov(4), Push(2, FALSE, {b01})>> @@
  b01 :> <<Cov(1), Push(1, FALSE, {b10}), Cov(16), Cov(4), Push(2, TRUE, {b00})>> @@
  b10 :> <<Cov(1), Push(1, TRUE, {b00}), Cov(2), Cov(4), Push(2, FALSE, {b11})>> @@
  b11 :> <<Cov(1), Push(1, TRUE, {b00}), Cov(2), Cov(4), Push(2, TRUE, {b10})>> @@
  empty :> <<Cov(1)>>

ExactGrep == n1 :> {n1} @@ n2 :> {n2}
=============================================================================

--------------------------- MODULE MCPureConcolic ---------------------------
(* Instance of PureConcolic for TLC.  The target branches on the two bits   *)
(* of its input, and does nothing with an empty one:                        *)
(*                                                                          *)
(*   block 1:  if (bit 1) { block 2 }    block 4:  if (bit 0) { block 8 }   *)
(*                                                                          *)
(* Block 8 is a loop body, which b11 visits twice.  The sum of all blocks   *)
(* wraps around.                                                            *)
EXTENDS PureConcolic

CONSTANTS b00, b01, b10, b11, empty

MCInputs == {b00, b01, b10, b11, empty}

Cov(b) == [kind |-> "cov", block |-> b]

\* Which test cases the solver finds does not matter to the history.
Push(s, t) == [kind |-> "push", taken |-> t, site |-> s, flips |-> {}]

MCProgram ==
  b00 :> <<Cov(1), Push(1, FALSE), Cov(4), Push(2, FALSE)>> @@
  b01 :> <<Cov(1), Push(1, FALSE), Cov(4), Push(2, TRUE), Cov(8)>> @@
  b10 :> <<Cov(1), Push(1, TRUE), Cov(2), Cov(4), Push(2, FALSE)>> @@
  b11 :> <<Cov(1), Push(1, TRUE), Cov(2), Cov(4), Push(2, TRUE), Cov(8), Cov(8)>> @@
  empty :> <<Cov(1)>>

ASSUME SumLaw
ASSUME CovFirst
=============================================================================

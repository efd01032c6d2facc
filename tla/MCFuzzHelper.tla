---------------------------- MODULE MCFuzzHelper ----------------------------
(* Instance of FuzzHelper for TLC: two inputs, of which Named may leave out *)
(* one, and four test cases: two that cover edges, a crash and a hang.      *)
EXTENDS FuzzHelper

CONSTANTS i1, i2, t1, t2, t3, t4

MCInputs == {i1, i2}
MCTests == {t1, t2, t3, t4}

MCScore ==
  i1 :> [cov |-> FALSE, seed |-> TRUE, size |-> 2, name |-> 1] @@
  i2 :> [cov |-> TRUE, seed |-> FALSE, size |-> 1, name |-> 2]

MCCov == t1 :> {1} @@ t2 :> {1, 2} @@ t3 :> {} @@ t4 :> {}

MCOutcome ==
  t1 :> "success" @@ t2 :> "success" @@ t3 :> "crash" @@ t4 :> "hang"
=============================================================================

--------------------------- MODULE MCCallProtocol ---------------------------
(* Instance of CallProtocol for TLC. *)
EXTENDS CallProtocol

CONSTANTS e1, e2
=============================================================================

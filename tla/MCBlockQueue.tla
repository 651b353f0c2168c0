---------------------------- MODULE MCBlockQueue ----------------------------
(* BlockQueue for TLC. *)
EXTENDS BlockQueue

CONSTANTS p1, p2

TwoProducers == {p1, p2}
=============================================================================

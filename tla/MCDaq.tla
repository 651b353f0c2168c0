------------------------------- MODULE MCDaq -------------------------------
(* Daq for TLC: two boards on one bridge. *)
EXTENDS Daq

(* Board 1 is the master of the chain. *)
FirstIsMaster == [b \in Boards |-> b - 1]

(* Board 2 is: its register id is 0. *)
LastIsMaster == [b \in Boards |-> NBoards - b]
=============================================================================

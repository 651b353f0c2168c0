-------------------------- MODULE MCRawFileWriter --------------------------
(* RawFileWriter for TLC. *)
EXTENDS RawFileWriter

(* Every candidate name of the first two parts. *)
EarlierNames == {0, 1} \X (0 .. LastSuffix)
=============================================================================

--------------------------- MODULE MCDecodeStage ---------------------------
(* DecodeStage for TLC. *)
EXTENDS DecodeStage

(* All couples send the same time stamps. *)
Uniform == {{}, Couples}

(* One couple records extended time stamps and another does not. *)
Mixed == {{0}}
=============================================================================

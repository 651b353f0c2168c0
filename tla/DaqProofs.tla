------------------------------ MODULE DaqProofs ------------------------------
(***************************************************************************)
(* What Daq promises, proved for any number of boards, any capacities and  *)
(* any set of faults: what a stop() leaves behind (RestIsQuiet), what it   *)
(* has read out (StopEmptiesBoards), that every buffer is accounted for on *)
(* its way to the file (StopAccountsForAll) and to the decode tap          *)
(* (DecoderSeesAll), and that the file keeps the order of each board       *)
(* (FileKeepsBoardOrder).                                                  *)
(*                                                                         *)
(* The first part says what every action does, one lemma per action: the   *)
(* board it touches, the fields of it that change, and the line the        *)
(* calling thread goes to.  RestInv is the inductive invariant all else    *)
(* rests on: it relates the line call.at to the boards that are up, to the *)
(* threads that live and to the file.  Each later property adds an         *)
(* invariant of its own to it: Emptied, TapInv, OrderInv, BooksInv.        *)
(***************************************************************************)
EXTENDS Daq, FiniteSetTheorems, FunctionTheorems, SequenceTheorems, TLAPS

-----------------------------------------------------------------------------
(* The inductive invariant *)

(* Where call.idx is a board: the loops of start() and the one of stop(). *)
Looping == {"arm", "readers", "halt", "join", "drain", "drainPush", "drainSubmit", "decodeStop",
            "decodeJoin", "release"}

(* The loop over BoardRunner::stop(). *)
Unwinding == Looping \ {"arm", "readers"}

(* BoardRunner::stop() has found board b running and has not returned yet. *)
Stopping(b) == call.at \in Unwinding \ {"halt"} /\ b = call.idx

(* The loops of start() and stop() stay within the boards. *)
Positions == /\ call.at \in Looping => call.idx \in Boards
             /\ call.at \in Unwinding => call.idx <= call.upto

(* Every buffer that was read out was filled before. *)
BoardsTyped == /\ board \in [Boards -> BoardState]
               /\ \A b \in Boards : board[b].buffersRead + board[b].mem <= board[b].made

(* What a reader or drain() is dispatching is the buffer it read last. *)
HandsSound ==
    /\ \A b \in Boards : board[b].reader = "push" => /\ board[b].hand = <<b, board[b].buffersRead>>
                                                     /\ board[b].buffersRead > 0
    /\ call.at = "drainPush" => /\ call.hand = <<call.idx, board[call.idx].buffersRead>>
                                /\ board[call.idx].buffersRead > 0

(* The base of all the rest. *)
Base == BoardsTyped /\ call \in CallState /\ Positions /\ HandsSound

(* A board whose runner is down: its threads are gone, and only a board whose *)
(* stop() has failed goes on, behind a closed connection.                     *)
Quiet(b) == /\ board[b].hw # "idle" => board[b].missed /\ ~board[b].open
            /\ board[b].reader = "none"
            /\ board[b].decoder = "none"

(* A board is running, being stopped, or quiet. *)
Settled ==
    \A b \in Boards :
        /\ board[b].running \/ Stopping(b) \/ Quiet(b)
        /\ board[b].decoder # "none" =>
               board[b].decoding \/ (Stopping(b) /\ call.at = "decodeJoin")
        /\ Stopping(b) => /\ ~board[b].running
                          /\ board[b].hw = "idle" \/ board[b].missed
                          /\ call.at # "join" => board[b].reader = "none"
                          /\ call.at = "release" => board[b].decoder = "none"

(* start() takes the boards up in order, and the stop loop takes down all    *)
(* that are up.                                                              *)
UpAndDown ==
    \A b \in Boards :
        /\ board[b].running =>
               /\ call.at \notin {"prepare", "launch", "closeQueue", "joinWriter"}
               /\ call.at = "idle" => running
               /\ call.at = "arm" => b < call.idx
               /\ call.at \in Unwinding => call.idx <= b /\ b <= call.upto
        /\ call.at = "arm" /\ b < call.idx => board[b].running
        /\ call.at \in {"trigger", "readers"} => board[b].running

(* Before prepare() has worked no board was ever started: it opens boards    *)
(* that rest.                                                                *)
Fresh == /\ ~prepared => /\ call.at \in {"idle", "prepare"} /\ ~running
                         /\ \A b \in Boards : board[b].hw = "idle"
         /\ call.at = "prepare" => ~prepared

(* No run is on, and none is being started or stopped. *)
Resting == (call.at = "idle" /\ ~running) \/ call.at \in {"prepare", "launch"}

(* The writer thread comes and goes with a run, and so does the file, which  *)
(* leaves nothing in the stream buffer.                                      *)
FileSettled ==
    /\ running => call.at \in Unwinding \cup {"idle", "closeQueue", "joinWriter"}
    /\ Resting => writer.at = "none" /\ flushed = Len(file)
    /\ Resting /\ call.at # "launch" => fileState # "open"
    /\ ~Resting /\ anyWrite => writer.at # "none"

-----------------------------------------------------------------------------
(* What the other properties of the orchestrator rest on *)

(* drain() has left no buffer on board b, or has made all its reads. *)
Drained(b) == board[b].mem = 0 \/ board[b].mem + DrainReads <= board[b].made

(* While drain() reads, what is left and what it has read was filled; after  *)
(* it, a board that rests behind a closed connection is drained.  A board    *)
(* whose stop() has failed still fills its memory.                           *)
Emptied ==
    /\ \A b \in Boards :
          board[b].hw = "idle" /\ ~board[b].open /\ ~Stopping(b) => Drained(b)
    /\ call.at \in {"drain", "drainPush", "drainSubmit"} /\ board[call.idx].hw = "idle" =>
           board[call.idx].mem + call.reads <= board[call.idx].made
    /\ call.at \in {"decodeStop", "decodeJoin", "release"} /\ board[call.idx].hw = "idle" =>
           Drained(call.idx)

(* Board b has a buffer in the hands of its reader or of drain(). *)
InHand(b) == board[b].reader = "push" \/ (call.at = "drainPush" /\ b = call.idx)
Submitting(b) == board[b].reader \in {"push", "submit"}
                 \/ (call.at \in {"drainPush", "drainSubmit"} /\ b = call.idx)
One(P) == IF P THEN 1 ELSE 0

-----------------------------------------------------------------------------
(* What a step does to a board, field by field: the provers work with this   *)
(* instead of the record updates.                                            *)

Fields == {"open", "hw", "missed", "mem", "made", "running", "reader", "hand", "buffersRead", "commErrors",
           "bytesWritten", "blocksDropped", "decoding", "decoder", "dq", "dqClosed", "decoded",
           "decodeDropped"}

(* Board b changes in the fields F at most, the others not at all. *)
Changes(b, F) == /\ board' \in [Boards -> BoardState]
                 /\ \A c \in Boards : c # b => board'[c] = board[c]
                 /\ \A f \in Fields \ F : board'[b][f] = board[b][f]

(* One board's record is replaced. *)
LEMMA OneBoard ==
    ASSUME NEW b \in Boards, NEW r \in BoardState, board \in [Boards -> BoardState],
           board' = [board EXCEPT ![b] = r],
           NEW F, \A f \in Fields \ F : r[f] = board[b][f]
    PROVE  Changes(b, F) /\ board'[b] = r
<1>1. /\ board' \in [Boards -> BoardState] /\ board'[b] = r
      /\ \A c \in Boards : c # b => board'[c] = board[c]
  OBVIOUS
<1> QED BY <1>1, Zenon DEF Changes

(* A record update of mem, made. *)
LEMMA Put_mem_made ==
    ASSUME BoardsTyped, NEW b \in Boards, NEW x \in 0 .. MaxBuffers, NEW y \in 0 .. MaxBuffers
    PROVE  board' = [board EXCEPT ![b].mem = x, ![b].made = y]
           =>
           /\ Changes(b, {"mem", "made"})
           /\ board'[b].mem = x /\ board'[b].made = y
<1> DEFINE r == [board[b] EXCEPT !.mem = x, !.made = y]
<1>1. board[b] \in BoardState /\ board \in [Boards -> BoardState]
  BY DEF BoardsTyped
<1>2. r \in BoardState
  BY <1>1, Zenon DEF BoardState
<1>3. r.mem = x /\ r.made = y
  BY <1>1 DEF BoardState
<1>4. \A f \in Fields \ {"mem", "made"} : r[f] = board[b][f]
  BY <1>1 DEF BoardState, Fields
<1>5. [board EXCEPT ![b].mem = x, ![b].made = y] = [board EXCEPT ![b] = r]
  OBVIOUS
<1> HIDE DEF r
<1>6. board' = [board EXCEPT ![b] = r] => Changes(b, {"mem", "made"}) /\ board'[b] = r
  BY <1>1, <1>2, <1>4, OneBoard, Zenon
<1> QED BY <1>3, <1>5, <1>6, Zenon

(* A record update of reader. *)
LEMMA Put_reader ==
    ASSUME BoardsTyped, NEW b \in Boards,
           NEW x \in {"none", "check", "reading", "push", "submit", "exited"}
    PROVE  board' = [board EXCEPT ![b].reader = x]
           =>
           /\ Changes(b, {"reader"})
           /\ board'[b].reader = x
<1> DEFINE r == [board[b] EXCEPT !.reader = x]
<1>1. board[b] \in BoardState /\ board \in [Boards -> BoardState]
  BY DEF BoardsTyped
<1>2. r \in BoardState
  BY <1>1, Zenon DEF BoardState
<1>3. r.reader = x
  BY <1>1 DEF BoardState
<1>4. \A f \in Fields \ {"reader"} : r[f] = board[b][f]
  BY <1>1 DEF BoardState, Fields
<1>5. [board EXCEPT ![b].reader = x] = [board EXCEPT ![b] = r]
  OBVIOUS
<1> HIDE DEF r
<1>6. board' = [board EXCEPT ![b] = r] => Changes(b, {"reader"}) /\ board'[b] = r
  BY <1>1, <1>2, <1>4, OneBoard, Zenon
<1> QED BY <1>3, <1>5, <1>6, Zenon

(* A record update of mem, buffersRead, hand, reader. *)
LEMMA Put_mem_buffersRead_hand_reader ==
    ASSUME BoardsTyped, NEW b \in Boards, NEW x \in 0 .. MaxBuffers, NEW y \in 0 .. MaxBuffers,
           NEW z \in Blocks \cup {NoBlock},
           NEW w \in {"none", "check", "reading", "push", "submit", "exited"}
    PROVE  board' = [board EXCEPT ![b].mem = x, ![b].buffersRead = y, ![b].hand = z,
                                  ![b].reader = w]
           =>
           /\ Changes(b, {"mem", "buffersRead", "hand", "reader"})
           /\ board'[b].mem = x /\ board'[b].buffersRead = y /\ board'[b].hand = z /\
              board'[b].reader = w
<1> DEFINE r == [board[b] EXCEPT !.mem = x, !.buffersRead = y, !.hand = z, !.reader = w]
<1>1. board[b] \in BoardState /\ board \in [Boards -> BoardState]
  BY DEF BoardsTyped
<1>2. r \in BoardState
  BY <1>1, Zenon DEF BoardState
<1>3. r.mem = x /\ r.buffersRead = y /\ r.hand = z /\ r.reader = w
  BY <1>1 DEF BoardState
<1>4. \A f \in Fields \ {"mem", "buffersRead", "hand", "reader"} : r[f] = board[b][f]
  BY <1>1 DEF BoardState, Fields
<1>5. [board EXCEPT ![b].mem = x, ![b].buffersRead = y, ![b].hand = z, ![b].reader = w]
      = [board EXCEPT ![b] = r]
  OBVIOUS
<1> HIDE DEF r
<1>6. board' = [board EXCEPT ![b] = r]
      => Changes(b, {"mem", "buffersRead", "hand", "reader"}) /\ board'[b] = r
  BY <1>1, <1>2, <1>4, OneBoard, Zenon
<1> QED BY <1>3, <1>5, <1>6, Zenon

(* A record update of commErrors, reader. *)
LEMMA Put_commErrors_reader ==
    ASSUME BoardsTyped, NEW b \in Boards, NEW x \in 0 .. MaxErrors,
           NEW y \in {"none", "check", "reading", "push", "submit", "exited"}
    PROVE  board' = [board EXCEPT ![b].commErrors = x, ![b].reader = y]
           =>
           /\ Changes(b, {"commErrors", "reader"})
           /\ board'[b].commErrors = x /\ board'[b].reader = y
<1> DEFINE r == [board[b] EXCEPT !.commErrors = x, !.reader = y]
<1>1. board[b] \in BoardState /\ board \in [Boards -> BoardState]
  BY DEF BoardsTyped
<1>2. r \in BoardState
  BY <1>1, Zenon DEF BoardState
<1>3. r.commErrors = x /\ r.reader = y
  BY <1>1 DEF BoardState
<1>4. \A f \in Fields \ {"commErrors", "reader"} : r[f] = board[b][f]
  BY <1>1 DEF BoardState, Fields
<1>5. [board EXCEPT ![b].commErrors = x, ![b].reader = y] = [board EXCEPT ![b] = r]
  OBVIOUS
<1> HIDE DEF r
<1>6. board' = [board EXCEPT ![b] = r] => Changes(b, {"commErrors", "reader"}) /\ board'[b] = r
  BY <1>1, <1>2, <1>4, OneBoard, Zenon
<1> QED BY <1>3, <1>5, <1>6, Zenon

(* A record update of bytesWritten, blocksDropped, hand, reader. *)
LEMMA Put_bytesWritten_blocksDropped_hand_reader ==
    ASSUME BoardsTyped, NEW b \in Boards, NEW x \in Nat, NEW y \in Nat,
           NEW z \in Blocks \cup {NoBlock},
           NEW w \in {"none", "check", "reading", "push", "submit", "exited"}
    PROVE  board' = [board EXCEPT ![b].bytesWritten = x, ![b].blocksDropped = y,
                                  ![b].hand = z, ![b].reader = w]
           =>
           /\ Changes(b, {"bytesWritten", "blocksDropped", "hand", "reader"})
           /\ board'[b].bytesWritten = x /\ board'[b].blocksDropped = y /\
              board'[b].hand = z /\ board'[b].reader = w
<1> DEFINE r == [board[b] EXCEPT !.bytesWritten = x, !.blocksDropped = y, !.hand = z, !.reader = w]
<1>1. board[b] \in BoardState /\ board \in [Boards -> BoardState]
  BY DEF BoardsTyped
<1>2. r \in BoardState
  BY <1>1, Zenon DEF BoardState
<1>3. r.bytesWritten = x /\ r.blocksDropped = y /\ r.hand = z /\ r.reader = w
  BY <1>1 DEF BoardState
<1>4. \A f \in Fields \ {"bytesWritten", "blocksDropped", "hand", "reader"} : r[f] = board[b][f]
  BY <1>1 DEF BoardState, Fields
<1>5. [board EXCEPT ![b].bytesWritten = x, ![b].blocksDropped = y, ![b].hand = z, ![b].reader = w]
      = [board EXCEPT ![b] = r]
  OBVIOUS
<1> HIDE DEF r
<1>6. board' = [board EXCEPT ![b] = r]
      => Changes(b, {"bytesWritten", "blocksDropped", "hand", "reader"}) /\ board'[b] = r
  BY <1>1, <1>2, <1>4, OneBoard, Zenon
<1> QED BY <1>3, <1>5, <1>6, Zenon

(* A record update of bytesWritten, blocksDropped. *)
LEMMA Put_bytesWritten_blocksDropped ==
    ASSUME BoardsTyped, NEW b \in Boards, NEW x \in Nat, NEW y \in Nat
    PROVE  board' = [board EXCEPT ![b].bytesWritten = x, ![b].blocksDropped = y]
           =>
           /\ Changes(b, {"bytesWritten", "blocksDropped"})
           /\ board'[b].bytesWritten = x /\ board'[b].blocksDropped = y
<1> DEFINE r == [board[b] EXCEPT !.bytesWritten = x, !.blocksDropped = y]
<1>1. board[b] \in BoardState /\ board \in [Boards -> BoardState]
  BY DEF BoardsTyped
<1>2. r \in BoardState
  BY <1>1, Zenon DEF BoardState
<1>3. r.bytesWritten = x /\ r.blocksDropped = y
  BY <1>1 DEF BoardState
<1>4. \A f \in Fields \ {"bytesWritten", "blocksDropped"} : r[f] = board[b][f]
  BY <1>1 DEF BoardState, Fields
<1>5. [board EXCEPT ![b].bytesWritten = x, ![b].blocksDropped = y] = [board EXCEPT ![b] = r]
  OBVIOUS
<1> HIDE DEF r
<1>6. board' = [board EXCEPT ![b] = r]
      => Changes(b, {"bytesWritten", "blocksDropped"}) /\ board'[b] = r
  BY <1>1, <1>2, <1>4, OneBoard, Zenon
<1> QED BY <1>3, <1>5, <1>6, Zenon

(* A record update of dq. *)
LEMMA Put_dq ==
    ASSUME BoardsTyped, NEW b \in Boards, NEW x \in 0 .. DecodeCapacity
    PROVE  board' = [board EXCEPT ![b].dq = x]
           =>
           /\ Changes(b, {"dq"})
           /\ board'[b].dq = x
<1> DEFINE r == [board[b] EXCEPT !.dq = x]
<1>1. board[b] \in BoardState /\ board \in [Boards -> BoardState]
  BY DEF BoardsTyped
<1>2. r \in BoardState
  BY <1>1, Zenon DEF BoardState
<1>3. r.dq = x
  BY <1>1 DEF BoardState
<1>4. \A f \in Fields \ {"dq"} : r[f] = board[b][f]
  BY <1>1 DEF BoardState, Fields
<1>5. [board EXCEPT ![b].dq = x] = [board EXCEPT ![b] = r]
  OBVIOUS
<1> HIDE DEF r
<1>6. board' = [board EXCEPT ![b] = r] => Changes(b, {"dq"}) /\ board'[b] = r
  BY <1>1, <1>2, <1>4, OneBoard, Zenon
<1> QED BY <1>3, <1>5, <1>6, Zenon

(* A record update of decodeDropped. *)
LEMMA Put_decodeDropped ==
    ASSUME BoardsTyped, NEW b \in Boards, NEW x \in Nat
    PROVE  board' = [board EXCEPT ![b].decodeDropped = x]
           =>
           /\ Changes(b, {"decodeDropped"})
           /\ board'[b].decodeDropped = x
<1> DEFINE r == [board[b] EXCEPT !.decodeDropped = x]
<1>1. board[b] \in BoardState /\ board \in [Boards -> BoardState]
  BY DEF BoardsTyped
<1>2. r \in BoardState
  BY <1>1, Zenon DEF BoardState
<1>3. r.decodeDropped = x
  BY <1>1 DEF BoardState
<1>4. \A f \in Fields \ {"decodeDropped"} : r[f] = board[b][f]
  BY <1>1 DEF BoardState, Fields
<1>5. [board EXCEPT ![b].decodeDropped = x] = [board EXCEPT ![b] = r]
  OBVIOUS
<1> HIDE DEF r
<1>6. board' = [board EXCEPT ![b] = r] => Changes(b, {"decodeDropped"}) /\ board'[b] = r
  BY <1>1, <1>2, <1>4, OneBoard, Zenon
<1> QED BY <1>3, <1>5, <1>6, Zenon

(* A record update of dq, reader. *)
LEMMA Put_dq_reader ==
    ASSUME BoardsTyped, NEW b \in Boards, NEW x \in 0 .. DecodeCapacity,
           NEW y \in {"none", "check", "reading", "push", "submit", "exited"}
    PROVE  board' = [board EXCEPT ![b].dq = x, ![b].reader = y]
           =>
           /\ Changes(b, {"dq", "reader"})
           /\ board'[b].dq = x /\ board'[b].reader = y
<1> DEFINE r == [board[b] EXCEPT !.dq = x, !.reader = y]
<1>1. board[b] \in BoardState /\ board \in [Boards -> BoardState]
  BY DEF BoardsTyped
<1>2. r \in BoardState
  BY <1>1, Zenon DEF BoardState
<1>3. r.dq = x /\ r.reader = y
  BY <1>1 DEF BoardState
<1>4. \A f \in Fields \ {"dq", "reader"} : r[f] = board[b][f]
  BY <1>1 DEF BoardState, Fields
<1>5. [board EXCEPT ![b].dq = x, ![b].reader = y] = [board EXCEPT ![b] = r]
  OBVIOUS
<1> HIDE DEF r
<1>6. board' = [board EXCEPT ![b] = r] => Changes(b, {"dq", "reader"}) /\ board'[b] = r
  BY <1>1, <1>2, <1>4, OneBoard, Zenon
<1> QED BY <1>3, <1>5, <1>6, Zenon

(* A record update of decodeDropped, reader. *)
LEMMA Put_decodeDropped_reader ==
    ASSUME BoardsTyped, NEW b \in Boards, NEW x \in Nat,
           NEW y \in {"none", "check", "reading", "push", "submit", "exited"}
    PROVE  board' = [board EXCEPT ![b].decodeDropped = x, ![b].reader = y]
           =>
           /\ Changes(b, {"decodeDropped", "reader"})
           /\ board'[b].decodeDropped = x /\ board'[b].reader = y
<1> DEFINE r == [board[b] EXCEPT !.decodeDropped = x, !.reader = y]
<1>1. board[b] \in BoardState /\ board \in [Boards -> BoardState]
  BY DEF BoardsTyped
<1>2. r \in BoardState
  BY <1>1, Zenon DEF BoardState
<1>3. r.decodeDropped = x /\ r.reader = y
  BY <1>1 DEF BoardState
<1>4. \A f \in Fields \ {"decodeDropped", "reader"} : r[f] = board[b][f]
  BY <1>1 DEF BoardState, Fields
<1>5. [board EXCEPT ![b].decodeDropped = x, ![b].reader = y] = [board EXCEPT ![b] = r]
  OBVIOUS
<1> HIDE DEF r
<1>6. board' = [board EXCEPT ![b] = r] => Changes(b, {"decodeDropped", "reader"}) /\ board'[b] = r
  BY <1>1, <1>2, <1>4, OneBoard, Zenon
<1> QED BY <1>3, <1>5, <1>6, Zenon

(* A record update of dq, decoder. *)
LEMMA Put_dq_decoder ==
    ASSUME BoardsTyped, NEW b \in Boards, NEW x \in 0 .. DecodeCapacity,
           NEW y \in {"none", "loop", "decode", "exited"}
    PROVE  board' = [board EXCEPT ![b].dq = x, ![b].decoder = y]
           =>
           /\ Changes(b, {"dq", "decoder"})
           /\ board'[b].dq = x /\ board'[b].decoder = y
<1> DEFINE r == [board[b] EXCEPT !.dq = x, !.decoder = y]
<1>1. board[b] \in BoardState /\ board \in [Boards -> BoardState]
  BY DEF BoardsTyped
<1>2. r \in BoardState
  BY <1>1, Zenon DEF BoardState
<1>3. r.dq = x /\ r.decoder = y
  BY <1>1 DEF BoardState
<1>4. \A f \in Fields \ {"dq", "decoder"} : r[f] = board[b][f]
  BY <1>1 DEF BoardState, Fields
<1>5. [board EXCEPT ![b].dq = x, ![b].decoder = y] = [board EXCEPT ![b] = r]
  OBVIOUS
<1> HIDE DEF r
<1>6. board' = [board EXCEPT ![b] = r] => Changes(b, {"dq", "decoder"}) /\ board'[b] = r
  BY <1>1, <1>2, <1>4, OneBoard, Zenon
<1> QED BY <1>3, <1>5, <1>6, Zenon

(* A record update of decoder. *)
LEMMA Put_decoder ==
    ASSUME BoardsTyped, NEW b \in Boards, NEW x \in {"none", "loop", "decode", "exited"}
    PROVE  board' = [board EXCEPT ![b].decoder = x]
           =>
           /\ Changes(b, {"decoder"})
           /\ board'[b].decoder = x
<1> DEFINE r == [board[b] EXCEPT !.decoder = x]
<1>1. board[b] \in BoardState /\ board \in [Boards -> BoardState]
  BY DEF BoardsTyped
<1>2. r \in BoardState
  BY <1>1, Zenon DEF BoardState
<1>3. r.decoder = x
  BY <1>1 DEF BoardState
<1>4. \A f \in Fields \ {"decoder"} : r[f] = board[b][f]
  BY <1>1 DEF BoardState, Fields
<1>5. [board EXCEPT ![b].decoder = x] = [board EXCEPT ![b] = r]
  OBVIOUS
<1> HIDE DEF r
<1>6. board' = [board EXCEPT ![b] = r] => Changes(b, {"decoder"}) /\ board'[b] = r
  BY <1>1, <1>2, <1>4, OneBoard, Zenon
<1> QED BY <1>3, <1>5, <1>6, Zenon

(* A record update of decoded, decoder. *)
LEMMA Put_decoded_decoder ==
    ASSUME BoardsTyped, NEW b \in Boards, NEW x \in Nat,
           NEW y \in {"none", "loop", "decode", "exited"}
    PROVE  board' = [board EXCEPT ![b].decoded = x, ![b].decoder = y]
           =>
           /\ Changes(b, {"decoded", "decoder"})
           /\ board'[b].decoded = x /\ board'[b].decoder = y
<1> DEFINE r == [board[b] EXCEPT !.decoded = x, !.decoder = y]
<1>1. board[b] \in BoardState /\ board \in [Boards -> BoardState]
  BY DEF BoardsTyped
<1>2. r \in BoardState
  BY <1>1, Zenon DEF BoardState
<1>3. r.decoded = x /\ r.decoder = y
  BY <1>1 DEF BoardState
<1>4. \A f \in Fields \ {"decoded", "decoder"} : r[f] = board[b][f]
  BY <1>1 DEF BoardState, Fields
<1>5. [board EXCEPT ![b].decoded = x, ![b].decoder = y] = [board EXCEPT ![b] = r]
  OBVIOUS
<1> HIDE DEF r
<1>6. board' = [board EXCEPT ![b] = r] => Changes(b, {"decoded", "decoder"}) /\ board'[b] = r
  BY <1>1, <1>2, <1>4, OneBoard, Zenon
<1> QED BY <1>3, <1>5, <1>6, Zenon

(* A record update of running, hw, mem. *)
LEMMA Put_running_hw_mem ==
    ASSUME BoardsTyped, NEW b \in Boards, NEW x \in BOOLEAN,
           NEW y \in {"idle", "armed", "acquiring"},
           NEW z \in 0 .. MaxBuffers
    PROVE  board' = [board EXCEPT ![b].running = x, ![b].hw = y, ![b].mem = z]
           =>
           /\ Changes(b, {"running", "hw", "mem"})
           /\ board'[b].running = x /\ board'[b].hw = y /\ board'[b].mem = z
<1> DEFINE r == [board[b] EXCEPT !.running = x, !.hw = y, !.mem = z]
<1>1. board[b] \in BoardState /\ board \in [Boards -> BoardState]
  BY DEF BoardsTyped
<1>2. r \in BoardState
  BY <1>1, Zenon DEF BoardState
<1>3. r.running = x /\ r.hw = y /\ r.mem = z
  BY <1>1 DEF BoardState
<1>4. \A f \in Fields \ {"running", "hw", "mem"} : r[f] = board[b][f]
  BY <1>1 DEF BoardState, Fields
<1>5. [board EXCEPT ![b].running = x, ![b].hw = y, ![b].mem = z] = [board EXCEPT ![b] = r]
  OBVIOUS
<1> HIDE DEF r
<1>6. board' = [board EXCEPT ![b] = r] => Changes(b, {"running", "hw", "mem"}) /\ board'[b] = r
  BY <1>1, <1>2, <1>4, OneBoard, Zenon
<1> QED BY <1>3, <1>5, <1>6, Zenon

(* A record update of open. *)
LEMMA Put_open ==
    ASSUME BoardsTyped, NEW b \in Boards, NEW x \in BOOLEAN
    PROVE  board' = [board EXCEPT ![b].open = x]
           =>
           /\ Changes(b, {"open"})
           /\ board'[b].open = x
<1> DEFINE r == [board[b] EXCEPT !.open = x]
<1>1. board[b] \in BoardState /\ board \in [Boards -> BoardState]
  BY DEF BoardsTyped
<1>2. r \in BoardState
  BY <1>1, Zenon DEF BoardState
<1>3. r.open = x
  BY <1>1 DEF BoardState
<1>4. \A f \in Fields \ {"open"} : r[f] = board[b][f]
  BY <1>1 DEF BoardState, Fields
<1>5. [board EXCEPT ![b].open = x] = [board EXCEPT ![b] = r]
  OBVIOUS
<1> HIDE DEF r
<1>6. board' = [board EXCEPT ![b] = r] => Changes(b, {"open"}) /\ board'[b] = r
  BY <1>1, <1>2, <1>4, OneBoard, Zenon
<1> QED BY <1>3, <1>5, <1>6, Zenon

(* A record update of running, missed. *)
LEMMA Put_running_missed ==
    ASSUME BoardsTyped, NEW b \in Boards, NEW x \in BOOLEAN, NEW y \in BOOLEAN
    PROVE  board' = [board EXCEPT ![b].running = x, ![b].missed = y]
           =>
           /\ Changes(b, {"running", "missed"})
           /\ board'[b].running = x /\ board'[b].missed = y
<1> DEFINE r == [board[b] EXCEPT !.running = x, !.missed = y]
<1>1. board[b] \in BoardState /\ board \in [Boards -> BoardState]
  BY DEF BoardsTyped
<1>2. r \in BoardState
  BY <1>1, Zenon DEF BoardState
<1>3. r.running = x /\ r.missed = y
  BY <1>1 DEF BoardState
<1>4. \A f \in Fields \ {"running", "missed"} : r[f] = board[b][f]
  BY <1>1 DEF BoardState, Fields
<1>5. [board EXCEPT ![b].running = x, ![b].missed = y] = [board EXCEPT ![b] = r]
  OBVIOUS
<1> HIDE DEF r
<1>6. board' = [board EXCEPT ![b] = r] => Changes(b, {"running", "missed"}) /\ board'[b] = r
  BY <1>1, <1>2, <1>4, OneBoard, Zenon
<1> QED BY <1>3, <1>5, <1>6, Zenon

(* A record update of reader, decoding, decoder. *)
LEMMA Put_reader_decoding_decoder ==
    ASSUME BoardsTyped, NEW b \in Boards,
           NEW x \in {"none", "check", "reading", "push", "submit", "exited"},
           NEW y \in BOOLEAN, NEW z \in {"none", "loop", "decode", "exited"}
    PROVE  board' = [board EXCEPT ![b].reader = x, ![b].decoding = y, ![b].decoder = z]
           =>
           /\ Changes(b, {"reader", "decoding", "decoder"})
           /\ board'[b].reader = x /\ board'[b].decoding = y /\ board'[b].decoder = z
<1> DEFINE r == [board[b] EXCEPT !.reader = x, !.decoding = y, !.decoder = z]
<1>1. board[b] \in BoardState /\ board \in [Boards -> BoardState]
  BY DEF BoardsTyped
<1>2. r \in BoardState
  BY <1>1, Zenon DEF BoardState
<1>3. r.reader = x /\ r.decoding = y /\ r.decoder = z
  BY <1>1 DEF BoardState
<1>4. \A f \in Fields \ {"reader", "decoding", "decoder"} : r[f] = board[b][f]
  BY <1>1 DEF BoardState, Fields
<1>5. [board EXCEPT ![b].reader = x, ![b].decoding = y, ![b].decoder = z]
      = [board EXCEPT ![b] = r]
  OBVIOUS
<1> HIDE DEF r
<1>6. board' = [board EXCEPT ![b] = r]
      => Changes(b, {"reader", "decoding", "decoder"}) /\ board'[b] = r
  BY <1>1, <1>2, <1>4, OneBoard, Zenon
<1> QED BY <1>3, <1>5, <1>6, Zenon

(* A record update of dqClosed, decoding. *)
LEMMA Put_dqClosed_decoding ==
    ASSUME BoardsTyped, NEW b \in Boards, NEW x \in BOOLEAN, NEW y \in BOOLEAN
    PROVE  board' = [board EXCEPT ![b].dqClosed = x, ![b].decoding = y]
           =>
           /\ Changes(b, {"dqClosed", "decoding"})
           /\ board'[b].dqClosed = x /\ board'[b].decoding = y
<1> DEFINE r == [board[b] EXCEPT !.dqClosed = x, !.decoding = y]
<1>1. board[b] \in BoardState /\ board \in [Boards -> BoardState]
  BY DEF BoardsTyped
<1>2. r \in BoardState
  BY <1>1, Zenon DEF BoardState
<1>3. r.dqClosed = x /\ r.decoding = y
  BY <1>1 DEF BoardState
<1>4. \A f \in Fields \ {"dqClosed", "decoding"} : r[f] = board[b][f]
  BY <1>1 DEF BoardState, Fields
<1>5. [board EXCEPT ![b].dqClosed = x, ![b].decoding = y] = [board EXCEPT ![b] = r]
  OBVIOUS
<1> HIDE DEF r
<1>6. board' = [board EXCEPT ![b] = r] => Changes(b, {"dqClosed", "decoding"}) /\ board'[b] = r
  BY <1>1, <1>2, <1>4, OneBoard, Zenon
<1> QED BY <1>3, <1>5, <1>6, Zenon

(* A record update of mem, buffersRead. *)
LEMMA Put_mem_buffersRead ==
    ASSUME BoardsTyped, NEW b \in Boards, NEW x \in 0 .. MaxBuffers, NEW y \in 0 .. MaxBuffers
    PROVE  board' = [board EXCEPT ![b].mem = x, ![b].buffersRead = y]
           =>
           /\ Changes(b, {"mem", "buffersRead"})
           /\ board'[b].mem = x /\ board'[b].buffersRead = y
<1> DEFINE r == [board[b] EXCEPT !.mem = x, !.buffersRead = y]
<1>1. board[b] \in BoardState /\ board \in [Boards -> BoardState]
  BY DEF BoardsTyped
<1>2. r \in BoardState
  BY <1>1, Zenon DEF BoardState
<1>3. r.mem = x /\ r.buffersRead = y
  BY <1>1 DEF BoardState
<1>4. \A f \in Fields \ {"mem", "buffersRead"} : r[f] = board[b][f]
  BY <1>1 DEF BoardState, Fields
<1>5. [board EXCEPT ![b].mem = x, ![b].buffersRead = y] = [board EXCEPT ![b] = r]
  OBVIOUS
<1> HIDE DEF r
<1>6. board' = [board EXCEPT ![b] = r] => Changes(b, {"mem", "buffersRead"}) /\ board'[b] = r
  BY <1>1, <1>2, <1>4, OneBoard, Zenon
<1> QED BY <1>3, <1>5, <1>6, Zenon

-----------------------------------------------------------------------------
(* What the steps of the boards' threads do *)

(* The fields of a board are typed. *)
LEMMA FieldTypes ==
    ASSUME BoardsTyped, NEW b \in Boards
    PROVE  /\ board[b] \in BoardState
           /\ board[b].mem \in 0 .. MaxBuffers /\ board[b].made \in 0 .. MaxBuffers
           /\ board[b].buffersRead \in 0 .. MaxBuffers /\ MaxBuffers \in Nat
           /\ board[b].commErrors \in 0 .. MaxErrors /\ board[b].bytesWritten \in Nat
           /\ board[b].blocksDropped \in Nat /\ board[b].dq \in 0 .. DecodeCapacity
           /\ DecodeCapacity \in Nat /\ MaxErrors \in Nat
           /\ board[b].decoded \in Nat /\ board[b].decodeDropped \in Nat
           /\ board[b].decoder \in {"none", "loop", "decode", "exited"}
           /\ board[b].buffersRead + board[b].mem <= board[b].made
<1>1. board[b] \in BoardState
  BY DEF BoardsTyped
<1> QED BY <1>1, SizesAssumption DEF BoardState, BoardsTyped

(* A board fills a buffer. *)
LEMMA AcquireEffect ==
    ASSUME Base, NEW b \in Boards, Acquire(b)
    PROVE  /\ Changes(b, {"mem", "made"})
           /\ board[b].hw = "acquiring"
           /\ board'[b].mem = board[b].mem + 1 /\ board'[b].made = board[b].made + 1
<1> DEFINE m == board[b].mem + 1
           n == board[b].made + 1
<1>1. /\ board[b].hw = "acquiring" /\ board[b].made < MaxBuffers
      /\ board' = [board EXCEPT ![b].mem = m, ![b].made = n]
  BY Zenon DEF Acquire
<1>2. BoardsTyped
  BY DEF Base
<1>3. m \in 0 .. MaxBuffers /\ n \in 0 .. MaxBuffers
  <2>1. board[b].made < MaxBuffers
    BY <1>1
  <2> QED BY <1>2, <2>1, FieldTypes
<1> HIDE DEF m, n
<1>4. Changes(b, {"mem", "made"}) /\ board'[b].mem = m /\ board'[b].made = n
  BY <1>1, <1>2, <1>3, Put_mem_made, Zenon
<1> QED BY <1>1, <1>4, Zenon DEF m, n

(* A reader ends. *)
LEMMA ReaderExitEffect ==
    ASSUME Base, NEW b \in Boards, ReaderExit(b)
    PROVE  /\ Changes(b, {"reader"})
           /\ board[b].reader = "check" /\ board'[b].reader = "exited"
<1>1. board[b].reader = "check" /\ board' = [board EXCEPT ![b].reader = "exited"]
  BY Zenon DEF ReaderExit
<1> QED BY <1>1, Put_reader, Zenon DEF Base

(* A reader begins a read. *)
LEMMA ReaderReadBeginEffect ==
    ASSUME Base, NEW b \in Boards, ReaderReadBegin(b)
    PROVE  /\ Changes(b, {"reader"})
           /\ board[b].reader = "check" /\ board'[b].reader = "reading"
<1>1. board[b].reader = "check" /\ board' = [board EXCEPT ![b].reader = "reading"]
  BY Zenon DEF ReaderReadBegin
<1> QED BY <1>1, Put_reader, Zenon DEF Base

(* A read ends with a buffer, with none, or with an error. *)
LEMMA ReaderReadEndEffect ==
    ASSUME Base, NEW b \in Boards, ReaderReadEnd(b)
    PROVE  /\ board[b].reader = "reading"
           /\ \/ /\ Changes(b, {"mem", "buffersRead", "hand", "reader"})
                 /\ board[b].mem > 0 /\ board'[b].mem = board[b].mem - 1
                 /\ board'[b].buffersRead = board[b].buffersRead + 1
                 /\ board'[b].hand = <<b, board[b].buffersRead + 1>>
                 /\ board'[b].reader = "push"
              \/ Changes(b, {"commErrors", "reader"}) /\ board'[b].reader = "check"
<1> DEFINE n == board[b].buffersRead + 1
<1>1. /\ board[b].reader = "reading"
      /\ \/ /\ ReadsBuffer(b)
            /\ board' = [board EXCEPT ![b].mem = board[b].mem - 1, ![b].buffersRead = n,
                                      ![b].hand = <<b, n>>, ![b].reader = "push"]
         \/ board' = [board EXCEPT ![b].reader = "check"]
         \/ /\ board[b].commErrors < MaxErrors
            /\ board' = [board EXCEPT ![b].commErrors = board[b].commErrors + 1,
                                      ![b].reader = "check"]
  BY Zenon DEF ReaderReadEnd
<1>2. BoardsTyped
  BY DEF Base
<1>3. ReadsBuffer(b) => /\ board[b].mem > 0 /\ board[b].mem - 1 \in 0 .. MaxBuffers
                        /\ n \in 0 .. MaxBuffers /\ <<b, n>> \in Blocks \cup {NoBlock}
  <2>1. ReadsBuffer(b) => board[b].mem > 0
    BY DEF ReadsBuffer
  <2>2. ReadsBuffer(b) => board[b].mem - 1 \in 0 .. MaxBuffers /\ n \in 1 .. MaxBuffers
    BY <1>2, <2>1, FieldTypes
  <2> HIDE DEF n
  <2> QED BY <1>2, <2>1, <2>2, FieldTypes DEF Blocks
<1>4. board[b].commErrors < MaxErrors => board[b].commErrors + 1 \in 0 .. MaxErrors
  BY <1>2, FieldTypes
<1> HIDE DEF n
<1>5. CASE /\ ReadsBuffer(b)
           /\ board' = [board EXCEPT ![b].mem = board[b].mem - 1, ![b].buffersRead = n,
                                     ![b].hand = <<b, n>>, ![b].reader = "push"]
  <2>1. /\ Changes(b, {"mem", "buffersRead", "hand", "reader"})
        /\ board'[b].mem = board[b].mem - 1 /\ board'[b].buffersRead = n
        /\ board'[b].hand = <<b, n>> /\ board'[b].reader = "push"
    BY <1>2, <1>3, <1>5, Put_mem_buffersRead_hand_reader, Zenon
  <2> QED BY <1>1, <1>3, <1>5, <2>1, Zenon DEF n
<1>6. CASE board' = [board EXCEPT ![b].reader = "check"]
  <2>1. Changes(b, {"reader"}) /\ board'[b].reader = "check"
    BY <1>2, <1>6, Put_reader, Zenon
  <2>2. Changes(b, {"commErrors", "reader"})
    BY <2>1 DEF Changes
  <2> QED BY <1>1, <2>1, <2>2, Zenon
<1>7. CASE /\ board[b].commErrors < MaxErrors
           /\ board' = [board EXCEPT ![b].commErrors = board[b].commErrors + 1,
                                     ![b].reader = "check"]
  BY <1>1, <1>2, <1>4, <1>7, Put_commErrors_reader, Zenon
<1> QED BY <1>1, <1>5, <1>6, <1>7, Zenon

(* The counters of dispatch() stay numbers. *)
LEMMA CountsType ==
    ASSUME NEW blk, NEW n \in Nat
    PROVE  CountWritten(blk, n) \in Nat /\ CountDropped(blk, n) \in Nat
BY DEF CountWritten, CountDropped

(* A reader pushes the buffer in its hand. *)
LEMMA ReaderPushEffect ==
    ASSUME Base, NEW b \in Boards, ReaderPush(b)
    PROVE  /\ Changes(b, {"bytesWritten", "blocksDropped", "hand", "reader"})
           /\ board[b].reader = "push" /\ board'[b].reader = "submit"
           /\ PushToWriter(board[b].hand)
           /\ board'[b].bytesWritten = CountWritten(board[b].hand, board[b].bytesWritten)
           /\ board'[b].blocksDropped = CountDropped(board[b].hand, board[b].blocksDropped)
           /\ board[b].hand = <<b, board[b].buffersRead>> /\ board[b].hand \in Blocks
<1> DEFINE blk == board[b].hand
           x == CountWritten(blk, board[b].bytesWritten)
           y == CountDropped(blk, board[b].blocksDropped)
<1>1. /\ board[b].reader = "push" /\ PushToWriter(blk)
      /\ board' = [board EXCEPT ![b].bytesWritten = x, ![b].blocksDropped = y,
                                ![b].hand = NoBlock, ![b].reader = "submit"]
  BY Zenon DEF ReaderPush
<1>2. BoardsTyped
  BY DEF Base
<1>3. x \in Nat /\ y \in Nat
  BY <1>2, CountsType, FieldTypes
<1>4. blk = <<b, board[b].buffersRead>> /\ board[b].buffersRead > 0
  BY <1>1, Zenon DEF Base, HandsSound
<1> HIDE DEF x, y
<1>5. blk \in Blocks
  <2> DEFINE n == board[b].buffersRead
  <2>1. n \in 1 .. MaxBuffers
    BY <1>2, <1>4, FieldTypes
  <2>2. blk = <<b, n>>
    BY <1>4
  <2> HIDE DEF n
  <2> QED BY <2>1, <2>2 DEF Blocks
<1>6. /\ Changes(b, {"bytesWritten", "blocksDropped", "hand", "reader"})
      /\ board'[b].bytesWritten = x /\ board'[b].blocksDropped = y
      /\ board'[b].reader = "submit"
  <2>1. NoBlock \in Blocks \cup {NoBlock}
    OBVIOUS
  <2> QED BY <1>1, <1>2, <1>3, <2>1, Put_bytesWritten_blocksDropped_hand_reader, Zenon
<1> QED BY <1>1, <1>4, <1>5, <1>6, Zenon DEF x, y

(* A reader offers the buffer to the tap. *)
LEMMA ReaderSubmitEffect ==
    ASSUME Base, NEW b \in Boards, ReaderSubmit(b)
    PROVE  /\ board[b].reader = "submit" /\ board'[b].reader = "check"
           /\ \/ Changes(b, {"reader"}) /\ (b \notin Decoders \/ board[b].dqClosed)
              \/ /\ Changes(b, {"dq", "reader"}) /\ b \in Decoders /\ ~board[b].dqClosed
                 /\ board'[b].dq = board[b].dq + 1
              \/ /\ Changes(b, {"decodeDropped", "reader"}) /\ b \in Decoders
                 /\ ~board[b].dqClosed
                 /\ board'[b].decodeDropped = board[b].decodeDropped + 1
<1>1. /\ board[b].reader = "submit"
      /\ board' = [board EXCEPT ![b] = [Submitted(board[b], b) EXCEPT !.reader = "check"]]
  BY Zenon DEF ReaderSubmit
<1>2. BoardsTyped
  BY DEF Base
<1>3. CASE b \notin Decoders \/ board[b].dqClosed
  <2>1. Submitted(board[b], b) = board[b]
    BY <1>3, Zenon DEF Submitted
  <2>2. board' = [board EXCEPT ![b].reader = "check"]
    BY <1>1, <2>1, Zenon
  <2> QED BY <1>1, <1>2, <1>3, <2>2, Put_reader, Zenon
<1>4. CASE b \in Decoders /\ ~board[b].dqClosed /\ board[b].dq < DecodeCapacity
  <2>1. Submitted(board[b], b) = [board[b] EXCEPT !.dq = board[b].dq + 1]
    BY <1>4, Zenon DEF Submitted
  <2>2. board' = [board EXCEPT ![b].dq = board[b].dq + 1, ![b].reader = "check"]
    BY <1>1, <2>1
  <2>3. board[b].dq + 1 \in 0 .. DecodeCapacity
    BY <1>2, <1>4, FieldTypes
  <2> QED BY <1>1, <1>2, <1>4, <2>2, <2>3, Put_dq_reader, Zenon
<1>5. CASE b \in Decoders /\ ~board[b].dqClosed /\ ~(board[b].dq < DecodeCapacity)
  <2>1. Submitted(board[b], b) = [board[b] EXCEPT !.decodeDropped = board[b].decodeDropped + 1]
    BY <1>5, Zenon DEF Submitted
  <2>2. board' = [board EXCEPT ![b].decodeDropped = board[b].decodeDropped + 1,
                               ![b].reader = "check"]
    BY <1>1, <2>1
  <2>3. board[b].decodeDropped + 1 \in Nat
    BY <1>2, FieldTypes
  <2> QED BY <1>1, <1>2, <1>5, <2>2, <2>3, Put_decodeDropped_reader, Zenon
<1> QED BY <1>3, <1>4, <1>5, Zenon

(* A decoder takes a buffer, or ends. *)
LEMMA DecoderPopEffect ==
    ASSUME Base, NEW b \in Boards, DecoderPop(b)
    PROVE  /\ board[b].decoder = "loop"
           /\ \/ /\ Changes(b, {"dq", "decoder"}) /\ board[b].dq > 0
                 /\ board'[b].dq = board[b].dq - 1 /\ board'[b].decoder = "decode"
              \/ /\ Changes(b, {"decoder"}) /\ board[b].dq = 0 /\ board[b].dqClosed
                 /\ board'[b].decoder = "exited"
<1>1. /\ board[b].decoder = "loop"
      /\ \/ /\ board[b].dq > 0
            /\ board' = [board EXCEPT ![b].dq = board[b].dq - 1, ![b].decoder = "decode"]
         \/ /\ board[b].dq = 0 /\ board[b].dqClosed
            /\ board' = [board EXCEPT ![b].decoder = "exited"]
  BY Zenon DEF DecoderPop
<1>2. BoardsTyped
  BY DEF Base
<1>3. board[b].dq > 0 => board[b].dq - 1 \in 0 .. DecodeCapacity
  BY <1>2, FieldTypes
<1> QED BY <1>1, <1>2, <1>3, Put_dq_decoder, Put_decoder, Zenon

(* A decoder decodes a buffer. *)
LEMMA DecoderDecodeEffect ==
    ASSUME Base, NEW b \in Boards, DecoderDecode(b)
    PROVE  /\ Changes(b, {"decoded", "decoder"})
           /\ board[b].decoder = "decode" /\ board'[b].decoder = "loop"
           /\ board'[b].decoded = board[b].decoded + 1
<1>1. /\ board[b].decoder = "decode"
      /\ board' = [board EXCEPT ![b].decoded = board[b].decoded + 1, ![b].decoder = "loop"]
  BY Zenon DEF DecoderDecode
<1>2. BoardsTyped
  BY DEF Base
<1>3. board[b].decoded + 1 \in Nat
  BY <1>2, FieldTypes
<1> QED BY <1>1, <1>2, <1>3, Put_decoded_decoder, Zenon
-----------------------------------------------------------------------------
(* What the calling thread does *)

DaqKept == starts' = starts /\ prepared' = prepared /\ running' = running

FileKept == file' = file /\ fileState' = fileState /\ flushed' = flushed /\ lost' = lost

QueueKept == /\ writeQueue' = writeQueue
             /\ writeClosed' = writeClosed
             /\ writeDropped' = writeDropped
             /\ fate' = fate

(* Nothing changes but the boards and the call. *)
Still == /\ DaqKept
         /\ writer' = writer
         /\ FileKept
         /\ QueueKept
         /\ link' = link
         /\ writerFailed' = writerFailed

(* The call goes on at a line with a board. *)
To(line, b) == /\ call' \in CallState
               /\ call'.at = line
               /\ call'.idx = b
               /\ call'.upto = call.upto
               /\ call'.reads = call.reads
               /\ call'.hand = call.hand

(* It begins the stop loop. *)
ToUnwind(last) == /\ call' \in CallState
                  /\ call'.at = "halt"
                  /\ call'.idx = 1
                  /\ call'.upto = last
                  /\ call'.reads = call.reads
                  /\ call'.hand = call.hand

(* It goes on to the next board of the stop loop, or to its end. *)
ToNext == \/ call.idx = call.upto /\ To("closeQueue", call.idx)
          \/ call.idx # call.upto /\ To("halt", call.idx + 1)

(* Every line the calling thread can be at. *)
Lines == Looping \cup {"idle", "prepare", "launch", "trigger", "closeQueue", "joinWriter"}

(* UNCHANGED, variable by variable. *)
LEMMA KeptOneByOne ==
    /\ UNCHANGED daqVars => DaqKept
    /\ UNCHANGED fileVars => FileKept
    /\ UNCHANGED writerVars => writer' = writer /\ FileKept
    /\ UNCHANGED mainVars => call' = call /\ DaqKept
    /\ UNCHANGED queueVars => QueueKept
    /\ UNCHANGED runnerVars => /\ board' = board /\ link' = link /\ QueueKept
                               /\ writerFailed' = writerFailed
    /\ UNCHANGED <<daqVars, writerVars, link, queueVars, writerFailed>> => Still
    /\ UNCHANGED <<daqVars, writerVars, runnerVars>> => Still /\ board' = board
BY DEF daqVars, fileVars, writerVars, mainVars, queueVars, runnerVars, DaqKept, FileKept,
   QueueKept, Still

(* The fields of the call are typed. *)
LEMMA CallTypes ==
    ASSUME call \in CallState
    PROVE  /\ call.at \in Lines
           /\ call.idx \in 1 .. NBoards + 1 /\ call.upto \in 0 .. NBoards
           /\ call.reads \in 0 .. DrainReads /\ call.hand \in Blocks \cup {NoBlock}
           /\ NBoards \in Nat \ {0} /\ DrainReads \in Nat
BY BoardsAssumption, SizesAssumption DEF CallState, Lines, Looping

(* A step to another line of the same board. *)
LEMMA GotoRight ==
    ASSUME call \in CallState, NEW line \in Lines
    PROVE  Goto(line) => To(line, call.idx)
<1>1. [call EXCEPT !.at = line] \in CallState
  BY DEF CallState, Lines, Looping
<1>2. /\ [call EXCEPT !.at = line].at = line
      /\ [call EXCEPT !.at = line].idx = call.idx
      /\ [call EXCEPT !.at = line].upto = call.upto
      /\ [call EXCEPT !.at = line].reads = call.reads
      /\ [call EXCEPT !.at = line].hand = call.hand
  BY DEF CallState
<1> QED BY <1>1, <1>2, Zenon DEF Goto, To

(* A step to a line of another board. *)
LEMMA GotoBoardRight ==
    ASSUME call \in CallState, NEW line \in Lines, NEW b \in 1 .. NBoards + 1
    PROVE  GotoBoard(line, b) => To(line, b)
<1> DEFINE r == [call EXCEPT !.at = line, !.idx = b]
<1>1. r \in CallState
  BY DEF CallState, Lines, Looping
<1>2. r.at = line /\ r.idx = b /\ r.upto = call.upto /\ r.reads = call.reads /\ r.hand = call.hand
  BY DEF CallState
<1>3. GotoBoard(line, b) => call' = r
  BY Zenon DEF GotoBoard
<1> HIDE DEF r
<1> QED BY <1>1, <1>2, <1>3, Zenon DEF To

(* The stop loop begins at the first board. *)
LEMMA UnwindRight ==
    ASSUME call \in CallState, NEW last \in 0 .. NBoards
    PROVE  Unwind(last) => ToUnwind(last)
<1> DEFINE r == [call EXCEPT !.at = "halt", !.idx = 1, !.upto = last]
<1>1. r \in CallState
  <2>1. 1 \in 1 .. NBoards + 1
    BY BoardsAssumption
  <2> QED BY <2>1, Zenon DEF CallState
<1>2. r.at = "halt" /\ r.idx = 1 /\ r.upto = last /\ r.reads = call.reads /\ r.hand = call.hand
  BY DEF CallState
<1>3. Unwind(last) => call' = r
  BY Zenon DEF Unwind
<1> HIDE DEF r
<1> QED BY <1>1, <1>2, <1>3, Zenon DEF ToUnwind

(* The stop loop goes on within the boards. *)
LEMMA NextBoardRight ==
    ASSUME call \in CallState, call.idx \in Boards
    PROVE  NextBoard => ToNext
<1>1. call.idx + 1 \in 1 .. NBoards + 1
  BY BoardsAssumption DEF Boards
<1>2. "closeQueue" \in Lines /\ "halt" \in Lines
  BY DEF Lines, Looping
<1>3. Goto("closeQueue") => To("closeQueue", call.idx)
  BY <1>2, GotoRight, Zenon
<1>4. GotoBoard("halt", call.idx + 1) => To("halt", call.idx + 1)
  <2> DEFINE n == call.idx + 1
      r == [call EXCEPT !.at = "halt", !.idx = n]
  <2>1. r \in CallState
    BY <1>1 DEF CallState
  <2>2. r.at = "halt" /\ r.idx = n /\ r.upto = call.upto /\ r.reads = call.reads
        /\ r.hand = call.hand
    BY DEF CallState
  <2>3. GotoBoard("halt", n) => call' = r
    BY Zenon DEF GotoBoard
  <2> HIDE DEF n, r
  <2>4. GotoBoard("halt", n) => To("halt", n)
    BY <2>1, <2>2, <2>3, Zenon DEF To
  <2> QED BY <2>4, Zenon DEF n
<1> QED BY <1>3, <1>4, Zenon DEF NextBoard, ToNext
(* CallStart *)
LEMMA CallStartEffect ==
    ASSUME Base, CallStart
    PROVE  /\ call.at = "idle" /\ ~running /\ starts' = starts + 1 /\ starts < MaxStarts
           /\ To(IF prepared THEN "launch" ELSE "prepare", 1)
           /\ prepared' = prepared /\ running' = running /\ writer' = writer /\ FileKept
           /\ QueueKept /\ link' = link /\ writerFailed' = writerFailed /\ board' = board
<1> DEFINE line == IF prepared THEN "launch" ELSE "prepare"
<1>1. /\ call.at = "idle" /\ ~running /\ starts' = starts + 1 /\ starts < MaxStarts
      /\ GotoBoard(line, 1) /\ UNCHANGED <<prepared, running, writerVars, runnerVars>>
  BY Zenon DEF CallStart
<1>2. line \in Lines /\ 1 \in 1 .. NBoards + 1
  BY BoardsAssumption DEF Lines
<1> HIDE DEF line
<1>3. To(line, 1)
  BY <1>1, <1>2, GotoBoardRight, Zenon DEF Base
<1>4. /\ prepared' = prepared /\ running' = running /\ UNCHANGED writerVars
      /\ UNCHANGED runnerVars
  BY <1>1
<1> QED BY <1>1, <1>3, <1>4, KeptOneByOne, Zenon DEF line

(* prepare() opens a board. *)
LEMMA PrepareBoardEffect ==
    ASSUME Base, PrepareBoard
    PROVE  /\ call.at = "prepare" /\ Still
           /\ \/ board' = board /\ To("idle", call.idx)
              \/ \E b \in Boards : /\ b = call.idx /\ To("prepare", b + 1)
                                   /\ Changes(b, {"open"}) /\ board'[b].open
<1>1. /\ call.at = "prepare" /\ call.idx <= NBoards
      /\ \/ /\ board' = [board EXCEPT ![call.idx].open = TRUE]
            /\ GotoBoard("prepare", call.idx + 1)
         \/ Goto("idle") /\ UNCHANGED board
      /\ UNCHANGED <<daqVars, writerVars, link, queueVars, writerFailed>>
  BY Zenon DEF PrepareBoard
<1>2. call.idx \in Boards
  BY <1>1, CallTypes DEF Base, Boards
<1>3. PICK b \in Boards : b = call.idx
  BY <1>2, Zenon
<1>4. b + 1 \in 1 .. NBoards + 1 /\ "prepare" \in Lines /\ "idle" \in Lines
  BY BoardsAssumption DEF Boards, Lines
<1>5. CASE board' = [board EXCEPT ![call.idx].open = TRUE] /\ GotoBoard("prepare", call.idx + 1)
  <2>1. To("prepare", b + 1)
    BY <1>3, <1>4, <1>5, GotoBoardRight, Zenon DEF Base
  <2>2. Changes(b, {"open"}) /\ board'[b].open = TRUE
    BY <1>3, <1>5, Put_open, Zenon DEF Base
  <2> QED BY <1>1, <1>3, <2>1, <2>2, KeptOneByOne, Zenon
<1>6. CASE Goto("idle") /\ UNCHANGED board
  BY <1>1, <1>4, <1>6, KeptOneByOne, GotoRight, Zenon DEF Base
<1> QED BY <1>1, <1>5, <1>6, Zenon

(* prepare() opens the file. *)
LEMMA PrepareFileEffect ==
    ASSUME Base, PrepareFile
    PROVE  /\ call.at = "prepare" /\ board' = board /\ QueueKept /\ link' = link
           /\ writerFailed' = writerFailed /\ starts' = starts /\ running' = running
           /\ writer' = writer /\ file' = file /\ flushed' = flushed /\ lost' = lost
           /\ \/ /\ fileState' = (IF anyWrite THEN "open" ELSE fileState)
                 /\ To("launch", call.idx) /\ prepared' = TRUE
              \/ fileState' = fileState /\ To("idle", call.idx) /\ prepared' = prepared
<1>1. /\ call.at = "prepare"
      /\ \/ /\ fileState' = (IF anyWrite THEN "open" ELSE fileState)
            /\ Goto("launch") /\ prepared' = TRUE
         \/ Goto("idle") /\ UNCHANGED <<fileState, prepared>>
      /\ UNCHANGED <<starts, running, writer, file, flushed, lost, runnerVars>>
  BY Zenon DEF PrepareFile
<1>2. "launch" \in Lines /\ "idle" \in Lines
  BY DEF Lines
<1>3. /\ starts' = starts /\ running' = running /\ writer' = writer /\ file' = file
      /\ flushed' = flushed /\ lost' = lost /\ UNCHANGED runnerVars
  BY <1>1
<1>4. UNCHANGED <<fileState, prepared>> => fileState' = fileState /\ prepared' = prepared
  OBVIOUS
<1> QED BY <1>1, <1>2, <1>3, <1>4, KeptOneByOne, GotoRight, Zenon DEF Base

(* The writer thread comes up. *)
LEMMA LaunchEffect ==
    ASSUME Base, Launch
    PROVE  /\ call.at = "launch" /\ To("arm", 1) /\ board' = board /\ DaqKept /\ FileKept
           /\ QueueKept /\ link' = link /\ writerFailed' = FALSE
           /\ writer' = [writer EXCEPT !.at = IF anyWrite THEN "loop" ELSE writer.at]
<1>1. /\ call.at = "launch" /\ writerFailed' = FALSE
      /\ writer' = [writer EXCEPT !.at = IF anyWrite THEN "loop" ELSE writer.at]
      /\ GotoBoard("arm", 1)
      /\ UNCHANGED <<daqVars, fileVars, board, link, queueVars>>
  BY Zenon DEF Launch
<1>2. "arm" \in Lines /\ 1 \in 1 .. NBoards + 1
  BY BoardsAssumption DEF Lines, Looping
<1>3. UNCHANGED daqVars /\ UNCHANGED fileVars /\ board' = board /\ link' = link
      /\ UNCHANGED queueVars
  BY <1>1
<1> QED BY <1>1, <1>2, <1>3, KeptOneByOne, GotoBoardRight, Zenon DEF Base

(* A board is armed, or the boards before it are to be stopped. *)
LEMMA ArmBoardEffect ==
    ASSUME Base, ArmBoard
    PROVE  \E b \in Boards :
             /\ call.at = "arm" /\ b = call.idx /\ Still
             /\ \/ /\ Changes(b, {"running", "hw", "mem"})
                   /\ board'[b].running = TRUE /\ board'[b].hw \in {"armed", "acquiring"}
                   /\ board'[b].mem = 0
                   /\ \/ b = NBoards /\ To("trigger", 1)
                      \/ b # NBoards /\ To("arm", b + 1)
                \/ board' = board /\ ToUnwind(b)
<1>1. /\ call.at = "arm"
      /\ \/ board' = Started(call.idx) /\ Armed
         \/ Unwind(call.idx) /\ UNCHANGED board
      /\ UNCHANGED <<daqVars, writerVars, link, queueVars, writerFailed>>
  BY Zenon DEF ArmBoard
<1>2. call.idx \in Boards /\ call \in CallState /\ BoardsTyped
  BY <1>1 DEF Base, Positions, Looping
<1>3. PICK b \in Boards : b = call.idx
  BY <1>2, Zenon
<1>4. Still
  BY <1>1, KeptOneByOne, Zenon
<1>5. CASE board' = Started(call.idx) /\ Armed
  <2>1. board' = [board EXCEPT ![b].running = TRUE, ![b].hw = StartedAs(b), ![b].mem = 0]
    BY <1>3, <1>5, Zenon DEF Started
  <2>2. StartedAs(b) \in {"armed", "acquiring"}
    BY DEF StartedAs
  <2>3. /\ StartedAs(b) \in {"idle", "armed", "acquiring"}
        /\ TRUE \in BOOLEAN /\ 0 \in 0 .. MaxBuffers
    BY <2>2, SizesAssumption
  <2>4. /\ Changes(b, {"running", "hw", "mem"})
        /\ board'[b].running = TRUE /\ board'[b].hw = StartedAs(b) /\ board'[b].mem = 0
    BY <1>2, <2>1, <2>3, Put_running_hw_mem, Zenon
  <2>5. /\ b = NBoards => GotoBoard("trigger", 1)
        /\ b # NBoards => GotoBoard("arm", b + 1)
    BY <1>3, <1>5, Zenon DEF Armed
  <2>6. /\ "trigger" \in Lines /\ "arm" \in Lines /\ 1 \in 1 .. NBoards + 1
        /\ b + 1 \in 1 .. NBoards + 1
    BY BoardsAssumption DEF Lines, Looping, Boards
  <2>7. \/ b = NBoards /\ To("trigger", 1)
        \/ b # NBoards /\ To("arm", b + 1)
    BY <1>2, <2>5, <2>6, GotoBoardRight, Zenon
  <2> QED BY <1>1, <1>3, <1>4, <2>2, <2>4, <2>7, Zenon
<1>6. CASE Unwind(call.idx) /\ UNCHANGED board
  <2>1. b \in 0 .. NBoards
    BY BoardsAssumption DEF Boards
  <2> QED BY <1>1, <1>2, <1>3, <1>4, <1>6, <2>1, UnwindRight, Zenon
<1> QED BY <1>1, <1>5, <1>6, Zenon

(* The trigger starts every armed board, or it fails and all are stopped. *)
LEMMA SendSWTriggerEffect ==
    ASSUME Base, SendSWTrigger
    PROVE  /\ call.at = "trigger" /\ Still
           /\ \/ /\ board' \in [Boards -> BoardState] /\ To("readers", 1)
                 /\ \A b \in Boards : /\ \A f \in Fields \ {"hw"} : board'[b][f] = board[b][f]
                                      /\ board'[b].hw = IF board[b].hw = "armed"
                                                        THEN "acquiring" ELSE board[b].hw
              \/ board' = board /\ ToUnwind(NBoards)
<1>1. /\ call.at = "trigger"
      /\ \/ board' = ChainStarted /\ GotoBoard("readers", 1)
         \/ Unwind(NBoards) /\ UNCHANGED board
      /\ UNCHANGED <<daqVars, writerVars, link, queueVars, writerFailed>>
  BY Zenon DEF SendSWTrigger
<1>2. call \in CallState /\ BoardsTyped
  BY DEF Base
<1>3. "readers" \in Lines /\ 1 \in 1 .. NBoards + 1 /\ NBoards \in 0 .. NBoards
  BY BoardsAssumption DEF Lines, Looping
<1>4. CASE board' = ChainStarted /\ GotoBoard("readers", 1)
  <2>1. /\ board' \in [Boards -> BoardState]
        /\ \A b \in Boards : /\ \A f \in Fields \ {"hw"} : board'[b][f] = board[b][f]
                             /\ board'[b].hw = IF board[b].hw = "armed"
                                               THEN "acquiring" ELSE board[b].hw
    BY <1>2, <1>4 DEF ChainStarted, BoardState, Fields, BoardsTyped
  <2> QED BY <1>1, <1>2, <1>3, <1>4, <2>1, KeptOneByOne, GotoBoardRight, Zenon
<1>5. CASE Unwind(NBoards) /\ UNCHANGED board
  BY <1>1, <1>2, <1>3, <1>5, KeptOneByOne, UnwindRight, Zenon
<1> QED BY <1>1, <1>4, <1>5, Zenon
(* Whoever is at a line of a loop is at a board. *)
LEMMA AtBoard ==
    ASSUME Base, call.at \in Looping
    PROVE  \E b \in Boards : b = call.idx
BY DEF Base, Positions

(* The threads of a board come up. *)
LEMMA StartReadersEffect ==
    ASSUME Base, StartReaders
    PROVE  \E b \in Boards :
             /\ call.at = "readers" /\ b = call.idx
             /\ starts' = starts /\ prepared' = prepared /\ writer' = writer /\ FileKept
             /\ QueueKept /\ link' = link /\ writerFailed' = writerFailed
             /\ \/ b = NBoards /\ To("idle", b) /\ running' = TRUE
                \/ b # NBoards /\ To("readers", b + 1) /\ running' = running
             /\ \/ board' = board /\ board[b].reader # "none"
                \/ /\ Changes(b, {"reader", "decoding", "decoder"})
                   /\ board[b].reader = "none" /\ board'[b].reader = "check"
                   /\ board'[b].decoding = (board[b].decoding \/ b \in Decoders)
                   /\ board'[b].decoder = IF b \in Decoders /\ ~board[b].decoding
                                          THEN "loop" ELSE board[b].decoder
<1>1. /\ call.at = "readers" /\ StartReader(call.idx)
      /\ IF call.idx = NBoards
         THEN Goto("idle") /\ running' = TRUE
         ELSE GotoBoard("readers", call.idx + 1) /\ UNCHANGED running
      /\ UNCHANGED <<starts, prepared, writerVars, link, queueVars, writerFailed>>
  BY Zenon DEF StartReaders
<1>2. call.idx \in Boards /\ call \in CallState /\ BoardsTyped
  BY <1>1 DEF Base, Positions, Looping
<1>3. PICK b \in Boards : b = call.idx
  BY <1>2, Zenon
<1>4. /\ starts' = starts /\ prepared' = prepared /\ UNCHANGED writerVars
      /\ UNCHANGED queueVars /\ link' = link /\ writerFailed' = writerFailed
  BY <1>1
<1>5. \/ b = NBoards /\ To("idle", b) /\ running' = TRUE
      \/ b # NBoards /\ To("readers", b + 1) /\ running' = running
  <2>1. "idle" \in Lines /\ "readers" \in Lines /\ b + 1 \in 1 .. NBoards + 1
    BY BoardsAssumption DEF Lines, Looping, Boards
  <2>2. /\ b = NBoards => Goto("idle") /\ running' = TRUE
        /\ b # NBoards => GotoBoard("readers", b + 1) /\ running' = running
    BY <1>1, <1>3, Zenon
  <2> QED BY <1>2, <1>3, <2>1, <2>2, GotoRight, GotoBoardRight, Zenon
<1> DEFINE x == board[b].decoding \/ b \in Decoders
           d == IF b \in Decoders /\ ~board[b].decoding THEN "loop" ELSE board[b].decoder
<1>6. \/ board' = board /\ board[b].reader # "none"
      \/ /\ Changes(b, {"reader", "decoding", "decoder"})
         /\ board[b].reader = "none" /\ board'[b].reader = "check"
         /\ board'[b].decoding = x /\ board'[b].decoder = d
  <2>1. x \in BOOLEAN
    BY Zenon
  <2>2. d \in {"none", "loop", "decode", "exited"}
    BY <1>2, FieldTypes
  <2>3. "check" \in {"none", "check", "reading", "push", "submit", "exited"}
    OBVIOUS
  <2>4. \/ board' = board /\ board[b].reader # "none"
        \/ /\ board[b].reader = "none"
           /\ board' = [board EXCEPT ![b].reader = "check", ![b].decoding = x, ![b].decoder = d]
    <3>1. board \in [Boards -> BoardState]
      BY <1>2 DEF BoardsTyped
    <3>2. board' = IF board[b].reader # "none" THEN board
                   ELSE [board EXCEPT
                           ![b].reader = "check",
                           ![b].decoding = @ \/ b \in Decoders,
                           ![b].decoder = IF b \in Decoders /\ ~board[b].decoding
                                          THEN "loop" ELSE @]
      BY <1>1, <1>3, Zenon DEF StartReader
    <3> QED BY <3>1, <3>2 DEF BoardState
  <2> HIDE DEF x, d
  <2>5. CASE board' = [board EXCEPT ![b].reader = "check", ![b].decoding = x, ![b].decoder = d]
    <3>1. /\ Changes(b, {"reader", "decoding", "decoder"}) /\ board'[b].reader = "check"
          /\ board'[b].decoding = x /\ board'[b].decoder = d
      BY <1>2, <2>1, <2>2, <2>3, <2>5, Put_reader_decoding_decoder, Zenon
    <3> QED BY <2>4, <3>1, Zenon
  <2> QED BY <2>4, <2>5, Zenon
<1> QED BY <1>1, <1>3, <1>4, <1>5, <1>6, KeptOneByOne, Zenon

(* stop() begins. *)
LEMMA CallStopEffect ==
    ASSUME Base, CallStop
    PROVE  /\ call.at = "idle" /\ running /\ ToUnwind(NBoards) /\ Still /\ board' = board
<1>1. /\ call.at = "idle" /\ running /\ Unwind(NBoards)
      /\ UNCHANGED <<daqVars, writerVars, runnerVars>>
  BY Zenon DEF CallStop
<1>2. NBoards \in 0 .. NBoards
  BY BoardsAssumption
<1> QED BY <1>1, <1>2, KeptOneByOne, UnwindRight, Zenon DEF Base

(* BoardRunner::stop() takes a running board down, whether the board listens *)
(* or not, and passes over the others.                                       *)
LEMMA HaltEffect ==
    ASSUME Base, Halt
    PROVE  \E b \in Boards :
             /\ call.at = "halt" /\ b = call.idx /\ Still
             /\ \/ /\ board[b].running /\ To("join", b)
                   /\ Changes(b, {"running", "hw", "missed", "mem"})
                   /\ ~board'[b].running
                   /\ board'[b].hw = "idle" \/ board'[b].missed
                   /\ board'[b].mem \in 0 .. board[b].mem
                \/ ~board[b].running /\ board' = board /\ ToNext
<1>1. /\ call.at = "halt"
      /\ IF board[call.idx].running
         THEN /\ board' = Stopped(call.idx) \/ board' = NotStopped(call.idx)
              /\ Goto("join")
         ELSE NextBoard /\ UNCHANGED board
      /\ UNCHANGED <<daqVars, writerVars, link, queueVars, writerFailed>>
  BY Zenon DEF Halt
<1>2. call.idx \in Boards /\ call \in CallState /\ BoardsTyped
  BY <1>1 DEF Base, Positions, Looping
<1>3. PICK b \in Boards : b = call.idx
  BY <1>2, Zenon
<1>4. Still
  BY <1>1, KeptOneByOne, Zenon
<1>5. ASSUME board[b].running PROVE To("join", b)
  <2>1. "join" \in Lines
    BY DEF Lines, Looping
  <2> QED BY <1>1, <1>2, <1>3, <1>5, <2>1, GotoRight, Zenon
<1>6. CASE board[b].running /\ board' = Stopped(b)
  <2> DEFINE m == IF b \in Mocks THEN 0 ELSE board[b].mem
  <2>1. board' = [board EXCEPT ![b].running = FALSE, ![b].hw = "idle", ![b].mem = m]
    <3>1. board \in [Boards -> BoardState]
      BY <1>2 DEF BoardsTyped
    <3> QED BY <1>6, <3>1 DEF BoardState, Stopped
  <2>2. m \in 0 .. MaxBuffers /\ m \in 0 .. board[b].mem
    BY <1>2, FieldTypes
  <2>3. FALSE \in BOOLEAN /\ "idle" \in {"idle", "armed", "acquiring"}
    OBVIOUS
  <2> HIDE DEF m
  <2>4. /\ Changes(b, {"running", "hw", "mem"}) /\ board'[b].running = FALSE
        /\ board'[b].hw = "idle" /\ board'[b].mem = m
    BY <1>2, <2>1, <2>2, <2>3, Put_running_hw_mem, Zenon
  <2>5. Changes(b, {"running", "hw", "missed", "mem"})
    BY <2>4 DEF Changes
  <2> QED BY <1>1, <1>3, <1>4, <1>5, <1>6, <2>2, <2>4, <2>5, Zenon
<1>7. CASE board[b].running /\ board' = NotStopped(b)
  <2>1. FALSE \in BOOLEAN /\ TRUE \in BOOLEAN
    OBVIOUS
  <2>2. /\ Changes(b, {"running", "missed"}) /\ board'[b].running = FALSE
        /\ board'[b].missed = TRUE
    BY <1>2, <1>7, <2>1, Put_running_missed, Zenon DEF NotStopped
  <2>3. Changes(b, {"running", "hw", "missed", "mem"}) /\ board'[b].mem = board[b].mem
    BY <2>2 DEF Changes, Fields
  <2>4. board'[b].mem \in 0 .. board[b].mem
    BY <1>2, <2>3, FieldTypes
  <2> QED BY <1>1, <1>3, <1>4, <1>5, <1>7, <2>2, <2>3, <2>4, Zenon
<1>8. CASE ~board[b].running
  BY <1>1, <1>2, <1>3, <1>4, <1>8, NextBoardRight, Zenon
<1> QED BY <1>1, <1>3, <1>6, <1>7, <1>8, Zenon

(* The reader of the board has been joined. *)
LEMMA JoinReaderEffect ==
    ASSUME Base, JoinReader
    PROVE  \E b \in Boards :
             /\ call.at = "join" /\ b = call.idx /\ Still
             /\ board[b].reader \in {"none", "exited"}
             /\ Changes(b, {"reader"}) /\ board'[b].reader = "none"
             /\ call' \in CallState /\ call'.at = "drain" /\ call'.idx = b
             /\ call'.upto = call.upto /\ call'.reads = 0 /\ call'.hand = call.hand
<1>1. /\ call.at = "join" /\ board[call.idx].reader \in {"none", "exited"}
      /\ board' = [board EXCEPT ![call.idx].reader = "none"]
      /\ call' = [call EXCEPT !.at = "drain", !.reads = 0]
      /\ UNCHANGED <<daqVars, writerVars, link, queueVars, writerFailed>>
  BY Zenon DEF JoinReader
<1>2. call.idx \in Boards /\ call \in CallState /\ BoardsTyped
  BY <1>1 DEF Base, Positions, Looping
<1>3. PICK b \in Boards : b = call.idx
  BY <1>2, Zenon
<1>4. Changes(b, {"reader"}) /\ board'[b].reader = "none"
  <2>1. "none" \in {"none", "check", "reading", "push", "submit", "exited"}
    OBVIOUS
  <2> QED BY <1>1, <1>2, <1>3, <2>1, Put_reader, Zenon
<1>5. /\ call' \in CallState /\ call'.at = "drain" /\ call'.idx = b
      /\ call'.upto = call.upto /\ call'.reads = 0 /\ call'.hand = call.hand
  <2>1. 0 \in 0 .. DrainReads
    BY SizesAssumption
  <2>2. call' \in CallState
    BY <1>1, <1>2, <2>1 DEF CallState
  <2> QED BY <1>1, <1>2, <1>3, <2>2 DEF CallState
<1> QED BY <1>1, <1>3, <1>4, <1>5, KeptOneByOne, Zenon

(* drain() reads a buffer out. *)
LEMMA DrainReadEffect ==
    ASSUME Base, DrainRead
    PROVE  \E b \in Boards :
             /\ call.at = "drain" /\ b = call.idx /\ Still
             /\ Changes(b, {"mem", "buffersRead"}) /\ board[b].mem > 0
             /\ board'[b].mem = board[b].mem - 1
             /\ board'[b].buffersRead = board[b].buffersRead + 1
             /\ call' \in CallState /\ call'.at = "drainPush" /\ call'.idx = b
             /\ call'.upto = call.upto /\ call'.reads = call.reads + 1
             /\ call'.hand = <<b, board[b].buffersRead + 1>>
<1>1. /\ call.at = "drain" /\ call.reads < DrainReads /\ ReadsBuffer(call.idx)
      /\ board' = [board EXCEPT ![call.idx].mem = board[call.idx].mem - 1,
                                ![call.idx].buffersRead = board[call.idx].buffersRead + 1]
      /\ call' = [call EXCEPT !.at = "drainPush", !.reads = call.reads + 1,
                              !.hand = <<call.idx, board[call.idx].buffersRead + 1>>]
      /\ UNCHANGED <<daqVars, writerVars, link, queueVars, writerFailed>>
  BY Zenon DEF DrainRead
<1>2. call.idx \in Boards /\ call \in CallState /\ BoardsTyped
  BY <1>1 DEF Base, Positions, Looping
<1>3. PICK b \in Boards : b = call.idx
  BY <1>2, Zenon
<1> DEFINE m == board[b].mem - 1
           n == board[b].buffersRead + 1
           r == call.reads + 1
<1>4. board[b].mem > 0
  BY <1>1, <1>3 DEF ReadsBuffer
<1>5. m \in 0 .. MaxBuffers /\ n \in 1 .. MaxBuffers /\ n \in 0 .. MaxBuffers
  BY <1>2, <1>4, FieldTypes
<1>6. r \in 0 .. DrainReads
  BY <1>1, <1>2, CallTypes
<1>7. /\ board' = [board EXCEPT ![b].mem = m, ![b].buffersRead = n]
      /\ call' = [call EXCEPT !.at = "drainPush", !.reads = r, !.hand = <<b, n>>]
  BY <1>1, <1>3, Zenon
<1> HIDE DEF m, n, r
<1>8. /\ Changes(b, {"mem", "buffersRead"})
      /\ board'[b].mem = m /\ board'[b].buffersRead = n
  BY <1>2, <1>5, <1>7, Put_mem_buffersRead, Zenon
<1>9. /\ call' \in CallState /\ call'.at = "drainPush" /\ call'.idx = b
      /\ call'.upto = call.upto /\ call'.reads = r /\ call'.hand = <<b, n>>
  <2>1. <<b, n>> \in Blocks
    BY <1>5 DEF Blocks
  <2>2. call' \in CallState
    BY <1>2, <1>6, <1>7, <2>1 DEF CallState
  <2> QED BY <1>2, <1>3, <1>7, <2>2 DEF CallState
<1> QED BY <1>1, <1>3, <1>4, <1>8, <1>9, KeptOneByOne, Zenon DEF m, n, r

(* drain() hands the buffer to the writer. *)
LEMMA DrainPushEffect ==
    ASSUME Base, DrainPush
    PROVE  \E b \in Boards :
             /\ call.at = "drainPush" /\ b = call.idx /\ PushToWriter(call.hand)
             /\ call.hand = <<b, board[b].buffersRead>> /\ call.hand \in Blocks
             /\ Changes(b, {"bytesWritten", "blocksDropped"})
             /\ board'[b].bytesWritten = CountWritten(call.hand, board[b].bytesWritten)
             /\ board'[b].blocksDropped = CountDropped(call.hand, board[b].blocksDropped)
             /\ call' \in CallState /\ call'.at = "drainSubmit" /\ call'.idx = b
             /\ call'.upto = call.upto /\ call'.reads = call.reads
             /\ DaqKept /\ writer' = writer /\ FileKept /\ link' = link
             /\ writerFailed' = writerFailed
<1>1. /\ call.at = "drainPush" /\ PushToWriter(call.hand)
      /\ board' = [board EXCEPT
                     ![call.idx].bytesWritten =
                         CountWritten(call.hand, board[call.idx].bytesWritten),
                     ![call.idx].blocksDropped =
                         CountDropped(call.hand, board[call.idx].blocksDropped)]
      /\ call' = [call EXCEPT !.at = "drainSubmit", !.hand = NoBlock]
      /\ UNCHANGED <<daqVars, writerVars, link, writerFailed>>
  BY Zenon DEF DrainPush
<1>2. call.idx \in Boards /\ call \in CallState /\ BoardsTyped
  BY <1>1 DEF Base, Positions, Looping
<1>3. PICK b \in Boards : b = call.idx
  BY <1>2, Zenon
<1> DEFINE x == CountWritten(call.hand, board[b].bytesWritten)
           y == CountDropped(call.hand, board[b].blocksDropped)
<1>4. x \in Nat /\ y \in Nat
  BY <1>2, CountsType, FieldTypes
<1>5. board' = [board EXCEPT ![b].bytesWritten = x, ![b].blocksDropped = y]
  BY <1>1, <1>3, Zenon
<1> HIDE DEF x, y
<1>6. /\ Changes(b, {"bytesWritten", "blocksDropped"})
      /\ board'[b].bytesWritten = x /\ board'[b].blocksDropped = y
  BY <1>2, <1>4, <1>5, Put_bytesWritten_blocksDropped, Zenon
<1>7. call.hand = <<b, board[b].buffersRead>> /\ board[b].buffersRead > 0
  BY <1>1, <1>3, Zenon DEF Base, HandsSound
<1>8. call.hand \in Blocks
  <2> DEFINE n == board[b].buffersRead
  <2>1. n \in 1 .. MaxBuffers
    BY <1>2, <1>7, FieldTypes
  <2>2. call.hand = <<b, n>>
    BY <1>7
  <2> HIDE DEF n
  <2> QED BY <2>1, <2>2 DEF Blocks
<1>9. /\ call' \in CallState /\ call'.at = "drainSubmit" /\ call'.idx = b
      /\ call'.upto = call.upto /\ call'.reads = call.reads
  <2>1. call' \in CallState
    BY <1>1, <1>2 DEF CallState
  <2> QED BY <1>1, <1>2, <1>3, <2>1 DEF CallState
<1>10. UNCHANGED daqVars /\ UNCHANGED writerVars /\ link' = link /\ writerFailed' = writerFailed
  BY <1>1
<1> QED BY <1>1, <1>3, <1>6, <1>7, <1>8, <1>9, <1>10, KeptOneByOne, Zenon DEF x, y
(* drain() hands the buffer to the decode tap. *)
LEMMA DrainSubmitEffect ==
    ASSUME Base, DrainSubmit
    PROVE  \E b \in Boards :
             /\ call.at = "drainSubmit" /\ b = call.idx /\ Still /\ To("drain", b)
             /\ \/ board' = board /\ (b \notin Decoders \/ board[b].dqClosed)
                \/ /\ Changes(b, {"dq"}) /\ b \in Decoders /\ ~board[b].dqClosed
                   /\ board'[b].dq = board[b].dq + 1
                \/ /\ Changes(b, {"decodeDropped"}) /\ b \in Decoders /\ ~board[b].dqClosed
                   /\ board'[b].decodeDropped = board[b].decodeDropped + 1
<1>1. /\ call.at = "drainSubmit" /\ Goto("drain")
      /\ board' = [board EXCEPT ![call.idx] = Submitted(board[call.idx], call.idx)]
      /\ UNCHANGED <<daqVars, writerVars, link, queueVars, writerFailed>>
  BY Zenon DEF DrainSubmit
<1>2. call.idx \in Boards /\ call \in CallState /\ BoardsTyped
  BY <1>1 DEF Base, Positions, Looping
<1>3. PICK b \in Boards : b = call.idx
  BY <1>2, Zenon
<1>4. Still /\ To("drain", b)
  <2>1. "drain" \in Lines
    BY DEF Lines, Looping
  <2> QED BY <1>1, <1>2, <1>3, <2>1, KeptOneByOne, GotoRight, Zenon
<1>5. board' = [board EXCEPT ![b] = Submitted(board[b], b)]
  BY <1>1, <1>3, Zenon
<1>6. CASE b \notin Decoders \/ board[b].dqClosed
  <2>1. Submitted(board[b], b) = board[b]
    BY <1>6, Zenon DEF Submitted
  <2>2. board' = board
    BY <1>2, <1>5, <2>1 DEF BoardsTyped
  <2> QED BY <1>1, <1>3, <1>4, <1>6, <2>2, Zenon
<1>7. CASE b \in Decoders /\ ~board[b].dqClosed /\ board[b].dq < DecodeCapacity
  <2> DEFINE n == board[b].dq + 1
  <2>1. Submitted(board[b], b) = [board[b] EXCEPT !.dq = n]
    BY <1>7, Zenon DEF Submitted
  <2>2. board' = [board EXCEPT ![b].dq = n]
    BY <1>5, <2>1
  <2>3. n \in 0 .. DecodeCapacity
    BY <1>2, <1>7, FieldTypes
  <2> HIDE DEF n
  <2>4. Changes(b, {"dq"}) /\ board'[b].dq = n
    BY <1>2, <2>2, <2>3, Put_dq, Zenon
  <2> QED BY <1>1, <1>3, <1>4, <1>7, <2>4, Zenon DEF n
<1>8. CASE b \in Decoders /\ ~board[b].dqClosed /\ ~(board[b].dq < DecodeCapacity)
  <2> DEFINE n == board[b].decodeDropped + 1
  <2>1. Submitted(board[b], b) = [board[b] EXCEPT !.decodeDropped = n]
    BY <1>8, Zenon DEF Submitted
  <2>2. board' = [board EXCEPT ![b].decodeDropped = n]
    BY <1>5, <2>1
  <2>3. n \in Nat
    BY <1>2, FieldTypes
  <2> HIDE DEF n
  <2>4. Changes(b, {"decodeDropped"}) /\ board'[b].decodeDropped = n
    BY <1>2, <2>2, <2>3, Put_decodeDropped, Zenon
  <2> QED BY <1>1, <1>3, <1>4, <1>8, <2>4, Zenon DEF n
<1> QED BY <1>6, <1>7, <1>8, Zenon

(* drain() ends at its limit, or when the board has nothing left or fails. *)
LEMMA DrainEndEffect ==
    ASSUME Base, DrainEnd
    PROVE  \E b \in Boards :
             /\ call.at = "drain" /\ b = call.idx /\ Still /\ board' = board
             /\ To("decodeStop", b)
             /\ \/ call.reads = DrainReads
                \/ board[b].mem = 0
                \/ "read" \in Faults
<1>1. /\ call.at = "drain" /\ Goto("decodeStop")
      /\ \/ call.reads = DrainReads
         \/ ReadsNothing(call.idx)
         \/ ReadFails(call.idx)
      /\ UNCHANGED <<daqVars, writerVars, runnerVars>>
  BY Zenon DEF DrainEnd
<1>2. call.idx \in Boards /\ call \in CallState
  BY <1>1 DEF Base, Positions, Looping
<1>3. PICK b \in Boards : b = call.idx
  BY <1>2, Zenon
<1>4. "decodeStop" \in Lines
  BY DEF Lines, Looping
<1>5. /\ ReadsNothing(b) => board[b].mem = 0
      /\ ReadFails(b) => "read" \in Faults
  BY Zenon DEF ReadsNothing, ReadFails, MayFail
<1> QED BY <1>1, <1>2, <1>3, <1>4, <1>5, KeptOneByOne, GotoRight, Zenon

(* DecodeStage::stop() closes the decode queue. *)
LEMMA DecodeStopEffect ==
    ASSUME Base, DecodeStop
    PROVE  \E b \in Boards :
             /\ call.at = "decodeStop" /\ b = call.idx /\ Still
             /\ Changes(b, {"dqClosed", "decoding"})
             /\ ~board'[b].decoding
             /\ board'[b].dqClosed <=> (board[b].dqClosed \/ board[b].decoding)
             /\ \/ board[b].decoding /\ To("decodeJoin", b)
                \/ ~board[b].decoding /\ To("release", b)
<1>1. /\ call.at = "decodeStop"
      /\ board' = [board EXCEPT
                     ![call.idx].dqClosed = board[call.idx].dqClosed \/ board[call.idx].decoding,
                     ![call.idx].decoding = FALSE]
      /\ Goto(IF board[call.idx].decoding THEN "decodeJoin" ELSE "release")
      /\ UNCHANGED <<daqVars, writerVars, link, queueVars, writerFailed>>
  BY Zenon DEF DecodeStop
<1>2. call.idx \in Boards /\ call \in CallState /\ BoardsTyped
  BY <1>1 DEF Base, Positions, Looping
<1>3. PICK b \in Boards : b = call.idx
  BY <1>2, Zenon
<1> DEFINE x == board[b].dqClosed \/ board[b].decoding
<1>4. x \in BOOLEAN /\ FALSE \in BOOLEAN
  BY Zenon
<1>5. board' = [board EXCEPT ![b].dqClosed = x, ![b].decoding = FALSE]
  BY <1>1, <1>3, Zenon
<1> HIDE DEF x
<1>6. /\ Changes(b, {"dqClosed", "decoding"})
      /\ board'[b].dqClosed = x /\ board'[b].decoding = FALSE
  BY <1>2, <1>4, <1>5, Put_dqClosed_decoding, Zenon
<1>7. \/ board[b].decoding /\ To("decodeJoin", b)
      \/ ~board[b].decoding /\ To("release", b)
  <2>1. "decodeJoin" \in Lines /\ "release" \in Lines
    BY DEF Lines, Looping
  <2>2. /\ board[b].decoding => Goto("decodeJoin")
        /\ ~board[b].decoding => Goto("release")
    BY <1>1, <1>3, Zenon
  <2> QED BY <1>2, <1>3, <2>1, <2>2, GotoRight, Zenon
<1>8. board'[b].dqClosed <=> (board[b].dqClosed \/ board[b].decoding)
  BY <1>6, Zenon DEF x
<1> QED BY <1>1, <1>3, <1>6, <1>7, <1>8, KeptOneByOne, Zenon

(* ... and waits for the decode thread. *)
LEMMA DecodeJoinEffect ==
    ASSUME Base, DecodeJoin
    PROVE  \E b \in Boards :
             /\ call.at = "decodeJoin" /\ b = call.idx /\ Still /\ To("release", b)
             /\ board[b].decoder = "exited"
             /\ Changes(b, {"decoder"}) /\ board'[b].decoder = "none"
<1>1. /\ call.at = "decodeJoin" /\ board[call.idx].decoder = "exited"
      /\ board' = [board EXCEPT ![call.idx].decoder = "none"]
      /\ Goto("release")
      /\ UNCHANGED <<daqVars, writerVars, link, queueVars, writerFailed>>
  BY Zenon DEF DecodeJoin
<1>2. call.idx \in Boards /\ call \in CallState /\ BoardsTyped
  BY <1>1 DEF Base, Positions, Looping
<1>3. PICK b \in Boards : b = call.idx
  BY <1>2, Zenon
<1>4. "release" \in Lines /\ "none" \in {"none", "loop", "decode", "exited"}
  BY DEF Lines, Looping
<1>5. Changes(b, {"decoder"}) /\ board'[b].decoder = "none"
  BY <1>1, <1>2, <1>3, <1>4, Put_decoder, Zenon
<1> QED BY <1>1, <1>2, <1>3, <1>4, <1>5, KeptOneByOne, GotoRight, Zenon

(* The board is closed. *)
LEMMA ReleaseEffect ==
    ASSUME Base, Release
    PROVE  \E b \in Boards :
             /\ call.at = "release" /\ b = call.idx /\ Still /\ ToNext
             /\ Changes(b, {"open"}) /\ ~board'[b].open
<1>1. /\ call.at = "release" /\ board' = [board EXCEPT ![call.idx].open = FALSE] /\ NextBoard
      /\ UNCHANGED <<daqVars, writerVars, link, queueVars, writerFailed>>
  BY Zenon DEF Release
<1>2. call.idx \in Boards /\ call \in CallState /\ BoardsTyped
  BY <1>1 DEF Base, Positions, Looping
<1>3. PICK b \in Boards : b = call.idx
  BY <1>2, Zenon
<1>4. FALSE \in BOOLEAN
  OBVIOUS
<1>5. Changes(b, {"open"}) /\ board'[b].open = FALSE
  BY <1>1, <1>2, <1>3, <1>4, Put_open, Zenon
<1> QED BY <1>1, <1>2, <1>3, <1>5, KeptOneByOne, NextBoardRight, Zenon

(* The write queue is closed. *)
LEMMA CloseQueueEffect ==
    ASSUME Base, CloseQueue
    PROVE  /\ call.at = "closeQueue" /\ To("joinWriter", call.idx) /\ board' = board /\ DaqKept
           /\ writer' = writer /\ FileKept /\ link' = link /\ writerFailed' = writerFailed
           /\ writeQueue' = writeQueue /\ writeClosed' = TRUE
           /\ writeDropped' = writeDropped /\ fate' = fate
<1>1. /\ call.at = "closeQueue" /\ Goto("joinWriter") /\ writeClosed' = TRUE
      /\ UNCHANGED <<writeQueue, writeDropped, fate>>
      /\ UNCHANGED <<daqVars, writerVars, board, link, writerFailed>>
  BY Zenon DEF CloseQueue, WQ!Close
<1>2. "joinWriter" \in Lines
  BY DEF Lines
<1>3. /\ writeQueue' = writeQueue /\ writeDropped' = writeDropped /\ fate' = fate
      /\ UNCHANGED daqVars /\ UNCHANGED writerVars /\ board' = board /\ link' = link
      /\ writerFailed' = writerFailed
  BY <1>1
<1> QED BY <1>1, <1>2, <1>3, KeptOneByOne, GotoRight, Zenon DEF Base

(* The writer thread has been joined, the file is closed. *)
LEMMA JoinWriterEffect ==
    ASSUME Base, JoinWriter
    PROVE  /\ call.at = "joinWriter" /\ To("idle", call.idx) /\ board' = board
           /\ starts' = starts /\ prepared' = prepared /\ running' = FALSE
           /\ writer.at \in {"none", "exited"} /\ writer' = [writer EXCEPT !.at = "none"]
           /\ fileState' = (IF fileState = "open" THEN "closed" ELSE fileState)
           /\ flushed' = Len(file) /\ file' = file /\ lost' = lost
           /\ QueueKept /\ link' = link /\ writerFailed' = writerFailed
<1>1. /\ call.at = "joinWriter" /\ Goto("idle")
      /\ writer.at \in {"none", "exited"} /\ writer' = [writer EXCEPT !.at = "none"]
      /\ fileState' = (IF fileState = "open" THEN "closed" ELSE fileState)
      /\ flushed' = Len(file) /\ running' = FALSE
      /\ UNCHANGED <<starts, prepared, file, lost, runnerVars>>
  BY Zenon DEF JoinWriter, CloseFile
<1>2. "idle" \in Lines
  BY DEF Lines
<1>3. /\ starts' = starts /\ prepared' = prepared /\ file' = file /\ lost' = lost
      /\ UNCHANGED runnerVars
  BY <1>1
<1> QED BY <1>1, <1>2, <1>3, KeptOneByOne, GotoRight, Zenon DEF Base
-----------------------------------------------------------------------------
(* What the writer thread and the write queue do *)

(* The calling thread and its variables stand still. *)
MainKept == call' = call /\ DaqKept

(* The boards and the call stand still. *)
BoardsKept == board' = board /\ MainKept /\ link' = link

(* The writer takes a block. *)
LEMMA WriterPopEffect ==
    ASSUME WriterPop
    PROVE  /\ writer.at = "loop" /\ writeQueue # <<>>
           /\ writeQueue' = Tail(writeQueue) /\ writeClosed' = writeClosed
           /\ writeDropped' = writeDropped /\ fate' = [fate EXCEPT ![Head(writeQueue)] = "taken"]
           /\ writer' = [at |-> "writing", hand |-> Head(writeQueue)]
           /\ FileKept /\ BoardsKept /\ writerFailed' = writerFailed
<1>1. /\ writer.at = "loop" /\ writeQueue # <<>>
      /\ writeQueue' = Tail(writeQueue) /\ fate' = [fate EXCEPT ![Head(writeQueue)] = "taken"]
      /\ UNCHANGED <<writeClosed, writeDropped>>
      /\ writer' = [at |-> "writing", hand |-> Head(writeQueue)]
      /\ UNCHANGED <<fileVars, mainVars, board, link, writerFailed>>
  BY Zenon DEF WriterPop, WQ!Take
<1>2. /\ writeClosed' = writeClosed /\ writeDropped' = writeDropped /\ UNCHANGED fileVars
      /\ UNCHANGED mainVars /\ board' = board /\ link' = link /\ writerFailed' = writerFailed
  BY <1>1
<1> QED BY <1>1, <1>2, KeptOneByOne, Zenon DEF BoardsKept, MainKept

(* The writer writes the block in its hand, or fails. *)
LEMMA WriterWriteEffect ==
    ASSUME WriterWrite
    PROVE  /\ writer.at = "writing" /\ BoardsKept /\ QueueKept /\ fileState' = fileState
           /\ \/ /\ file' = Append(file, writer.hand) /\ lost' = lost
                 /\ flushed' \in {flushed, Len(file) + 1}
                 /\ writer' = [at |-> "loop", hand |-> NoBlock]
                 /\ writerFailed' = writerFailed
              \/ /\ file' = file /\ flushed' = flushed /\ lost' = lost \cup {writer.hand}
                 /\ writer' = [at |-> "exited", hand |-> NoBlock]
                 /\ writerFailed' = TRUE
<1>1. /\ writer.at = "writing"
      /\ \/ /\ file' = Append(file, writer.hand)
            /\ flushed' \in {flushed, Len(file) + 1}
            /\ writer' = [at |-> "loop", hand |-> NoBlock]
            /\ UNCHANGED <<lost, writerFailed>>
         \/ /\ lost' = lost \cup {writer.hand} /\ writerFailed' = TRUE
            /\ writer' = [at |-> "exited", hand |-> NoBlock]
            /\ UNCHANGED <<file, flushed>>
      /\ UNCHANGED <<fileState, mainVars, board, link, queueVars>>
  BY Zenon DEF WriterWrite
<1>2. /\ UNCHANGED <<lost, writerFailed>> => lost' = lost /\ writerFailed' = writerFailed
      /\ UNCHANGED <<file, flushed>> => file' = file /\ flushed' = flushed
  OBVIOUS
<1>3. /\ fileState' = fileState /\ UNCHANGED mainVars /\ board' = board /\ link' = link
      /\ UNCHANGED queueVars
  BY <1>1
<1> QED BY <1>1, <1>2, <1>3, KeptOneByOne, Zenon DEF BoardsKept, MainKept

(* The writer flushes. *)
LEMMA WriterIdleEffect ==
    ASSUME WriterIdle
    PROVE  /\ writer.at = "loop" /\ flushed' = Len(file) /\ writer' = writer /\ file' = file
           /\ fileState' = fileState /\ lost' = lost /\ QueueKept /\ BoardsKept
           /\ writerFailed' = writerFailed
<1>1. /\ writer.at = "loop" /\ flushed' = Len(file)
      /\ UNCHANGED <<writer, file, fileState, lost, mainVars, runnerVars>>
  BY Zenon DEF WriterIdle
<1>2. /\ writer' = writer /\ file' = file /\ fileState' = fileState /\ lost' = lost
      /\ UNCHANGED mainVars /\ UNCHANGED runnerVars
  BY <1>1
<1> QED BY <1>1, <1>2, KeptOneByOne, Zenon DEF BoardsKept, MainKept

(* The writer ends. *)
LEMMA WriterExitEffect ==
    ASSUME WriterExit
    PROVE  /\ writer.at = "loop" /\ writeQueue = <<>> /\ writeClosed
           /\ writer' = [writer EXCEPT !.at = "exited"]
           /\ FileKept /\ QueueKept /\ BoardsKept /\ writerFailed' = writerFailed
<1>1. /\ writer.at = "loop" /\ writeQueue = <<>> /\ writeClosed
      /\ writer' = [writer EXCEPT !.at = "exited"]
      /\ UNCHANGED <<fileVars, mainVars, runnerVars>>
  BY Zenon DEF WriterExit
<1>2. UNCHANGED fileVars /\ UNCHANGED mainVars /\ UNCHANGED runnerVars
  BY <1>1
<1> QED BY <1>1, <1>2, KeptOneByOne, Zenon DEF BoardsKept, MainKept

(* A push of a block has one of three outcomes, or the board is not written. *)
LEMMA PushEffect ==
    ASSUME NEW blk, PushToWriter(blk)
    PROVE  \/ blk[1] \notin Writers /\ QueueKept
           \/ /\ blk[1] \in Writers /\ ~writeClosed /\ fate[blk] = "new"
              /\ writeQueue' = Append(writeQueue, blk)
              /\ fate' = [fate EXCEPT ![blk] = "queued"]
              /\ writeClosed' = writeClosed /\ writeDropped' = writeDropped
           \/ /\ blk[1] \in Writers /\ fate[blk] = "new"
              /\ writeQueue' = writeQueue /\ writeClosed' = writeClosed
              /\ \/ /\ ~writeClosed /\ writeDropped' = writeDropped + 1
                    /\ fate' = [fate EXCEPT ![blk] = "dropped"]
                 \/ /\ writeClosed /\ writeDropped' = writeDropped
                    /\ fate' = [fate EXCEPT ![blk] = "rejected"]
<1>1. CASE blk[1] \notin Writers
  BY <1>1, KeptOneByOne, Zenon DEF PushToWriter
<1>2. CASE blk[1] \in Writers
  <2>1. WQ!Accept(blk) \/ WQ!Drop(blk) \/ WQ!Reject(blk)
    BY <1>2, Zenon DEF PushToWriter
  <2>2. WQ!Accept(blk) => /\ ~writeClosed /\ fate[blk] = "new"
                          /\ writeQueue' = Append(writeQueue, blk)
                          /\ fate' = [fate EXCEPT ![blk] = "queued"]
                          /\ writeClosed' = writeClosed /\ writeDropped' = writeDropped
    BY DEF WQ!Accept
  <2>3. WQ!Drop(blk) => /\ fate[blk] = "new"
                        /\ writeQueue' = writeQueue /\ writeClosed' = writeClosed
                        /\ ~writeClosed /\ writeDropped' = writeDropped + 1
                        /\ fate' = [fate EXCEPT ![blk] = "dropped"]
    BY DEF WQ!Drop
  <2>4. WQ!Reject(blk) => /\ fate[blk] = "new"
                          /\ writeQueue' = writeQueue /\ writeClosed' = writeClosed
                          /\ writeClosed /\ writeDropped' = writeDropped
                          /\ fate' = [fate EXCEPT ![blk] = "rejected"]
    BY DEF WQ!Reject
  <2> QED BY <1>2, <2>1, <2>2, <2>3, <2>4, Zenon
<1> QED BY <1>1, <1>2, Zenon

(* A step of a board or of its threads leaves the calling thread and the     *)
(* writer alone.                                                             *)
LEMMA RunnerStepCases ==
    ASSUME RunnerStep /\ UNCHANGED <<mainVars, writerVars>>
    PROVE  /\ MainKept /\ writer' = writer /\ FileKept
           /\ \E b \in Boards :
                \/ /\ QueueKept /\ writerFailed' = writerFailed
                   /\ \/ Acquire(b) \/ ReaderExit(b) \/ ReaderReadBegin(b) \/ ReaderReadEnd(b)
                      \/ ReaderSubmit(b) \/ DecoderPop(b) \/ DecoderDecode(b)
                \/ ReaderPush(b) /\ writerFailed' = writerFailed
<1>1. UNCHANGED mainVars /\ UNCHANGED writerVars
  OBVIOUS
<1>2. PICK b \in Boards : \/ Acquire(b) \/ Reader(b) \/ Decoder(b)
  BY Zenon DEF RunnerStep
<1>3. /\ Acquire(b) => UNCHANGED <<link, queueVars, writerFailed>>
      /\ ReaderExit(b) => UNCHANGED <<link, queueVars, writerFailed>>
      /\ ReaderReadBegin(b) => UNCHANGED <<queueVars, writerFailed>>
      /\ ReaderReadEnd(b) => UNCHANGED <<queueVars, writerFailed>>
      /\ ReaderPush(b) => UNCHANGED <<link, writerFailed>>
      /\ ReaderSubmit(b) => UNCHANGED <<link, queueVars, writerFailed>>
      /\ DecoderPop(b) => UNCHANGED <<link, queueVars, writerFailed>>
      /\ DecoderDecode(b) => UNCHANGED <<link, queueVars, writerFailed>>
  BY Zenon
     DEF Acquire, ReaderExit, ReaderReadBegin, ReaderReadEnd, ReaderPush, ReaderSubmit,
         DecoderPop, DecoderDecode
<1>4. /\ UNCHANGED <<link, queueVars, writerFailed>> => /\ UNCHANGED queueVars
                                                        /\ writerFailed' = writerFailed
      /\ UNCHANGED <<queueVars, writerFailed>> => /\ UNCHANGED queueVars
                                                  /\ writerFailed' = writerFailed
      /\ UNCHANGED <<link, writerFailed>> => writerFailed' = writerFailed
  OBVIOUS
<1>5. /\ Acquire(b) => QueueKept /\ writerFailed' = writerFailed
      /\ ReaderExit(b) => QueueKept /\ writerFailed' = writerFailed
      /\ ReaderReadBegin(b) => QueueKept /\ writerFailed' = writerFailed
      /\ ReaderReadEnd(b) => QueueKept /\ writerFailed' = writerFailed
      /\ ReaderPush(b) => writerFailed' = writerFailed
      /\ ReaderSubmit(b) => QueueKept /\ writerFailed' = writerFailed
      /\ DecoderPop(b) => QueueKept /\ writerFailed' = writerFailed
      /\ DecoderDecode(b) => QueueKept /\ writerFailed' = writerFailed
  BY <1>3, <1>4, KeptOneByOne, Zenon
<1>6. MainKept /\ writer' = writer /\ FileKept
  BY <1>1, KeptOneByOne, Zenon DEF MainKept
<1> QED BY <1>2, <1>5, <1>6, Zenon DEF Reader, Decoder

(* The calling thread stays on the lines and the boards of its loops. *)
LEMMA CallStep ==
    ASSUME Base, Next
    PROVE  call' \in CallState /\ Positions'
<1> USE DEF Positions, Looping, Unwinding, To, ToUnwind, ToNext, Boards
<1>1. CallStart => call' \in CallState /\ Positions'
  BY CallStartEffect, CallTypes, BoardsAssumption DEF Base
<1>2. CallStop => call' \in CallState /\ Positions'
  BY CallStopEffect, CallTypes, BoardsAssumption DEF Base
<1>3. PrepareBoard => call' \in CallState /\ Positions'
  BY PrepareBoardEffect, CallTypes, BoardsAssumption DEF Base
<1>4. PrepareFile => call' \in CallState /\ Positions'
  BY PrepareFileEffect, CallTypes, BoardsAssumption DEF Base
<1>5. Launch => call' \in CallState /\ Positions'
  <2>1. Launch => To("arm", 1)
    BY LaunchEffect DEF Base
  <2>2. 1 \in Boards
    BY BoardsAssumption
  <2> QED BY <2>1, <2>2
<1>6. ArmBoard => call' \in CallState /\ Positions'
  <2>1. ArmBoard => \E b \in Boards : \/ To("trigger", 1)
                                      \/ b # NBoards /\ To("arm", b + 1)
                                      \/ ToUnwind(b)
    BY ArmBoardEffect, Zenon
  <2>2. \A b \in Boards : /\ b # NBoards => b + 1 \in Boards
                          /\ 1 \in Boards /\ 1 <= b
    BY BoardsAssumption
  <2> HIDE DEF Boards
  <2> QED BY <2>1, <2>2
<1>7. SendSWTrigger => call' \in CallState /\ Positions'
  BY SendSWTriggerEffect, CallTypes, BoardsAssumption DEF Base
<1>8. StartReaders => call' \in CallState /\ Positions'
  <2>1. StartReaders => \E b \in Boards : \/ To("idle", b)
                                          \/ b # NBoards /\ To("readers", b + 1)
    BY StartReadersEffect, Zenon
  <2>2. \A b \in Boards : b # NBoards => b + 1 \in Boards
    BY BoardsAssumption
  <2> HIDE DEF Boards
  <2> QED BY <2>1, <2>2
<1>9. Halt => call' \in CallState /\ Positions'
  BY HaltEffect, CallTypes, BoardsAssumption DEF Base
<1>10. JoinReader => call' \in CallState /\ Positions'
  BY JoinReaderEffect, CallTypes, BoardsAssumption DEF Base
<1>11. DrainRead => call' \in CallState /\ Positions'
  BY DrainReadEffect, CallTypes, BoardsAssumption DEF Base
<1>12. DrainPush => call' \in CallState /\ Positions'
  BY DrainPushEffect, CallTypes, BoardsAssumption DEF Base
<1>13. DrainSubmit => call' \in CallState /\ Positions'
  BY DrainSubmitEffect, CallTypes, BoardsAssumption DEF Base
<1>14. DrainEnd => call' \in CallState /\ Positions'
  BY DrainEndEffect, CallTypes, BoardsAssumption DEF Base
<1>15. DecodeStop => call' \in CallState /\ Positions'
  BY DecodeStopEffect, CallTypes, BoardsAssumption DEF Base
<1>16. DecodeJoin => call' \in CallState /\ Positions'
  BY DecodeJoinEffect, CallTypes, BoardsAssumption DEF Base
<1>17. Release => call' \in CallState /\ Positions'
  BY ReleaseEffect, CallTypes, BoardsAssumption DEF Base
<1>18. CloseQueue => call' \in CallState /\ Positions'
  BY CloseQueueEffect, CallTypes, BoardsAssumption DEF Base
<1>19. JoinWriter => call' \in CallState /\ Positions'
  BY JoinWriterEffect, CallTypes, BoardsAssumption DEF Base
<1>20. CASE Writer
  <2>1. call' = call
    BY <1>20, WriterPopEffect, WriterWriteEffect, WriterIdleEffect, WriterExitEffect, Zenon
       DEF Writer, BoardsKept, MainKept
  <2> QED BY <2>1 DEF Base
<1>21. CASE RunnerStep /\ UNCHANGED <<mainVars, writerVars>>
  <2>1. call' = call
    BY <1>21, RunnerStepCases, Zenon DEF MainKept
  <2> QED BY <2>1 DEF Base
<1> QED BY <1>1, <1>2, <1>3, <1>4, <1>5, <1>6, <1>7, <1>8, <1>9, <1>10, <1>11, <1>12, <1>13,
           <1>14, <1>15, <1>16, <1>17, <1>18, <1>19, <1>20, <1>21, Zenon DEF Next, MainStep

(* A step that changes one board keeps the others typed. *)
LEMMA BookedAfter ==
    ASSUME BoardsTyped, NEW b \in Boards, NEW F, Changes(b, F),
           board'[b].buffersRead + board'[b].mem <= board'[b].made
    PROVE  BoardsTyped'
BY DEF BoardsTyped, Changes

(* The boards stay in their type, and what is read was filled. *)
LEMMA BoardsStep ==
    ASSUME Base, Next
    PROVE  BoardsTyped'
<1>1. CallStart => BoardsTyped'
  BY CallStartEffect DEF Base, BoardsTyped, BoardState
<1>2. CallStop => BoardsTyped'
  BY CallStopEffect DEF Still, Base, BoardsTyped, BoardState
<1>3. PrepareBoard => BoardsTyped'
  BY PrepareBoardEffect DEF Changes, Fields, Still, Base, BoardsTyped, BoardState
<1>4. PrepareFile => BoardsTyped'
  BY PrepareFileEffect DEF Base, BoardsTyped, BoardState
<1>5. Launch => BoardsTyped'
  BY LaunchEffect DEF Base, BoardsTyped, BoardState
<1>6. ArmBoard => BoardsTyped'
  <2>1. ArmBoard => \/ board' = board
                    \/ \E b \in Boards : /\ Changes(b, {"running", "hw", "mem"})
                                         /\ board'[b].mem = 0
    BY ArmBoardEffect, Zenon
  <2>2. ASSUME NEW b \in Boards, Changes(b, {"running", "hw", "mem"}), board'[b].mem = 0
        PROVE  BoardsTyped'
    <3>1. board'[b].buffersRead = board[b].buffersRead /\ board'[b].made = board[b].made
      BY <2>2 DEF Changes, Fields
    <3>2. board'[b].buffersRead + board'[b].mem <= board'[b].made
      BY <2>2, <3>1, FieldTypes DEF Base
    <3> QED BY <2>2, <3>2, BookedAfter DEF Base
  <2> QED BY <2>1, <2>2, Zenon DEF Base, BoardsTyped
<1>7. SendSWTrigger => BoardsTyped'
  BY SendSWTriggerEffect DEF Fields, Still, Base, BoardsTyped, BoardState
<1>8. StartReaders => BoardsTyped'
  <2>1. StartReaders => \/ board' = board
                        \/ \E b \in Boards : Changes(b, {"reader", "decoding", "decoder"})
    BY StartReadersEffect, Zenon
  <2> QED BY <2>1 DEF Changes, Fields, Base, BoardsTyped, BoardState
<1>9. Halt => BoardsTyped'
  BY HaltEffect DEF Changes, Fields, Still, Base, BoardsTyped, BoardState
<1>10. JoinReader => BoardsTyped'
  BY JoinReaderEffect DEF Changes, Fields, Still, Base, BoardsTyped, BoardState
<1>11. DrainRead => BoardsTyped'
  BY DrainReadEffect DEF Changes, Fields, Still, Base, BoardsTyped, BoardState
<1>12. DrainPush => BoardsTyped'
  BY DrainPushEffect DEF Changes, Fields, Base, BoardsTyped, BoardState
<1>13. DrainSubmit => BoardsTyped'
  BY DrainSubmitEffect DEF Changes, Fields, Still, Base, BoardsTyped, BoardState
<1>14. DrainEnd => BoardsTyped'
  BY DrainEndEffect DEF Still, Base, BoardsTyped, BoardState
<1>15. DecodeStop => BoardsTyped'
  BY DecodeStopEffect DEF Changes, Fields, Still, Base, BoardsTyped, BoardState
<1>16. DecodeJoin => BoardsTyped'
  BY DecodeJoinEffect DEF Changes, Fields, Still, Base, BoardsTyped, BoardState
<1>17. Release => BoardsTyped'
  BY ReleaseEffect DEF Changes, Fields, Still, Base, BoardsTyped, BoardState
<1>18. CloseQueue => BoardsTyped'
  BY CloseQueueEffect DEF Base, BoardsTyped, BoardState
<1>19. JoinWriter => BoardsTyped'
  BY JoinWriterEffect DEF Base, BoardsTyped, BoardState
<1>20. CASE Writer
  <2>1. call' = call /\ board' = board /\ DaqKept
    BY <1>20, WriterPopEffect, WriterWriteEffect, WriterIdleEffect, WriterExitEffect, Zenon
       DEF Writer, BoardsKept, MainKept
  <2> QED BY <2>1 DEF Base, BoardsTyped, BoardState
<1>21. CASE RunnerStep /\ UNCHANGED <<mainVars, writerVars>>
  <2>1. call' = call /\ DaqKept
    BY <1>21, RunnerStepCases, Zenon DEF MainKept
  <2>2. ASSUME NEW b \in Boards, Acquire(b) PROVE BoardsTyped'
    BY <2>1, <2>2, AcquireEffect DEF Changes, Fields, Base, BoardsTyped, BoardState
  <2>3. ASSUME NEW b \in Boards, ReaderExit(b) PROVE BoardsTyped'
    BY <2>1, <2>3, ReaderExitEffect DEF Changes, Fields, Base, BoardsTyped, BoardState
  <2>4. ASSUME NEW b \in Boards, ReaderReadBegin(b) PROVE BoardsTyped'
    BY <2>1, <2>4, ReaderReadBeginEffect DEF Changes, Fields, Base, BoardsTyped, BoardState
  <2>5. ASSUME NEW b \in Boards, ReaderReadEnd(b) PROVE BoardsTyped'
    BY <2>1, <2>5, ReaderReadEndEffect DEF Changes, Fields, Base, BoardsTyped, BoardState
  <2>6. ASSUME NEW b \in Boards, ReaderPush(b) PROVE BoardsTyped'
    BY <2>1, <2>6, ReaderPushEffect DEF Changes, Fields, Base, BoardsTyped, BoardState
  <2>7. ASSUME NEW b \in Boards, ReaderSubmit(b) PROVE BoardsTyped'
    BY <2>1, <2>7, ReaderSubmitEffect DEF Changes, Fields, Base, BoardsTyped, BoardState
  <2>8. ASSUME NEW b \in Boards, DecoderPop(b) PROVE BoardsTyped'
    BY <2>1, <2>8, DecoderPopEffect DEF Changes, Fields, Base, BoardsTyped, BoardState
  <2>9. ASSUME NEW b \in Boards, DecoderDecode(b) PROVE BoardsTyped'
    BY <2>1, <2>9, DecoderDecodeEffect DEF Changes, Fields, Base, BoardsTyped, BoardState
  <2> QED BY <1>21, <2>2, <2>3, <2>4, <2>5, <2>6, <2>7, <2>8, <2>9, RunnerStepCases, Zenon
<1> QED BY <1>1, <1>2, <1>3, <1>4, <1>5, <1>6, <1>7, <1>8, <1>9, <1>10, <1>11,
           <1>12, <1>13, <1>14, <1>15, <1>16, <1>17, <1>18, <1>19, <1>20, <1>21,
           Zenon DEF Next, MainStep

(* What is dispatched is what was read last. *)
LEMMA HandsStep ==
    ASSUME Base, Settled, Next
    PROVE  HandsSound'
<1>1. CallStart => HandsSound'
  BY CallStartEffect DEF Base, HandsSound, Settled, Stopping, To, Unwinding, Looping, Positions
<1>2. CallStop => HandsSound'
  BY CallStopEffect
     DEF Still, Base, HandsSound, Settled, Stopping, ToUnwind, Unwinding, Looping, Positions
<1>3. PrepareBoard => HandsSound'
  BY PrepareBoardEffect
     DEF Changes, Fields, Still, Base, HandsSound, Settled, Stopping, To, Unwinding, Looping,
         Positions
<1>4. PrepareFile => HandsSound'
  BY PrepareFileEffect
     DEF Base, HandsSound, Settled, Stopping, To, Unwinding, Looping, Positions
<1>5. Launch => HandsSound'
  BY LaunchEffect DEF Base, HandsSound, Settled, Stopping, To, Unwinding, Looping, Positions
<1>6. ArmBoard => HandsSound'
  <2>1. ArmBoard => /\ call'.at # "drainPush"
                    /\ \/ board' = board
                       \/ \E b \in Boards : Changes(b, {"running", "hw", "mem"})
    BY ArmBoardEffect DEF To, ToUnwind
  <2> QED BY <2>1 DEF Changes, Fields, Base, HandsSound
<1>7. SendSWTrigger => HandsSound'
  BY SendSWTriggerEffect
     DEF Fields, Still, Base, HandsSound, Settled, Stopping, To, ToUnwind, Unwinding, Looping,
         Positions
<1>8. StartReaders => HandsSound'
  <2>1. StartReaders => /\ call'.at # "drainPush"
                        /\ \/ board' = board
                           \/ \E b \in Boards : /\ Changes(b, {"reader", "decoding", "decoder"})
                                                /\ board'[b].reader = "check"
    BY StartReadersEffect DEF To
  <2> QED BY <2>1 DEF Changes, Fields, Base, HandsSound
<1>9. Halt => HandsSound'
  BY HaltEffect
     DEF Changes, Fields, Still, Base, HandsSound, Settled, Stopping, To, ToNext, Unwinding,
         Looping, Positions
<1>10. JoinReader => HandsSound'
  BY JoinReaderEffect
     DEF Changes, Fields, Still, Base, HandsSound, Settled, Stopping, Unwinding, Looping,
         Positions
<1>11. DrainRead => HandsSound'
  <2>1. SUFFICES ASSUME DrainRead PROVE HandsSound'
    OBVIOUS
  <2>2. PICK b \in Boards : /\ call.at = "drain" /\ b = call.idx
                           /\ Changes(b, {"mem", "buffersRead"})
                           /\ board'[b].buffersRead = board[b].buffersRead + 1
                           /\ call'.at = "drainPush" /\ call'.idx = b
                           /\ call'.hand = <<b, board[b].buffersRead + 1>>
    BY <2>1, DrainReadEffect, Zenon
  <2>3. board[b].reader = "none" /\ board'[b].reader = "none"
    BY <2>2 DEF Settled, Stopping, Unwinding, Looping, Changes, Fields
  <2>4. board'[b].buffersRead > 0
    BY <2>2, FieldTypes DEF Base
  <2> QED BY <2>2, <2>3, <2>4 DEF Changes, Fields, Base, HandsSound
<1>12. DrainPush => HandsSound'
  BY DrainPushEffect
     DEF Changes, Fields, Base, HandsSound, Settled, Stopping, Unwinding, Looping, Positions
<1>13. DrainSubmit => HandsSound'
  BY DrainSubmitEffect
     DEF Changes, Fields, Still, Base, HandsSound, Settled, Stopping, To, Unwinding, Looping,
         Positions
<1>14. DrainEnd => HandsSound'
  BY DrainEndEffect
     DEF Still, Base, HandsSound, Settled, Stopping, To, Unwinding, Looping, Positions
<1>15. DecodeStop => HandsSound'
  BY DecodeStopEffect
     DEF Changes, Fields, Still, Base, HandsSound, Settled, Stopping, To, Unwinding, Looping,
         Positions
<1>16. DecodeJoin => HandsSound'
  BY DecodeJoinEffect
     DEF Changes, Fields, Still, Base, HandsSound, Settled, Stopping, To, Unwinding, Looping,
         Positions
<1>17. Release => HandsSound'
  BY ReleaseEffect
     DEF Changes, Fields, Still, Base, HandsSound, Settled, Stopping, To, ToNext, Unwinding,
         Looping, Positions
<1>18. CloseQueue => HandsSound'
  BY CloseQueueEffect DEF Base, HandsSound, Settled, Stopping, To, Unwinding, Looping, Positions
<1>19. JoinWriter => HandsSound'
  <2>1. JoinWriter => board' = board /\ call'.at = "idle"
    BY JoinWriterEffect DEF To
  <2> QED BY <2>1 DEF Base, HandsSound
<1>20. CASE Writer
  <2>1. call' = call /\ board' = board /\ DaqKept
    BY <1>20, WriterPopEffect, WriterWriteEffect, WriterIdleEffect, WriterExitEffect, Zenon
       DEF Writer, BoardsKept, MainKept
  <2> QED BY <2>1 DEF Base, HandsSound, Settled, Stopping, Unwinding, Looping, Positions
<1>21. CASE RunnerStep /\ UNCHANGED <<mainVars, writerVars>>
  <2>1. call' = call /\ DaqKept
    BY <1>21, RunnerStepCases, Zenon DEF MainKept
  <2>2. ASSUME NEW b \in Boards, Acquire(b) PROVE HandsSound'
    BY <2>1, <2>2, AcquireEffect
       DEF Changes, Fields, Base, HandsSound, Settled, Stopping, Unwinding, Looping, Positions
  <2>3. ASSUME NEW b \in Boards, ReaderExit(b) PROVE HandsSound'
    BY <2>1, <2>3, ReaderExitEffect
       DEF Changes, Fields, Base, HandsSound, Settled, Stopping, Unwinding, Looping, Positions
  <2>4. ASSUME NEW b \in Boards, ReaderReadBegin(b) PROVE HandsSound'
    BY <2>1, <2>4, ReaderReadBeginEffect
       DEF Changes, Fields, Base, HandsSound, Settled, Stopping, Unwinding, Looping, Positions
  <2>5. ASSUME NEW b \in Boards, ReaderReadEnd(b) PROVE HandsSound'
    <3>1. board[b].reader = "reading"
      BY <2>5, ReaderReadEndEffect, Zenon
    <3>2. call.at = "drainPush" => b # call.idx
      BY <3>1 DEF Settled, Stopping, Unwinding, Looping
    <3>3. call.at = "drainPush" => call.idx \in Boards
      BY DEF Base, Positions, Looping
    <3>4. CASE /\ Changes(b, {"mem", "buffersRead", "hand", "reader"})
               /\ board'[b].buffersRead = board[b].buffersRead + 1
               /\ board'[b].hand = <<b, board[b].buffersRead + 1>>
      <4>1. board'[b].buffersRead > 0
        BY <3>4, FieldTypes DEF Base
      <4> QED BY <2>1, <3>2, <3>3, <3>4, <4>1 DEF Changes, Fields, Base, HandsSound
    <3>5. CASE Changes(b, {"commErrors", "reader"}) /\ board'[b].reader = "check"
      BY <2>1, <3>3, <3>5 DEF Changes, Fields, Base, HandsSound
    <3> QED BY <2>5, <3>4, <3>5, ReaderReadEndEffect, Zenon
  <2>6. ASSUME NEW b \in Boards, ReaderPush(b) PROVE HandsSound'
    BY <2>1, <2>6, ReaderPushEffect
       DEF Changes, Fields, Base, HandsSound, Settled, Stopping, Unwinding, Looping, Positions
  <2>7. ASSUME NEW b \in Boards, ReaderSubmit(b) PROVE HandsSound'
    BY <2>1, <2>7, ReaderSubmitEffect
       DEF Changes, Fields, Base, HandsSound, Settled, Stopping, Unwinding, Looping, Positions
  <2>8. ASSUME NEW b \in Boards, DecoderPop(b) PROVE HandsSound'
    BY <2>1, <2>8, DecoderPopEffect
       DEF Changes, Fields, Base, HandsSound, Settled, Stopping, Unwinding, Looping, Positions
  <2>9. ASSUME NEW b \in Boards, DecoderDecode(b) PROVE HandsSound'
    BY <2>1, <2>9, DecoderDecodeEffect
       DEF Changes, Fields, Base, HandsSound, Settled, Stopping, Unwinding, Looping, Positions
  <2> QED BY <1>21, <2>2, <2>3, <2>4, <2>5, <2>6, <2>7, <2>8, <2>9, RunnerStepCases, Zenon
<1> QED BY <1>1, <1>2, <1>3, <1>4, <1>5, <1>6, <1>7, <1>8, <1>9, <1>10, <1>11,
           <1>12, <1>13, <1>14, <1>15, <1>16, <1>17, <1>18, <1>19, <1>20, <1>21,
           Zenon DEF Next, MainStep

(* A board stays running, being stopped, or quiet. *)
LEMMA SettledStep ==
    ASSUME Base, Settled, UpAndDown, Fresh, Next
    PROVE  Settled'
<1>1. CallStart => Settled'
  BY CallStartEffect
     DEF Base, Settled, UpAndDown, Quiet, Stopping, To, Unwinding, Looping, Positions
<1>2. CallStop => Settled'
  BY CallStopEffect
     DEF Still, Base, Settled, UpAndDown, Quiet, Stopping, ToUnwind, Unwinding, Looping,
         Positions
<1>3. PrepareBoard => Settled'
  <2>1. SUFFICES ASSUME PrepareBoard PROVE Settled'
    OBVIOUS
  <2>2. call.at = "prepare" /\ call'.at \notin Unwinding
    BY <2>1, PrepareBoardEffect DEF To, Unwinding, Looping
  <2>3. \A b \in Boards : board[b].hw = "idle"
    BY <2>2 DEF Fresh
  <2>4. board' = board \/ \E b \in Boards : Changes(b, {"open"})
    BY <2>1, PrepareBoardEffect, Zenon
  <2> QED BY <2>2, <2>3, <2>4
             DEF Changes, Fields, Settled, Quiet, Stopping, Unwinding, Looping
<1>4. PrepareFile => Settled'
  BY PrepareFileEffect
     DEF Base, Settled, UpAndDown, Quiet, Stopping, To, Unwinding, Looping, Positions
<1>5. Launch => Settled'
  BY LaunchEffect
     DEF Base, Settled, UpAndDown, Quiet, Stopping, To, Unwinding, Looping, Positions
<1>6. ArmBoard => Settled'
  <2>1. SUFFICES ASSUME ArmBoard PROVE Settled'
    OBVIOUS
  <2>2. call.at = "arm" /\ (call'.at = "halt" \/ call'.at \notin Unwinding)
    BY <2>1, ArmBoardEffect DEF To, ToUnwind, Unwinding, Looping
  <2>3. \/ board' = board
        \/ \E b \in Boards : Changes(b, {"running", "hw", "mem"}) /\ board'[b].running
    BY <2>1, ArmBoardEffect, Zenon
  <2> QED BY <2>2, <2>3 DEF Changes, Fields, Settled, Quiet, Stopping, Unwinding, Looping
<1>7. SendSWTrigger => Settled'
  BY SendSWTriggerEffect
     DEF Fields, Still, Base, Settled, UpAndDown, Quiet, Stopping, To, ToUnwind, Unwinding,
         Looping, Positions
<1>8. StartReaders => Settled'
  <2>1. SUFFICES ASSUME StartReaders PROVE Settled'
    OBVIOUS
  <2>2. call.at = "readers" /\ call'.at \notin Unwinding
    BY <2>1, StartReadersEffect DEF To, Unwinding, Looping
  <2>3. \/ board' = board
        \/ \E b \in Boards :
             /\ b = call.idx
             /\ Changes(b, {"reader", "decoding", "decoder"})
             /\ board'[b].decoding = (board[b].decoding \/ b \in Decoders)
             /\ board'[b].decoder = IF b \in Decoders /\ ~board[b].decoding
                                    THEN "loop" ELSE board[b].decoder
    BY <2>1, StartReadersEffect, Zenon
  <2>4. \A b \in Boards : board[b].running
    BY <2>2 DEF UpAndDown
  <2>5. \A b \in Boards : ~Stopping(b)'
    BY <2>2 DEF Stopping
  <2>6. \A b \in Boards : board[b].decoder # "none" => board[b].decoding
    BY <2>2 DEF Settled, Stopping, Unwinding, Looping
  <2>7. \A b \in Boards : /\ board'[b].running
                          /\ board'[b].decoder # "none" => board'[b].decoding
    BY <2>3, <2>4, <2>6 DEF Changes, Fields
  <2> QED BY <2>5, <2>7, Zenon DEF Settled
<1>9. Halt => Settled'
  BY HaltEffect
     DEF Changes, Fields, Still, Base, Settled, UpAndDown, Quiet, Stopping, To, ToNext,
         Unwinding, Looping, Positions
<1>10. JoinReader => Settled'
  BY JoinReaderEffect
     DEF Changes, Fields, Still, Base, Settled, UpAndDown, Quiet, Stopping, Unwinding, Looping,
         Positions
<1>11. DrainRead => Settled'
  BY DrainReadEffect
     DEF Changes, Fields, Still, Base, Settled, UpAndDown, Quiet, Stopping, Unwinding, Looping,
         Positions
<1>12. DrainPush => Settled'
  BY DrainPushEffect
     DEF Changes, Fields, Base, Settled, UpAndDown, Quiet, Stopping, Unwinding, Looping,
         Positions
<1>13. DrainSubmit => Settled'
  BY DrainSubmitEffect
     DEF Changes, Fields, Still, Base, Settled, UpAndDown, Quiet, Stopping, To, Unwinding,
         Looping, Positions
<1>14. DrainEnd => Settled'
  BY DrainEndEffect
     DEF Still, Base, Settled, UpAndDown, Quiet, Stopping, To, Unwinding, Looping, Positions
<1>15. DecodeStop => Settled'
  BY DecodeStopEffect
     DEF Changes, Fields, Still, Base, Settled, UpAndDown, Quiet, Stopping, To, Unwinding,
         Looping, Positions
<1>16. DecodeJoin => Settled'
  BY DecodeJoinEffect
     DEF Changes, Fields, Still, Base, Settled, UpAndDown, Quiet, Stopping, To, Unwinding,
         Looping, Positions
<1>17. Release => Settled'
  BY ReleaseEffect
     DEF Changes, Fields, Still, Base, Settled, UpAndDown, Quiet, Stopping, To, ToNext,
         Unwinding, Looping, Positions
<1>18. CloseQueue => Settled'
  BY CloseQueueEffect
     DEF Base, Settled, UpAndDown, Quiet, Stopping, To, Unwinding, Looping, Positions
<1>19. JoinWriter => Settled'
  BY JoinWriterEffect
     DEF Base, Settled, UpAndDown, Quiet, Stopping, To, Unwinding, Looping, Positions
<1>20. CASE Writer
  <2>1. call' = call /\ board' = board /\ DaqKept
    BY <1>20, WriterPopEffect, WriterWriteEffect, WriterIdleEffect, WriterExitEffect, Zenon
       DEF Writer, BoardsKept, MainKept
  <2> QED BY <2>1 DEF Base, Settled, UpAndDown, Quiet, Stopping, Unwinding, Looping, Positions
<1>21. CASE RunnerStep /\ UNCHANGED <<mainVars, writerVars>>
  <2>1. call' = call /\ DaqKept
    BY <1>21, RunnerStepCases, Zenon DEF MainKept
  <2>2. ASSUME NEW b \in Boards, Acquire(b) PROVE Settled'
    BY <2>1, <2>2, AcquireEffect
       DEF Changes, Fields, Base, Settled, UpAndDown, Quiet, Stopping, Unwinding, Looping,
           Positions
  <2>3. ASSUME NEW b \in Boards, ReaderExit(b) PROVE Settled'
    BY <2>1, <2>3, ReaderExitEffect
       DEF Changes, Fields, Base, Settled, UpAndDown, Quiet, Stopping, Unwinding, Looping,
           Positions
  <2>4. ASSUME NEW b \in Boards, ReaderReadBegin(b) PROVE Settled'
    BY <2>1, <2>4, ReaderReadBeginEffect
       DEF Changes, Fields, Base, Settled, UpAndDown, Quiet, Stopping, Unwinding, Looping,
           Positions
  <2>5. ASSUME NEW b \in Boards, ReaderReadEnd(b) PROVE Settled'
    BY <2>1, <2>5, ReaderReadEndEffect
       DEF Changes, Fields, Base, Settled, UpAndDown, Quiet, Stopping, Unwinding, Looping,
           Positions
  <2>6. ASSUME NEW b \in Boards, ReaderPush(b) PROVE Settled'
    BY <2>1, <2>6, ReaderPushEffect
       DEF Changes, Fields, Base, Settled, UpAndDown, Quiet, Stopping, Unwinding, Looping,
           Positions
  <2>7. ASSUME NEW b \in Boards, ReaderSubmit(b) PROVE Settled'
    BY <2>1, <2>7, ReaderSubmitEffect
       DEF Changes, Fields, Base, Settled, UpAndDown, Quiet, Stopping, Unwinding, Looping,
           Positions
  <2>8. ASSUME NEW b \in Boards, DecoderPop(b) PROVE Settled'
    BY <2>1, <2>8, DecoderPopEffect
       DEF Changes, Fields, Base, Settled, UpAndDown, Quiet, Stopping, Unwinding, Looping,
           Positions
  <2>9. ASSUME NEW b \in Boards, DecoderDecode(b) PROVE Settled'
    BY <2>1, <2>9, DecoderDecodeEffect
       DEF Changes, Fields, Base, Settled, UpAndDown, Quiet, Stopping, Unwinding, Looping,
           Positions
  <2> QED BY <1>21, <2>2, <2>3, <2>4, <2>5, <2>6, <2>7, <2>8, <2>9, RunnerStepCases, Zenon
<1> QED BY <1>1, <1>2, <1>3, <1>4, <1>5, <1>6, <1>7, <1>8, <1>9, <1>10, <1>11,
           <1>12, <1>13, <1>14, <1>15, <1>16, <1>17, <1>18, <1>19, <1>20, <1>21,
           Zenon DEF Next, MainStep

(* What is up is taken down, in order. *)
LEMMA UpAndDownStep ==
    ASSUME Base, Settled, UpAndDown, Next
    PROVE  UpAndDown'
<1>1. CallStart => UpAndDown'
  BY CallStartEffect DEF Base, UpAndDown, Boards, To, Unwinding, Looping, Positions
<1>2. CallStop => UpAndDown'
  BY CallStopEffect
     DEF Still, DaqKept, Base, UpAndDown, Boards, ToUnwind, Unwinding, Looping, Positions
<1>3. PrepareBoard => UpAndDown'
  BY PrepareBoardEffect
     DEF Changes, Fields, Still, DaqKept, Base, UpAndDown, Boards, To, Unwinding, Looping,
         Positions
<1>4. PrepareFile => UpAndDown'
  BY PrepareFileEffect DEF Base, UpAndDown, Boards, To, Unwinding, Looping, Positions
<1>5. Launch => UpAndDown'
  <2>1. Launch => /\ call.at = "launch" /\ call'.at = "arm" /\ call'.idx = 1
                  /\ board' = board
    BY LaunchEffect DEF To
  <2>2. \A b \in Boards : ~(b < 1)
    BY DEF Boards
  <2> QED BY <2>1, <2>2 DEF UpAndDown
<1>6. ArmBoard => UpAndDown'
  <2>1. SUFFICES ASSUME ArmBoard PROVE UpAndDown'
    OBVIOUS
  <2>2. PICK b \in Boards :
          /\ call.at = "arm" /\ b = call.idx
          /\ \/ /\ Changes(b, {"running", "hw", "mem"}) /\ board'[b].running = TRUE
                /\ \/ b = NBoards /\ To("trigger", 1)
                   \/ b # NBoards /\ To("arm", b + 1)
             \/ board' = board /\ ToUnwind(b)
    BY <2>1, ArmBoardEffect, Zenon
  <2>3. \A c \in Boards : board[c].running <=> c < b
    BY <2>2 DEF UpAndDown
  <2>4. CASE /\ Changes(b, {"running", "hw", "mem"}) /\ board'[b].running = TRUE
             /\ \/ b = NBoards /\ To("trigger", 1)
                \/ b # NBoards /\ To("arm", b + 1)
    <3>1. \A c \in Boards : board'[c].running <=> c <= b
      BY <2>3, <2>4 DEF Changes, Boards
    <3>2. CASE b = NBoards /\ To("trigger", 1)
      <4>1. \A c \in Boards : board'[c].running
        BY <3>1, <3>2 DEF Boards
      <4>2. call'.at = "trigger"
        BY <3>2 DEF To
      <4> QED BY <4>1, <4>2 DEF UpAndDown, Unwinding, Looping
    <3>3. CASE To("arm", b + 1)
      <4>1. call'.at = "arm" /\ call'.idx = b + 1
        BY <3>3 DEF To
      <4>2. \A c \in Boards : board'[c].running <=> c < call'.idx
        BY <3>1, <4>1 DEF Boards
      <4> QED BY <4>1, <4>2 DEF UpAndDown, Unwinding, Looping
    <3> QED BY <2>4, <3>2, <3>3, Zenon
  <2>5. CASE board' = board /\ ToUnwind(b)
    <3>1. call'.at = "halt" /\ call'.idx = 1 /\ call'.upto = b
      BY <2>5 DEF ToUnwind
    <3>2. \A c \in Boards : board'[c].running => 1 <= c /\ c <= b
      BY <2>3, <2>5 DEF Boards
    <3> QED BY <3>1, <3>2 DEF UpAndDown, Unwinding, Looping
  <2> QED BY <2>2, <2>4, <2>5, Zenon
<1>7. SendSWTrigger => UpAndDown'
  BY SendSWTriggerEffect
     DEF Fields, Still, DaqKept, Base, UpAndDown, Boards, To, ToUnwind, Unwinding, Looping,
         Positions
<1>8. StartReaders => UpAndDown'
  BY StartReadersEffect
     DEF Changes, Fields, Base, UpAndDown, Boards, To, Unwinding, Looping, Positions
<1>9. Halt => UpAndDown'
  BY HaltEffect
     DEF Changes, Fields, Still, DaqKept, Base, UpAndDown, Boards, To, ToNext, Unwinding,
         Looping, Positions
<1>10. JoinReader => UpAndDown'
  BY JoinReaderEffect
     DEF Changes, Fields, Still, DaqKept, Base, UpAndDown, Boards, Unwinding, Looping, Positions
<1>11. DrainRead => UpAndDown'
  BY DrainReadEffect
     DEF Changes, Fields, Still, DaqKept, Base, UpAndDown, Boards, Unwinding, Looping, Positions
<1>12. DrainPush => UpAndDown'
  BY DrainPushEffect
     DEF Changes, Fields, DaqKept, Base, UpAndDown, Boards, Unwinding, Looping, Positions
<1>13. DrainSubmit => UpAndDown'
  BY DrainSubmitEffect
     DEF Changes, Fields, Still, DaqKept, Base, UpAndDown, Boards, To, Unwinding, Looping,
         Positions
<1>14. DrainEnd => UpAndDown'
  BY DrainEndEffect
     DEF Still, DaqKept, Base, UpAndDown, Boards, To, Unwinding, Looping, Positions
<1>15. DecodeStop => UpAndDown'
  BY DecodeStopEffect
     DEF Changes, Fields, Still, DaqKept, Base, UpAndDown, Boards, To, Unwinding, Looping,
         Positions
<1>16. DecodeJoin => UpAndDown'
  BY DecodeJoinEffect
     DEF Changes, Fields, Still, DaqKept, Base, UpAndDown, Boards, To, Unwinding, Looping,
         Positions
<1>17. Release => UpAndDown'
  <2>1. SUFFICES ASSUME Release PROVE UpAndDown'
    OBVIOUS
  <2>2. PICK b \in Boards : /\ call.at = "release" /\ b = call.idx /\ ToNext
                           /\ Changes(b, {"open"})
    BY <2>1, ReleaseEffect, Zenon
  <2>3. \A c \in Boards : board'[c].running = board[c].running
    BY <2>2 DEF Changes, Fields
  <2>4. \A c \in Boards : board[c].running => c > b /\ c <= call.upto
    <3>1. ~board[b].running
      BY <2>2 DEF Settled, Stopping, Unwinding, Looping
    <3> QED BY <2>2, <3>1 DEF UpAndDown, Unwinding, Looping, Boards
  <2>5. \/ call'.at = "closeQueue" /\ b = call.upto
        \/ call'.at = "halt" /\ call'.idx = b + 1 /\ call'.upto = call.upto
    BY <2>2 DEF To, ToNext
  <2> QED BY <2>3, <2>4, <2>5 DEF UpAndDown, Boards, Unwinding, Looping
<1>18. CloseQueue => UpAndDown'
  BY CloseQueueEffect DEF DaqKept, Base, UpAndDown, Boards, To, Unwinding, Looping, Positions
<1>19. JoinWriter => UpAndDown'
  BY JoinWriterEffect DEF Base, UpAndDown, Boards, To, Unwinding, Looping, Positions
<1>20. CASE Writer
  <2>1. call' = call /\ board' = board /\ DaqKept
    BY <1>20, WriterPopEffect, WriterWriteEffect, WriterIdleEffect, WriterExitEffect, Zenon
       DEF Writer, BoardsKept, MainKept
  <2> QED BY <2>1 DEF DaqKept, Base, UpAndDown, Boards, Unwinding, Looping, Positions
<1>21. CASE RunnerStep /\ UNCHANGED <<mainVars, writerVars>>
  <2>1. call' = call /\ DaqKept
    BY <1>21, RunnerStepCases, Zenon DEF MainKept
  <2>2. ASSUME NEW b \in Boards, Acquire(b) PROVE UpAndDown'
    BY <2>1, <2>2, AcquireEffect
       DEF Changes, Fields, DaqKept, Base, UpAndDown, Boards, Unwinding, Looping, Positions
  <2>3. ASSUME NEW b \in Boards, ReaderExit(b) PROVE UpAndDown'
    BY <2>1, <2>3, ReaderExitEffect
       DEF Changes, Fields, DaqKept, Base, UpAndDown, Boards, Unwinding, Looping, Positions
  <2>4. ASSUME NEW b \in Boards, ReaderReadBegin(b) PROVE UpAndDown'
    BY <2>1, <2>4, ReaderReadBeginEffect
       DEF Changes, Fields, DaqKept, Base, UpAndDown, Boards, Unwinding, Looping, Positions
  <2>5. ASSUME NEW b \in Boards, ReaderReadEnd(b) PROVE UpAndDown'
    BY <2>1, <2>5, ReaderReadEndEffect
       DEF Changes, Fields, DaqKept, Base, UpAndDown, Boards, Unwinding, Looping, Positions
  <2>6. ASSUME NEW b \in Boards, ReaderPush(b) PROVE UpAndDown'
    BY <2>1, <2>6, ReaderPushEffect
       DEF Changes, Fields, DaqKept, Base, UpAndDown, Boards, Unwinding, Looping, Positions
  <2>7. ASSUME NEW b \in Boards, ReaderSubmit(b) PROVE UpAndDown'
    BY <2>1, <2>7, ReaderSubmitEffect
       DEF Changes, Fields, DaqKept, Base, UpAndDown, Boards, Unwinding, Looping, Positions
  <2>8. ASSUME NEW b \in Boards, DecoderPop(b) PROVE UpAndDown'
    BY <2>1, <2>8, DecoderPopEffect
       DEF Changes, Fields, DaqKept, Base, UpAndDown, Boards, Unwinding, Looping, Positions
  <2>9. ASSUME NEW b \in Boards, DecoderDecode(b) PROVE UpAndDown'
    BY <2>1, <2>9, DecoderDecodeEffect
       DEF Changes, Fields, DaqKept, Base, UpAndDown, Boards, Unwinding, Looping, Positions
  <2> QED BY <1>21, <2>2, <2>3, <2>4, <2>5, <2>6, <2>7, <2>8, <2>9, RunnerStepCases, Zenon
<1> QED BY <1>1, <1>2, <1>3, <1>4, <1>5, <1>6, <1>7, <1>8, <1>9, <1>10, <1>11,
           <1>12, <1>13, <1>14, <1>15, <1>16, <1>17, <1>18, <1>19, <1>20, <1>21,
           Zenon DEF Next, MainStep

(* A board's reader takes a buffer out of it, and an acquiring board makes   *)
(* one.                                                                      *)
LEMMA RunnerMem ==
    ASSUME Base, RunnerStep /\ UNCHANGED <<mainVars, writerVars>>
    PROVE  /\ call' = call
           /\ \E b \in Boards :
                /\ \A c \in Boards : c # b => board'[c] = board[c]
                /\ board'[b].hw = board[b].hw /\ board'[b].open = board[b].open
                /\ \/ board'[b].mem = board[b].mem /\ board'[b].made = board[b].made
                   \/ board[b].hw = "acquiring"
                   \/ /\ board[b].reader = "reading"
                      /\ board[b].mem > 0 /\ board'[b].mem = board[b].mem - 1
                      /\ board'[b].made = board[b].made
<1>1. call' = call
  BY RunnerStepCases, Zenon DEF MainKept
<1> DEFINE P(b) == /\ \A c \in Boards : c # b => board'[c] = board[c]
                   /\ board'[b].hw = board[b].hw /\ board'[b].open = board[b].open
                   /\ \/ board'[b].mem = board[b].mem /\ board'[b].made = board[b].made
                      \/ board[b].hw = "acquiring"
                      \/ /\ board[b].reader = "reading"
                         /\ board[b].mem > 0 /\ board'[b].mem = board[b].mem - 1
                         /\ board'[b].made = board[b].made
<1>2. ASSUME NEW b \in Boards, Acquire(b) PROVE P(b)
  BY <1>2, AcquireEffect DEF Changes, Fields
<1>3. ASSUME NEW b \in Boards, ReaderExit(b) PROVE P(b)
  BY <1>3, ReaderExitEffect DEF Changes, Fields
<1>4. ASSUME NEW b \in Boards, ReaderReadBegin(b) PROVE P(b)
  BY <1>4, ReaderReadBeginEffect DEF Changes, Fields
<1>5. ASSUME NEW b \in Boards, ReaderReadEnd(b) PROVE P(b)
  BY <1>5, ReaderReadEndEffect DEF Changes, Fields
<1>6. ASSUME NEW b \in Boards, ReaderPush(b) PROVE P(b)
  BY <1>6, ReaderPushEffect DEF Changes, Fields
<1>7. ASSUME NEW b \in Boards, ReaderSubmit(b) PROVE P(b)
  BY <1>7, ReaderSubmitEffect DEF Changes, Fields
<1>8. ASSUME NEW b \in Boards, DecoderPop(b) PROVE P(b)
  BY <1>8, DecoderPopEffect DEF Changes, Fields
<1>9. ASSUME NEW b \in Boards, DecoderDecode(b) PROVE P(b)
  BY <1>9, DecoderDecodeEffect DEF Changes, Fields
<1> HIDE DEF P
<1>10. \E b \in Boards : P(b)
  BY <1>2, <1>3, <1>4, <1>5, <1>6, <1>7, <1>8, <1>9, RunnerStepCases, Zenon
<1> QED BY <1>1, <1>10, Zenon DEF P

(* Nothing was started before prepare() has worked. *)
LEMMA FreshStep ==
    ASSUME Base, Fresh, Next
    PROVE  Fresh'
<1>1. CallStart => Fresh'
  BY CallStartEffect DEF Fresh, To
<1>2. CallStop => Fresh'
  BY CallStopEffect DEF Still, DaqKept, Fresh, ToUnwind
<1>3. PrepareBoard => Fresh'
  BY PrepareBoardEffect DEF Changes, Fields, Still, DaqKept, Fresh, To
<1>4. PrepareFile => Fresh'
  BY PrepareFileEffect DEF Fresh, To
<1>5. Launch => Fresh'
  BY LaunchEffect DEF DaqKept, Fresh, To
<1>6. ArmBoard => Fresh'
  BY ArmBoardEffect DEF Still, DaqKept, Fresh, To, ToUnwind
<1>7. SendSWTrigger => Fresh'
  BY SendSWTriggerEffect DEF Still, DaqKept, Fresh, To, ToUnwind
<1>8. StartReaders => Fresh'
  BY StartReadersEffect DEF Fresh, To
<1>9. Halt => Fresh'
  BY HaltEffect DEF Still, DaqKept, Fresh, To, ToNext
<1>10. JoinReader => Fresh'
  BY JoinReaderEffect DEF Still, DaqKept, Fresh, To
<1>11. DrainRead => Fresh'
  BY DrainReadEffect DEF Still, DaqKept, Fresh, To
<1>12. DrainPush => Fresh'
  BY DrainPushEffect DEF DaqKept, Fresh
<1>13. DrainSubmit => Fresh'
  BY DrainSubmitEffect DEF Still, DaqKept, Fresh, To
<1>14. DrainEnd => Fresh'
  BY DrainEndEffect DEF Still, DaqKept, Fresh, To
<1>15. DecodeStop => Fresh'
  BY DecodeStopEffect DEF Still, DaqKept, Fresh, To
<1>16. DecodeJoin => Fresh'
  BY DecodeJoinEffect DEF Still, DaqKept, Fresh, To
<1>17. Release => Fresh'
  BY ReleaseEffect DEF Still, DaqKept, Fresh, To, ToNext
<1>18. CloseQueue => Fresh'
  BY CloseQueueEffect DEF DaqKept, Fresh, To
<1>19. JoinWriter => Fresh'
  BY JoinWriterEffect DEF Fresh, To
<1>20. CASE Writer
  <2>1. call' = call /\ board' = board /\ DaqKept
    BY <1>20, WriterPopEffect, WriterWriteEffect, WriterIdleEffect, WriterExitEffect, Zenon
       DEF Writer, BoardsKept, MainKept
  <2> QED BY <2>1, Zenon DEF DaqKept, Fresh
<1>21. CASE RunnerStep /\ UNCHANGED <<mainVars, writerVars>>
  <2>1. call' = call /\ DaqKept
    BY <1>21, RunnerStepCases, Zenon DEF MainKept
  <2>2. \A b \in Boards : board'[b].hw = board[b].hw
    BY <1>21, RunnerMem, Zenon
  <2> QED BY <2>1, <2>2, Zenon DEF DaqKept, Fresh
<1> QED BY <1>1, <1>2, <1>3, <1>4, <1>5, <1>6, <1>7, <1>8, <1>9, <1>10, <1>11,
           <1>12, <1>13, <1>14, <1>15, <1>16, <1>17, <1>18, <1>19, <1>20, <1>21,
           Zenon DEF Next, MainStep
-----------------------------------------------------------------------------
(* The types of the queue, the writer and the flags *)

QueueTyped == /\ writeQueue \in Seq(Blocks)
              /\ writeClosed \in BOOLEAN
              /\ writeDropped \in Nat
              /\ fate \in [Blocks -> WQ!Fates]

(* The writer writes a block. *)
WriterTyped == /\ writer \in [at : {"none", "loop", "writing", "exited"},
                              hand : Blocks \cup {NoBlock}]
               /\ writer.at = "writing" => writer.hand \in Blocks
               /\ file \in Seq(Blocks)
               /\ fileState \in {"none", "open", "closed"}
               /\ flushed \in 0 .. Len(file)
               /\ lost \subseteq Blocks

FlagsTyped == /\ link \in Boards \cup {NoBoard}
              /\ writerFailed \in BOOLEAN
              /\ starts \in 0 .. MaxStarts
              /\ prepared \in BOOLEAN
              /\ running \in BOOLEAN

(* The parts of the invariant hold the type of every variable. *)
LEMMA TypeParts ==
    Base /\ QueueTyped /\ WriterTyped /\ FlagsTyped => TypeOK
BY DEF Base, BoardsTyped, QueueTyped, WriterTyped, FlagsTyped, TypeOK

(* A push keeps the queue typed. *)
LEMMA PushTyped ==
    ASSUME QueueTyped, NEW blk \in Blocks, PushToWriter(blk)
    PROVE  QueueTyped'
<1>1. QueueKept => QueueTyped'
  BY Zenon DEF QueueKept, QueueTyped
<1>2. ASSUME ~writeClosed, writeQueue' = Append(writeQueue, blk),
             fate' = [fate EXCEPT ![blk] = "queued"],
             writeClosed' = writeClosed, writeDropped' = writeDropped
      PROVE  QueueTyped'
  BY <1>2 DEF QueueTyped, WQ!Fates
<1>3. ASSUME writeQueue' = writeQueue, writeClosed' = writeClosed,
             NEW f \in {"dropped", "rejected"}, fate' = [fate EXCEPT ![blk] = f],
             writeDropped' \in {writeDropped, writeDropped + 1}
      PROVE  QueueTyped'
  BY <1>3 DEF QueueTyped, WQ!Fates
<1>4. writeDropped' = writeDropped \/ writeDropped' = writeDropped + 1
      => writeDropped' \in {writeDropped, writeDropped + 1}
  OBVIOUS
<1>5. "dropped" \in {"dropped", "rejected"} /\ "rejected" \in {"dropped", "rejected"}
  OBVIOUS
<1> QED BY <1>1, <1>2, <1>3, <1>4, <1>5, PushEffect, Zenon

(* The queue holds blocks. *)
LEMMA QueueStep ==
    ASSUME Base, QueueTyped, Next
    PROVE  QueueTyped'
<1>1. CallStart => QueueTyped'
  BY CallStartEffect, Zenon DEF QueueKept, QueueTyped
<1>2. CallStop => QueueTyped'
  BY CallStopEffect, Zenon DEF Still, QueueKept, QueueTyped
<1>3. PrepareBoard => QueueTyped'
  BY PrepareBoardEffect, Zenon DEF Still, QueueKept, QueueTyped
<1>4. PrepareFile => QueueTyped'
  BY PrepareFileEffect, Zenon DEF QueueKept, QueueTyped
<1>5. Launch => QueueTyped'
  BY LaunchEffect, Zenon DEF QueueKept, QueueTyped
<1>6. ArmBoard => QueueTyped'
  BY ArmBoardEffect, Zenon DEF Still, QueueKept, QueueTyped
<1>7. SendSWTrigger => QueueTyped'
  BY SendSWTriggerEffect, Zenon DEF Still, QueueKept, QueueTyped
<1>8. StartReaders => QueueTyped'
  BY StartReadersEffect, Zenon DEF QueueKept, QueueTyped
<1>9. Halt => QueueTyped'
  BY HaltEffect, Zenon DEF Still, QueueKept, QueueTyped
<1>10. JoinReader => QueueTyped'
  BY JoinReaderEffect, Zenon DEF Still, QueueKept, QueueTyped
<1>11. DrainRead => QueueTyped'
  BY DrainReadEffect, Zenon DEF Still, QueueKept, QueueTyped
<1>12. DrainPush => QueueTyped'
  BY DrainPushEffect, PushTyped, Zenon
<1>13. DrainSubmit => QueueTyped'
  BY DrainSubmitEffect, Zenon DEF Still, QueueKept, QueueTyped
<1>14. DrainEnd => QueueTyped'
  BY DrainEndEffect, Zenon DEF Still, QueueKept, QueueTyped
<1>15. DecodeStop => QueueTyped'
  BY DecodeStopEffect, Zenon DEF Still, QueueKept, QueueTyped
<1>16. DecodeJoin => QueueTyped'
  BY DecodeJoinEffect, Zenon DEF Still, QueueKept, QueueTyped
<1>17. Release => QueueTyped'
  BY ReleaseEffect, Zenon DEF Still, QueueKept, QueueTyped
<1>18. CloseQueue => QueueTyped'
  BY CloseQueueEffect DEF QueueTyped
<1>19. JoinWriter => QueueTyped'
  BY JoinWriterEffect, Zenon DEF QueueKept, QueueTyped
<1>20. CASE Writer
  <2>1. WriterPop => QueueTyped'
    <3>1. SUFFICES ASSUME WriterPop PROVE QueueTyped'
      OBVIOUS
    <3>2. /\ writeQueue # <<>> /\ writeQueue' = Tail(writeQueue)
          /\ writeClosed' = writeClosed /\ writeDropped' = writeDropped
          /\ fate' = [fate EXCEPT ![Head(writeQueue)] = "taken"]
      BY <3>1, WriterPopEffect, Zenon
    <3> QED BY <3>2 DEF QueueTyped, WQ!Fates
  <2> QED BY <1>20, <2>1, WriterWriteEffect, WriterIdleEffect, WriterExitEffect, Zenon
             DEF Writer, QueueKept, QueueTyped
<1>21. CASE RunnerStep /\ UNCHANGED <<mainVars, writerVars>>
  <2>1. QueueKept \/ \E b \in Boards : ReaderPush(b)
    BY <1>21, RunnerStepCases, Zenon
  <2>2. ASSUME NEW b \in Boards, ReaderPush(b) PROVE QueueTyped'
    BY <2>2, ReaderPushEffect, PushTyped, Zenon
  <2> QED BY <2>1, <2>2, Zenon DEF QueueKept, QueueTyped
<1> QED BY <1>1, <1>2, <1>3, <1>4, <1>5, <1>6, <1>7, <1>8, <1>9, <1>10, <1>11,
           <1>12, <1>13, <1>14, <1>15, <1>16, <1>17, <1>18, <1>19, <1>20, <1>21,
           Zenon DEF Next, MainStep

(* The writer and the file hold blocks. *)
LEMMA WriterStep ==
    ASSUME Base, QueueTyped, WriterTyped, Next
    PROVE  WriterTyped'
<1>1. CallStart => WriterTyped'
  BY CallStartEffect, Zenon DEF FileKept, WriterTyped
<1>2. CallStop => WriterTyped'
  BY CallStopEffect, Zenon DEF Still, FileKept, WriterTyped
<1>3. PrepareBoard => WriterTyped'
  BY PrepareBoardEffect, Zenon DEF Still, FileKept, WriterTyped
<1>4. PrepareFile => WriterTyped'
  BY PrepareFileEffect DEF WriterTyped
<1>5. Launch => WriterTyped'
  BY LaunchEffect DEF WriterTyped, FileKept
<1>6. ArmBoard => WriterTyped'
  BY ArmBoardEffect, Zenon DEF Still, FileKept, WriterTyped
<1>7. SendSWTrigger => WriterTyped'
  BY SendSWTriggerEffect, Zenon DEF Still, FileKept, WriterTyped
<1>8. StartReaders => WriterTyped'
  BY StartReadersEffect, Zenon DEF FileKept, WriterTyped
<1>9. Halt => WriterTyped'
  BY HaltEffect, Zenon DEF Still, FileKept, WriterTyped
<1>10. JoinReader => WriterTyped'
  BY JoinReaderEffect, Zenon DEF Still, FileKept, WriterTyped
<1>11. DrainRead => WriterTyped'
  BY DrainReadEffect, Zenon DEF Still, FileKept, WriterTyped
<1>12. DrainPush => WriterTyped'
  BY DrainPushEffect, Zenon DEF FileKept, WriterTyped
<1>13. DrainSubmit => WriterTyped'
  BY DrainSubmitEffect, Zenon DEF Still, FileKept, WriterTyped
<1>14. DrainEnd => WriterTyped'
  BY DrainEndEffect, Zenon DEF Still, FileKept, WriterTyped
<1>15. DecodeStop => WriterTyped'
  BY DecodeStopEffect, Zenon DEF Still, FileKept, WriterTyped
<1>16. DecodeJoin => WriterTyped'
  BY DecodeJoinEffect, Zenon DEF Still, FileKept, WriterTyped
<1>17. Release => WriterTyped'
  BY ReleaseEffect, Zenon DEF Still, FileKept, WriterTyped
<1>18. CloseQueue => WriterTyped'
  BY CloseQueueEffect, Zenon DEF FileKept, WriterTyped
<1>19. JoinWriter => WriterTyped'
  BY JoinWriterEffect DEF WriterTyped
<1>20. CASE Writer
  <2>1. WriterPop => WriterTyped'
    BY WriterPopEffect DEF WriterTyped, QueueTyped, FileKept
  <2>2. WriterWrite => WriterTyped'
    <3>1. SUFFICES ASSUME WriterWrite PROVE WriterTyped'
      OBVIOUS
    <3>2. writer.at = "writing" /\ fileState' = fileState
      BY <3>1, WriterWriteEffect, Zenon
    <3>3. CASE /\ file' = Append(file, writer.hand) /\ lost' = lost
               /\ flushed' \in {flushed, Len(file) + 1}
               /\ writer' = [at |-> "loop", hand |-> NoBlock]
      <4>1. file' \in Seq(Blocks) /\ Len(file') = Len(file) + 1 /\ Len(file) \in Nat
        BY <3>2, <3>3 DEF WriterTyped
      <4>2. flushed' \in 0 .. Len(file')
        BY <3>3, <4>1 DEF WriterTyped
      <4>3. /\ writer' \in [at : {"none", "loop", "writing", "exited"},
                            hand : Blocks \cup {NoBlock}]
            /\ writer'.at # "writing"
        BY <3>3
      <4> QED BY <3>2, <3>3, <4>1, <4>2, <4>3, Zenon DEF WriterTyped
    <3>4. CASE /\ file' = file /\ flushed' = flushed /\ lost' = lost \cup {writer.hand}
               /\ writer' = [at |-> "exited", hand |-> NoBlock]
      BY <3>2, <3>4 DEF WriterTyped
    <3> QED BY <3>1, <3>3, <3>4, WriterWriteEffect, Zenon
  <2>3. WriterIdle => WriterTyped'
    BY WriterIdleEffect DEF WriterTyped
  <2>4. WriterExit => WriterTyped'
    BY WriterExitEffect DEF WriterTyped, FileKept
  <2> QED BY <1>20, <2>1, <2>2, <2>3, <2>4, Zenon DEF Writer
<1>21. CASE RunnerStep /\ UNCHANGED <<mainVars, writerVars>>
  BY <1>21, RunnerStepCases, Zenon DEF FileKept, WriterTyped
<1> QED BY <1>1, <1>2, <1>3, <1>4, <1>5, <1>6, <1>7, <1>8, <1>9, <1>10, <1>11,
           <1>12, <1>13, <1>14, <1>15, <1>16, <1>17, <1>18, <1>19, <1>20, <1>21,
           Zenon DEF Next, MainStep

(* The flags stay in their types. *)
LEMMA FlagsStep ==
    ASSUME Base, FlagsTyped, Next
    PROVE  FlagsTyped'
<1>1. CallStart => FlagsTyped'
  BY CallStartEffect, DaqAssumption DEF FlagsTyped
<1>2. CallStop => FlagsTyped'
  BY CallStopEffect, Zenon DEF Still, DaqKept, FlagsTyped
<1>3. PrepareBoard => FlagsTyped'
  BY PrepareBoardEffect, Zenon DEF Still, DaqKept, FlagsTyped
<1>4. PrepareFile => FlagsTyped'
  <2>1. PrepareFile => prepared' = TRUE \/ prepared' = prepared
    BY Zenon DEF PrepareFile
  <2> QED BY <2>1, PrepareFileEffect, Zenon DEF FlagsTyped
<1>5. Launch => FlagsTyped'
  BY LaunchEffect, Zenon DEF DaqKept, FlagsTyped
<1>6. ArmBoard => FlagsTyped'
  BY ArmBoardEffect, Zenon DEF Still, DaqKept, FlagsTyped
<1>7. SendSWTrigger => FlagsTyped'
  BY SendSWTriggerEffect, Zenon DEF Still, DaqKept, FlagsTyped
<1>8. StartReaders => FlagsTyped'
  BY StartReadersEffect, Zenon DEF FlagsTyped
<1>9. Halt => FlagsTyped'
  BY HaltEffect, Zenon DEF Still, DaqKept, FlagsTyped
<1>10. JoinReader => FlagsTyped'
  BY JoinReaderEffect, Zenon DEF Still, DaqKept, FlagsTyped
<1>11. DrainRead => FlagsTyped'
  BY DrainReadEffect, Zenon DEF Still, DaqKept, FlagsTyped
<1>12. DrainPush => FlagsTyped'
  BY DrainPushEffect, Zenon DEF DaqKept, FlagsTyped
<1>13. DrainSubmit => FlagsTyped'
  BY DrainSubmitEffect, Zenon DEF Still, DaqKept, FlagsTyped
<1>14. DrainEnd => FlagsTyped'
  BY DrainEndEffect, Zenon DEF Still, DaqKept, FlagsTyped
<1>15. DecodeStop => FlagsTyped'
  BY DecodeStopEffect, Zenon DEF Still, DaqKept, FlagsTyped
<1>16. DecodeJoin => FlagsTyped'
  BY DecodeJoinEffect, Zenon DEF Still, DaqKept, FlagsTyped
<1>17. Release => FlagsTyped'
  BY ReleaseEffect, Zenon DEF Still, DaqKept, FlagsTyped
<1>18. CloseQueue => FlagsTyped'
  BY CloseQueueEffect, Zenon DEF DaqKept, FlagsTyped
<1>19. JoinWriter => FlagsTyped'
  BY JoinWriterEffect, Zenon DEF FlagsTyped
<1>20. CASE Writer
  <2>1. BoardsKept /\ (writerFailed' = writerFailed \/ writerFailed' = TRUE)
    BY <1>20, WriterPopEffect, WriterWriteEffect, WriterIdleEffect, WriterExitEffect, Zenon
       DEF Writer
  <2> QED BY <2>1, Zenon DEF BoardsKept, MainKept, DaqKept, FlagsTyped
<1>21. CASE RunnerStep /\ UNCHANGED <<mainVars, writerVars>>
  <2>1. MainKept /\ writerFailed' = writerFailed
    BY <1>21, RunnerStepCases, Zenon
  <2>2. link' \in Boards \cup {NoBoard}
    <3>1. PICK b \in Boards : Acquire(b) \/ Reader(b) \/ Decoder(b)
      BY <1>21, Zenon DEF RunnerStep
    <3>2. /\ Acquire(b) => UNCHANGED <<link, queueVars, writerFailed>>
          /\ ReaderExit(b) => UNCHANGED <<link, queueVars, writerFailed>>
          /\ ReaderReadBegin(b) => link' = IF b \in Mocks THEN link ELSE b
          /\ ReaderReadEnd(b) => link' = IF link = b THEN NoBoard ELSE link
          /\ ReaderPush(b) => UNCHANGED <<link, writerFailed>>
          /\ ReaderSubmit(b) => UNCHANGED <<link, queueVars, writerFailed>>
          /\ DecoderPop(b) => UNCHANGED <<link, queueVars, writerFailed>>
          /\ DecoderDecode(b) => UNCHANGED <<link, queueVars, writerFailed>>
      BY Zenon
         DEF Acquire, ReaderExit, ReaderReadBegin, ReaderReadEnd, ReaderPush, ReaderSubmit,
             DecoderPop, DecoderDecode
    <3>3. /\ UNCHANGED <<link, queueVars, writerFailed>> => link' = link
          /\ UNCHANGED <<link, writerFailed>> => link' = link
      OBVIOUS
    <3>4. link' \in {link, b, NoBoard}
      BY <3>1, <3>2, <3>3, Zenon DEF Reader, Decoder
    <3> QED BY <3>4 DEF FlagsTyped
  <2> QED BY <2>1, <2>2, Zenon DEF MainKept, DaqKept, FlagsTyped
<1> QED BY <1>1, <1>2, <1>3, <1>4, <1>5, <1>6, <1>7, <1>8, <1>9, <1>10, <1>11,
           <1>12, <1>13, <1>14, <1>15, <1>16, <1>17, <1>18, <1>19, <1>20, <1>21,
           Zenon DEF Next, MainStep

(* The writer and the file come and go with the run. *)
LEMMA FileStep ==
    ASSUME Base, WriterTyped, FileSettled, Next
    PROVE  FileSettled'
<1>1. CallStart => FileSettled'
  BY CallStartEffect DEF FileKept, FileSettled, Resting, To, Unwinding, Looping
<1>2. CallStop => FileSettled'
  BY CallStopEffect
     DEF Still, FileKept, DaqKept, FileSettled, Resting, ToUnwind, Unwinding, Looping
<1>3. PrepareBoard => FileSettled'
  BY PrepareBoardEffect
     DEF Still, FileKept, DaqKept, FileSettled, Resting, To, Unwinding, Looping
<1>4. PrepareFile => FileSettled'
  BY PrepareFileEffect DEF FileSettled, Resting, To, Looping, Unwinding, WriterTyped
<1>5. Launch => FileSettled'
  BY LaunchEffect
     DEF FileSettled, Resting, To, Looping, Unwinding, WriterTyped, FileKept, DaqKept
<1>6. ArmBoard => FileSettled'
  BY ArmBoardEffect
     DEF Still, FileKept, DaqKept, FileSettled, Resting, To, ToUnwind, Unwinding, Looping
<1>7. SendSWTrigger => FileSettled'
  BY SendSWTriggerEffect
     DEF Still, FileKept, DaqKept, FileSettled, Resting, To, ToUnwind, Unwinding, Looping
<1>8. StartReaders => FileSettled'
  BY StartReadersEffect DEF FileKept, FileSettled, Resting, To, Unwinding, Looping
<1>9. Halt => FileSettled'
  BY HaltEffect
     DEF Still, FileKept, DaqKept, FileSettled, Resting, To, ToNext, Unwinding, Looping
<1>10. JoinReader => FileSettled'
  BY JoinReaderEffect DEF Still, FileKept, DaqKept, FileSettled, Resting, Unwinding, Looping
<1>11. DrainRead => FileSettled'
  BY DrainReadEffect DEF Still, FileKept, DaqKept, FileSettled, Resting, Unwinding, Looping
<1>12. DrainPush => FileSettled'
  BY DrainPushEffect DEF FileKept, DaqKept, FileSettled, Resting, Unwinding, Looping
<1>13. DrainSubmit => FileSettled'
  BY DrainSubmitEffect
     DEF Still, FileKept, DaqKept, FileSettled, Resting, To, Unwinding, Looping
<1>14. DrainEnd => FileSettled'
  BY DrainEndEffect DEF Still, FileKept, DaqKept, FileSettled, Resting, To, Unwinding, Looping
<1>15. DecodeStop => FileSettled'
  BY DecodeStopEffect DEF Still, FileKept, DaqKept, FileSettled, Resting, To, Unwinding, Looping
<1>16. DecodeJoin => FileSettled'
  BY DecodeJoinEffect DEF Still, FileKept, DaqKept, FileSettled, Resting, To, Unwinding, Looping
<1>17. Release => FileSettled'
  BY ReleaseEffect
     DEF Still, FileKept, DaqKept, FileSettled, Resting, To, ToNext, Unwinding, Looping
<1>18. CloseQueue => FileSettled'
  BY CloseQueueEffect DEF FileKept, DaqKept, FileSettled, Resting, To, Unwinding, Looping
<1>19. JoinWriter => FileSettled'
  BY JoinWriterEffect DEF FileSettled, Resting, To, Looping, Unwinding, WriterTyped
<1>20. CASE Writer
  <2>1. WriterPop => FileSettled'
    BY WriterPopEffect DEF FileSettled, Resting, FileKept, BoardsKept, MainKept, DaqKept
  <2>2. WriterWrite => FileSettled'
    <3>1. SUFFICES ASSUME WriterWrite PROVE FileSettled'
      OBVIOUS
    <3>2. ~Resting
      BY <3>1, WriterWriteEffect DEF FileSettled
    <3>3. call' = call /\ running' = running
      BY <3>1, WriterWriteEffect, Zenon DEF BoardsKept, MainKept, DaqKept
    <3>4. \/ writer' = [at |-> "loop", hand |-> NoBlock]
          \/ writer' = [at |-> "exited", hand |-> NoBlock]
      BY <3>1, WriterWriteEffect, Zenon
    <3>5. writer'.at # "none"
      BY <3>4
    <3> QED BY <3>2, <3>3, <3>5, Zenon DEF FileSettled, Resting
  <2>3. WriterIdle => FileSettled'
    BY WriterIdleEffect DEF FileSettled, Resting, BoardsKept, MainKept, DaqKept
  <2>4. WriterExit => FileSettled'
    BY WriterExitEffect
       DEF FileSettled, Resting, FileKept, BoardsKept, MainKept, DaqKept, WriterTyped
  <2> QED BY <1>20, <2>1, <2>2, <2>3, <2>4, Zenon DEF Writer
<1>21. CASE RunnerStep /\ UNCHANGED <<mainVars, writerVars>>
  <2>1. MainKept /\ writer' = writer /\ FileKept
    BY <1>21, RunnerStepCases, Zenon
  <2> QED BY <2>1 DEF MainKept, DaqKept, FileKept, FileSettled, Resting
<1> QED BY <1>1, <1>2, <1>3, <1>4, <1>5, <1>6, <1>7, <1>8, <1>9, <1>10, <1>11,
           <1>12, <1>13, <1>14, <1>15, <1>16, <1>17, <1>18, <1>19, <1>20, <1>21,
           Zenon DEF Next, MainStep
-----------------------------------------------------------------------------
(* The inductive invariant holds *)

(* Where everybody stands, and the types. *)
RestInv == /\ Base /\ Settled /\ UpAndDown /\ Fresh
           /\ QueueTyped /\ WriterTyped /\ FlagsTyped /\ FileSettled

(* Nothing runs at first. *)
LEMMA RestInit == Init => RestInv
<1> SUFFICES ASSUME Init PROVE RestInv
  OBVIOUS
<1>1. /\ call = [at |-> "idle", idx |-> 1, upto |-> 0, reads |-> 0, hand |-> NoBlock]
      /\ board = [b \in Boards |-> NewBoard] /\ link = NoBoard /\ writerFailed = FALSE
      /\ writeQueue = <<>> /\ writeClosed = FALSE /\ writeDropped = 0
      /\ fate = [b \in Blocks |-> "new"]
      /\ starts = 0 /\ prepared = FALSE /\ running = FALSE
      /\ writer = [at |-> "none", hand |-> NoBlock]
      /\ file = <<>> /\ fileState = "none" /\ flushed = 0 /\ lost = {}
  BY DEF Init, RunnerInit, WQ!QInit
<1>2. NewBoard \in BoardState
  BY SizesAssumption DEF NewBoard, BoardState
<1>3. \A b \in Boards : board[b] = NewBoard
  BY <1>1
<1>4. BoardsTyped
  BY <1>1, <1>2, <1>3 DEF BoardsTyped, NewBoard
<1>5. call \in CallState
  BY <1>1, BoardsAssumption, SizesAssumption DEF CallState
<1>6. Positions /\ HandsSound
  BY <1>1, <1>3 DEF Positions, HandsSound, Looping, Unwinding, NewBoard
<1>7. Settled /\ UpAndDown /\ Fresh
  BY <1>1, <1>3 DEF Settled, UpAndDown, Fresh, Quiet, Stopping, Unwinding, Looping, NewBoard
<1>8. QueueTyped
  <2>1. writeQueue \in Seq(Blocks) /\ writeDropped \in Nat
    BY <1>1
  <2>2. writeClosed \in BOOLEAN
    BY <1>1, Zenon
  <2>3. fate \in [Blocks -> WQ!Fates]
    <3>1. "new" \in WQ!Fates
      BY DEF WQ!Fates
    <3> QED BY <1>1, <3>1
  <2> QED BY <2>1, <2>2, <2>3, Zenon DEF QueueTyped
<1>9. WriterTyped /\ FileSettled
  BY <1>1 DEF WriterTyped, FileSettled, Resting
<1>10. FlagsTyped
  <2>1. starts \in 0 .. MaxStarts
    BY <1>1, DaqAssumption
  <2>2. /\ link \in Boards \cup {NoBoard} /\ writerFailed \in BOOLEAN
        /\ prepared \in BOOLEAN /\ running \in BOOLEAN
    BY <1>1, Zenon
  <2> QED BY <2>1, <2>2, Zenon DEF FlagsTyped
<1> QED BY <1>4, <1>5, <1>6, <1>7, <1>8, <1>9, <1>10 DEF RestInv, Base

(* A stuttering step changes nothing. *)
LEMMA StutterKept ==
    UNCHANGED vars => /\ board' = board /\ link' = link /\ QueueKept
                      /\ writerFailed' = writerFailed
                      /\ call' = call /\ DaqKept /\ writer' = writer /\ FileKept
<1>1. UNCHANGED vars => /\ UNCHANGED runnerVars
                        /\ UNCHANGED mainVars
                        /\ UNCHANGED writerVars
  BY DEF vars
<1> QED BY <1>1, KeptOneByOne, Zenon

(* The invariant is inductive. *)
LEMMA RestStep ==
    ASSUME RestInv, [Next]_vars
    PROVE  RestInv'
<1>1. CASE Next
  <2>1. BoardsTyped' /\ call' \in CallState /\ Positions'
    BY <1>1, BoardsStep, CallStep, Zenon DEF RestInv
  <2>2. HandsSound' /\ Settled' /\ UpAndDown' /\ Fresh'
    BY <1>1, HandsStep, SettledStep, UpAndDownStep, FreshStep, Zenon DEF RestInv
  <2>3. QueueTyped' /\ WriterTyped' /\ FlagsTyped' /\ FileSettled'
    BY <1>1, QueueStep, WriterStep, FlagsStep, FileStep, Zenon DEF RestInv
  <2> QED BY <2>1, <2>2, <2>3, Zenon DEF RestInv, Base
<1>2. CASE UNCHANGED vars
  <2>2. /\ board' = board /\ link' = link /\ QueueKept /\ writerFailed' = writerFailed
        /\ call' = call /\ DaqKept /\ writer' = writer /\ FileKept
    BY <1>2, StutterKept, Zenon
  <2>3. Base'
    BY <2>2, Zenon DEF RestInv, Base, BoardsTyped, Positions, HandsSound
  <2>4. Settled' /\ UpAndDown' /\ Fresh'
    BY <2>2, Zenon DEF RestInv, Settled, UpAndDown, Fresh, Stopping, Quiet, DaqKept
  <2>5. QueueTyped' /\ FlagsTyped'
    BY <2>2, Zenon DEF RestInv, QueueTyped, FlagsTyped, QueueKept, DaqKept
  <2>6. WriterTyped'
    BY <2>2, Zenon DEF RestInv, WriterTyped, FileKept
  <2>7. FileSettled'
    BY <2>2, Zenon DEF RestInv, FileSettled, Resting, FileKept, DaqKept
  <2> QED BY <2>3, <2>4, <2>5, <2>6, <2>7, Zenon DEF RestInv
<1> QED BY <1>1, <1>2

(* The invariant holds in every reachable state. *)
THEOREM RestInvHolds == Spec => []RestInv
BY RestInit, RestStep, PTL DEF Spec

(* Every variable of the orchestrator, the boards and the queue stays in its *)
(* type.                                                                     *)
THEOREM TypeCorrect == Spec => []TypeOK
<1>1. RestInv => TypeOK
  BY TypeParts DEF RestInv
<1> QED BY <1>1, RestInvHolds, PTL

(* stop(), and a start() that fails, leave no thread running and no file     *)
(* open, and every board at rest but those whose own stop() has failed:      *)
(* teardownWriter() and BoardRunner::stop() reach all that start() had       *)
(* brought up (Daq.cpp:175-204, 222-235, BoardRunner.cpp:66-86).             *)
THEOREM StopLeavesNothing == Spec => []RestIsQuiet
<1>1. RestInv => RestIsQuiet
  <2>1. SUFFICES ASSUME RestInv, AtRest PROVE RestIsQuiet
    BY DEF RestIsQuiet
  <2>2. \A b \in Boards : ~board[b].running /\ Quiet(b)
    BY <2>1 DEF RestInv, Settled, UpAndDown, AtRest, Stopping, Unwinding, Looping
  <2>3. writer.at = "none" /\ fileState # "open"
    BY <2>1 DEF RestInv, FileSettled, Resting, AtRest
  <2> QED BY <2>2, <2>3 DEF RestIsQuiet, Quiet
<1> QED BY <1>1, RestInvHolds, PTL
(* A read does not fail: drain() ends at an empty board or at its limit. *)
Drains == "read" \notin Faults

(* drain() counts what it has read against what is left. *)
LEMMA EmptiedStep ==
    ASSUME RestInv, Drains, Emptied, Next
    PROVE  Emptied'
<1>0. Base /\ Settled /\ (call.at \in Looping => call.idx \in Boards)
  BY DEF RestInv, Base, Positions
<1>1. CallStart => Emptied'
  BY <1>0, CallStartEffect DEF Emptied, Drained, To, Settled, Stopping, Unwinding, Looping
<1>2. CallStop => Emptied'
  BY <1>0, CallStopEffect DEF Still, Emptied, Drained, ToUnwind, Settled, Stopping, Unwinding, Looping
<1>3. PrepareBoard => Emptied'
  BY <1>0, PrepareBoardEffect
     DEF Changes, Fields, Still, Emptied, Drained, To, Settled, Stopping, Unwinding, Looping
<1>4. PrepareFile => Emptied'
  BY <1>0, PrepareFileEffect DEF Emptied, Drained, To, Settled, Stopping, Unwinding, Looping
<1>5. Launch => Emptied'
  BY <1>0, LaunchEffect DEF Emptied, Drained, To, Settled, Stopping, Unwinding, Looping
<1>6. ArmBoard => Emptied'
  <2>1. ArmBoard => /\ call.at = "arm" /\ call'.at \notin Unwinding \ {"halt"}
                    /\ \/ board' = board
                       \/ \E b \in Boards : /\ Changes(b, {"running", "hw", "mem"})
                                            /\ board'[b].mem = 0
    BY <1>0, ArmBoardEffect DEF To, ToUnwind, Unwinding, Looping
  <2> QED BY <2>1 DEF Changes, Emptied, Drained, Stopping, Unwinding, Looping
<1>7. SendSWTrigger => Emptied'
  BY <1>0, SendSWTriggerEffect
     DEF Fields, Still, Emptied, Drained, To, ToUnwind, Settled, Stopping, Unwinding, Looping
<1>8. StartReaders => Emptied'
  <2>1. StartReaders => /\ call.at = "readers" /\ call'.at \notin Unwinding
                        /\ \/ board' = board
                           \/ \E b \in Boards : Changes(b, {"reader", "decoding", "decoder"})
    BY <1>0, StartReadersEffect DEF To, Unwinding, Looping
  <2> QED BY <2>1 DEF Changes, Fields, Emptied, Drained, Stopping, Unwinding, Looping
<1>9. Halt => Emptied'
  BY <1>0, HaltEffect
     DEF Changes, Fields, Still, Emptied, Drained, To, ToNext, Settled, Stopping, Unwinding, Looping
<1>10. JoinReader => Emptied'
  <2>1. SUFFICES ASSUME JoinReader PROVE Emptied'
    OBVIOUS
  <2>2. PICK b \in Boards : /\ call.at = "join" /\ b = call.idx /\ Changes(b, {"reader"})
                           /\ call'.at = "drain" /\ call'.idx = b /\ call'.reads = 0
    BY <1>0, <2>1, JoinReaderEffect, Zenon
  <2>3. board'[b].mem + call'.reads <= board'[b].made
    BY <1>0, <2>2, FieldTypes DEF Changes, Fields, Base
  <2> QED BY <2>2, <2>3 DEF Changes, Fields, Emptied, Drained, Stopping, Unwinding, Looping
<1>11. DrainRead => Emptied'
  <2>1. SUFFICES ASSUME DrainRead PROVE Emptied'
    OBVIOUS
  <2>2. PICK b \in Boards : /\ call.at = "drain" /\ b = call.idx
                           /\ Changes(b, {"mem", "buffersRead"}) /\ board[b].mem > 0
                           /\ board'[b].mem = board[b].mem - 1
                           /\ call'.at = "drainPush" /\ call'.idx = b
                           /\ call'.reads = call.reads + 1
    BY <1>0, <2>1, DrainReadEffect, Zenon
  <2>3. board[b].hw = "idle" => board[b].mem + call.reads <= board[b].made
    BY <2>2 DEF Emptied
  <2>4. board'[b].hw = board[b].hw /\ board'[b].made = board[b].made
    BY <2>2 DEF Changes, Fields
  <2>5. board'[b].hw = "idle" => board'[b].mem + call'.reads <= board'[b].made
    BY <1>0, <2>2, <2>3, <2>4, FieldTypes, CallTypes DEF Base
  <2> QED BY <2>2, <2>5 DEF Changes, Emptied, Drained, Stopping, Unwinding, Looping
<1>12. DrainPush => Emptied'
  BY <1>0, DrainPushEffect DEF Changes, Fields, Emptied, Drained, Settled, Stopping, Unwinding, Looping
<1>13. DrainSubmit => Emptied'
  BY <1>0, DrainSubmitEffect
     DEF Changes, Fields, Still, Emptied, Drained, To, Settled, Stopping, Unwinding, Looping
<1>14. DrainEnd => Emptied'
  <2>1. SUFFICES ASSUME DrainEnd PROVE Emptied'
    OBVIOUS
  <2>2. PICK b \in Boards : /\ call.at = "drain" /\ b = call.idx /\ board' = board
                           /\ To("decodeStop", b)
                           /\ (call.reads = DrainReads \/ board[b].mem = 0)
    BY <1>0, <2>1, DrainEndEffect, Zenon DEF Drains
  <2>3. board[b].hw = "idle" => board[b].mem + call.reads <= board[b].made
    BY <2>2, Zenon DEF Emptied
  <2>4. board[b].hw = "idle" => Drained(b)
    BY <2>2, <2>3, Zenon DEF Drained
  <2>5. call'.at = "decodeStop" /\ call'.idx = b
    BY <2>2, Zenon DEF To
  <2> QED BY <2>2, <2>4, <2>5 DEF Emptied, Drained, Stopping, Unwinding, Looping
<1>15. DecodeStop => Emptied'
  <2>1. DecodeStop => \E b \in Boards : /\ call.at = "decodeStop" /\ b = call.idx
                                         /\ Changes(b, {"dqClosed", "decoding"})
                                         /\ call'.at \in {"decodeJoin", "release"}
                                         /\ call'.idx = b
    BY <1>0, DecodeStopEffect DEF To
  <2> QED BY <2>1 DEF Changes, Fields, Emptied, Drained, Stopping, Unwinding, Looping
<1>16. DecodeJoin => Emptied'
  BY <1>0, DecodeJoinEffect
     DEF Changes, Fields, Still, Emptied, Drained, To, Settled, Stopping, Unwinding, Looping
<1>17. Release => Emptied'
  BY <1>0, ReleaseEffect
     DEF Changes, Fields, Still, Emptied, Drained, To, ToNext, Settled, Stopping, Unwinding, Looping
<1>18. CloseQueue => Emptied'
  BY <1>0, CloseQueueEffect DEF Emptied, Drained, To, Settled, Stopping, Unwinding, Looping
<1>19. JoinWriter => Emptied'
  BY <1>0, JoinWriterEffect DEF Emptied, Drained, To, Settled, Stopping, Unwinding, Looping
<1>20. CASE Writer
  <2>1. call' = call /\ board' = board /\ DaqKept
    BY <1>20, WriterPopEffect, WriterWriteEffect, WriterIdleEffect, WriterExitEffect, Zenon
       DEF Writer, BoardsKept, MainKept
  <2> QED BY <2>1 DEF Emptied, Drained, Stopping
<1>21. CASE RunnerStep /\ UNCHANGED <<mainVars, writerVars>>
  <2>1. call.at \in Unwinding \ {"halt", "join"} => board[call.idx].reader = "none"
    BY <1>0 DEF Settled, Stopping, Unwinding, Looping
  <2>2. PICK b \in Boards :
          /\ \A c \in Boards : c # b => board'[c] = board[c]
          /\ board'[b].hw = board[b].hw /\ board'[b].open = board[b].open
          /\ \/ board'[b].mem = board[b].mem /\ board'[b].made = board[b].made
             \/ board[b].hw = "acquiring"
             \/ /\ board[b].reader = "reading"
                /\ board[b].mem > 0 /\ board'[b].mem = board[b].mem - 1
                /\ board'[b].made = board[b].made
    BY <1>0, <1>21, RunnerMem, Zenon
  <2>3. call' = call
    BY <1>0, <1>21, RunnerMem, Zenon
  <2>4. \A c \in Boards : Stopping(c)' <=> Stopping(c)
    BY <2>3, Zenon DEF Stopping
  <2>5. b \in Boards /\ board[b].hw = "idle" /\ Drained(b) => Drained(b)'
    BY <1>0, <2>2, FieldTypes, SizesAssumption DEF Drained, Base
  <2>6. \A c \in Boards : board'[c].hw = "idle" /\ ~board'[c].open /\ ~Stopping(c) => Drained(c)'
    <3>1. \A c \in Boards : c # b /\ Drained(c) => Drained(c)'
      BY <2>2, Zenon DEF Drained
    <3>2. \A c \in Boards : board'[c].hw = board[c].hw /\ board'[c].open = board[c].open
      BY <2>2, Zenon
    <3> QED BY <2>5, <3>1, <3>2, Zenon DEF Emptied
  <2>7. call.at \in Unwinding \ {"halt", "join"} /\ board[call.idx].hw = "idle" =>
            /\ board'[call.idx].mem = board[call.idx].mem
            /\ board'[call.idx].made = board[call.idx].made
    BY <1>0, <2>1, <2>2 DEF Unwinding, Looping
  <2>8. call.at \in Unwinding => board'[call.idx].hw = board[call.idx].hw
    BY <1>0, <2>2 DEF Unwinding, Looping
  <2> QED BY <2>3, <2>4, <2>6, <2>7, <2>8 DEF Emptied, Drained, Unwinding, Looping
<1> QED BY <1>1, <1>2, <1>3, <1>4, <1>5, <1>6, <1>7, <1>8, <1>9, <1>10, <1>11,
           <1>12, <1>13, <1>14, <1>15, <1>16, <1>17, <1>18, <1>19, <1>20, <1>21,
           Zenon DEF Next, MainStep

(* No board holds a buffer at first. *)
LEMMA EmptiedInit == Init => Emptied
<1>1. Init => call.at = "idle" /\ board = [b \in Boards |-> NewBoard]
  BY DEF Init, RunnerInit
<1> QED BY <1>1 DEF Emptied, Drained, NewBoard

(* What drain() leaves in the memory of the boards: nothing, or what it had   *)
(* no read left for (BoardRunner.cpp:140-158), when no read fails.            *)
THEOREM StopEmpties == Spec => []StopEmptiesBoards
<1> DEFINE Inv == RestInv /\ (Drains => Emptied)
<1>1. Init => Inv
  BY RestInit, EmptiedInit, Zenon
<1>2. Inv /\ [Next]_vars => Inv'
  <2>1. SUFFICES ASSUME Inv, [Next]_vars, Drains PROVE Emptied'
    BY RestStep, Zenon DEF Drains
  <2>2. CASE Next
    BY <2>1, <2>2, EmptiedStep, Zenon
  <2>3. CASE UNCHANGED vars
    BY <2>1, <2>3, StutterKept, Zenon DEF Emptied, Drained, Stopping
  <2> QED BY <2>1, <2>2, <2>3
<1>3. Inv => StopEmptiesBoards
  BY DEF StopEmptiesBoards, Drains, Emptied, Drained, AtRest, Stopping, Unwinding, Looping
<1> QED BY <1>1, <1>2, <1>3, PTL DEF Spec
-----------------------------------------------------------------------------
(* The decode tap in the first run *)

(* A buffer that was read out of board b is on its way to the tap, in its    *)
(* queue, in the hands of the decoder, decoded, or counted as dropped.       *)
Tapped(b) ==
    board[b].decoded + board[b].decodeDropped + board[b].dq
        + One(board[b].decoder = "decode") + One(Submitting(b)) = board[b].buffersRead

(* The queue of the tap is closed when its board is down, and nothing is in  *)
(* it once the decoder has gone.                                             *)
TapClosed(b) ==
    /\ board[b].dqClosed =>
           /\ \/ call.at \in Unwinding \cup {"closeQueue", "joinWriter"}
              \/ AtRest /\ starts = 1
           /\ board[b].reader = "none"
           /\ ~board[b].running
           /\ Stopping(b) => call.at \in {"decodeJoin", "release"}
           /\ board[b].decoder \in {"none", "exited"} => board[b].dq = 0
    /\ board[b].decoder = "exited" => board[b].dqClosed
    /\ board[b].decoding => board[b].decoder # "none"
    /\ Stopping(b) /\ call.at = "decodeJoin" => ~board[b].decoding

(* No call has been made before the first one. *)
Began == starts = 0 => AtRest

TapInv == Began /\ (starts <= 1 => \A b \in Decoders : Tapped(b) /\ TapClosed(b))

(* The tap accounts for every buffer read, in every step of the first run. *)
LEMMA TappedStep ==
    ASSUME RestInv, TapInv, starts <= 1, Next
    PROVE  \A b \in Decoders : Tapped(b)'
<1>0. /\ Base /\ Settled /\ (call.at \in Looping => call.idx \in Boards)
      /\ Decoders \subseteq Boards
      /\ \A b \in Decoders : Tapped(b) /\ TapClosed(b)
  BY BoardsAssumption DEF RestInv, Base, Positions, TapInv
<1>1. CallStart => \A b \in Decoders : Tapped(b)'
  BY <1>0, CallStartEffect, FieldTypes DEF To, Tapped, One, Submitting
<1>2. CallStop => \A b \in Decoders : Tapped(b)'
  BY <1>0, CallStopEffect, FieldTypes DEF Still, ToUnwind, Tapped, One, Submitting
<1>3. PrepareBoard => \A b \in Decoders : Tapped(b)'
  BY <1>0, PrepareBoardEffect, FieldTypes
     DEF Changes, Fields, Still, To, Tapped, One, Submitting
<1>4. PrepareFile => \A b \in Decoders : Tapped(b)'
  BY <1>0, PrepareFileEffect, FieldTypes DEF To, Tapped, One, Submitting
<1>5. Launch => \A b \in Decoders : Tapped(b)'
  BY <1>0, LaunchEffect, FieldTypes DEF To, Tapped, One, Submitting
<1>6. ArmBoard => \A b \in Decoders : Tapped(b)'
  <2>1. ArmBoard => /\ call.at \notin Unwinding /\ call'.at \notin Unwinding \ {"halt"}
                    /\ \/ board' = board
                       \/ \E b \in Boards : Changes(b, {"running", "hw", "mem"})
    BY <1>0, ArmBoardEffect DEF To, ToUnwind, Unwinding, Looping
  <2> QED BY <1>0, <2>1 DEF Changes, Fields, Tapped, One, Submitting, Unwinding, Looping
<1>7. SendSWTrigger => \A b \in Decoders : Tapped(b)'
  BY <1>0, SendSWTriggerEffect, FieldTypes
     DEF Fields, Still, To, ToUnwind, Tapped, One, Submitting
<1>8. StartReaders => \A b \in Decoders : Tapped(b)'
  <2>1. SUFFICES ASSUME StartReaders PROVE \A b \in Decoders : Tapped(b)'
    OBVIOUS
  <2>2. call.at = "readers" /\ call'.at \notin Unwinding
    BY <1>0, <2>1, StartReadersEffect DEF To, Unwinding, Looping
  <2>3. \/ board' = board
        \/ \E b \in Boards :
             /\ Changes(b, {"reader", "decoding", "decoder"})
             /\ board[b].reader = "none" /\ board'[b].reader = "check"
             /\ \/ board'[b].decoder = "loop" /\ ~board[b].decoding
                \/ board'[b].decoder = board[b].decoder
    BY <1>0, <2>1, StartReadersEffect, Zenon
  <2>4. CASE board' = board
    BY <1>0, <2>2, <2>4 DEF Tapped, One, Submitting, Unwinding, Looping
  <2>5. ASSUME NEW b \in Boards, Changes(b, {"reader", "decoding", "decoder"}),
               board[b].reader = "none", board'[b].reader = "check",
               \/ board'[b].decoder = "loop" /\ ~board[b].decoding
               \/ board'[b].decoder = board[b].decoder
        PROVE  \A c \in Decoders : Tapped(c)'
    <3>1. \A c \in Boards : Submitting(c)' <=> Submitting(c)
      BY <2>2, <2>5 DEF Changes, Submitting, Unwinding, Looping
    <3>2. \A c \in Decoders : c # b => Tapped(c)'
      BY <1>0, <2>5, <3>1 DEF Changes, Tapped, One
    <3>3. ~board[b].decoding => board[b].decoder = "none"
      BY <1>0, <2>2 DEF Settled, Stopping, Unwinding, Looping
    <3>4. board'[b].decoder = "decode" <=> board[b].decoder = "decode"
      BY <2>5, <3>3
    <3>5. b \in Decoders => Tapped(b)'
      BY <1>0, <2>5, <3>1, <3>4 DEF Changes, Fields, Tapped, One
    <3> QED BY <3>2, <3>5
  <2> QED BY <2>3, <2>4, <2>5, Zenon
<1>9. Halt => \A b \in Decoders : Tapped(b)'
  BY <1>0, HaltEffect, FieldTypes
     DEF Changes, Fields, Still, To, ToNext, Tapped, One, Submitting
<1>10. JoinReader => \A b \in Decoders : Tapped(b)'
  BY <1>0, JoinReaderEffect, FieldTypes DEF Changes, Fields, Still, Tapped, One, Submitting
<1>11. DrainRead => \A b \in Decoders : Tapped(b)'
  <2>1. SUFFICES ASSUME DrainRead PROVE \A b \in Decoders : Tapped(b)'
    OBVIOUS
  <2>2. PICK b \in Boards : /\ call.at = "drain" /\ b = call.idx
                           /\ Changes(b, {"mem", "buffersRead"})
                           /\ board'[b].buffersRead = board[b].buffersRead + 1
                           /\ call'.at = "drainPush" /\ call'.idx = b
    BY <1>0, <2>1, DrainReadEffect, Zenon
  <2>3. ~Submitting(b) /\ Submitting(b)'
    BY <1>0, <2>2 DEF Settled, Stopping, Unwinding, Looping, Submitting
  <2>4. \A c \in Boards : c # b => (Submitting(c)' <=> Submitting(c))
    BY <2>2 DEF Changes, Submitting
  <2>5. \A c \in Decoders : c # b => Tapped(c)'
    BY <1>0, <2>2, <2>4 DEF Changes, Tapped, One
  <2>6. ASSUME b \in Decoders PROVE Tapped(b)'
    <3>1. b \in Boards /\ Tapped(b)
      BY <1>0, <2>6
    <3>2. /\ board'[b].decoded = board[b].decoded
          /\ board'[b].decodeDropped = board[b].decodeDropped
          /\ board'[b].dq = board[b].dq
          /\ board'[b].decoder = board[b].decoder
      BY <2>2 DEF Changes, Fields
    <3>3. /\ board[b].decoded \in Nat /\ board[b].decodeDropped \in Nat
          /\ board[b].dq \in Nat /\ board[b].buffersRead \in Nat
      BY <1>0, <3>1, FieldTypes DEF Base
    <3> QED BY <2>2, <2>3, <3>1, <3>2, <3>3 DEF Tapped, One
  <2> QED BY <2>5, <2>6
<1>12. DrainPush => \A b \in Decoders : Tapped(b)'
  BY <1>0, DrainPushEffect, FieldTypes DEF Changes, Fields, Tapped, One, Submitting
<1>13. DrainSubmit => \A b \in Decoders : Tapped(b)'
  <2>1. SUFFICES ASSUME DrainSubmit PROVE \A b \in Decoders : Tapped(b)'
    OBVIOUS
  <2>2. PICK b \in Boards :
          /\ call.at = "drainSubmit" /\ b = call.idx /\ To("drain", b)
          /\ \/ board' = board /\ (b \notin Decoders \/ board[b].dqClosed)
             \/ Changes(b, {"dq"}) /\ board'[b].dq = board[b].dq + 1
             \/ /\ Changes(b, {"decodeDropped"})
                /\ board'[b].decodeDropped = board[b].decodeDropped + 1
    BY <1>0, <2>1, DrainSubmitEffect, Zenon
  <2>3. call'.at = "drain" /\ call'.idx = b
    BY <2>2, Zenon DEF To
  <2>4. board[b].reader = "none" /\ Submitting(b)
    BY <1>0, <2>2 DEF Settled, Stopping, Unwinding, Looping, Submitting
  <2>5. b \in Decoders => ~board[b].dqClosed
    BY <1>0, <2>2 DEF TapClosed, Stopping, Unwinding, Looping
  <2>6. \A c \in Boards : c # b => board'[c] = board[c] /\ (Submitting(c)' <=> Submitting(c))
    BY <2>2, <2>3 DEF Changes, Submitting
  <2>7. \A c \in Decoders : c # b => Tapped(c)'
    BY <1>0, <2>6 DEF Tapped, One
  <2>8. ASSUME b \in Decoders PROVE Tapped(b)'
    <3>1. CASE Changes(b, {"dq"}) /\ board'[b].dq = board[b].dq + 1
      <4>1. ~Submitting(b)'
        BY <2>3, <2>4, <3>1 DEF Changes, Fields, Submitting
      <4>2. Tapped(b)'
        <5>1. b \in Boards /\ Tapped(b)
          BY <1>0, <2>8
        <5>2. /\ board'[b].decoded = board[b].decoded
              /\ board'[b].decodeDropped = board[b].decodeDropped
              /\ board'[b].decoder = board[b].decoder
              /\ board'[b].buffersRead = board[b].buffersRead
          BY <3>1 DEF Changes, Fields
        <5>3. /\ board[b].decoded \in Nat /\ board[b].decodeDropped \in Nat
              /\ board[b].dq \in Nat /\ board[b].buffersRead \in Nat
          BY <1>0, <5>1, FieldTypes DEF Base
        <5> QED BY <2>4, <3>1, <4>1, <5>1, <5>2, <5>3 DEF Tapped, One
      <4> QED BY <4>2
    <3>2. CASE /\ Changes(b, {"decodeDropped"})
               /\ board'[b].decodeDropped = board[b].decodeDropped + 1
      <4>1. ~Submitting(b)'
        BY <2>3, <2>4, <3>2 DEF Changes, Fields, Submitting
      <4>2. Tapped(b)'
        <5>1. b \in Boards /\ Tapped(b)
          BY <1>0, <2>8
        <5>2. /\ board'[b].decoded = board[b].decoded
              /\ board'[b].dq = board[b].dq
              /\ board'[b].decoder = board[b].decoder
              /\ board'[b].buffersRead = board[b].buffersRead
          BY <3>2 DEF Changes, Fields
        <5>3. /\ board[b].decoded \in Nat /\ board[b].decodeDropped \in Nat
              /\ board[b].dq \in Nat /\ board[b].buffersRead \in Nat
          BY <1>0, <5>1, FieldTypes DEF Base
        <5> QED BY <2>4, <3>2, <4>1, <5>1, <5>2, <5>3 DEF Tapped, One
      <4> QED BY <4>2
    <3> QED BY <2>2, <2>5, <2>8, <3>1, <3>2, Zenon
  <2> QED BY <2>7, <2>8
<1>14. DrainEnd => \A b \in Decoders : Tapped(b)'
  BY <1>0, DrainEndEffect, FieldTypes DEF Still, To, Tapped, One, Submitting
<1>15. DecodeStop => \A b \in Decoders : Tapped(b)'
  BY <1>0, DecodeStopEffect, FieldTypes DEF Changes, Fields, Still, To, Tapped, One, Submitting
<1>16. DecodeJoin => \A b \in Decoders : Tapped(b)'
  BY <1>0, DecodeJoinEffect, FieldTypes DEF Changes, Fields, Still, To, Tapped, One, Submitting
<1>17. Release => \A b \in Decoders : Tapped(b)'
  BY <1>0, ReleaseEffect, FieldTypes
     DEF Changes, Fields, Still, To, ToNext, Tapped, One, Submitting
<1>18. CloseQueue => \A b \in Decoders : Tapped(b)'
  BY <1>0, CloseQueueEffect, FieldTypes DEF To, Tapped, One, Submitting
<1>19. JoinWriter => \A b \in Decoders : Tapped(b)'
  BY <1>0, JoinWriterEffect, FieldTypes DEF To, Tapped, One, Submitting
<1>20. CASE Writer
  <2>1. call' = call /\ board' = board
    BY <1>20, WriterPopEffect, WriterWriteEffect, WriterIdleEffect, WriterExitEffect, Zenon
       DEF Writer, BoardsKept, MainKept
  <2> QED BY <1>0, <2>1, Zenon DEF Tapped, Submitting
<1>21. CASE RunnerStep /\ UNCHANGED <<mainVars, writerVars>>
  <2>1. call' = call /\ DaqKept
    BY <1>21, RunnerStepCases, Zenon DEF MainKept
  <2>2. ASSUME NEW b \in Boards, Acquire(b) PROVE \A c \in Decoders : Tapped(c)'
    BY <1>0, <2>1, <2>2, AcquireEffect, FieldTypes DEF Changes, Fields, Tapped, One, Submitting
  <2>3. ASSUME NEW b \in Boards, ReaderExit(b) PROVE \A c \in Decoders : Tapped(c)'
    BY <1>0, <2>1, <2>3, ReaderExitEffect, FieldTypes
       DEF Changes, Fields, Tapped, One, Submitting
  <2>4. ASSUME NEW b \in Boards, ReaderReadBegin(b) PROVE \A c \in Decoders : Tapped(c)'
    BY <1>0, <2>1, <2>4, ReaderReadBeginEffect, FieldTypes
       DEF Changes, Fields, Tapped, One, Submitting
  <2>5. ASSUME NEW b \in Boards, ReaderReadEnd(b) PROVE \A c \in Decoders : Tapped(c)'
    <3>1. CASE /\ Changes(b, {"mem", "buffersRead", "hand", "reader"})
               /\ board'[b].buffersRead = board[b].buffersRead + 1
               /\ board'[b].reader = "push"
      <4>1. board[b].reader = "reading"
        BY <1>0, <2>5, ReaderReadEndEffect, Zenon
      <4>2. ~Submitting(b) /\ Submitting(b)'
        BY <1>0, <3>1, <4>1 DEF Settled, Stopping, Unwinding, Looping, Submitting
      <4>3. \A c \in Boards : c # b => (Submitting(c)' <=> Submitting(c))
        BY <2>1, <3>1 DEF Changes, Submitting
      <4>4. \A c \in Decoders : c # b => Tapped(c)'
        BY <1>0, <3>1, <4>3 DEF Changes, Tapped, One
      <4>5. ASSUME b \in Decoders PROVE Tapped(b)'
        <5>1. b \in Boards /\ Tapped(b)
          BY <1>0, <4>5
        <5>2. /\ board'[b].decoded = board[b].decoded
              /\ board'[b].decodeDropped = board[b].decodeDropped
              /\ board'[b].dq = board[b].dq
              /\ board'[b].decoder = board[b].decoder
          BY <3>1 DEF Changes, Fields
        <5>3. /\ board[b].decoded \in Nat /\ board[b].decodeDropped \in Nat
              /\ board[b].dq \in Nat /\ board[b].buffersRead \in Nat
          BY <1>0, <5>1, FieldTypes DEF Base
        <5> QED BY <3>1, <4>2, <5>1, <5>2, <5>3 DEF Tapped, One
      <4> QED BY <4>4, <4>5
    <3>2. CASE Changes(b, {"commErrors", "reader"}) /\ board'[b].reader = "check"
      <4>1. board[b].reader = "reading"
        BY <1>0, <2>5, ReaderReadEndEffect, Zenon
      <4> QED BY <1>0, <2>1, <3>2, <4>1 DEF Changes, Fields, Tapped, One, Submitting
    <3> QED BY <1>0, <2>5, <3>1, <3>2, ReaderReadEndEffect, Zenon
  <2>6. ASSUME NEW b \in Boards, ReaderPush(b) PROVE \A c \in Decoders : Tapped(c)'
    BY <1>0, <2>1, <2>6, ReaderPushEffect, FieldTypes
       DEF Changes, Fields, Tapped, One, Submitting
  <2>7. ASSUME NEW b \in Boards, ReaderSubmit(b) PROVE \A c \in Decoders : Tapped(c)'
    <3>1. board[b].reader = "submit" /\ board'[b].reader = "check"
      BY <1>0, <2>7, ReaderSubmitEffect, Zenon
    <3>2. \A c \in Boards : c # b => board'[c] = board[c]
      BY <1>0, <2>7, ReaderSubmitEffect, Zenon DEF Changes
    <3>3. Submitting(b) /\ ~Submitting(b)'
      BY <1>0, <2>1, <3>1 DEF Settled, Stopping, Unwinding, Looping, Submitting
    <3>4. \A c \in Decoders : c # b => Tapped(c)'
      BY <1>0, <2>1, <3>2 DEF Tapped, One, Submitting
    <3>5. ASSUME b \in Decoders PROVE Tapped(b)'
      <4>1. ~board[b].dqClosed
        BY <1>0, <3>1, <3>5 DEF TapClosed
      <4>2. CASE Changes(b, {"dq", "reader"}) /\ board'[b].dq = board[b].dq + 1
        <5>1. b \in Boards /\ Tapped(b)
          BY <1>0, <3>5
        <5>2. /\ board'[b].decoded = board[b].decoded
              /\ board'[b].decodeDropped = board[b].decodeDropped
              /\ board'[b].decoder = board[b].decoder
              /\ board'[b].buffersRead = board[b].buffersRead
          BY <4>2 DEF Changes, Fields
        <5>3. /\ board[b].decoded \in Nat /\ board[b].decodeDropped \in Nat
              /\ board[b].dq \in Nat /\ board[b].buffersRead \in Nat
          BY <1>0, <5>1, FieldTypes DEF Base
        <5> QED BY <3>3, <4>2, <5>1, <5>2, <5>3 DEF Tapped, One
      <4>3. CASE /\ Changes(b, {"decodeDropped", "reader"})
                 /\ board'[b].decodeDropped = board[b].decodeDropped + 1
        <5>1. b \in Boards /\ Tapped(b)
          BY <1>0, <3>5
        <5>2. /\ board'[b].decoded = board[b].decoded
              /\ board'[b].dq = board[b].dq
              /\ board'[b].decoder = board[b].decoder
              /\ board'[b].buffersRead = board[b].buffersRead
          BY <4>3 DEF Changes, Fields
        <5>3. /\ board[b].decoded \in Nat /\ board[b].decodeDropped \in Nat
              /\ board[b].dq \in Nat /\ board[b].buffersRead \in Nat
          BY <1>0, <5>1, FieldTypes DEF Base
        <5> QED BY <3>3, <4>3, <5>1, <5>2, <5>3 DEF Tapped, One
      <4> QED BY <1>0, <2>7, <3>5, <4>1, <4>2, <4>3, ReaderSubmitEffect, Zenon
    <3> QED BY <3>4, <3>5
  <2>8. ASSUME NEW b \in Boards, DecoderPop(b) PROVE \A c \in Decoders : Tapped(c)'
    <3>1. board[b].decoder = "loop"
      BY <1>0, <2>8, DecoderPopEffect, Zenon
    <3>2. CASE /\ Changes(b, {"dq", "decoder"}) /\ board[b].dq > 0
               /\ board'[b].dq = board[b].dq - 1 /\ board'[b].decoder = "decode"
      <4>1. \A c \in Boards : Submitting(c)' <=> Submitting(c)
        BY <2>1, <3>2 DEF Changes, Fields, Submitting
      <4>2. \A c \in Decoders : c # b => Tapped(c)'
        BY <1>0, <3>2, <4>1 DEF Changes, Tapped, One
      <4>3. ASSUME b \in Decoders PROVE Tapped(b)'
        <5>1. b \in Boards /\ Tapped(b)
          BY <1>0, <4>3
        <5>2. /\ board'[b].decoded = board[b].decoded
              /\ board'[b].decodeDropped = board[b].decodeDropped
              /\ board'[b].buffersRead = board[b].buffersRead
          BY <3>2 DEF Changes, Fields
        <5>3. /\ board[b].decoded \in Nat /\ board[b].decodeDropped \in Nat
              /\ board[b].dq \in Nat /\ board[b].buffersRead \in Nat
          BY <1>0, <5>1, FieldTypes DEF Base
        <5> QED BY <3>1, <3>2, <4>1, <5>1, <5>2, <5>3 DEF Tapped, One
      <4> QED BY <4>2, <4>3
    <3>3. CASE Changes(b, {"decoder"}) /\ board'[b].decoder = "exited"
      BY <1>0, <2>1, <3>1, <3>3 DEF Changes, Fields, Submitting, Tapped, One
    <3> QED BY <1>0, <2>8, <3>2, <3>3, DecoderPopEffect, Zenon
  <2>9. ASSUME NEW b \in Boards, DecoderDecode(b) PROVE \A c \in Decoders : Tapped(c)'
    <3>1. /\ Changes(b, {"decoded", "decoder"})
          /\ board[b].decoder = "decode" /\ board'[b].decoder = "loop"
          /\ board'[b].decoded = board[b].decoded + 1
      BY <1>0, <2>9, DecoderDecodeEffect, Zenon
    <3>2. \A c \in Boards : Submitting(c)' <=> Submitting(c)
      BY <2>1, <3>1 DEF Changes, Fields, Submitting
    <3>3. \A c \in Decoders : c # b => Tapped(c)'
      BY <1>0, <3>1, <3>2 DEF Changes, Tapped, One
    <3>4. ASSUME b \in Decoders PROVE Tapped(b)'
      <4>1. b \in Boards /\ Tapped(b)
        BY <1>0, <3>4
      <4>2. /\ board'[b].decodeDropped = board[b].decodeDropped
            /\ board'[b].dq = board[b].dq
            /\ board'[b].buffersRead = board[b].buffersRead
        BY <3>1 DEF Changes, Fields
      <4>3. /\ board[b].decoded \in Nat /\ board[b].decodeDropped \in Nat
            /\ board[b].dq \in Nat /\ board[b].buffersRead \in Nat
        BY <1>0, <4>1, FieldTypes DEF Base
      <4> QED BY <3>1, <3>2, <4>1, <4>2, <4>3 DEF Tapped, One
    <3> QED BY <3>3, <3>4
  <2> QED BY <1>21, <2>2, <2>3, <2>4, <2>5, <2>6, <2>7, <2>8, <2>9, RunnerStepCases, Zenon
<1> QED BY <1>1, <1>2, <1>3, <1>4, <1>5, <1>6, <1>7, <1>8, <1>9, <1>10, <1>11,
           <1>12, <1>13, <1>14, <1>15, <1>16, <1>17, <1>18, <1>19, <1>20, <1>21,
           Zenon DEF Next, MainStep
(* A closed tap has been emptied. *)
LEMMA TapClosedStep ==
    ASSUME RestInv, TapInv, starts <= 1, starts' <= 1, Next
    PROVE  \A b \in Decoders : TapClosed(b)'
<1>0. /\ Base /\ Settled /\ (call.at \in Looping => call.idx \in Boards)
      /\ Decoders \subseteq Boards /\ starts \in Nat
      /\ \A b \in Decoders : TapClosed(b)
  BY BoardsAssumption, DaqAssumption DEF RestInv, Base, Positions, TapInv, FlagsTyped
<1>1. CallStart => \A b \in Decoders : TapClosed(b)'
  <2>1. SUFFICES ASSUME CallStart PROVE \A b \in Decoders : TapClosed(b)'
    OBVIOUS
  <2>2. call.at = "idle" /\ starts' = starts + 1 /\ board' = board
    BY <1>0, <2>1, CallStartEffect, Zenon
  <2>3. call'.at \in {"launch", "prepare"}
    BY <1>0, <2>1, CallStartEffect DEF To
  <2>4. \A b \in Decoders : ~board[b].dqClosed
    BY <1>0, <2>2 DEF TapClosed, Unwinding, Looping
  <2> QED BY <1>0, <2>2, <2>3, <2>4 DEF TapClosed
<1>2. CallStop => \A b \in Decoders : TapClosed(b)'
  BY <1>0, CallStopEffect
     DEF Still, ToUnwind, TapClosed, Stopping, Unwinding, Looping, AtRest, DaqKept
<1>3. PrepareBoard => \A b \in Decoders : TapClosed(b)'
  BY <1>0, PrepareBoardEffect
     DEF Changes, Fields, Still, To, TapClosed, Stopping, Unwinding, Looping, AtRest, DaqKept
<1>4. PrepareFile => \A b \in Decoders : TapClosed(b)'
  BY <1>0, PrepareFileEffect DEF To, TapClosed, Stopping, Unwinding, Looping, AtRest
<1>5. Launch => \A b \in Decoders : TapClosed(b)'
  BY <1>0, LaunchEffect DEF To, TapClosed, Stopping, Unwinding, Looping, AtRest, DaqKept
<1>6. ArmBoard => \A b \in Decoders : TapClosed(b)'
  <2>1. SUFFICES ASSUME ArmBoard PROVE \A b \in Decoders : TapClosed(b)'
    OBVIOUS
  <2>2. call.at = "arm"
    BY <1>0, <2>1, ArmBoardEffect, Zenon
  <2>3. \A b \in Decoders : ~board[b].dqClosed
    BY <1>0, <2>2 DEF TapClosed, Unwinding, Looping, AtRest
  <2>4. \/ board' = board
        \/ \E b \in Boards : Changes(b, {"running", "hw", "mem"})
    BY <1>0, <2>1, ArmBoardEffect, Zenon
  <2>5. call'.at # "decodeJoin"
    BY <1>0, <2>1, ArmBoardEffect DEF To, ToUnwind
  <2> QED BY <1>0, <2>3, <2>4, <2>5 DEF Changes, Fields, TapClosed
<1>7. SendSWTrigger => \A b \in Decoders : TapClosed(b)'
  BY <1>0, SendSWTriggerEffect
     DEF Fields, Still, To, ToUnwind, TapClosed, Stopping, Unwinding, Looping, AtRest, DaqKept
<1>8. StartReaders => \A b \in Decoders : TapClosed(b)'
  <2>1. SUFFICES ASSUME StartReaders PROVE \A b \in Decoders : TapClosed(b)'
    OBVIOUS
  <2>2. call.at = "readers"
    BY <1>0, <2>1, StartReadersEffect, Zenon
  <2>3. \A b \in Decoders : ~board[b].dqClosed
    BY <1>0, <2>2 DEF TapClosed, Unwinding, Looping, AtRest
  <2>4. \/ board' = board
        \/ \E b \in Boards :
             /\ Changes(b, {"reader", "decoding", "decoder"})
             /\ board'[b].decoding = (board[b].decoding \/ b \in Decoders)
             /\ board'[b].decoder = IF b \in Decoders /\ ~board[b].decoding
                                    THEN "loop" ELSE board[b].decoder
    BY <1>0, <2>1, StartReadersEffect, Zenon
  <2>5. call'.at # "decodeJoin"
    BY <1>0, <2>1, StartReadersEffect DEF To
  <2> QED BY <1>0, <2>3, <2>4, <2>5 DEF Changes, Fields, TapClosed
<1>9. Halt => \A b \in Decoders : TapClosed(b)'
  BY <1>0, HaltEffect
     DEF Changes, Fields, Still, To, ToNext, TapClosed, Stopping, Unwinding, Looping, AtRest,
         DaqKept
<1>10. JoinReader => \A b \in Decoders : TapClosed(b)'
  BY <1>0, JoinReaderEffect
     DEF Changes, Fields, Still, TapClosed, Stopping, Unwinding, Looping, AtRest, DaqKept
<1>11. DrainRead => \A b \in Decoders : TapClosed(b)'
  BY <1>0, DrainReadEffect
     DEF Changes, Fields, Still, TapClosed, Stopping, Unwinding, Looping, AtRest, DaqKept
<1>12. DrainPush => \A b \in Decoders : TapClosed(b)'
  BY <1>0, DrainPushEffect
     DEF Changes, Fields, TapClosed, Stopping, Unwinding, Looping, AtRest, DaqKept
<1>13. DrainSubmit => \A b \in Decoders : TapClosed(b)'
  BY <1>0, DrainSubmitEffect
     DEF Changes, Fields, Still, To, TapClosed, Stopping, Unwinding, Looping, AtRest, DaqKept
<1>14. DrainEnd => \A b \in Decoders : TapClosed(b)'
  BY <1>0, DrainEndEffect
     DEF Still, To, TapClosed, Stopping, Unwinding, Looping, AtRest, DaqKept
<1>15. DecodeStop => \A b \in Decoders : TapClosed(b)'
  <2>1. SUFFICES ASSUME DecodeStop PROVE \A b \in Decoders : TapClosed(b)'
    OBVIOUS
  <2>2. PICK b \in Boards :
          /\ call.at = "decodeStop" /\ b = call.idx /\ Still
          /\ Changes(b, {"dqClosed", "decoding"}) /\ ~board'[b].decoding
          /\ board'[b].dqClosed <=> (board[b].dqClosed \/ board[b].decoding)
          /\ \/ board[b].decoding /\ To("decodeJoin", b)
             \/ ~board[b].decoding /\ To("release", b)
    BY <1>0, <2>1, DecodeStopEffect, Zenon
  <2>3. /\ board[b].reader = "none" /\ ~board[b].running
        /\ b \in Decoders => ~board[b].dqClosed
    BY <1>0, <2>2 DEF Settled, TapClosed, Stopping, Unwinding, Looping
  <2>4. call'.at \in {"decodeJoin", "release"} /\ call'.idx = b
    BY <2>2 DEF To
  <2>5. \A c \in Decoders : c # b => TapClosed(c)'
    BY <1>0, <2>2, <2>4 DEF Changes, TapClosed, Stopping, Unwinding, Looping, AtRest
  <2>6. b \in Decoders => TapClosed(b)'
    <3>1. /\ board'[b].reader = board[b].reader /\ board'[b].running = board[b].running
          /\ board'[b].decoder = board[b].decoder
      BY <2>2 DEF Changes, Fields
    <3>2. /\ b \in Decoders => (board[b].decoder = "exited" => board[b].dqClosed)
          /\ b \in Decoders => (board[b].decoding => board[b].decoder # "none")
      BY <1>0 DEF TapClosed
    <3> QED BY <2>2, <2>3, <2>4, <3>1, <3>2 DEF TapClosed, Stopping, Unwinding, Looping
  <2> QED BY <2>5, <2>6
<1>16. DecodeJoin => \A b \in Decoders : TapClosed(b)'
  <2>1. SUFFICES ASSUME DecodeJoin PROVE \A b \in Decoders : TapClosed(b)'
    OBVIOUS
  <2>2. PICK b \in Boards :
          /\ call.at = "decodeJoin" /\ b = call.idx /\ To("release", b)
          /\ board[b].decoder = "exited"
          /\ Changes(b, {"decoder"}) /\ board'[b].decoder = "none"
    BY <1>0, <2>1, DecodeJoinEffect, Zenon
  <2>3. call'.at = "release" /\ call'.idx = b
    BY <2>2 DEF To
  <2>4. \A c \in Decoders : c # b => TapClosed(c)'
    BY <1>0, <2>2, <2>3 DEF Changes, TapClosed, Stopping, Unwinding, Looping, AtRest
  <2>5. b \in Decoders => TapClosed(b)'
    <3>1. /\ board'[b].reader = board[b].reader /\ board'[b].running = board[b].running
          /\ board'[b].dqClosed = board[b].dqClosed /\ board'[b].decoding = board[b].decoding
          /\ board'[b].dq = board[b].dq
      BY <2>2 DEF Changes, Fields
    <3>2. b \in Decoders => ~board[b].decoding
      BY <1>0, <2>2 DEF TapClosed, Stopping, Unwinding, Looping
    <3> QED BY <1>0, <2>2, <2>3, <3>1, <3>2 DEF TapClosed, Stopping, Unwinding, Looping
  <2> QED BY <2>4, <2>5
<1>17. Release => \A b \in Decoders : TapClosed(b)'
  BY <1>0, ReleaseEffect
     DEF Changes, Fields, Still, To, ToNext, TapClosed, Stopping, Unwinding, Looping, AtRest,
         DaqKept
<1>18. CloseQueue => \A b \in Decoders : TapClosed(b)'
  BY <1>0, CloseQueueEffect DEF To, TapClosed, Stopping, Unwinding, Looping, AtRest, DaqKept
<1>19. JoinWriter => \A b \in Decoders : TapClosed(b)'
  <2>1. SUFFICES ASSUME JoinWriter PROVE \A b \in Decoders : TapClosed(b)'
    OBVIOUS
  <2>2. call.at = "joinWriter" /\ board' = board /\ starts' = starts /\ running' = FALSE
    BY <1>0, <2>1, JoinWriterEffect, Zenon
  <2>3. call'.at = "idle"
    BY <1>0, <2>1, JoinWriterEffect DEF To
  <2>4. starts = 1
    BY <1>0, <2>2 DEF TapInv, Began, AtRest
  <2> QED BY <1>0, <2>2, <2>3, <2>4 DEF TapClosed, Stopping, Unwinding, Looping, AtRest
<1>20. CASE Writer
  <2>1. call' = call /\ board' = board /\ DaqKept
    BY <1>20, WriterPopEffect, WriterWriteEffect, WriterIdleEffect, WriterExitEffect, Zenon
       DEF Writer, BoardsKept, MainKept
  <2> QED BY <1>0, <2>1, Zenon DEF TapClosed, Stopping, AtRest, DaqKept
<1>21. CASE RunnerStep /\ UNCHANGED <<mainVars, writerVars>>
  <2>1. call' = call /\ DaqKept
    BY <1>21, RunnerStepCases, Zenon DEF MainKept
  <2>2. ASSUME NEW b \in Boards, Acquire(b) PROVE \A c \in Decoders : TapClosed(c)'
    BY <1>0, <2>1, <2>2, AcquireEffect
       DEF Changes, Fields, TapClosed, Stopping, Unwinding, Looping, AtRest, DaqKept
  <2>3. ASSUME NEW b \in Boards, ReaderExit(b) PROVE \A c \in Decoders : TapClosed(c)'
    BY <1>0, <2>1, <2>3, ReaderExitEffect
       DEF Changes, Fields, TapClosed, Stopping, Unwinding, Looping, AtRest, DaqKept
  <2>4. ASSUME NEW b \in Boards, ReaderReadBegin(b) PROVE \A c \in Decoders : TapClosed(c)'
    BY <1>0, <2>1, <2>4, ReaderReadBeginEffect
       DEF Changes, Fields, TapClosed, Stopping, Unwinding, Looping, AtRest, DaqKept
  <2>5. ASSUME NEW b \in Boards, ReaderReadEnd(b) PROVE \A c \in Decoders : TapClosed(c)'
    BY <1>0, <2>1, <2>5, ReaderReadEndEffect
       DEF Changes, Fields, TapClosed, Stopping, Unwinding, Looping, AtRest, DaqKept
  <2>6. ASSUME NEW b \in Boards, ReaderPush(b) PROVE \A c \in Decoders : TapClosed(c)'
    BY <1>0, <2>1, <2>6, ReaderPushEffect
       DEF Changes, Fields, TapClosed, Stopping, Unwinding, Looping, AtRest, DaqKept
  <2>7. ASSUME NEW b \in Boards, ReaderSubmit(b) PROVE \A c \in Decoders : TapClosed(c)'
    BY <1>0, <2>1, <2>7, ReaderSubmitEffect
       DEF Changes, Fields, TapClosed, Stopping, Unwinding, Looping, AtRest, DaqKept
  <2>8. ASSUME NEW b \in Boards, DecoderPop(b) PROVE \A c \in Decoders : TapClosed(c)'
    BY <1>0, <2>1, <2>8, DecoderPopEffect
       DEF Changes, Fields, TapClosed, Stopping, Unwinding, Looping, AtRest, DaqKept
  <2>9. ASSUME NEW b \in Boards, DecoderDecode(b) PROVE \A c \in Decoders : TapClosed(c)'
    BY <1>0, <2>1, <2>9, DecoderDecodeEffect
       DEF Changes, Fields, TapClosed, Stopping, Unwinding, Looping, AtRest, DaqKept
  <2> QED BY <1>21, <2>2, <2>3, <2>4, <2>5, <2>6, <2>7, <2>8, <2>9, RunnerStepCases, Zenon
<1> QED BY <1>1, <1>2, <1>3, <1>4, <1>5, <1>6, <1>7, <1>8, <1>9, <1>10, <1>11,
           <1>12, <1>13, <1>14, <1>15, <1>16, <1>17, <1>18, <1>19, <1>20, <1>21,
           Zenon DEF Next, MainStep

(* Only start() counts a call. *)
LEMMA StartsStep ==
    ASSUME Base, starts \in Nat, Began, Next
    PROVE  (starts' = starts \/ CallStart) /\ Began'
<1>1. CallStart => (starts' = starts \/ CallStart) /\ Began'
  BY CallStartEffect DEF Began, To
<1>2. CallStop => (starts' = starts \/ CallStart) /\ Began'
  BY CallStopEffect DEF Still, DaqKept, Began, AtRest, ToUnwind
<1>3. PrepareBoard => (starts' = starts \/ CallStart) /\ Began'
  BY PrepareBoardEffect DEF Still, DaqKept, Began, AtRest, To
<1>4. PrepareFile => (starts' = starts \/ CallStart) /\ Began'
  BY PrepareFileEffect DEF Began, AtRest, To
<1>5. Launch => (starts' = starts \/ CallStart) /\ Began'
  BY LaunchEffect DEF DaqKept, Began, AtRest, To
<1>6. ArmBoard => (starts' = starts \/ CallStart) /\ Began'
  BY ArmBoardEffect DEF Still, DaqKept, Began, AtRest, To, ToUnwind
<1>7. SendSWTrigger => (starts' = starts \/ CallStart) /\ Began'
  BY SendSWTriggerEffect DEF Still, DaqKept, Began, AtRest, To, ToUnwind
<1>8. StartReaders => (starts' = starts \/ CallStart) /\ Began'
  BY StartReadersEffect DEF Began, AtRest, To
<1>9. Halt => (starts' = starts \/ CallStart) /\ Began'
  BY HaltEffect DEF Still, DaqKept, Began, AtRest, To, ToNext
<1>10. JoinReader => (starts' = starts \/ CallStart) /\ Began'
  BY JoinReaderEffect DEF Still, DaqKept, Began, AtRest
<1>11. DrainRead => (starts' = starts \/ CallStart) /\ Began'
  BY DrainReadEffect DEF Still, DaqKept, Began, AtRest
<1>12. DrainPush => (starts' = starts \/ CallStart) /\ Began'
  BY DrainPushEffect DEF DaqKept, Began, AtRest
<1>13. DrainSubmit => (starts' = starts \/ CallStart) /\ Began'
  BY DrainSubmitEffect DEF Still, DaqKept, Began, AtRest, To
<1>14. DrainEnd => (starts' = starts \/ CallStart) /\ Began'
  BY DrainEndEffect DEF Still, DaqKept, Began, AtRest, To
<1>15. DecodeStop => (starts' = starts \/ CallStart) /\ Began'
  BY DecodeStopEffect DEF Still, DaqKept, Began, AtRest, To
<1>16. DecodeJoin => (starts' = starts \/ CallStart) /\ Began'
  BY DecodeJoinEffect DEF Still, DaqKept, Began, AtRest, To
<1>17. Release => (starts' = starts \/ CallStart) /\ Began'
  BY ReleaseEffect DEF Still, DaqKept, Began, AtRest, To, ToNext
<1>18. CloseQueue => (starts' = starts \/ CallStart) /\ Began'
  BY CloseQueueEffect DEF DaqKept, Began, AtRest, To
<1>19. JoinWriter => (starts' = starts \/ CallStart) /\ Began'
  BY JoinWriterEffect DEF Began, AtRest, To
<1>20. CASE Writer
  <2>1. call' = call /\ DaqKept
    BY <1>20, WriterPopEffect, WriterWriteEffect, WriterIdleEffect, WriterExitEffect, Zenon
       DEF Writer, BoardsKept, MainKept
  <2> QED BY <2>1, Zenon DEF DaqKept, Began, AtRest
<1>21. CASE RunnerStep /\ UNCHANGED <<mainVars, writerVars>>
  <2>1. call' = call /\ DaqKept
    BY <1>21, RunnerStepCases, Zenon DEF MainKept
  <2> QED BY <2>1, Zenon DEF DaqKept, Began, AtRest
<1> QED BY <1>1, <1>2, <1>3, <1>4, <1>5, <1>6, <1>7, <1>8, <1>9, <1>10, <1>11,
           <1>12, <1>13, <1>14, <1>15, <1>16, <1>17, <1>18, <1>19, <1>20, <1>21,
           Zenon DEF Next, MainStep

(* No tap is open at first. *)
LEMMA TapInit == Init => TapInv
<1>1. Init => /\ call.at = "idle" /\ ~running /\ call.hand = NoBlock
              /\ board = [b \in Boards |-> NewBoard]
  BY DEF Init, RunnerInit
<1> QED BY <1>1, BoardsAssumption
           DEF TapInv, Began, AtRest, Tapped, TapClosed, One, Submitting, Stopping, Unwinding,
               Looping, NewBoard

(* The decode tap of the first call has decoded, dropped or still holds what *)
(* was read, and holds nothing once it was stopped (DecodeStage.cpp:26-32).  *)
THEOREM TapSeesAll == Spec => []DecoderSeesAll
<1>1. Init => RestInv /\ TapInv
  BY RestInit, TapInit, Zenon
<1>2. RestInv /\ TapInv /\ [Next]_vars => RestInv' /\ TapInv'
  <2>1. SUFFICES ASSUME RestInv, TapInv, [Next]_vars PROVE TapInv'
    BY RestStep, Zenon
  <2>2. CASE Next
    <3>1. Base /\ Began /\ starts \in Nat
      BY <2>1, DaqAssumption DEF RestInv, TapInv, FlagsTyped
    <3>2. (starts' = starts \/ CallStart) /\ Began'
      BY <2>2, <3>1, StartsStep, Zenon
    <3>3. CallStart => starts' = starts + 1
      BY <3>1, CallStartEffect, Zenon
    <3>4. starts' <= 1 => starts <= 1
      BY <3>1, <3>2, <3>3
    <3> QED BY <2>1, <2>2, <3>2, <3>4, TappedStep, TapClosedStep, Zenon DEF TapInv
  <2>3. CASE UNCHANGED vars
    <3>1. board' = board /\ call' = call /\ starts' = starts /\ running' = running
      BY <2>3, StutterKept, Zenon DEF DaqKept
    <3> QED BY <2>1, <3>1, Zenon
               DEF TapInv, Began, Tapped, TapClosed, Submitting, Stopping, AtRest
  <2> QED BY <2>1, <2>2, <2>3
<1>3. RestInv /\ TapInv => DecoderSeesAll
  <2>1. SUFFICES ASSUME RestInv, TapInv, AtRest, starts <= 1, NEW b \in Decoders
                 PROVE  /\ board[b].decoded + board[b].decodeDropped + board[b].dq
                               = board[b].buffersRead
                        /\ board[b].dqClosed => board[b].dq = 0
    BY Zenon DEF DecoderSeesAll
  <2>2. b \in Boards /\ Tapped(b) /\ TapClosed(b)
    BY <2>1, BoardsAssumption DEF TapInv
  <2>3. board[b].reader = "none" /\ board[b].decoder = "none" /\ call.at = "idle"
    BY <2>1, <2>2 DEF RestInv, Settled, UpAndDown, Quiet, AtRest, Stopping, Unwinding, Looping
  <2>4. ~Submitting(b) /\ (board[b].dqClosed => board[b].dq = 0)
    BY <2>1, <2>2, <2>3 DEF TapClosed, Submitting
  <2>5. /\ board[b].decoded \in Nat /\ board[b].decodeDropped \in Nat
        /\ board[b].dq \in Nat
    BY <2>1, <2>2, FieldTypes DEF RestInv, Base
  <2> QED BY <2>2, <2>3, <2>4, <2>5 DEF Tapped, One
<1> QED BY <1>1, <1>2, <1>3, PTL DEF Spec
-----------------------------------------------------------------------------
(* What a step does to the buffer in hand *)

(* The counters of board b and the buffer in hand stay. *)
Keeps(b) == /\ board'[b].buffersRead = board[b].buffersRead
            /\ board'[b].bytesWritten = board[b].bytesWritten
            /\ board'[b].blocksDropped = board[b].blocksDropped
            /\ InHand(b)' <=> InHand(b)

(* A buffer of board b is read out. *)
Reads(b) == /\ ~InHand(b) /\ InHand(b)'
            /\ board'[b].buffersRead = board[b].buffersRead + 1
            /\ board'[b].bytesWritten = board[b].bytesWritten
            /\ board'[b].blocksDropped = board[b].blocksDropped

(* The buffer of board b in hand is pushed to the write queue. *)
Pushes(b) == LET blk == <<b, board[b].buffersRead>>
             IN /\ InHand(b) /\ ~InHand(b)'
                /\ blk \in Blocks /\ PushToWriter(blk)
                /\ board'[b].buffersRead = board[b].buffersRead
                /\ board'[b].bytesWritten = CountWritten(blk, board[b].bytesWritten)
                /\ board'[b].blocksDropped = CountDropped(blk, board[b].blocksDropped)

(* What a step may do to the books of one board. *)
Handles(b) == Keeps(b) \/ Reads(b) \/ Pushes(b)

(* drain() pushes what it read. *)
LEMMA DrainPushPushes ==
    ASSUME Base, Settled, DrainPush
    PROVE  \E b \in Boards : /\ Pushes(b) /\ \A c \in Boards : c # b => Keeps(c)
                             /\ writer' = writer /\ FileKept
                             /\ call.at = "drainPush" /\ call'.at = "drainSubmit" /\ DaqKept
<1>1. PICK b \in Boards :
        /\ call.at = "drainPush" /\ b = call.idx /\ PushToWriter(call.hand)
        /\ call.hand = <<b, board[b].buffersRead>> /\ call.hand \in Blocks
        /\ Changes(b, {"bytesWritten", "blocksDropped"})
        /\ board'[b].bytesWritten = CountWritten(call.hand, board[b].bytesWritten)
        /\ board'[b].blocksDropped = CountDropped(call.hand, board[b].blocksDropped)
        /\ call'.at = "drainSubmit" /\ call'.idx = b
        /\ writer' = writer /\ FileKept /\ DaqKept
  BY DrainPushEffect, Zenon
<1>2. InHand(b) /\ ~InHand(b)'
  BY <1>1 DEF Settled, Stopping, Unwinding, Looping, InHand, Changes, Fields
<1>3. \A c \in Boards : c # b => Keeps(c)
  BY <1>1 DEF Keeps, Changes, InHand
<1>4. board'[b].buffersRead = board[b].buffersRead
  BY <1>1 DEF Changes, Fields
<1>5. Pushes(b)
  BY <1>1, <1>2, <1>4, Zenon DEF Pushes
<1> QED BY <1>1, <1>3, <1>5, Zenon

(* A reader pushes what it read. *)
LEMMA ReaderPushPushes ==
    ASSUME Base, Settled, NEW b \in Boards, ReaderPush(b), call' = call
    PROVE  /\ Pushes(b) /\ \A c \in Boards : c # b => Keeps(c)
           /\ board[b].reader = "push"
<1>1. /\ Changes(b, {"bytesWritten", "blocksDropped", "hand", "reader"})
      /\ board[b].reader = "push" /\ board'[b].reader = "submit"
      /\ PushToWriter(board[b].hand)
      /\ board'[b].bytesWritten = CountWritten(board[b].hand, board[b].bytesWritten)
      /\ board'[b].blocksDropped = CountDropped(board[b].hand, board[b].blocksDropped)
      /\ board[b].hand = <<b, board[b].buffersRead>> /\ board[b].hand \in Blocks
  BY ReaderPushEffect, Zenon
<1>2. InHand(b) /\ ~InHand(b)'
  BY <1>1 DEF Settled, Stopping, Unwinding, Looping, InHand, Changes, Fields
<1>3. \A c \in Boards : c # b => Keeps(c)
  BY <1>1 DEF Keeps, Changes, InHand
<1>4. board'[b].buffersRead = board[b].buffersRead
  BY <1>1 DEF Changes, Fields
<1>5. Pushes(b)
  BY <1>1, <1>2, <1>4, Zenon DEF Pushes
<1> QED BY <1>1, <1>3, <1>5

(* Every step keeps the books of every board, reads a buffer, or pushes it. *)
LEMMA HandlesStep ==
    ASSUME RestInv, Next
    PROVE  \A c \in Boards : Handles(c)
<1>0. Base /\ Settled /\ (call.at \in Looping => call.idx \in Boards)
  BY DEF RestInv, Base, Positions
<1>1. CallStart => \A c \in Boards : Handles(c)
  BY <1>0, CallStartEffect DEF To, Handles, Keeps, InHand
<1>2. CallStop => \A c \in Boards : Handles(c)
  BY <1>0, CallStopEffect DEF Still, ToUnwind, Handles, Keeps, InHand
<1>3. PrepareBoard => \A c \in Boards : Handles(c)
  BY <1>0, PrepareBoardEffect DEF Changes, Fields, Still, To, Handles, Keeps, InHand
<1>4. PrepareFile => \A c \in Boards : Handles(c)
  BY <1>0, PrepareFileEffect DEF To, Handles, Keeps, InHand
<1>5. Launch => \A c \in Boards : Handles(c)
  BY <1>0, LaunchEffect DEF To, Handles, Keeps, InHand
<1>6. ArmBoard => \A c \in Boards : Handles(c)
  <2>1. ArmBoard => /\ call'.at # "drainPush" /\ call.at # "drainPush"
                    /\ \/ board' = board
                       \/ \E b \in Boards : Changes(b, {"running", "hw", "mem"})
    BY <1>0, ArmBoardEffect DEF To, ToUnwind
  <2> QED BY <1>0, <2>1 DEF Changes, Fields, Handles, Keeps, InHand
<1>7. SendSWTrigger => \A c \in Boards : Handles(c)
  BY <1>0, SendSWTriggerEffect DEF Fields, Still, To, ToUnwind, Handles, Keeps, InHand
<1>8. StartReaders => \A c \in Boards : Handles(c)
  <2>1. SUFFICES ASSUME StartReaders PROVE \A c \in Boards : Handles(c)
    OBVIOUS
  <2>2. call.at # "drainPush" /\ call'.at # "drainPush"
    BY <1>0, <2>1, StartReadersEffect DEF To
  <2>3. \/ board' = board
        \/ \E b \in Boards : /\ Changes(b, {"reader", "decoding", "decoder"})
                              /\ board[b].reader = "none" /\ board'[b].reader = "check"
    BY <1>0, <2>1, StartReadersEffect, Zenon
  <2> QED BY <2>2, <2>3 DEF Changes, Fields, Handles, Keeps, InHand
<1>9. Halt => \A c \in Boards : Handles(c)
  BY <1>0, HaltEffect DEF Changes, Fields, Still, To, ToNext, Handles, Keeps, InHand
<1>10. JoinReader => \A c \in Boards : Handles(c)
  BY <1>0, JoinReaderEffect DEF Changes, Fields, Still, Handles, Keeps, InHand
<1>11. DrainRead => \A c \in Boards : Handles(c)
  <2>1. SUFFICES ASSUME DrainRead PROVE \A c \in Boards : Handles(c)
    OBVIOUS
  <2>2. PICK b \in Boards : /\ call.at = "drain" /\ b = call.idx
                           /\ Changes(b, {"mem", "buffersRead"})
                           /\ board'[b].buffersRead = board[b].buffersRead + 1
                           /\ call'.at = "drainPush" /\ call'.idx = b
    BY <1>0, <2>1, DrainReadEffect, Zenon
  <2>3. ~InHand(b) /\ InHand(b)'
    BY <1>0, <2>2 DEF Settled, Stopping, Unwinding, Looping, InHand
  <2>4. \A c \in Boards : c # b => Keeps(c)
    BY <2>2 DEF Changes, Keeps, InHand
  <2>5. Reads(b)
    BY <2>2, <2>3 DEF Changes, Fields, Reads
  <2> QED BY <2>4, <2>5, Zenon DEF Handles
<1>12. DrainPush => \A c \in Boards : Handles(c)
  BY <1>0, DrainPushPushes, Zenon DEF Handles
<1>13. DrainSubmit => \A c \in Boards : Handles(c)
  BY <1>0, DrainSubmitEffect DEF Changes, Fields, Still, To, Handles, Keeps, InHand
<1>14. DrainEnd => \A c \in Boards : Handles(c)
  BY <1>0, DrainEndEffect DEF Still, To, Handles, Keeps, InHand
<1>15. DecodeStop => \A c \in Boards : Handles(c)
  BY <1>0, DecodeStopEffect DEF Changes, Fields, Still, To, Handles, Keeps, InHand
<1>16. DecodeJoin => \A c \in Boards : Handles(c)
  BY <1>0, DecodeJoinEffect DEF Changes, Fields, Still, To, Handles, Keeps, InHand
<1>17. Release => \A c \in Boards : Handles(c)
  BY <1>0, ReleaseEffect DEF Changes, Fields, Still, To, ToNext, Handles, Keeps, InHand
<1>18. CloseQueue => \A c \in Boards : Handles(c)
  BY <1>0, CloseQueueEffect DEF To, Handles, Keeps, InHand
<1>19. JoinWriter => \A c \in Boards : Handles(c)
  BY <1>0, JoinWriterEffect DEF To, Handles, Keeps, InHand
<1>20. CASE Writer
  <2>1. call' = call /\ board' = board
    BY <1>20, WriterPopEffect, WriterWriteEffect, WriterIdleEffect, WriterExitEffect, Zenon
       DEF Writer, BoardsKept, MainKept
  <2> QED BY <2>1, Zenon DEF Handles, Keeps, InHand
<1>21. CASE RunnerStep /\ UNCHANGED <<mainVars, writerVars>>
  <2>1. call' = call /\ DaqKept
    BY <1>21, RunnerStepCases, Zenon DEF MainKept
  <2>2. ASSUME NEW b \in Boards, Acquire(b) PROVE \A c \in Boards : Handles(c)
    BY <1>0, <2>1, <2>2, AcquireEffect DEF Changes, Fields, Handles, Keeps, InHand
  <2>3. ASSUME NEW b \in Boards, ReaderExit(b) PROVE \A c \in Boards : Handles(c)
    BY <1>0, <2>1, <2>3, ReaderExitEffect DEF Changes, Fields, Handles, Keeps, InHand
  <2>4. ASSUME NEW b \in Boards, ReaderReadBegin(b) PROVE \A c \in Boards : Handles(c)
    BY <1>0, <2>1, <2>4, ReaderReadBeginEffect DEF Changes, Fields, Handles, Keeps, InHand
  <2>5. ASSUME NEW b \in Boards, ReaderReadEnd(b) PROVE \A c \in Boards : Handles(c)
    <3>1. \A c \in Boards : c # b => Keeps(c)
      BY <1>0, <2>1, <2>5, ReaderReadEndEffect DEF Changes, Keeps, InHand
    <3>2. CASE /\ Changes(b, {"mem", "buffersRead", "hand", "reader"})
               /\ board'[b].buffersRead = board[b].buffersRead + 1
               /\ board'[b].reader = "push"
      <4>1. board[b].reader = "reading"
        BY <1>0, <2>5, ReaderReadEndEffect, Zenon
      <4>2. ~InHand(b) /\ InHand(b)'
        BY <1>0, <3>2, <4>1 DEF Settled, Stopping, Unwinding, Looping, InHand
      <4>3. Reads(b)
        BY <3>2, <4>2 DEF Changes, Fields, Reads
      <4> QED BY <3>1, <4>3, Zenon DEF Handles
    <3>3. CASE Changes(b, {"commErrors", "reader"}) /\ board'[b].reader = "check"
      <4>1. board[b].reader = "reading"
        BY <1>0, <2>5, ReaderReadEndEffect, Zenon
      <4>2. Keeps(b)
        BY <2>1, <3>3, <4>1 DEF Changes, Fields, Keeps, InHand
      <4> QED BY <3>1, <4>2, Zenon DEF Handles
    <3> QED BY <1>0, <2>5, <3>2, <3>3, ReaderReadEndEffect, Zenon
  <2>6. ASSUME NEW b \in Boards, ReaderPush(b) PROVE \A c \in Boards : Handles(c)
    BY <1>0, <2>1, <2>6, ReaderPushPushes, Zenon DEF Handles
  <2>7. ASSUME NEW b \in Boards, ReaderSubmit(b) PROVE \A c \in Boards : Handles(c)
    BY <1>0, <2>1, <2>7, ReaderSubmitEffect DEF Changes, Fields, Handles, Keeps, InHand
  <2>8. ASSUME NEW b \in Boards, DecoderPop(b) PROVE \A c \in Boards : Handles(c)
    BY <1>0, <2>1, <2>8, DecoderPopEffect DEF Changes, Fields, Handles, Keeps, InHand
  <2>9. ASSUME NEW b \in Boards, DecoderDecode(b) PROVE \A c \in Boards : Handles(c)
    BY <1>0, <2>1, <2>9, DecoderDecodeEffect DEF Changes, Fields, Handles, Keeps, InHand
  <2> QED BY <1>21, <2>2, <2>3, <2>4, <2>5, <2>6, <2>7, <2>8, <2>9, RunnerStepCases, Zenon
<1> QED BY <1>1, <1>2, <1>3, <1>4, <1>5, <1>6, <1>7, <1>8, <1>9, <1>10, <1>11,
           <1>12, <1>13, <1>14, <1>15, <1>16, <1>17, <1>18, <1>19, <1>20, <1>21,
           Zenon DEF Next, MainStep
-----------------------------------------------------------------------------
(* From a board to the file *)

(* A board's buffers are passed on one by one: what it has read stays, or    *)
(* the next buffer is in somebody's hands.                                   *)
Moves(b) == \/ /\ board'[b].buffersRead = board[b].buffersRead
               /\ InHand(b)' => InHand(b)
            \/ board'[b].buffersRead = board[b].buffersRead + 1

(* So it is in every step. *)
LEMMA MovesStep ==
    ASSUME RestInv, Next
    PROVE  \A c \in Boards : Moves(c)
BY HandlesStep DEF Handles, Keeps, Reads, Pushes, Moves

(* What a push does to the queue and to the counters dispatch() selects. *)
LEMMA PushCounts ==
    ASSUME QueueTyped, NEW blk \in Blocks, PushToWriter(blk), NEW n, NEW m
    PROVE  \/ /\ blk[1] \notin Writers /\ QueueKept
              /\ CountWritten(blk, n) = n /\ CountDropped(blk, m) = m
           \/ /\ blk[1] \in Writers /\ writeQueue' = Append(writeQueue, blk)
              /\ CountWritten(blk, n) = n + 1 /\ CountDropped(blk, m) = m
           \/ /\ blk[1] \in Writers /\ writeQueue' = writeQueue
              /\ CountWritten(blk, n) = n /\ CountDropped(blk, m) = m + 1
<1>1. CASE blk[1] \notin Writers /\ QueueKept
  BY <1>1, Zenon DEF CountWritten, CountDropped
<1>2. ASSUME NEW f, blk[1] \in Writers, fate' = [fate EXCEPT ![blk] = f]
      PROVE  fate'[blk] = f
  BY <1>2 DEF QueueTyped
<1>3. CASE /\ blk[1] \in Writers /\ writeQueue' = Append(writeQueue, blk)
           /\ fate' = [fate EXCEPT ![blk] = "queued"]
  <2>1. fate'[blk] = "queued"
    BY <1>2, <1>3, Zenon
  <2> QED BY <1>3, <2>1 DEF CountWritten, CountDropped, Pushed, Refused
<1>4. CASE /\ blk[1] \in Writers /\ writeQueue' = writeQueue
           /\ \/ fate' = [fate EXCEPT ![blk] = "dropped"]
              \/ fate' = [fate EXCEPT ![blk] = "rejected"]
  <2>1. fate'[blk] \in {"dropped", "rejected"}
    BY <1>2, <1>4
  <2> QED BY <1>4, <2>1 DEF CountWritten, CountDropped, Pushed, Refused
<1> QED BY <1>1, <1>3, <1>4, PushEffect, Zenon

(* Nothing moves between the queue, the writer and the file. *)
Steady == /\ file' = file /\ writeQueue' = writeQueue /\ lost' = lost
          /\ \/ writer' = writer
             \/ writer.at # "writing" /\ writer'.at # "writing"
          /\ \A c \in Boards : board'[c].bytesWritten = board[c].bytesWritten

(* The buffer of board b goes into the queue. *)
Passes(b) == /\ InHand(b) /\ ~InHand(b)' /\ b \in Writers
             /\ board'[b].buffersRead = board[b].buffersRead
             /\ <<b, board[b].buffersRead>> \in Blocks
             /\ writeQueue' = Append(writeQueue, <<b, board[b].buffersRead>>)
             /\ board'[b].bytesWritten = board[b].bytesWritten + 1
             /\ \A c \in Boards : c # b => board'[c].bytesWritten = board[c].bytesWritten
             /\ file' = file /\ writer' = writer /\ lost' = lost

(* What may happen to a block between a board and the file. *)
Passage == Steady \/ (\E b \in Boards : Passes(b)) \/ WriterPop \/ WriterWrite

(* A buffer that is pushed goes into the queue, or nothing moves. *)
LEMMA PushPasses ==
    ASSUME QueueTyped, NEW b \in Boards, Pushes(b), \A c \in Boards : c # b => Keeps(c),
           writer' = writer, FileKept
    PROVE  Steady \/ Passes(b)
<1> DEFINE blk == <<b, board[b].buffersRead>>
<1>1. /\ blk \in Blocks /\ PushToWriter(blk) /\ blk[1] = b
      /\ board'[b].bytesWritten = CountWritten(blk, board[b].bytesWritten)
      /\ InHand(b) /\ ~InHand(b)' /\ board'[b].buffersRead = board[b].buffersRead
  <2>1. blk[1] = b
    OBVIOUS
  <2> QED BY <2>1, Zenon DEF Pushes
<1>2. /\ \A c \in Boards : c # b => board'[c].bytesWritten = board[c].bytesWritten
      /\ file' = file /\ writer' = writer /\ lost' = lost
  BY Zenon DEF Keeps, FileKept
<1>3. \/ /\ writeQueue' = writeQueue
         /\ board'[b].bytesWritten = board[b].bytesWritten
      \/ /\ b \in Writers /\ writeQueue' = Append(writeQueue, blk)
         /\ board'[b].bytesWritten = board[b].bytesWritten + 1
  <2> HIDE DEF blk
  <2> QED BY <1>1, PushCounts, Zenon DEF QueueKept
<1> QED BY <1>1, <1>2, <1>3, Zenon DEF Steady, Passes

(* Every step does one of these. *)
LEMMA PassageStep ==
    ASSUME RestInv, Next
    PROVE  Passage
<1>0. /\ Base /\ Settled /\ QueueTyped /\ WriterTyped
      /\ call.at = "launch" => writer.at = "none"
  BY DEF RestInv, FileSettled, Resting
<1>1. CallStart => Passage
  BY <1>0, CallStartEffect DEF FileKept, QueueKept, Passage, Steady
<1>2. CallStop => Passage
  BY <1>0, CallStopEffect DEF Still, FileKept, QueueKept, Passage, Steady
<1>3. PrepareBoard => Passage
  BY <1>0, PrepareBoardEffect DEF Changes, Fields, Still, FileKept, QueueKept, Passage, Steady
<1>4. PrepareFile => Passage
  BY <1>0, PrepareFileEffect DEF QueueKept, Passage, Steady
<1>5. Launch => Passage
  <2>1. SUFFICES ASSUME Launch PROVE Steady
    BY DEF Passage
  <2>2. /\ board' = board /\ FileKept /\ QueueKept /\ writer.at = "none"
        /\ writer' = [writer EXCEPT !.at = IF anyWrite THEN "loop" ELSE writer.at]
    BY <1>0, <2>1, LaunchEffect, Zenon
  <2>3. writer'.at # "writing"
    BY <1>0, <2>2 DEF WriterTyped
  <2> QED BY <2>2, <2>3 DEF Steady, FileKept, QueueKept
<1>6. ArmBoard => Passage
  <2>1. ArmBoard => /\ Still
                    /\ \/ board' = board
                       \/ \E b \in Boards : Changes(b, {"running", "hw", "mem"})
    BY <1>0, ArmBoardEffect, Zenon
  <2> QED BY <2>1 DEF Changes, Fields, Still, FileKept, QueueKept, Passage, Steady
<1>7. SendSWTrigger => Passage
  BY <1>0, SendSWTriggerEffect DEF Fields, Still, FileKept, QueueKept, Passage, Steady
<1>8. StartReaders => Passage
  <2>1. StartReaders => /\ writer' = writer /\ FileKept /\ QueueKept
                        /\ \/ board' = board
                           \/ \E b \in Boards : Changes(b, {"reader", "decoding", "decoder"})
    BY <1>0, StartReadersEffect, Zenon
  <2> QED BY <2>1 DEF Changes, Fields, FileKept, QueueKept, Passage, Steady
<1>9. Halt => Passage
  BY <1>0, HaltEffect DEF Changes, Fields, Still, FileKept, QueueKept, Passage, Steady
<1>10. JoinReader => Passage
  BY <1>0, JoinReaderEffect DEF Changes, Fields, Still, FileKept, QueueKept, Passage, Steady
<1>11. DrainRead => Passage
  BY <1>0, DrainReadEffect DEF Changes, Fields, Still, FileKept, QueueKept, Passage, Steady
<1>12. DrainPush => Passage
  BY <1>0, DrainPushPushes, PushPasses, Zenon DEF Passage
<1>13. DrainSubmit => Passage
  BY <1>0, DrainSubmitEffect DEF Changes, Fields, Still, FileKept, QueueKept, Passage, Steady
<1>14. DrainEnd => Passage
  BY <1>0, DrainEndEffect DEF Still, FileKept, QueueKept, Passage, Steady
<1>15. DecodeStop => Passage
  BY <1>0, DecodeStopEffect DEF Changes, Fields, Still, FileKept, QueueKept, Passage, Steady
<1>16. DecodeJoin => Passage
  BY <1>0, DecodeJoinEffect DEF Changes, Fields, Still, FileKept, QueueKept, Passage, Steady
<1>17. Release => Passage
  BY <1>0, ReleaseEffect DEF Changes, Fields, Still, FileKept, QueueKept, Passage, Steady
<1>18. CloseQueue => Passage
  BY <1>0, CloseQueueEffect DEF FileKept, Passage, Steady
<1>19. JoinWriter => Passage
  <2>1. SUFFICES ASSUME JoinWriter PROVE Steady
    BY DEF Passage
  <2>2. /\ board' = board /\ file' = file /\ lost' = lost /\ QueueKept
        /\ writer.at \in {"none", "exited"} /\ writer' = [writer EXCEPT !.at = "none"]
    BY <1>0, <2>1, JoinWriterEffect, Zenon
  <2>3. writer.at # "writing" /\ writer'.at # "writing"
    BY <1>0, <2>2 DEF WriterTyped
  <2> QED BY <2>2, <2>3 DEF Steady, QueueKept
<1>20. CASE Writer
  <2>1. WriterIdle => Steady
    BY WriterIdleEffect DEF Steady, BoardsKept, QueueKept
  <2>2. WriterExit => Steady
    <3>1. WriterExit => /\ writer.at = "loop" /\ writer' = [writer EXCEPT !.at = "exited"]
                        /\ FileKept /\ QueueKept /\ board' = board
      BY WriterExitEffect, Zenon DEF BoardsKept
    <3> QED BY <1>0, <3>1 DEF WriterTyped, Steady, FileKept, QueueKept
  <2> QED BY <1>20, <2>1, <2>2, Zenon DEF Writer, Passage
<1>21. CASE RunnerStep /\ UNCHANGED <<mainVars, writerVars>>
  <2>1. call' = call /\ writer' = writer /\ FileKept
    BY <1>21, RunnerStepCases, Zenon DEF MainKept
  <2>2. ASSUME NEW b \in Boards, Acquire(b), QueueKept PROVE Passage
    BY <1>0, <2>1, <2>2, AcquireEffect DEF Changes, Fields, FileKept, QueueKept, Passage, Steady
  <2>3. ASSUME NEW b \in Boards, ReaderExit(b), QueueKept PROVE Passage
    BY <1>0, <2>1, <2>3, ReaderExitEffect
       DEF Changes, Fields, FileKept, QueueKept, Passage, Steady
  <2>4. ASSUME NEW b \in Boards, ReaderReadBegin(b), QueueKept PROVE Passage
    BY <1>0, <2>1, <2>4, ReaderReadBeginEffect
       DEF Changes, Fields, FileKept, QueueKept, Passage, Steady
  <2>5. ASSUME NEW b \in Boards, ReaderReadEnd(b), QueueKept PROVE Passage
    BY <1>0, <2>1, <2>5, ReaderReadEndEffect
       DEF Changes, Fields, FileKept, QueueKept, Passage, Steady
  <2>6. ASSUME NEW b \in Boards, ReaderPush(b) PROVE Passage
    BY <1>0, <2>1, <2>6, ReaderPushPushes, PushPasses, Zenon DEF Passage
  <2>7. ASSUME NEW b \in Boards, ReaderSubmit(b), QueueKept PROVE Passage
    BY <1>0, <2>1, <2>7, ReaderSubmitEffect
       DEF Changes, Fields, FileKept, QueueKept, Passage, Steady
  <2>8. ASSUME NEW b \in Boards, DecoderPop(b), QueueKept PROVE Passage
    BY <1>0, <2>1, <2>8, DecoderPopEffect
       DEF Changes, Fields, FileKept, QueueKept, Passage, Steady
  <2>9. ASSUME NEW b \in Boards, DecoderDecode(b), QueueKept PROVE Passage
    BY <1>0, <2>1, <2>9, DecoderDecodeEffect
       DEF Changes, Fields, FileKept, QueueKept, Passage, Steady
  <2> QED BY <1>21, <2>2, <2>3, <2>4, <2>5, <2>6, <2>7, <2>8, <2>9, RunnerStepCases, Zenon
<1> QED BY <1>1, <1>2, <1>3, <1>4, <1>5, <1>6, <1>7, <1>8, <1>9, <1>10, <1>11,
           <1>12, <1>13, <1>14, <1>15, <1>16, <1>17, <1>18, <1>19, <1>20, <1>21,
           Zenon DEF Next, MainStep

(* Block blk has left the hands of its board; all the blocks that have. *)
PassedOn(blk) == /\ blk[2] <= board[blk[1]].buffersRead
                 /\ InHand(blk[1]) => blk[2] < board[blk[1]].buffersRead

Released == {blk \in Blocks : PassedOn(blk)}

(* Two blocks of a board are in the order the board filled them. *)
Before(blk, later) == blk[1] = later[1] => blk[2] < later[2]

Ordered(s) == \A j, k \in DOMAIN s : j < k => Before(s[j], s[k])

(* The file, the writer's hand, the queue and the hands of the boards form   *)
(* one line, in order.                                                       *)
OrderInv ==
    /\ \A k \in DOMAIN file : file[k] \in Released
    /\ \A k \in DOMAIN writeQueue : writeQueue[k] \in Released
    /\ writer.at = "writing" => writer.hand \in Released
    /\ Ordered(file)
    /\ Ordered(writeQueue)
    /\ \A j \in DOMAIN file, k \in DOMAIN writeQueue : Before(file[j], writeQueue[k])
    /\ writer.at = "writing" =>
           /\ \A j \in DOMAIN file : Before(file[j], writer.hand)
           /\ \A k \in DOMAIN writeQueue : Before(writer.hand, writeQueue[k])

(* A sequence with one more element. *)
LEMMA AppendOf ==
    ASSUME NEW S, NEW s \in Seq(S), NEW x \in S
    PROVE  /\ Append(s, x) \in Seq(S) /\ Len(s) \in Nat
           /\ DOMAIN s = 1 .. Len(s) /\ DOMAIN Append(s, x) = 1 .. Len(s) + 1
           /\ \A k \in 1 .. Len(s) : Append(s, x)[k] = s[k]
           /\ Append(s, x)[Len(s) + 1] = x
OBVIOUS

(* A sequence without its first element. *)
LEMMA TailOf ==
    ASSUME NEW S, NEW s \in Seq(S), s # <<>>
    PROVE  /\ Tail(s) \in Seq(S) /\ Len(s) \in Nat \ {0} /\ Head(s) = s[1]
           /\ DOMAIN s = 1 .. Len(s) /\ DOMAIN Tail(s) = 1 .. Len(s) - 1
           /\ \A k \in 1 .. Len(s) - 1 : Tail(s)[k] = s[k + 1]
OBVIOUS

(* A block that has left its board's hands has left them for good. *)
LEMMA ReleasedGrows ==
    ASSUME BoardsTyped, \A c \in Boards : Moves(c)
    PROVE  Released \subseteq Released'
<1> SUFFICES ASSUME NEW blk \in Blocks, PassedOn(blk) PROVE PassedOn(blk)'
  BY DEF Released
<1>1. PICK b \in Boards, n \in 1 .. MaxBuffers : blk = <<b, n>>
  BY DEF Blocks
<1>2. Moves(b) /\ board[b].buffersRead \in Nat
  BY <1>1, FieldTypes
<1> QED BY <1>1, <1>2 DEF PassedOn, Moves

(* Nothing moves: the line stays in order. *)
LEMMA OrderSteady ==
    ASSUME OrderInv, Steady, Released \subseteq Released'
    PROVE  OrderInv'
<1>1. /\ file' = file /\ writeQueue' = writeQueue
      /\ writer'.at = "writing" => writer' = writer
  BY Zenon DEF Steady
<1>2. /\ \A k \in DOMAIN file' : file'[k] \in Released'
      /\ \A k \in DOMAIN writeQueue' : writeQueue'[k] \in Released'
      /\ writer'.at = "writing" => writer'.hand \in Released'
  BY <1>1 DEF OrderInv
<1>3. Ordered(file)' /\ Ordered(writeQueue)'
  BY <1>1 DEF OrderInv, Ordered, Before
<1>4. \A j \in DOMAIN file', k \in DOMAIN writeQueue' : Before(file'[j], writeQueue'[k])
  BY <1>1 DEF OrderInv
<1>5. writer'.at = "writing" =>
          /\ \A j \in DOMAIN file' : Before(file'[j], writer'.hand)
          /\ \A k \in DOMAIN writeQueue' : Before(writer'.hand, writeQueue'[k])
  BY <1>1 DEF OrderInv
<1> QED BY <1>2, <1>3, <1>4, <1>5 DEF OrderInv, Before

(* The buffer that joins the queue comes after all that went before. *)
LEMMA OrderPasses ==
    ASSUME Base, QueueTyped, WriterTyped, OrderInv, NEW b \in Boards, Passes(b),
           Released \subseteq Released'
    PROVE  OrderInv'
<1> DEFINE new == <<b, board[b].buffersRead>>
           n == Len(writeQueue)
<1>1. /\ file' = file /\ writer' = writer /\ writeQueue' = Append(writeQueue, new)
      /\ new \in Blocks /\ InHand(b) /\ ~InHand(b)'
      /\ board'[b].buffersRead = board[b].buffersRead
  BY DEF Passes
<1>2. \A blk \in Released : Before(blk, new)
  <2> SUFFICES ASSUME NEW blk \in Blocks, PassedOn(blk) PROVE Before(blk, new)
    BY DEF Released
  <2> QED BY <1>1 DEF PassedOn, Before
<1>3. new \in Released'
  <2>1. PassedOn(new)'
    BY <1>1, FieldTypes DEF PassedOn, Base
  <2>2. (new \in Blocks)' /\ new' = new
    BY <1>1
  <2> QED BY <1>1, <2>1, <2>2 DEF Released
<1>4. /\ n \in Nat /\ DOMAIN writeQueue = 1 .. n /\ DOMAIN writeQueue' = 1 .. n + 1
      /\ \A k \in 1 .. n : writeQueue'[k] = writeQueue[k]
      /\ writeQueue'[n + 1] = new
  <2> HIDE DEF new
  <2> QED BY <1>1, AppendOf DEF QueueTyped
<1> HIDE DEF new, n
<1>5. \A k \in DOMAIN writeQueue' : \/ k \in DOMAIN writeQueue /\ writeQueue'[k] = writeQueue[k]
                                    \/ k = n + 1 /\ writeQueue'[k] = new
  BY <1>4
<1>6. /\ \A k \in DOMAIN file' : file'[k] \in Released'
      /\ \A k \in DOMAIN writeQueue' : writeQueue'[k] \in Released'
      /\ writer'.at = "writing" => writer'.hand \in Released'
  BY <1>1, <1>3, <1>5 DEF OrderInv
<1>7. Ordered(file)'
  BY <1>1 DEF OrderInv, Ordered, Before
<1>8. Ordered(writeQueue)'
  <2>1. SUFFICES ASSUME NEW j \in DOMAIN writeQueue', NEW k \in DOMAIN writeQueue', j < k
                 PROVE  Before(writeQueue'[j], writeQueue'[k])
    BY DEF Ordered, Before
  <2>2. j \in DOMAIN writeQueue /\ writeQueue'[j] = writeQueue[j]
    BY <1>4, <2>1
  <2>3. CASE k = n + 1
    BY <1>2, <1>4, <2>2, <2>3 DEF OrderInv
  <2>4. CASE k \in DOMAIN writeQueue /\ writeQueue'[k] = writeQueue[k]
    BY <2>1, <2>2, <2>4 DEF OrderInv, Ordered
  <2> QED BY <1>5, <2>3, <2>4
<1>9. \A j \in DOMAIN file', k \in DOMAIN writeQueue' : Before(file'[j], writeQueue'[k])
  BY <1>1, <1>2, <1>5 DEF OrderInv
<1>10. writer'.at = "writing" =>
          /\ \A j \in DOMAIN file' : Before(file'[j], writer'.hand)
          /\ \A k \in DOMAIN writeQueue' : Before(writer'.hand, writeQueue'[k])
  BY <1>1, <1>2, <1>5 DEF OrderInv
<1> QED BY <1>6, <1>7, <1>8, <1>9, <1>10 DEF OrderInv, Before

(* The writer takes the first block of the queue. *)
LEMMA OrderPop ==
    ASSUME QueueTyped, OrderInv, WriterPop, Released \subseteq Released'
    PROVE  OrderInv'
<1> DEFINE n == Len(writeQueue)
<1>1. /\ writeQueue # <<>> /\ writeQueue' = Tail(writeQueue) /\ file' = file
      /\ writer' = [at |-> "writing", hand |-> Head(writeQueue)]
  BY WriterPopEffect, Zenon DEF FileKept
<1>2. /\ n \in Nat \ {0} /\ DOMAIN writeQueue = 1 .. n /\ DOMAIN writeQueue' = 1 .. n - 1
      /\ \A k \in 1 .. n - 1 : writeQueue'[k] = writeQueue[k + 1]
      /\ writer'.hand = writeQueue[1]
  BY <1>1, TailOf DEF QueueTyped
<1> HIDE DEF n
<1>3. \A k \in DOMAIN writeQueue' : /\ k + 1 \in DOMAIN writeQueue /\ 1 < k + 1
                                    /\ writeQueue'[k] = writeQueue[k + 1]
  BY <1>2
<1>4. 1 \in DOMAIN writeQueue
  BY <1>2
<1>5. /\ \A k \in DOMAIN file' : file'[k] \in Released'
      /\ \A k \in DOMAIN writeQueue' : writeQueue'[k] \in Released'
      /\ writer'.at = "writing" => writer'.hand \in Released'
  BY <1>1, <1>2, <1>3, <1>4 DEF OrderInv
<1>6. Ordered(file)'
  BY <1>1 DEF OrderInv, Ordered, Before
<1>7. Ordered(writeQueue)'
  <2>1. SUFFICES ASSUME NEW j \in DOMAIN writeQueue', NEW k \in DOMAIN writeQueue', j < k
                 PROVE  Before(writeQueue'[j], writeQueue'[k])
    BY DEF Ordered, Before
  <2>2. j + 1 < k + 1
    BY <1>2, <2>1
  <2> QED BY <1>3, <2>2 DEF OrderInv, Ordered
<1>8. \A j \in DOMAIN file', k \in DOMAIN writeQueue' : Before(file'[j], writeQueue'[k])
  BY <1>1, <1>3 DEF OrderInv
<1>9. writer'.at = "writing" =>
          /\ \A j \in DOMAIN file' : Before(file'[j], writer'.hand)
          /\ \A k \in DOMAIN writeQueue' : Before(writer'.hand, writeQueue'[k])
  BY <1>1, <1>2, <1>3, <1>4 DEF OrderInv, Ordered
<1> QED BY <1>5, <1>6, <1>7, <1>8, <1>9 DEF OrderInv, Before

(* The writer writes the block in its hand, or loses it. *)
LEMMA OrderWrite ==
    ASSUME WriterTyped, OrderInv, WriterWrite, Released \subseteq Released'
    PROVE  OrderInv'
<1> DEFINE n == Len(file)
<1>1. /\ writer.at = "writing" /\ writer'.at # "writing" /\ writeQueue' = writeQueue
      /\ file' = Append(file, writer.hand) \/ file' = file
  <2>1. /\ writer.at = "writing" /\ QueueKept
        /\ \/ file' = Append(file, writer.hand) /\ writer' = [at |-> "loop", hand |-> NoBlock]
           \/ file' = file /\ writer' = [at |-> "exited", hand |-> NoBlock]
    BY WriterWriteEffect, Zenon
  <2> QED BY <2>1 DEF QueueKept
<1>2. /\ \A k \in DOMAIN writeQueue' : writeQueue'[k] \in Released'
      /\ Ordered(writeQueue)'
  BY <1>1 DEF OrderInv, Ordered, Before
<1>3. CASE file' = file
  <2>1. /\ \A k \in DOMAIN file' : file'[k] \in Released'
        /\ Ordered(file)'
        /\ \A j \in DOMAIN file', k \in DOMAIN writeQueue' : Before(file'[j], writeQueue'[k])
    BY <1>1, <1>3 DEF OrderInv, Ordered, Before
  <2> QED BY <1>1, <1>2, <2>1 DEF OrderInv, Before
<1>4. CASE file' = Append(file, writer.hand)
  <2>1. writer.hand \in Blocks /\ writer.hand \in Released
    BY <1>1 DEF OrderInv, Released
  <2>2. /\ n \in Nat /\ DOMAIN file = 1 .. n /\ DOMAIN file' = 1 .. n + 1
        /\ \A k \in 1 .. n : file'[k] = file[k]
        /\ file'[n + 1] = writer.hand
    BY <1>4, <2>1, AppendOf DEF WriterTyped
  <2> HIDE DEF n
  <2>3. \A k \in DOMAIN file' : \/ k \in DOMAIN file /\ file'[k] = file[k]
                                \/ k = n + 1 /\ file'[k] = writer.hand
    BY <2>2
  <2>4. \A k \in DOMAIN file' : file'[k] \in Released'
    BY <2>1, <2>3 DEF OrderInv
  <2>5. Ordered(file)'
    <3>1. SUFFICES ASSUME NEW j \in DOMAIN file', NEW k \in DOMAIN file', j < k
                   PROVE  Before(file'[j], file'[k])
      BY DEF Ordered, Before
    <3>2. j \in DOMAIN file /\ file'[j] = file[j]
      BY <2>2, <3>1
    <3>3. CASE k = n + 1 /\ file'[k] = writer.hand
      BY <1>1, <3>2, <3>3 DEF OrderInv
    <3>4. CASE k \in DOMAIN file /\ file'[k] = file[k]
      BY <3>1, <3>2, <3>4 DEF OrderInv, Ordered
    <3> QED BY <2>3, <3>3, <3>4
  <2>6. \A j \in DOMAIN file', k \in DOMAIN writeQueue' : Before(file'[j], writeQueue'[k])
    BY <1>1, <2>3 DEF OrderInv
  <2> QED BY <1>1, <1>2, <2>4, <2>5, <2>6 DEF OrderInv, Before
<1> QED BY <1>1, <1>3, <1>4

(* Every step keeps the line in order. *)
LEMMA OrderStep ==
    ASSUME RestInv, OrderInv, [Next]_vars
    PROVE  OrderInv'
<1>0. Base /\ QueueTyped /\ WriterTyped
  BY Zenon DEF RestInv
<1>1. CASE Next
  <2>1. Released \subseteq Released'
    BY <1>0, <1>1, MovesStep, ReleasedGrows, Zenon DEF Base
  <2> QED BY <1>0, <1>1, <2>1, PassageStep, OrderSteady, OrderPasses, OrderPop, OrderWrite,
             Zenon DEF Passage
<1>2. CASE UNCHANGED vars
  BY <1>2
     DEF OrderInv, Ordered, Before, Released, PassedOn, InHand, vars, runnerVars, mainVars,
         writerVars, queueVars, daqVars, fileVars
<1> QED BY <1>1, <1>2

(* The file keeps the order in which each board filled its buffers, although *)
(* its reader thread, drain() on the calling thread and the writer each pass *)
(* them on.                                                                  *)
THEOREM FileInBoardOrder == Spec => []FileKeepsBoardOrder
<1>1. Init => OrderInv
  <2> SUFFICES ASSUME Init PROVE OrderInv
    OBVIOUS
  <2>1. writeQueue = <<>> /\ file = <<>> /\ writer = [at |-> "none", hand |-> NoBlock]
    BY Zenon DEF Init, RunnerInit, WQ!QInit
  <2> QED BY <2>1 DEF OrderInv, Ordered
<1>2. RestInv /\ OrderInv /\ [Next]_vars => OrderInv'
  BY OrderStep
<1>3. OrderInv => FileKeepsBoardOrder
  BY DEF OrderInv, Ordered, Before, FileKeepsBoardOrder
<1> QED BY <1>1, <1>2, <1>3, RestInvHolds, PTL DEF Spec
-----------------------------------------------------------------------------
(* Counting the blocks of a board *)

(* The places of a sequence where a block of board b stands, and how many. *)
PlacesOf(s, b) == {k \in DOMAIN s : s[k][1] = b}
CountOf(s, b) == Cardinality(PlacesOf(s, b))

(* A sequence has finitely many places. *)
LEMMA CountType ==
    ASSUME NEW S, NEW s \in Seq(S), NEW b
    PROVE  IsFiniteSet(PlacesOf(s, b)) /\ CountOf(s, b) \in Nat
<1>1. DOMAIN s = 1 .. Len(s) /\ Len(s) \in Nat
  OBVIOUS
<1>2. IsFiniteSet(1 .. Len(s))
  BY <1>1, FS_Interval
<1>3. PlacesOf(s, b) \in SUBSET (1 .. Len(s))
  BY <1>1 DEF PlacesOf
<1>4. IsFiniteSet(PlacesOf(s, b))
  BY <1>2, <1>3, FS_Subset
<1> QED BY <1>4, FS_CardinalityType DEF CountOf

(* One more element counts for the board it is of. *)
LEMMA CountAppend ==
    ASSUME NEW S, NEW s \in Seq(S), NEW x \in S, NEW b
    PROVE  CountOf(Append(s, x), b) = CountOf(s, b) + One(x[1] = b)
<1> DEFINE n == Len(s) + 1
<1>1. /\ Len(s) \in Nat /\ DOMAIN s = 1 .. Len(s) /\ DOMAIN Append(s, x) = 1 .. n
      /\ \A k \in 1 .. Len(s) : Append(s, x)[k] = s[k]
      /\ Append(s, x)[n] = x
  BY AppendOf
<1>2. IsFiniteSet(PlacesOf(s, b)) /\ CountOf(s, b) \in Nat
  BY CountType
<1>3. CASE x[1] = b
  <2>1. PlacesOf(Append(s, x), b) = PlacesOf(s, b) \cup {n}
    BY <1>1, <1>3 DEF PlacesOf
  <2>2. n \notin PlacesOf(s, b)
    BY <1>1 DEF PlacesOf
  <2>3. Cardinality(PlacesOf(s, b) \cup {n}) = Cardinality(PlacesOf(s, b)) + 1
    BY <1>2, <2>2, FS_AddElement
  <2> QED BY <1>2, <1>3, <2>1, <2>3 DEF CountOf, One
<1>4. CASE x[1] # b
  <2>1. PlacesOf(Append(s, x), b) = PlacesOf(s, b)
    BY <1>1, <1>4 DEF PlacesOf
  <2> QED BY <1>2, <1>4, <2>1 DEF CountOf, One
<1> QED BY <1>3, <1>4

(* The first element counts for the board it is of. *)
LEMMA CountTail ==
    ASSUME NEW S, NEW s \in Seq(S), s # <<>>, NEW b
    PROVE  CountOf(s, b) = CountOf(Tail(s), b) + One(Head(s)[1] = b)
<1> DEFINE T == PlacesOf(Tail(s), b)
           R == PlacesOf(s, b) \ {1}
           f == [k \in T |-> k + 1]
<1>1. /\ Tail(s) \in Seq(S) /\ Len(s) \in Nat \ {0} /\ Head(s) = s[1]
      /\ DOMAIN s = 1 .. Len(s) /\ DOMAIN Tail(s) = 1 .. Len(s) - 1
      /\ \A k \in 1 .. Len(s) - 1 : Tail(s)[k] = s[k + 1]
  BY TailOf
<1>2. IsFiniteSet(T) /\ CountOf(Tail(s), b) \in Nat /\ IsFiniteSet(R)
  <2>1. IsFiniteSet(PlacesOf(s, b)) /\ IsFiniteSet(T) /\ CountOf(Tail(s), b) \in Nat
    BY <1>1, CountType
  <2>2. R \in SUBSET PlacesOf(s, b)
    OBVIOUS
  <2> QED BY <2>1, <2>2, FS_Subset
<1>3. f \in Bijection(T, R)
  <2>1. \A k \in T : k \in 1 .. Len(s) - 1 /\ k + 1 \in R
    BY <1>1 DEF PlacesOf
  <2>2. \A r \in R : r - 1 \in T /\ r = (r - 1) + 1
    BY <1>1 DEF PlacesOf
  <2> HIDE DEF T, R
  <2>3. f \in [T -> R]
    BY <2>1
  <2>4. \A k, j \in T : f[k] = f[j] => k = j
    BY <2>1
  <2>5. \A r \in R : \E k \in T : f[k] = r
    <3> SUFFICES ASSUME NEW r \in R PROVE \E k \in T : f[k] = r
      OBVIOUS
    <3>1. r - 1 \in T /\ f[r - 1] = r
      BY <2>2
    <3> QED BY <3>1
  <2> HIDE DEF f
  <2> QED BY <2>3, <2>4, <2>5, Fun_IsBij, Zenon
<1> HIDE DEF f
<1>4. Cardinality(R) = CountOf(Tail(s), b)
  <2>1. ExistsBijection(T, R)
    BY <1>3 DEF ExistsBijection
  <2> HIDE DEF R
  <2>2. Cardinality(R) = Cardinality(T)
    BY <1>2, <2>1, FS_Bijection
  <2> QED BY <2>2 DEF CountOf
<1>5. CASE Head(s)[1] = b
  <2>1. PlacesOf(s, b) = R \cup {1} /\ 1 \notin R
    BY <1>1, <1>5 DEF PlacesOf
  <2> HIDE DEF R
  <2>2. Cardinality(R \cup {1}) = Cardinality(R) + 1
    BY <1>2, <2>1, FS_AddElement
  <2> QED BY <1>4, <1>5, <2>1, <2>2 DEF CountOf, One
<1>6. CASE Head(s)[1] # b
  <2>1. PlacesOf(s, b) = R
    BY <1>1, <1>6 DEF PlacesOf
  <2> HIDE DEF R
  <2> QED BY <1>2, <1>4, <1>6, <2>1 DEF CountOf, One
<1> QED BY <1>5, <1>6
-----------------------------------------------------------------------------
(* The books of a run *)

(* Every buffer read out of board b is in hand or in its counters. *)
Booked(b) == board[b].bytesWritten + board[b].blocksDropped + One(InHand(b))
                 = board[b].buffersRead

(* The writer has a block of board b in its hand. *)
Holds(b) == writer.at = "writing" /\ writer.hand[1] = b

(* What the counter of board b says was written is on its way to the file. *)
Filed(b) == board[b].bytesWritten = CountOf(file, b) + CountOf(writeQueue, b) + One(Holds(b))

(* A step of a board keeps its books. *)
LEMMA BookedStep ==
    ASSUME Base, QueueTyped, NEW b \in Writers, Booked(b), Handles(b)
    PROVE  Booked(b)'
<1>1. /\ board[b].bytesWritten \in Nat /\ board[b].blocksDropped \in Nat
      /\ board[b].buffersRead \in Nat
  BY BoardsAssumption, FieldTypes DEF Base
<1>2. CASE Keeps(b)
  BY <1>2 DEF Booked, Keeps, One
<1>3. CASE Reads(b)
  BY <1>1, <1>3 DEF Booked, Reads, One
<1>4. CASE Pushes(b)
  <2> DEFINE blk == <<b, board[b].buffersRead>>
  <2>1. /\ blk \in Blocks /\ PushToWriter(blk) /\ blk[1] = b
        /\ board'[b].bytesWritten = CountWritten(blk, board[b].bytesWritten)
        /\ board'[b].blocksDropped = CountDropped(blk, board[b].blocksDropped)
        /\ InHand(b) /\ ~InHand(b)' /\ board'[b].buffersRead = board[b].buffersRead
    <3>1. blk[1] = b
      OBVIOUS
    <3> QED BY <1>4, <3>1, Zenon DEF Pushes
  <2>2. \/ /\ board'[b].bytesWritten = board[b].bytesWritten + 1
           /\ board'[b].blocksDropped = board[b].blocksDropped
        \/ /\ board'[b].bytesWritten = board[b].bytesWritten
           /\ board'[b].blocksDropped = board[b].blocksDropped + 1
    <3> HIDE DEF blk
    <3>1. PICK x, y : /\ x = board[b].bytesWritten /\ y = board[b].blocksDropped
                      /\ board'[b].bytesWritten = CountWritten(blk, x)
                      /\ board'[b].blocksDropped = CountDropped(blk, y)
      BY <2>1, Zenon
    <3>2. \/ blk[1] \notin Writers
          \/ CountWritten(blk, x) = x + 1 /\ CountDropped(blk, y) = y
          \/ CountWritten(blk, x) = x /\ CountDropped(blk, y) = y + 1
      BY <2>1, PushCounts, Zenon
    <3> QED BY <2>1, <3>1, <3>2
  <2> QED BY <1>1, <2>1, <2>2 DEF Booked, One
<1> QED BY <1>2, <1>3, <1>4 DEF Handles

(* Nothing moves between the queue, the writer and the file. *)
LEMMA FiledSteady ==
    ASSUME NEW b \in Boards, Filed(b), Steady
    PROVE  Filed(b)'
BY DEF Filed, Steady, Holds

(* A block of board c joins the queue. *)
LEMMA FiledPasses ==
    ASSUME Base, QueueTyped, WriterTyped, NEW b \in Boards, Filed(b), NEW c \in Boards, Passes(c)
    PROVE  Filed(b)'
<1> DEFINE new == <<c, board[c].buffersRead>>
<1>1. /\ new \in Blocks /\ writeQueue' = Append(writeQueue, new) /\ new[1] = c
      /\ file' = file /\ writer' = writer
      /\ board'[b].bytesWritten = board[b].bytesWritten + One(new[1] = b)
  BY FieldTypes DEF Passes, Base, One
<1> HIDE DEF new
<1>2. CountOf(writeQueue', b) = CountOf(writeQueue, b) + One(new[1] = b)
  BY <1>1, CountAppend DEF QueueTyped
<1>3. CountOf(writeQueue, b) \in Nat /\ CountOf(file, b) \in Nat
  BY CountType DEF QueueTyped, WriterTyped
<1>4. CountOf(file', b) = CountOf(file, b) /\ One(Holds(b)') = One(Holds(b))
  BY <1>1 DEF Holds
<1>5. One(Holds(b)) \in Nat /\ One(new[1] = b) \in Nat
  BY DEF One
<1>6. board'[b].bytesWritten = CountOf(file', b) + CountOf(writeQueue', b) + One(Holds(b)')
  BY <1>1, <1>2, <1>3, <1>4, <1>5 DEF Filed
<1> QED BY <1>6 DEF Filed, CountOf, PlacesOf, One

(* The writer takes a block out of the queue. *)
LEMMA FiledPop ==
    ASSUME Base, QueueTyped, WriterTyped, NEW b \in Boards, Filed(b), WriterPop
    PROVE  Filed(b)'
<1>1. /\ writer.at = "loop" /\ writeQueue # <<>> /\ writeQueue' = Tail(writeQueue)
      /\ writer' = [at |-> "writing", hand |-> Head(writeQueue)]
      /\ file' = file /\ board' = board
  BY WriterPopEffect, Zenon DEF BoardsKept, FileKept
<1>2. CountOf(writeQueue, b) = CountOf(writeQueue', b) + One(Head(writeQueue)[1] = b)
  BY <1>1, CountTail DEF QueueTyped
<1>3. One(Holds(b)) = 0 /\ One(Holds(b)') = One(Head(writeQueue)[1] = b)
  BY <1>1 DEF Holds, One
<1>4. Tail(writeQueue) \in Seq(Blocks)
  BY <1>1, TailOf DEF QueueTyped
<1>5. CountOf(writeQueue', b) \in Nat /\ CountOf(file, b) \in Nat
  BY <1>1, <1>4, CountType DEF WriterTyped
<1>6. CountOf(file', b) = CountOf(file, b) /\ One(Head(writeQueue)[1] = b) \in Nat
  BY <1>1 DEF One
<1>7. board'[b].bytesWritten = CountOf(file', b) + CountOf(writeQueue', b) + One(Holds(b)')
  <2>1. board'[b].bytesWritten = board[b].bytesWritten
    BY <1>1
  <2> QED BY <1>2, <1>3, <1>5, <1>6, <2>1 DEF Filed
<1> QED BY <1>7 DEF Filed, CountOf, PlacesOf, One

(* The writer writes the block, or loses it. *)
LEMMA FiledWrite ==
    ASSUME Base, QueueTyped, WriterTyped, NEW b \in Boards, Filed(b), WriterWrite
    PROVE  lost' = {} => Filed(b)'
<1>1. /\ writer.at = "writing" /\ writer'.at # "writing" /\ writeQueue' = writeQueue
      /\ board' = board
      /\ file' = Append(file, writer.hand) \/ lost' = lost \cup {writer.hand}
  <2>1. /\ writer.at = "writing" /\ QueueKept /\ BoardsKept
        /\ \/ file' = Append(file, writer.hand) /\ writer' = [at |-> "loop", hand |-> NoBlock]
           \/ /\ lost' = lost \cup {writer.hand}
              /\ writer' = [at |-> "exited", hand |-> NoBlock]
    BY WriterWriteEffect, Zenon
  <2> QED BY <2>1 DEF QueueKept, BoardsKept
<1>2. SUFFICES ASSUME file' = Append(file, writer.hand) PROVE Filed(b)'
  BY <1>1
<1>3. CountOf(file', b) = CountOf(file, b) + One(writer.hand[1] = b)
  BY <1>1, <1>2, CountAppend DEF WriterTyped
<1>4. One(Holds(b)') = 0 /\ One(Holds(b)) = One(writer.hand[1] = b)
  BY <1>1 DEF Holds, One
<1>5. CountOf(writeQueue, b) \in Nat /\ CountOf(file, b) \in Nat
  BY CountType DEF QueueTyped, WriterTyped
<1>6. CountOf(writeQueue', b) = CountOf(writeQueue, b) /\ One(writer.hand[1] = b) \in Nat
  BY <1>1 DEF One
<1>7. board'[b].bytesWritten = CountOf(file', b) + CountOf(writeQueue', b) + One(Holds(b)')
  <2>1. board'[b].bytesWritten = board[b].bytesWritten
    BY <1>1
  <2> QED BY <1>3, <1>4, <1>5, <1>6, <2>1 DEF Filed
<1> QED BY <1>7 DEF Filed, CountOf, PlacesOf, One
-----------------------------------------------------------------------------
(* What the writer leaves, and what the queue turns away *)

(* A writer that is gone and has lost nothing has left nothing. *)
QueueLeft == lost = {} => /\ writer.at \in {"none", "exited"} => writeQueue = <<>>
                          /\ writer.at = "exited" => writeClosed

(* In the first run the queue is closed only when nobody pushes any more. *)
FirstRun ==
    starts <= 1 => /\ writeClosed => call.at = "joinWriter" \/ (AtRest /\ starts = 1)
                   /\ \A blk \in Blocks : fate[blk] # "rejected"

(* Who has a buffer in hand is part of a run, and its queue is read. *)
LEMMA InHandIsRunning ==
    ASSUME RestInv, NEW b \in Boards, InHand(b)
    PROVE  /\ call.at # "joinWriter" /\ ~AtRest
           /\ b \in Writers => writer.at # "none"
<1>1. /\ Settled /\ UpAndDown /\ FileSettled
      /\ call.at # "drainPush" => board[b].reader = "push"
  BY DEF RestInv, InHand
<1>2. CASE call.at = "drainPush"
  BY <1>1, <1>2 DEF FileSettled, Resting, AtRest, anyWrite
<1>3. CASE call.at # "drainPush"
  <2>1. board[b].running \/ Stopping(b)
    BY <1>1, <1>3 DEF Settled, Quiet
  <2>2. /\ call.at \notin {"prepare", "launch", "joinWriter"}
        /\ call.at = "idle" => running
    BY <1>1, <2>1 DEF UpAndDown, Stopping, Unwinding, Looping
  <2> QED BY <1>1, <2>2 DEF FileSettled, Resting, AtRest, anyWrite
<1> QED BY <1>2, <1>3

(* What is pushed in a run is taken or counted, and never turned away in the *)
(* first one.                                                                *)
LEMMA LeftByPush ==
    ASSUME RestInv, QueueLeft, FirstRun, NEW b \in Boards, Pushes(b),
           writer' = writer, lost' = lost, starts' = starts
    PROVE  /\ QueueLeft'
           /\ starts <= 1 => ~writeClosed' /\ \A blk \in Blocks : fate'[blk] # "rejected"
<1> DEFINE blk == <<b, board[b].buffersRead>>
<1>1. /\ InHand(b) /\ blk \in Blocks /\ PushToWriter(blk) /\ blk[1] = b /\ QueueTyped
  <2>1. blk[1] = b
    OBVIOUS
  <2> QED BY <2>1, Zenon DEF Pushes, RestInv
<1>2. /\ call.at # "joinWriter" /\ ~AtRest
      /\ b \in Writers => writer.at # "none"
  BY <1>1, InHandIsRunning
<1>3. starts <= 1 => ~writeClosed
  BY <1>2 DEF FirstRun
<1> HIDE DEF blk
<1>4. CASE QueueKept
  BY <1>3, <1>4 DEF QueueKept, QueueLeft, FirstRun
<1>5. ASSUME NEW f, fate' = [fate EXCEPT ![blk] = f], f # "rejected"
      PROVE  starts <= 1 => \A x \in Blocks : fate'[x] # "rejected"
  BY <1>1, <1>5 DEF QueueTyped, FirstRun
<1>6. CASE /\ blk[1] \in Writers /\ ~writeClosed /\ writeClosed' = writeClosed
           /\ fate' = [fate EXCEPT ![blk] = "queued"]
  <2>1. starts <= 1 => \A x \in Blocks : fate'[x] # "rejected"
    BY <1>5, <1>6
  <2>2. QueueLeft'
    BY <1>1, <1>2, <1>6 DEF QueueLeft
  <2> QED BY <1>6, <2>1, <2>2
<1>7. CASE /\ writeQueue' = writeQueue /\ writeClosed' = writeClosed
           /\ \/ fate' = [fate EXCEPT ![blk] = "dropped"]
              \/ writeClosed
  <2>1. starts <= 1 => \A x \in Blocks : fate'[x] # "rejected"
    BY <1>3, <1>5, <1>7
  <2>2. QueueLeft'
    BY <1>7 DEF QueueLeft
  <2> QED BY <1>3, <1>7, <2>1, <2>2
<1> QED BY <1>1, <1>4, <1>6, <1>7, PushEffect, Zenon

(* Every step keeps both. *)
LEMMA LeftStep ==
    ASSUME RestInv, Began, QueueLeft, FirstRun, Next
    PROVE  QueueLeft' /\ FirstRun'
<1>0. /\ Base /\ Settled /\ QueueTyped /\ WriterTyped /\ starts \in Nat
      /\ call.at = "launch" => writer.at = "none"
      /\ call.at \notin {"idle", "joinWriter"} /\ starts <= 1 => ~writeClosed
      /\ running /\ call.at = "idle" /\ starts <= 1 => ~writeClosed
  BY DaqAssumption DEF RestInv, FlagsTyped, FileSettled, Resting, FirstRun, AtRest
<1>1. CallStart => QueueLeft' /\ FirstRun'
  <2>1. SUFFICES ASSUME CallStart PROVE QueueLeft' /\ FirstRun'
    OBVIOUS
  <2>2. call.at = "idle" /\ starts' = starts + 1 /\ QueueKept /\ FileKept
        /\ writer' = writer /\ starts \in Nat
    BY <1>0, <2>1, CallStartEffect, Zenon
  <2>3. starts' <= 1 => starts = 0
    BY <2>2
  <2>4. starts' <= 1 => ~writeClosed /\ \A blk \in Blocks : fate[blk] # "rejected"
    BY <2>2, <2>3 DEF FirstRun
  <2>5. QueueLeft'
    BY <2>2 DEF QueueKept, FileKept, QueueLeft
  <2>6. FirstRun'
    BY <2>2, <2>4 DEF QueueKept, FirstRun
  <2> QED BY <2>5, <2>6
<1>2. CallStop => QueueLeft' /\ FirstRun'
  BY <1>0, CallStopEffect DEF Still, DaqKept, FileKept, QueueKept, QueueLeft, FirstRun
<1>3. PrepareBoard => QueueLeft' /\ FirstRun'
  BY <1>0, PrepareBoardEffect DEF Still, DaqKept, FileKept, QueueKept, QueueLeft, FirstRun
<1>4. PrepareFile => QueueLeft' /\ FirstRun'
  BY <1>0, PrepareFileEffect DEF QueueKept, QueueLeft, FirstRun
<1>5. Launch => QueueLeft' /\ FirstRun'
  <2>1. SUFFICES ASSUME Launch PROVE QueueLeft' /\ FirstRun'
    OBVIOUS
  <2>2. /\ call.at = "launch" /\ DaqKept /\ FileKept /\ QueueKept
        /\ writer' = [writer EXCEPT !.at = IF anyWrite THEN "loop" ELSE writer.at]
    BY <1>0, <2>1, LaunchEffect, Zenon
  <2>3. writer'.at \in {"loop", writer.at}
    BY <1>0, <2>2 DEF WriterTyped
  <2> QED BY <1>0, <2>2, <2>3 DEF DaqKept, FileKept, QueueKept, QueueLeft, FirstRun
<1>6. ArmBoard => QueueLeft' /\ FirstRun'
  <2>1. ArmBoard => call.at = "arm" /\ Still
    BY <1>0, ArmBoardEffect, Zenon
  <2> QED BY <1>0, <2>1 DEF Still, DaqKept, FileKept, QueueKept, QueueLeft, FirstRun
<1>7. SendSWTrigger => QueueLeft' /\ FirstRun'
  BY <1>0, SendSWTriggerEffect DEF Still, DaqKept, FileKept, QueueKept, QueueLeft, FirstRun
<1>8. StartReaders => QueueLeft' /\ FirstRun'
  <2>1. SUFFICES ASSUME StartReaders PROVE QueueLeft' /\ FirstRun'
    OBVIOUS
  <2>2. call.at = "readers" /\ starts' = starts /\ writer' = writer /\ FileKept /\ QueueKept
    BY <1>0, <2>1, StartReadersEffect, Zenon
  <2> QED BY <1>0, <2>2 DEF FileKept, QueueKept, QueueLeft, FirstRun
<1>9. Halt => QueueLeft' /\ FirstRun'
  BY <1>0, HaltEffect DEF Still, DaqKept, FileKept, QueueKept, QueueLeft, FirstRun
<1>10. JoinReader => QueueLeft' /\ FirstRun'
  BY <1>0, JoinReaderEffect DEF Still, DaqKept, FileKept, QueueKept, QueueLeft, FirstRun
<1>11. DrainRead => QueueLeft' /\ FirstRun'
  BY <1>0, DrainReadEffect DEF Still, DaqKept, FileKept, QueueKept, QueueLeft, FirstRun
<1>12. DrainPush => QueueLeft' /\ FirstRun'
  <2>1. SUFFICES ASSUME DrainPush PROVE QueueLeft' /\ FirstRun'
    OBVIOUS
  <2>2. PICK b \in Boards : Pushes(b) /\ writer' = writer /\ FileKept /\ DaqKept
    BY <1>0, <2>1, DrainPushPushes, Zenon
  <2>3. lost' = lost /\ starts' = starts
    BY <2>2, Zenon DEF FileKept, DaqKept
  <2> QED BY <2>2, <2>3, LeftByPush DEF FirstRun
<1>13. DrainSubmit => QueueLeft' /\ FirstRun'
  BY <1>0, DrainSubmitEffect DEF Still, DaqKept, FileKept, QueueKept, QueueLeft, FirstRun
<1>14. DrainEnd => QueueLeft' /\ FirstRun'
  BY <1>0, DrainEndEffect DEF Still, DaqKept, FileKept, QueueKept, QueueLeft, FirstRun
<1>15. DecodeStop => QueueLeft' /\ FirstRun'
  BY <1>0, DecodeStopEffect DEF Still, DaqKept, FileKept, QueueKept, QueueLeft, FirstRun
<1>16. DecodeJoin => QueueLeft' /\ FirstRun'
  BY <1>0, DecodeJoinEffect DEF Still, DaqKept, FileKept, QueueKept, QueueLeft, FirstRun
<1>17. Release => QueueLeft' /\ FirstRun'
  BY <1>0, ReleaseEffect DEF Still, DaqKept, FileKept, QueueKept, QueueLeft, FirstRun
<1>18. CloseQueue => QueueLeft' /\ FirstRun'
  <2>1. SUFFICES ASSUME CloseQueue PROVE QueueLeft' /\ FirstRun'
    OBVIOUS
  <2>2. /\ call'.at = "joinWriter" /\ DaqKept /\ FileKept /\ writer' = writer
        /\ writeQueue' = writeQueue /\ writeClosed' = TRUE /\ fate' = fate
    BY <1>0, <2>1, CloseQueueEffect, Zenon DEF To
  <2> QED BY <2>2 DEF DaqKept, FileKept, QueueLeft, FirstRun
<1>19. JoinWriter => QueueLeft' /\ FirstRun'
  <2>1. SUFFICES ASSUME JoinWriter PROVE QueueLeft' /\ FirstRun'
    OBVIOUS
  <2>2. /\ call.at = "joinWriter" /\ To("idle", call.idx) /\ running' = FALSE
        /\ writer.at \in {"none", "exited"} /\ writer' = [writer EXCEPT !.at = "none"]
        /\ lost' = lost /\ QueueKept /\ starts' = starts
    BY <1>0, <2>1, JoinWriterEffect, Zenon
  <2>3. writer'.at = "none"
    BY <1>0, <2>2 DEF WriterTyped
  <2>4. starts <= 1 => starts = 1
    BY <1>0, <2>2 DEF Began, AtRest
  <2>5. QueueLeft'
    BY <2>2, <2>3 DEF QueueKept, QueueLeft
  <2>6. AtRest'
    BY <2>2 DEF AtRest, To
  <2>7. FirstRun'
    BY <2>2, <2>4, <2>6 DEF QueueKept, FirstRun
  <2> QED BY <2>5, <2>7
<1>20. CASE Writer
  <2>1. call' = call /\ DaqKept
    BY <1>20, WriterPopEffect, WriterWriteEffect, WriterIdleEffect, WriterExitEffect, Zenon
       DEF Writer, BoardsKept, MainKept
  <2>2. ASSUME WriterPop PROVE QueueLeft' /\ FirstRun'
    <3>1. /\ writeQueue # <<>> /\ writeClosed' = writeClosed
          /\ fate' = [fate EXCEPT ![Head(writeQueue)] = "taken"] /\ writer'.at = "writing"
      BY <2>2, WriterPopEffect
    <3>2. starts <= 1 => \A blk \in Blocks : fate'[blk] # "rejected"
      BY <1>0, <3>1 DEF QueueTyped, FirstRun
    <3>3. FirstRun'
      BY <2>1, <3>1, <3>2 DEF DaqKept, FirstRun, AtRest
    <3> QED BY <3>1, <3>3 DEF QueueLeft
  <2>3. ASSUME WriterWrite PROVE QueueLeft' /\ FirstRun'
    <3>1. /\ QueueKept
          /\ \/ writer' = [at |-> "loop", hand |-> NoBlock]
             \/ lost' = lost \cup {writer.hand}
      BY <2>3, WriterWriteEffect, Zenon
    <3> QED BY <2>1, <3>1 DEF DaqKept, QueueKept, QueueLeft, FirstRun, AtRest
  <2>4. ASSUME WriterIdle PROVE QueueLeft' /\ FirstRun'
    BY <2>1, <2>4, WriterIdleEffect DEF DaqKept, QueueKept, QueueLeft, FirstRun, AtRest
  <2>5. ASSUME WriterExit PROVE QueueLeft' /\ FirstRun'
    <3>1. writeQueue = <<>> /\ writeClosed /\ FileKept /\ QueueKept
      BY <2>5, WriterExitEffect, Zenon
    <3> QED BY <2>1, <3>1 DEF DaqKept, FileKept, QueueKept, QueueLeft, FirstRun, AtRest
  <2> QED BY <1>20, <2>2, <2>3, <2>4, <2>5, Zenon DEF Writer
<1>21. CASE RunnerStep /\ UNCHANGED <<mainVars, writerVars>>
  <2>1. call' = call /\ DaqKept /\ writer' = writer /\ FileKept
    BY <1>21, RunnerStepCases, Zenon DEF MainKept
  <2>2. CASE QueueKept
    BY <2>1, <2>2 DEF DaqKept, FileKept, QueueKept, QueueLeft, FirstRun, AtRest
  <2>3. ASSUME NEW b \in Boards, ReaderPush(b) PROVE QueueLeft' /\ FirstRun'
    <3>1. Pushes(b)
      BY <1>0, <2>1, <2>3, ReaderPushPushes, Zenon
    <3>2. lost' = lost /\ starts' = starts
      BY <2>1, Zenon DEF FileKept, DaqKept
    <3> QED BY <2>1, <3>1, <3>2, LeftByPush DEF FirstRun
  <2> QED BY <1>21, <2>2, <2>3, RunnerStepCases, Zenon
<1> QED BY <1>1, <1>2, <1>3, <1>4, <1>5, <1>6, <1>7, <1>8, <1>9, <1>10, <1>11,
           <1>12, <1>13, <1>14, <1>15, <1>16, <1>17, <1>18, <1>19, <1>20, <1>21,
           Zenon DEF Next, MainStep
(* The books of a run are in order. *)
BooksInv == /\ \A b \in Writers : Booked(b)
            /\ lost = {} => \A b \in Writers : Filed(b)
            /\ QueueLeft /\ FirstRun

(* Nothing has been read or written yet. *)
LEMMA BooksInit == Init => BooksInv
<1> SUFFICES ASSUME Init PROVE BooksInv
  OBVIOUS
<1>1. /\ board = [b \in Boards |-> NewBoard] /\ call.at = "idle"
      /\ writeQueue = <<>> /\ writeClosed = FALSE /\ fate = [x \in Blocks |-> "new"]
      /\ file = <<>> /\ writer = [at |-> "none", hand |-> NoBlock]
  BY DEF Init, RunnerInit, WQ!QInit
<1>2. ASSUME NEW b \in Writers PROVE Booked(b) /\ Filed(b)
  <2>1. board[b] = NewBoard
    BY <1>1, BoardsAssumption
  <2>2. PlacesOf(file, b) = {} /\ PlacesOf(writeQueue, b) = {}
    BY <1>1 DEF PlacesOf
  <2>3. CountOf(file, b) = 0 /\ CountOf(writeQueue, b) = 0
    BY <2>2, FS_EmptySet DEF CountOf
  <2> QED BY <1>1, <2>1, <2>3 DEF Booked, Filed, Holds, InHand, NewBoard, One
<1>3. QueueLeft /\ FirstRun
  BY <1>1 DEF QueueLeft, FirstRun
<1> QED BY <1>2, <1>3 DEF BooksInv

(* Every step keeps the books in order. *)
LEMMA BooksStep ==
    ASSUME RestInv, Began, BooksInv, [Next]_vars
    PROVE  BooksInv'
<1>0. Base /\ QueueTyped /\ WriterTyped /\ Writers \subseteq Boards
  BY BoardsAssumption, Zenon DEF RestInv
<1>1. CASE Next
  <2>1. \A b \in Writers : Booked(b)'
    BY <1>0, <1>1, HandlesStep, BookedStep DEF BooksInv
  <2>2. QueueLeft' /\ FirstRun'
    BY <1>1, LeftStep DEF BooksInv
  <2>3. ASSUME lost' = {} PROVE \A b \in Writers : Filed(b)'
    <3>1. lost = {}
      BY <1>1, <2>3, PassageStep, WriterPopEffect, WriterWriteEffect
         DEF Passage, Steady, Passes, FileKept
    <3>2. SUFFICES ASSUME NEW b \in Writers PROVE Filed(b)'
      OBVIOUS
    <3>3. b \in Boards /\ Filed(b)
      BY <1>0, <3>1 DEF BooksInv
    <3> QED BY <1>0, <1>1, <2>3, <3>3, PassageStep, FiledSteady, FiledPasses, FiledPop,
               FiledWrite,
               Zenon DEF Passage
  <2> QED BY <2>1, <2>2, <2>3 DEF BooksInv
<1>2. CASE UNCHANGED vars
  <2>1. /\ board' = board /\ call' = call /\ writeQueue' = writeQueue /\ file' = file
        /\ writer' = writer /\ lost' = lost /\ writeClosed' = writeClosed /\ fate' = fate
        /\ starts' = starts /\ running' = running
    BY <1>2 DEF vars, runnerVars, mainVars, writerVars, queueVars, daqVars, fileVars
  <2> QED BY <2>1
             DEF BooksInv, Booked, Filed, Holds, InHand, CountOf, PlacesOf, One, QueueLeft,
                 FirstRun, AtRest
<1> QED BY <1>1, <1>2

(* When stop() or a failed start() has returned and no write has failed,     *)
(* every buffer read out of a board is in the file or counted as dropped and *)
(* the file is out of the stream buffer; in the first run nothing was turned *)
(* away by a closed queue.                                                   *)
THEOREM StopAccounts == Spec => []StopAccountsForAll
<1>1. Init => BooksInv /\ Began
  BY BooksInit DEF Init, Began, AtRest
<1>2. RestInv /\ Began /\ BooksInv /\ [Next]_vars => BooksInv'
  BY BooksStep
<1>3. RestInv /\ BooksInv => StopAccountsForAll
  <2> SUFFICES ASSUME RestInv, BooksInv, AtRest, lost = {}
               PROVE  /\ \A b \in Writers :
                           /\ board[b].bytesWritten = OnFile(b)
                           /\ board[b].blocksDropped = board[b].buffersRead - OnFile(b)
                      /\ flushed = Len(file)
                      /\ starts = 1 => \A blk \in Blocks : fate[blk] # "rejected"
    BY DEF StopAccountsForAll
  <2>1. writer.at = "none" /\ flushed = Len(file)
    BY DEF RestInv, FileSettled, Resting, AtRest
  <2>2. starts = 1 => \A blk \in Blocks : fate[blk] # "rejected"
    BY DEF BooksInv, FirstRun
  <2>3. ASSUME NEW b \in Writers
        PROVE  /\ board[b].bytesWritten = OnFile(b)
               /\ board[b].blocksDropped = board[b].buffersRead - OnFile(b)
    <3>1. b \in Boards /\ Base /\ Booked(b) /\ Filed(b)
      BY BoardsAssumption DEF BooksInv, RestInv
    <3>2. ~InHand(b)
      BY <3>1, InHandIsRunning
    <3>3. ~Holds(b) /\ writeQueue = <<>>
      BY <2>1 DEF BooksInv, QueueLeft, Holds
    <3>4. PlacesOf(writeQueue, b) = {}
      BY <3>3 DEF PlacesOf
    <3>5. CountOf(writeQueue, b) = 0
      BY <3>4, FS_EmptySet DEF CountOf
    <3>6. CountOf(file, b) \in Nat
      BY CountType DEF RestInv, WriterTyped
    <3>7. CountOf(file, b) = OnFile(b)
      BY DEF CountOf, PlacesOf, OnFile
    <3>8. /\ board[b].bytesWritten \in Nat /\ board[b].blocksDropped \in Nat
          /\ board[b].buffersRead \in Nat
      BY <3>1, FieldTypes DEF Base
    <3>9. board[b].bytesWritten = CountOf(file, b)
      BY <3>1, <3>3, <3>5, <3>6 DEF Filed, One
    <3>10. board[b].bytesWritten + board[b].blocksDropped = board[b].buffersRead
      BY <3>1, <3>2, <3>8 DEF Booked, One
    <3> QED BY <3>7, <3>8, <3>9, <3>10
  <2> QED BY <2>1, <2>2, <2>3
<1>4. RestInv /\ Began /\ [Next]_vars => Began'
  <2> SUFFICES ASSUME RestInv, Began, [Next]_vars PROVE Began'
    OBVIOUS
  <2>1. Base /\ starts \in Nat
    BY DaqAssumption DEF RestInv, FlagsTyped
  <2>2. CASE Next
    BY <2>1, <2>2, StartsStep, Zenon
  <2>3. CASE UNCHANGED vars
    BY <2>3, StutterKept DEF DaqKept, Began, AtRest
  <2> QED BY <2>2, <2>3
<1> QED BY <1>1, <1>2, <1>3, <1>4, RestInvHolds, PTL DEF Spec
=============================================================================

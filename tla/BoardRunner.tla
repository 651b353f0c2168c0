---------------------------- MODULE BoardRunner ----------------------------
(***************************************************************************)
(* The per-board half of the readout: the board itself as IDigitizer shows *)
(* it, the reader thread (BoardRunner.cpp) and the decode tap              *)
(* (DecodeStage.cpp).  Daq.tla adds the thread that starts and stops the   *)
(* boards and the shared file writer.                                      *)
(*                                                                         *)
(* A buffer is named <<b, n>>: the n-th that was read out of board b.  The *)
(* boards share one bridge, whose driver serves one call at a time (link). *)
(***************************************************************************)
EXTENDS Integers, Sequences, FiniteSets

CONSTANTS NBoards,        \* boards are numbered in the order of addBoard()
          Synced,         \* boards whose start mode is not kStartModeSW
          Mocks,          \* boards that are MockDigitizers
          Writers,        \* boards with BoardSpec::write
          Decoders,       \* boards with BoardSpec::decode
          WriteCapacity,  \* capacity of the shared write queue
          DecodeCapacity, \* capacity of a decode queue
          MaxBuffers,     \* bound: buffers one board fills
          MaxErrors,      \* bound: communication errors of one board
          DrainReads,     \* kMaxReads, or what two seconds of drain() allow
          Faults          \* the calls that may fail

Boards == 1 .. NBoards

FaultKinds == {"open", "file", "start", "trigger", "read", "stop", "write"}

ASSUME BoardsAssumption == /\ NBoards \in Nat \ {0}
                           /\ Synced \subseteq Boards
                           /\ Mocks \subseteq Boards
                           /\ Writers \subseteq Boards
                           /\ Decoders \subseteq Boards
ASSUME SizesAssumption == /\ WriteCapacity \in Nat \ {0}
                          /\ DecodeCapacity \in Nat \ {0}
                          /\ MaxBuffers \in Nat
                          /\ MaxErrors \in Nat
                          /\ DrainReads \in Nat
ASSUME FaultsAssumption == Faults \subseteq FaultKinds

Blocks == Boards \X (1 .. MaxBuffers)

NoBlock == <<0, 0>>

NoBoard == 0

VARIABLES
    board,         \* board[b]: the state of a board, its runner and its decoder
    link,          \* the board whose read the driver is executing, or NoBoard
    writeQueue, writeClosed, writeDropped, fate,   \* Daq::writeQueue_
    writerFailed   \* Daq::writerFailed_

queueVars == <<writeQueue, writeClosed, writeDropped, fate>>
runnerVars == <<board, link, queueVars, writerFailed>>

WQ == INSTANCE BoundedQueue WITH
        Capacity <- WriteCapacity, q <- writeQueue, closed <- writeClosed,
        dropped <- writeDropped

BoardState ==
    [open : BOOLEAN,                   \* the connection to the board
     hw : {"idle", "armed", "acquiring"},
     missed : BOOLEAN,                 \* history: a stop() of the board has failed
     mem : 0 .. MaxBuffers,            \* filled buffers in the board's memory
     made : 0 .. MaxBuffers,           \* buffers the board ever filled
     running : BOOLEAN,                \* BoardRunner::running_
     reader : {"none", "check", "reading", "push", "submit", "exited"},
                                       \* readerThread_; "none": not joinable
     hand : Blocks \cup {NoBlock},     \* the buffer the reader is dispatching
     buffersRead : 0 .. MaxBuffers,    \* buffersRead_, and the name of a buffer
     commErrors : 0 .. MaxErrors,      \* commErrors_
     bytesWritten : Nat,   \* bytesWritten_, in blocks
     blocksDropped : Nat,  \* blocksDropped_
     decoding : BOOLEAN,               \* DecodeStage::running_
     decoder : {"none", "loop", "decode", "exited"},    \* DecodeStage::thread_
     dq : 0 .. DecodeCapacity,         \* blocks in the decode queue
     dqClosed : BOOLEAN,               \* its closed_
     decoded : Nat,        \* blocks decoded
     decodeDropped : Nat]  \* its dropped_

NewBoard ==
    [open |-> FALSE, hw |-> "idle", missed |-> FALSE, mem |-> 0, made |-> 0,
     running |-> FALSE, reader |-> "none", hand |-> NoBlock, buffersRead |-> 0,
     commErrors |-> 0, bytesWritten |-> 0, blocksDropped |-> 0, decoding |-> FALSE,
     decoder |-> "none", dq |-> 0, dqClosed |-> FALSE, decoded |-> 0, decodeDropped |-> 0]

RunnerInit == /\ board = [b \in Boards |-> NewBoard]
              /\ link = NoBoard
              /\ WQ!QInit
              /\ writerFailed = FALSE

-----------------------------------------------------------------------------
(* The board: external, as IDigitizer.hpp describes it. *)

(* An acquiring board fills a buffer, whether anybody is connected or not. *)
Acquire(b) ==
    /\ board[b].hw = "acquiring"
    /\ board[b].made < MaxBuffers
    /\ board' = [board EXCEPT ![b].mem = @ + 1, ![b].made = @ + 1]
    /\ UNCHANGED <<link, queueVars, writerFailed>>

(* The calls of a mock never fail, and it is on no bridge. *)
MayFail(kind, b) == kind \in Faults /\ b \notin Mocks

LinkFree(b) == link = NoBoard \/ b \in Mocks

(* start() and arm() need an open board, unless it is a mock. *)
CanStart(b) == board[b].open \/ b \in Mocks

(* A mock does not wait for the trigger. *)
StartedAs(b) == IF b \in Synced \ Mocks THEN "armed" ELSE "acquiring"

(* read() gives a buffer, gives nothing, or fails.  It does not come back   *)
(* from a board that is armed and has not started; it may fail there when a *)
(* failed stop() has cost the connection.                                   *)
ReadsBuffer(b) == board[b].mem > 0

ReadsNothing(b) == board[b].mem = 0 /\ board[b].hw # "armed"

ReadFails(b) == MayFail("read", b) /\ (board[b].hw # "armed" \/ board[b].missed)

-----------------------------------------------------------------------------
(* dispatch(): a block goes to the writer, then to the decode tap. *)

(* writeQueue_->push(block).  While the queue is full the push waits (there  *)
(* is no step); giving up is the Drop step.                                  *)
PushToWriter(blk) ==
    IF blk[1] \in Writers
    THEN WQ!Accept(blk) \/ WQ!Drop(blk) \/ WQ!Reject(blk)
    ELSE UNCHANGED queueVars

(* The counters dispatch() selects by the result of the push. *)
Pushed(blk) == fate'[blk] = "queued"
Refused(blk) == fate'[blk] \in {"dropped", "rejected"}

CountWritten(blk, n) == IF blk[1] \in Writers /\ Pushed(blk) THEN n + 1 ELSE n
CountDropped(blk, n) == IF blk[1] \in Writers /\ Refused(blk) THEN n + 1 ELSE n

(* decodeStage_->submit(block): a push that waits for nothing.  A closed     *)
(* queue refuses without counting.                                           *)
Submitted(r, b) ==
    IF b \notin Decoders \/ r.dqClosed THEN r
    ELSE IF r.dq < DecodeCapacity THEN [r EXCEPT !.dq = @ + 1]
    ELSE [r EXCEPT !.decodeDropped = @ + 1]

-----------------------------------------------------------------------------
(* readerLoop() *)

(* Mutant: the reader does not look at writerFailed_. *)
ReaderExitStubborn(b) ==
    /\ board[b].reader = "check"
    /\ ~board[b].running
    /\ board' = [board EXCEPT ![b].reader = "exited"]
    /\ UNCHANGED <<link, queueVars, writerFailed>>

ReaderExit(b) ==
    /\ board[b].reader = "check"
    /\ ~board[b].running \/ writerFailed
    /\ board' = [board EXCEPT ![b].reader = "exited"]
    /\ UNCHANGED <<link, queueVars, writerFailed>>

ReaderReadBegin(b) ==
    /\ board[b].reader = "check"
    /\ board[b].running /\ ~writerFailed
    /\ LinkFree(b)
    /\ link' = IF b \in Mocks THEN link ELSE b
    /\ board' = [board EXCEPT ![b].reader = "reading"]
    /\ UNCHANGED <<queueVars, writerFailed>>

(* The read comes back: with a buffer, with size 0, or with an error that is *)
(* counted before the loop tries again.                                      *)
ReaderReadEnd(b) ==
    /\ board[b].reader = "reading"
    /\ \/ /\ ReadsBuffer(b)
          /\ board' = [board EXCEPT ![b].mem = @ - 1,
                                    ![b].buffersRead = @ + 1,
                                    ![b].hand = <<b, board[b].buffersRead + 1>>,
                                    ![b].reader = "push"]
       \/ /\ ReadsNothing(b)
          /\ board' = [board EXCEPT ![b].reader = "check"]
       \/ /\ ReadFails(b)
          /\ board[b].commErrors < MaxErrors
          /\ board' = [board EXCEPT ![b].commErrors = @ + 1, ![b].reader = "check"]
    /\ link' = IF link = b THEN NoBoard ELSE link
    /\ UNCHANGED <<queueVars, writerFailed>>

ReaderPush(b) ==
    /\ board[b].reader = "push"
    /\ PushToWriter(board[b].hand)
    /\ board' = [board EXCEPT ![b].bytesWritten = CountWritten(board[b].hand, @),
                              ![b].blocksDropped = CountDropped(board[b].hand, @),
                              ![b].hand = NoBlock,
                              ![b].reader = "submit"]
    /\ UNCHANGED <<link, writerFailed>>

ReaderSubmit(b) ==
    /\ board[b].reader = "submit"
    /\ board' = [board EXCEPT ![b] = [Submitted(@, b) EXCEPT !.reader = "check"]]
    /\ UNCHANGED <<link, queueVars, writerFailed>>

Reader(b) == \/ ReaderExit(b)
             \/ ReaderReadBegin(b)
             \/ ReaderReadEnd(b)
             \/ ReaderPush(b)
             \/ ReaderSubmit(b)

-----------------------------------------------------------------------------
(* DecodeStage::loop() *)

DecoderPop(b) ==
    /\ board[b].decoder = "loop"
    /\ \/ /\ board[b].dq > 0
          /\ board' = [board EXCEPT ![b].dq = @ - 1, ![b].decoder = "decode"]
       \/ /\ board[b].dq = 0 /\ board[b].dqClosed
          /\ board' = [board EXCEPT ![b].decoder = "exited"]
    /\ UNCHANGED <<link, queueVars, writerFailed>>

DecoderDecode(b) ==
    /\ board[b].decoder = "decode"
    /\ board' = [board EXCEPT ![b].decoded = @ + 1, ![b].decoder = "loop"]
    /\ UNCHANGED <<link, queueVars, writerFailed>>

Decoder(b) == DecoderPop(b) \/ DecoderDecode(b)

-----------------------------------------------------------------------------
(* startReader(): the decode thread, then the reader thread. *)
StartReader(b) ==
    board' = IF board[b].reader # "none" THEN board
             ELSE [board EXCEPT
                     ![b].reader = "check",
                     ![b].decoding = @ \/ b \in Decoders,
                     ![b].decoder = IF b \in Decoders /\ ~board[b].decoding
                                    THEN "loop" ELSE @]

(* The threads of the boards, and the boards. *)
RunnerStep == \E b \in Boards : Acquire(b) \/ Reader(b) \/ Decoder(b)
=============================================================================

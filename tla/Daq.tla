-------------------------------- MODULE Daq --------------------------------
(***************************************************************************)
(* The orchestrator (Daq.cpp): one thread at a time calls start() and      *)
(* stop(), a writer thread drains the shared queue into the file, and the  *)
(* boards of BoardRunner.tla run beside them.                              *)
(*                                                                         *)
(* call.at is the line the calling thread has reached and call.idx the     *)
(* board its loop is at.  The same loop over BoardRunner::stop() and       *)
(* teardownWriter() serves stop() and both error paths of start().         *)
(***************************************************************************)
EXTENDS BoardRunner

CONSTANTS RegId,      \* RegId[b]: the board register id
          MaxStarts   \* bound: calls of start()

ASSUME DaqAssumption == /\ RegId \in [Boards -> Nat]
                        /\ MaxStarts \in Nat

VARIABLES
    call,       \* the call in progress
    starts,     \* calls of start() so far
    prepared,   \* prepared_
    running,    \* running_
    writer,     \* the writer thread and the block it has popped
    file,       \* the blocks in the file, in order
    fileState,  \* writer_: "none", "open", "closed"
    flushed,    \* how many blocks of the file are out of the stream buffer
    lost        \* history: blocks whose write failed

daqVars == <<starts, prepared, running>>
fileVars == <<file, fileState, flushed, lost>>
mainVars == <<call, daqVars>>
writerVars == <<writer, fileVars>>
vars == <<runnerVars, mainVars, writerVars>>

CallState ==
    [at : {"idle", "prepare", "launch", "arm", "trigger", "readers", "halt", "join", "drain",
           "drainPush", "drainSubmit", "decodeStop", "decodeJoin", "release", "closeQueue",
           "joinWriter"},
     idx : 1 .. NBoards + 1,         \* the board a loop of start() or stop() is at
     upto : 0 .. NBoards,            \* the last board the stop loop visits
     reads : 0 .. DrainReads,        \* reads drain() has made
     hand : Blocks \cup {NoBlock}]   \* the buffer drain() is dispatching

anyWrite == Writers # {}

(* The board with register id 0, else the first synchronised one. *)
masterIndex ==
    LET zero == {b \in Synced : RegId[b] = 0}
        pick == IF zero # {} THEN zero ELSE Synced
    IN IF pick = {} THEN NoBoard ELSE CHOOSE b \in pick : \A c \in pick : b <= c

Init == /\ RunnerInit
        /\ call = [at |-> "idle", idx |-> 1, upto |-> 0, reads |-> 0, hand |-> NoBlock]
        /\ starts = 0
        /\ prepared = FALSE
        /\ running = FALSE
        /\ writer = [at |-> "none", hand |-> NoBlock]
        /\ file = <<>>
        /\ fileState = "none"
        /\ flushed = 0
        /\ lost = {}

Goto(line) == call' = [call EXCEPT !.at = line]

GotoBoard(line, b) == call' = [call EXCEPT !.at = line, !.idx = b]

-----------------------------------------------------------------------------
(* start() *)

CallStart ==
    /\ call.at = "idle"
    /\ ~running
    /\ starts < MaxStarts
    /\ starts' = starts + 1
    /\ GotoBoard(IF prepared THEN "launch" ELSE "prepare", 1)
    /\ UNCHANGED <<prepared, running, writerVars, runnerVars>>

(* prepare(): board after board is opened and configured, then the file. *)
PrepareBoard ==
    /\ call.at = "prepare"
    /\ call.idx <= NBoards
    /\ \/ /\ board' = [board EXCEPT ![call.idx].open = TRUE]
          /\ GotoBoard("prepare", call.idx + 1)
       \/ MayFail("open", call.idx) /\ Goto("idle") /\ UNCHANGED board
    /\ UNCHANGED <<daqVars, writerVars, link, queueVars, writerFailed>>

PrepareFile ==
    /\ call.at = "prepare"
    /\ call.idx > NBoards
    /\ \/ /\ fileState' = IF anyWrite THEN "open" ELSE fileState
          /\ prepared' = TRUE
          /\ Goto("launch")
       \/ anyWrite /\ "file" \in Faults /\ Goto("idle") /\ UNCHANGED <<fileState, prepared>>
    /\ UNCHANGED <<starts, running, writer, file, flushed, lost, runnerVars>>

(* The writer thread comes first, "so it is ready to drain buffers". *)
Launch ==
    /\ call.at = "launch"
    /\ writerFailed' = FALSE
    /\ writer' = [writer EXCEPT !.at = IF anyWrite THEN "loop" ELSE @]
    /\ GotoBoard("arm", 1)
    /\ UNCHANGED <<daqVars, fileVars, board, link, queueVars>>

(* Begin the loop over BoardRunner::stop() that ends in teardownWriter(). *)
Unwind(last) == call' = [call EXCEPT !.at = "halt", !.idx = 1, !.upto = last]

(* running_ goes up and the board's memory is cleared. *)
Started(b) == [board EXCEPT ![b].running = TRUE, ![b].hw = StartedAs(b), ![b].mem = 0]

(* The next line after board call.idx is armed. *)
Armed == GotoBoard(IF call.idx = NBoards THEN "trigger" ELSE "arm",
                   IF call.idx = NBoards THEN 1 ELSE call.idx + 1)

(* Mutant: the reader comes up as soon as its board is armed. *)
ArmBoardAndRead ==
    /\ call.at = "arm"
    /\ CanStart(call.idx)
    /\ board' = [Started(call.idx) EXCEPT ![call.idx].reader = "check"]
    /\ Armed
    /\ UNCHANGED <<daqVars, writerVars, link, queueVars, writerFailed>>

(* Every board is armed or started, in order; the first that fails undoes    *)
(* the ones before it.  runners_[j]->stop() leaves the failed one alone: its *)
(* running_ is false again.                                                  *)
ArmBoard ==
    /\ call.at = "arm"
    /\ \/ CanStart(call.idx) /\ board' = Started(call.idx) /\ Armed
       \/ /\ MayFail("start", call.idx) \/ ~CanStart(call.idx)
          /\ Unwind(call.idx)
          /\ UNCHANGED board
    /\ UNCHANGED <<daqVars, writerVars, link, queueVars, writerFailed>>

(* The trigger reaches every armed board of the chain. *)
ChainStarted == [b \in Boards |-> IF board[b].hw = "armed"
                                  THEN [board[b] EXCEPT !.hw = "acquiring"]
                                  ELSE board[b]]

(* Mutant: after a failed trigger only the boards before the master stop. *)
SendSWTriggerLeaky ==
    /\ call.at = "trigger"
    /\ masterIndex # NoBoard => LinkFree(masterIndex)
    /\ \/ board' = ChainStarted /\ GotoBoard("readers", 1)
       \/ /\ masterIndex # NoBoard /\ MayFail("trigger", masterIndex)
          /\ Unwind(masterIndex - 1)
          /\ UNCHANGED board
    /\ UNCHANGED <<daqVars, writerVars, link, queueVars, writerFailed>>

(* The master's software trigger; the driver needs the link for it. *)
SendSWTrigger ==
    /\ call.at = "trigger"
    /\ masterIndex # NoBoard => LinkFree(masterIndex)
    /\ \/ board' = ChainStarted /\ GotoBoard("readers", 1)
       \/ /\ masterIndex # NoBoard /\ MayFail("trigger", masterIndex)
          /\ Unwind(NBoards)
          /\ UNCHANGED board
    /\ UNCHANGED <<daqVars, writerVars, link, queueVars, writerFailed>>

StartReaders ==
    /\ call.at = "readers"
    /\ StartReader(call.idx)
    /\ IF call.idx = NBoards
       THEN Goto("idle") /\ running' = TRUE
       ELSE GotoBoard("readers", call.idx + 1) /\ UNCHANGED running
    /\ UNCHANGED <<starts, prepared, writerVars, link, queueVars, writerFailed>>

-----------------------------------------------------------------------------
(* stop() *)

(* Mutant: the queue is closed before the boards are stopped. *)
CallStopQueueFirst ==
    /\ call.at = "idle"
    /\ running
    /\ Unwind(NBoards)
    /\ WQ!Close
    /\ UNCHANGED <<daqVars, writerVars, board, link, writerFailed>>

CallStop ==
    /\ call.at = "idle"
    /\ running
    /\ Unwind(NBoards)
    /\ UNCHANGED <<daqVars, writerVars, runnerVars>>

(* On to the next board, or to teardownWriter(). *)
NextBoard == IF call.idx = call.upto THEN Goto("closeQueue")
             ELSE GotoBoard("halt", call.idx + 1)

(* running_ goes down and the board is stopped.  Its memory keeps what it    *)
(* holds; a mock has none.                                                   *)
Stopped(b) == [board EXCEPT ![b].running = FALSE, ![b].hw = "idle",
                            ![b].mem = IF b \in Mocks THEN 0 ELSE @]

(* running_ goes down, but the board was not reached and goes on. *)
NotStopped(b) == [board EXCEPT ![b].running = FALSE, ![b].missed = TRUE]

(* BoardRunner::stop(), from here to Release, unless running_ was down       *)
(* already.  Whether dgtz_->stop() has worked is not looked at.              *)
Halt ==
    /\ call.at = "halt"
    /\ IF board[call.idx].running
       THEN /\ \/ board' = Stopped(call.idx)
               \/ MayFail("stop", call.idx) /\ board' = NotStopped(call.idx)
            /\ Goto("join")
       ELSE NextBoard /\ UNCHANGED board
    /\ UNCHANGED <<daqVars, writerVars, link, queueVars, writerFailed>>

(* Mutant: the board is drained while its reader may still be dispatching. *)
JoinReaderLate ==
    /\ call.at = "join"
    /\ call' = [call EXCEPT !.at = "drain", !.reads = 0]
    /\ UNCHANGED <<daqVars, writerVars, runnerVars>>

(* Mutant: stop() does not read out what the board still holds. *)
JoinReaderNoDrain ==
    /\ call.at = "join"
    /\ board[call.idx].reader \in {"none", "exited"}
    /\ board' = [board EXCEPT ![call.idx].reader = "none"]
    /\ Goto("decodeStop")
    /\ UNCHANGED <<daqVars, writerVars, link, queueVars, writerFailed>>

JoinReader ==
    /\ call.at = "join"
    /\ board[call.idx].reader \in {"none", "exited"}
    /\ board' = [board EXCEPT ![call.idx].reader = "none"]
    /\ call' = [call EXCEPT !.at = "drain", !.reads = 0]
    /\ UNCHANGED <<daqVars, writerVars, link, queueVars, writerFailed>>

(* drain(): a read, then dispatch() of what it gave; the loop ends at an     *)
(* empty read, an error, or its limit.                                       *)
DrainRead ==
    /\ call.at = "drain"
    /\ call.reads < DrainReads
    /\ LinkFree(call.idx)
    /\ ReadsBuffer(call.idx)
    /\ LET n == board[call.idx].buffersRead + 1
       IN /\ board' = [board EXCEPT ![call.idx].mem = @ - 1, ![call.idx].buffersRead = n]
          /\ call' = [call EXCEPT !.at = "drainPush", !.reads = @ + 1, !.hand = <<call.idx, n>>]
    /\ UNCHANGED <<daqVars, writerVars, link, queueVars, writerFailed>>

DrainPush ==
    /\ call.at = "drainPush"
    /\ PushToWriter(call.hand)
    /\ board' = [board EXCEPT ![call.idx].bytesWritten = CountWritten(call.hand, @),
                              ![call.idx].blocksDropped = CountDropped(call.hand, @)]
    /\ call' = [call EXCEPT !.at = "drainSubmit", !.hand = NoBlock]
    /\ UNCHANGED <<daqVars, writerVars, link, writerFailed>>

DrainSubmit ==
    /\ call.at = "drainSubmit"
    /\ board' = [board EXCEPT ![call.idx] = Submitted(@, call.idx)]
    /\ Goto("drain")
    /\ UNCHANGED <<daqVars, writerVars, link, queueVars, writerFailed>>

DrainEnd ==
    /\ call.at = "drain"
    /\ \/ call.reads = DrainReads
       \/ LinkFree(call.idx) /\ (ReadsNothing(call.idx) \/ ReadFails(call.idx))
    /\ Goto("decodeStop")
    /\ UNCHANGED <<daqVars, writerVars, runnerVars>>

(* Mutant: DecodeStage::stop() does not wait for its thread. *)
DecodeStopNoJoin ==
    /\ call.at = "decodeStop"
    /\ board' = [board EXCEPT ![call.idx].dqClosed = @ \/ board[call.idx].decoding,
                              ![call.idx].decoding = FALSE]
    /\ Goto("release")
    /\ UNCHANGED <<daqVars, writerVars, link, queueVars, writerFailed>>

(* DecodeStage::stop() closes its queue ... *)
DecodeStop ==
    /\ call.at = "decodeStop"
    /\ board' = [board EXCEPT ![call.idx].dqClosed = @ \/ board[call.idx].decoding,
                              ![call.idx].decoding = FALSE]
    /\ Goto(IF board[call.idx].decoding THEN "decodeJoin" ELSE "release")
    /\ UNCHANGED <<daqVars, writerVars, link, queueVars, writerFailed>>

(* ... and joins its thread, which empties the queue first. *)
DecodeJoin ==
    /\ call.at = "decodeJoin"
    /\ board[call.idx].decoder = "exited"
    /\ board' = [board EXCEPT ![call.idx].decoder = "none"]
    /\ Goto("release")
    /\ UNCHANGED <<daqVars, writerVars, link, queueVars, writerFailed>>

(* dgtz_->close().  It does not stop the board again: CaenDigitizer::running_ *)
(* has been down since stop(), even one that failed.                          *)
Release ==
    /\ call.at = "release"
    /\ board' = [board EXCEPT ![call.idx].open = FALSE]
    /\ NextBoard
    /\ UNCHANGED <<daqVars, writerVars, link, queueVars, writerFailed>>

(* teardownWriter() *)
CloseQueue ==
    /\ call.at = "closeQueue"
    /\ WQ!Close
    /\ Goto("joinWriter")
    /\ UNCHANGED <<daqVars, writerVars, board, link, writerFailed>>

(* The file is flushed and closed, the call returns. *)
CloseFile == /\ fileState' = IF fileState = "open" THEN "closed" ELSE fileState
             /\ flushed' = Len(file)
             /\ running' = FALSE
             /\ Goto("idle")
             /\ UNCHANGED <<starts, prepared, file, lost, runnerVars>>

JoinWriter ==
    /\ call.at = "joinWriter"
    /\ writer.at \in {"none", "exited"}
    /\ writer' = [writer EXCEPT !.at = "none"]
    /\ CloseFile

-----------------------------------------------------------------------------
(* writerLoop() *)

WriterPop ==
    /\ writer.at = "loop"
    /\ WQ!Take
    /\ writer' = [at |-> "writing", hand |-> Head(writeQueue)]
    /\ UNCHANGED <<fileVars, mainVars, board, link, writerFailed>>

(* Write the block; flush when a second has passed since the last flush. *)
WriterWrite ==
    /\ writer.at = "writing"
    /\ \/ /\ fileState = "open"
          /\ file' = Append(file, writer.hand)
          /\ flushed' \in {flushed, Len(file) + 1}
          /\ writer' = [at |-> "loop", hand |-> NoBlock]
          /\ UNCHANGED <<lost, writerFailed>>
       \/ /\ fileState # "open" \/ "write" \in Faults
          /\ lost' = lost \cup {writer.hand}
          /\ writerFailed' = TRUE
          /\ writer' = [at |-> "exited", hand |-> NoBlock]
          /\ UNCHANGED <<file, flushed>>
    /\ UNCHANGED <<fileState, mainVars, board, link, queueVars>>

(* Mutant: the writer flushes by its one-second rule alone. *)
WriterIdleNever == FALSE /\ UNCHANGED vars

(* popFor() timed out: what the stream buffer holds is flushed. *)
WriterIdle ==
    /\ writer.at = "loop"
    /\ writeQueue = <<>> /\ ~writeClosed
    /\ flushed < Len(file)
    /\ flushed' = Len(file)
    /\ UNCHANGED <<writer, file, fileState, lost, mainVars, runnerVars>>

WriterExit ==
    /\ writer.at = "loop"
    /\ writeQueue = <<>> /\ writeClosed
    /\ writer' = [writer EXCEPT !.at = "exited"]
    /\ UNCHANGED <<fileVars, mainVars, runnerVars>>

Writer == WriterPop \/ WriterWrite \/ WriterIdle \/ WriterExit

-----------------------------------------------------------------------------
(* What the calling thread does once a call is under way. *)
MainStep == \/ PrepareBoard \/ PrepareFile \/ Launch \/ ArmBoard \/ SendSWTrigger
            \/ StartReaders
            \/ Halt \/ JoinReader \/ DrainRead \/ DrainPush \/ DrainSubmit \/ DrainEnd
            \/ DecodeStop \/ DecodeJoin \/ Release \/ CloseQueue \/ JoinWriter

Next == \/ CallStart
        \/ CallStop
        \/ MainStep
        \/ Writer
        \/ RunnerStep /\ UNCHANGED <<mainVars, writerVars>>

(* Threads that can run do run; nobody need call start() or stop(), and no   *)
(* board need take data.  drain() competes for the link with the readers of  *)
(* the other boards, which leave it alone for idlePollMs after an empty read *)
(* ("let the other boards on this link have it"): hence strong fairness.     *)
Fairness == /\ WF_vars(MainStep)
            /\ SF_vars(DrainRead \/ DrainEnd)
            /\ WF_vars(Writer)
            /\ \A b \in Boards :
                 /\ WF_vars(Reader(b) /\ UNCHANGED <<mainVars, writerVars>>)
                 /\ WF_vars(Decoder(b) /\ UNCHANGED <<mainVars, writerVars>>)

Spec == Init /\ [][Next]_vars

FairSpec == Spec /\ Fairness

-----------------------------------------------------------------------------
(* Properties *)

(* Every variable stays in its type. *)
TypeOK == /\ board \in [Boards -> BoardState]
          /\ link \in Boards \cup {NoBoard}
          /\ writeQueue \in Seq(Blocks)
          /\ writeClosed \in BOOLEAN
          /\ writeDropped \in Nat
          /\ fate \in [Blocks -> WQ!Fates]
          /\ writerFailed \in BOOLEAN
          /\ call \in CallState
          /\ starts \in 0 .. MaxStarts
          /\ prepared \in BOOLEAN
          /\ running \in BOOLEAN
          /\ writer \in [at : {"none", "loop", "writing", "exited"},
                         hand : Blocks \cup {NoBlock}]
          /\ file \in Seq(Blocks)
          /\ fileState \in {"none", "open", "closed"}
          /\ flushed \in 0 .. Len(file)
          /\ lost \subseteq Blocks

(* How many blocks of board b the file holds. *)
OnFile(b) == Cardinality({i \in DOMAIN file : file[i][1] = b})

(* No call is in progress and no run is on: before the first start(), after  *)
(* stop(), after a start() that failed.                                      *)
AtRest == call.at = "idle" /\ ~running

(* The buffers of a board are in the file in the order the board filled      *)
(* them, although its reader thread, drain() on the calling thread and the   *)
(* writer pass them on: the time stamps of a board never step back.          *)
FileKeepsBoardOrder ==
    \A i, j \in DOMAIN file :
        (i < j /\ file[i][1] = file[j][1]) => file[i][2] < file[j][2]

(* When stop() or a failed start() has returned and no write has failed,     *)
(* every buffer read out of a board is in the file or counted as dropped,    *)
(* the counters agree with the file, and the file is out of the stream       *)
(* buffer.  In the first run on a Daq nothing was turned away by a closed    *)
(* queue: it is closed only when nobody pushes any more.                     *)
StopAccountsForAll ==
    (AtRest /\ lost = {}) =>
        /\ \A b \in Writers :
             /\ board[b].bytesWritten = OnFile(b)
             /\ board[b].blocksDropped = board[b].buffersRead - OnFile(b)
        /\ flushed = Len(file)
        /\ starts = 1 => \A blk \in Blocks : fate[blk] # "rejected"

(* A stop() or a failed start() leaves nothing behind, whichever call of     *)
(* either has failed: no thread runs, the file is closed, and a board that   *)
(* still acquires or waits for a trigger is one whose own stop() failed -    *)
(* every board that was started has been asked to stop.                      *)
RestIsQuiet ==
    AtRest => /\ \A b \in Boards : /\ board[b].hw # "idle" => board[b].missed /\ ~board[b].open
                                   /\ board[b].reader = "none"
                                   /\ board[b].decoder = "none"
                                   /\ ~board[b].running
              /\ writer.at = "none"
              /\ prepared /\ starts > 0 => fileState # "open" \/ ~anyWrite

(* stop() reads out what a board still holds: unless a read fails, nothing   *)
(* stays in the memory of a board that was stopped and closed, or drain()    *)
(* has made all the reads it may.  A mock is never open.                     *)
StopEmptiesBoards ==
    (AtRest /\ "read" \notin Faults) =>
        \A b \in Boards : (board[b].hw = "idle" /\ ~board[b].open) =>
            board[b].mem = 0 \/ board[b].mem + DrainReads <= board[b].made

(* When the first start() has failed, or its run has been stopped, every     *)
(* buffer read out of a decoded board is decoded, counted as dropped, or in  *)
(* the queue of its tap.  After stop() the queue is empty: it was drained    *)
(* before the thread went.  After a failed start() there was no thread, and  *)
(* what drain() read out of a board that had started stays in the queue:     *)
(* DecodeStage::stop() returns at once (DecodeStage.cpp:27).  A second run   *)
(* is another matter: nobody reopens the queue, and submit() refuses without *)
(* counting.                                                                 *)
DecoderSeesAll ==
    (AtRest /\ starts <= 1) => \A b \in Decoders :
        /\ board[b].decoded + board[b].decodeDropped + board[b].dq = board[b].buffersRead
        /\ board[b].dqClosed => board[b].dq = 0

(* "Start the single writer thread first so it is ready to drain buffers"    *)
(* (Daq.cpp:150): while a run is on and no write has failed, the write queue *)
(* takes blocks.  start() does not reopen the queue that the teardown of an  *)
(* earlier call closed.                                                      *)
RunTakesBlocks ==
    (running /\ call.at = "idle" /\ anyWrite /\ ~writerFailed) => ~writeClosed

(* drain() reads a board that is still armed, because its stop() has failed: *)
(* that read does not come back, and the limits of drain() are only looked   *)
(* at between reads.                                                         *)
DrainHangs == /\ call.at = "drain"
              /\ board[call.idx].hw = "armed"
              /\ board[call.idx].missed

(* start() and stop() return: no join waits for a thread that waits for the  *)
(* caller, and the trigger is never sent to a link a blocked read holds.     *)
(* The one way for them to stay away is a board that cannot be stopped after *)
(* its trigger has failed, or while it waits for it.                         *)
CallsReturn == (call.at # "idle") ~> (call.at = "idle" \/ DrainHangs)

(* A failed write ends the readout of every board. *)
WriterFailureStopsReaders ==
    writerFailed ~> (\A b \in Boards : board[b].reader \in {"none", "exited"})

(* A block in the file leaves the stream buffer although nothing more may    *)
(* arrive, unless the writer has failed.                                     *)
WrittenIsFlushed ==
    (flushed < Len(file)) ~> (flushed = Len(file) \/ lost # {})
=============================================================================

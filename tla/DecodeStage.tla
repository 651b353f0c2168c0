---------------------------- MODULE DecodeStage ----------------------------
(***************************************************************************)
(* The thread of DecodeStage::loop() with its decoder, and the HitTap into *)
(* which it puts the hits of a block at once, while another thread takes   *)
(* them and switches the tap.  Every operation of HitTap holds mtx_ from   *)
(* beginning to end and is one action.  The queue the blocks come from is  *)
(* part of BoardRunner.tla; here a block is simply taken.                  *)
(*                                                                         *)
(* A hit is the number of the event it comes from.                         *)
(***************************************************************************)
EXTENDS AggregateDecoder, Sequences

CONSTANTS psPerTick,   \* period of the time stamp counter, 0 if it is unknown
          Capacities,  \* arguments of setCapacity()
          MaxBlocks,   \* bound: blocks decoded
          MaxCalls     \* bound: calls of setEnabled() and setCapacity()

ASSUME StageAssumption == /\ Capacities \subseteq Nat
                          /\ {psPerTick, MaxBlocks, MaxCalls} \subseteq Nat

VARIABLES
    blocks,    \* blocks taken so far
    tapping,   \* loop(): what enabled() said when the block was taken
    batch,     \* batch_: the hits of this block
    serial,    \* history: hits put into a batch so far
    enabled,   \* HitTap::enabled_
    capacity,  \* HitTap::capacity_
    hits,      \* HitTap::hits_
    dropped,   \* HitTap::dropped_
    calls,     \* calls so far
    taken,     \* history: hits handed out by take(), and the newest of them
    discarded  \* history: hits cleared or refused because the tap was off

tapVars == <<enabled, capacity, hits, dropped, taken, discarded>>
loopVars == <<blocks, tapping, batch, serial>>
vars == <<decoderVars, loopVars, tapVars, calls>>

Init == /\ DecoderInit
        /\ blocks = 0
        /\ tapping = FALSE
        /\ batch = <<>>
        /\ serial = 0
        /\ enabled = FALSE
        /\ capacity \in {c \in Capacities : c > 0}
        /\ hits = <<>>
        /\ dropped = 0
        /\ calls = 0
        /\ taken = [count |-> 0, newest |-> 0]
        /\ discarded = 0

-----------------------------------------------------------------------------
(* The decode thread *)

(* pop() returned a block: ask whether to tap, clear the batch, decode. *)
TakeBlock == /\ blocks < MaxBlocks
             /\ Begin
             /\ blocks' = blocks + 1
             /\ tapping' = enabled
             /\ batch' = <<>>
             /\ UNCHANGED <<serial, tapVars, calls>>

Walk == WalkStep /\ UNCHANGED <<loopVars, tapVars, calls>>

(* fn: only an event with a time after zero goes into the batch. *)
Collect == /\ Emit
           /\ IF tapping /\ last'.placed * psPerTick > 0
              THEN batch' = Append(batch, serial + 1) /\ serial' = serial + 1
              ELSE UNCHANGED <<batch, serial>>
           /\ UNCHANGED <<blocks, tapping, tapVars, calls>>

Room == IF capacity > Len(hits) THEN capacity - Len(hits) ELSE 0

(* The hits of the batch that there is room for. *)
Kept == SubSeq(batch, 1, Min({Len(batch), Room}))

(* Mutant: dropped_ grows by what was kept. *)
AppendMiscounted == /\ walk.at = "end"
                    /\ walk' = Idle
                    /\ IF tapping /\ enabled
                       THEN /\ hits' = hits \o Kept
                            /\ dropped' = dropped + Len(Kept)
                       ELSE UNCHANGED <<hits, dropped>>
                    /\ discarded' = IF tapping /\ ~enabled THEN discarded + Len(batch)
                                    ELSE discarded
                    /\ UNCHANGED <<boardVars, flagged, timeVars, loopVars, enabled, capacity,
                                   calls, taken>>

(* decode() is done: append() the batch if tapping, unless the tap is off   *)
(* by now, and wait for the next block.                                     *)
AppendBatch == /\ walk.at = "end"
               /\ walk' = Idle
               /\ IF tapping /\ enabled
                  THEN /\ hits' = hits \o Kept
                       /\ dropped' = dropped + Len(batch) - Len(Kept)
                  ELSE UNCHANGED <<hits, dropped>>
               /\ discarded' = IF tapping /\ ~enabled THEN discarded + Len(batch)
                               ELSE discarded
               /\ UNCHANGED <<boardVars, flagged, timeVars, loopVars, enabled, capacity,
                              calls, taken>>

-----------------------------------------------------------------------------
(* The thread that builds coincidences *)

(* setEnabled(): switching off clears. *)
SetEnabled == /\ calls < MaxCalls
              /\ calls' = calls + 1
              /\ enabled' \in BOOLEAN
              /\ IF enabled' THEN UNCHANGED <<hits, discarded>>
                 ELSE hits' = <<>> /\ discarded' = discarded + Len(hits)
              /\ UNCHANGED <<decoderVars, loopVars, capacity, dropped, taken>>

(* n ? n : 1 *)
Positive(n) == IF n = 0 THEN 1 ELSE n

(* setCapacity() leaves what is already held. *)
SetCapacity == /\ calls < MaxCalls
               /\ calls' = calls + 1
               /\ \E n \in Capacities : capacity' = Positive(n)
               /\ UNCHANGED <<decoderVars, loopVars, enabled, hits, dropped, taken, discarded>>

(* take(): everything held. *)
Take == /\ hits # <<>>
        /\ taken' = [count |-> taken.count + Len(hits), newest |-> hits[Len(hits)]]
        /\ hits' = <<>>
        /\ UNCHANGED <<decoderVars, loopVars, enabled, capacity, dropped, calls, discarded>>

-----------------------------------------------------------------------------
DecodeThread == Walk \/ Collect \/ AppendBatch

Next == TakeBlock \/ DecodeThread \/ SetEnabled \/ SetCapacity \/ Take

Spec == Init /\ [][Next]_vars

(* The decode thread runs. *)
FairSpec == Spec /\ WF_vars(DecodeThread)

-----------------------------------------------------------------------------
(* Properties *)

(* Every variable stays in its type; in particular the walk stays in the    *)
(* buffer and the capacity positive.                                        *)
TypeOK == /\ DecoderTypeOK
          /\ blocks \in 0 .. MaxBlocks
          /\ tapping \in BOOLEAN
          /\ {batch, hits} \subseteq Seq(Nat)
          /\ {serial, dropped, discarded} \subseteq Nat
          /\ enabled \in BOOLEAN
          /\ capacity \in Nat \ {0}
          /\ calls \in 0 .. MaxCalls
          /\ taken \in [count : Nat, newest : Nat]

(* Every hit put into a batch is in the batch, held, handed out, counted in *)
(* dropped_ or lost to a switched-off tap, exactly once; and the hits come  *)
(* out in decode order, through any number of switches and takes.           *)
TapAccounts ==
    LET waiting == IF walk.at = "idle" THEN 0 ELSE Len(batch)
        stream == hits \o (IF walk.at = "idle" THEN <<>> ELSE batch)
    IN  /\ serial = waiting + Len(hits) + taken.count + dropped + discarded
        /\ \A i \in 1 .. Len(stream) :
               stream[i] > (IF i = 1 THEN taken.newest ELSE stream[i - 1])

(* A buffer, whatever its words, is decoded in the end: DecodeStage::stop() *)
(* joins the thread that does it.                                           *)
DecodeReturns == walk.at # "idle" ~> walk.at = "idle"
=============================================================================

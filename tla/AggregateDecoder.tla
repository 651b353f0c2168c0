------------------------- MODULE AggregateDecoder -------------------------
(***************************************************************************)
(* AggregateDecoder::decode() on the buffers of one board: the walk over   *)
(* board aggregates, channel aggregates (couples) and events, and the      *)
(* clock that places a wrapping counter in time.                           *)
(*                                                                         *)
(* The words of a buffer are not stored.  The walk never returns to a word *)
(* it has interpreted, so an action that reads a word chooses its value.   *)
(* A board that is "sound" sends complete aggregates of real hits, with    *)
(* filler between them; any other buffer consists of arbitrary words.      *)
(* decodePHA() and decodePSD() walk alike and differ in the bits of an     *)
(* event, which are left out, and in the check for uninitialised memory,   *)
(* which only the boards have whose reserved bits are known.               *)
(***************************************************************************)
EXTENDS Integers, FiniteSets, FiniteSetsExt

CONSTANTS Couples,       \* bits of the channel mask that the board uses
          ExtendedSets,  \* sets of couples whose extras word may extend the time stamp
          Wrap,          \* 2^tsBits: the time stamp counter wraps here
          ExtendedWrap,  \* 2^(tsBits + extendedBits)
          NumWords,      \* words in a buffer
          EvtSize,       \* DataLayout::evtSize of a real event
          EvtSizes,      \* event sizes that an arbitrary format word asks for
          Reserved,      \* layout.resTS or layout.resEnergy is known for the family
          Stamps,        \* time stamps that arbitrary words hold
          MaxTime        \* bound: true time of a hit, in ticks

kAggHeaderWords == 4

ASSUME CouplesAssumption == /\ Couples \in SUBSET Nat
                            /\ IsFiniteSet(Couples)
                            /\ ExtendedSets \subseteq SUBSET Couples
ASSUME WrapAssumption == /\ Wrap \in Nat \ {0}
                         /\ Wrap % 2 = 0
                         /\ ExtendedWrap \in Nat
                         /\ MaxTime \in Nat
                         /\ ExtendedWrap > 2 * MaxTime
ASSUME WordsAssumption == NumWords \in Nat /\ EvtSize \in Nat \ {0} /\ EvtSizes \subseteq Nat
ASSUME NoiseAssumption == Reserved \in BOOLEAN /\ Stamps \subseteq 0 .. Wrap - 1

VARIABLES
    sound,     \* the board sends well-formed buffers
    extended,  \* the couples with an extended time stamp
    walk,      \* decode(), decodePHA() or decodePSD(): where it stands
    flagged,   \* corrupt_, boardFail_, uninitialised_ or incomplete_ is not zero
    clock,     \* BoardDec::clock
    front,     \* history: the latest true time read so far
    last       \* history: the event of this couple decoded last, its true time
               \* and where it was placed

boardVars == <<sound, extended>>
timeVars == <<clock, front, last>>
decoderVars == <<boardVars, walk, flagged, timeVars>>

NoEvent == [timed |-> FALSE, true |-> 0, placed |-> 0]

(* The walk before a buffer. *)
Idle == [at |-> "idle", offset |-> 0, aggEnd |-> 0, pos |-> 0, left |-> {},
         size |-> 0, evtSize |-> 0, hasTS |-> FALSE, n |-> 0, evt |-> 0]

DecoderInit == /\ sound \in BOOLEAN
               /\ extended \in ExtendedSets
               /\ walk = Idle
               /\ flagged = FALSE
               /\ clock = [epoch |-> 0, reference |-> 0, seen |-> FALSE]
               /\ front = 0
               /\ last = NoEvent

-----------------------------------------------------------------------------
(* The board aggregates: the loop of decode(). *)

(* decode() begins with a buffer. *)
Begin == /\ walk.at = "idle"
         /\ walk' = [walk EXCEPT !.at = "scan", !.offset = 0]
         /\ UNCHANGED <<boardVars, flagged, timeVars>>

HeaderFits == walk.offset + kAggHeaderWords <= NumWords

(* decode() returns. *)
End == walk' = [walk EXCEPT !.at = "end"]

(* No room for another header. *)
ScanEnd == /\ walk.at = "scan"
           /\ ~HeaderFits
           /\ End
           /\ UNCHANGED <<boardVars, flagged, timeVars>>

(* A word that does not begin with 1010. *)
ScanSkip == /\ walk.at = "scan"
            /\ HeaderFits
            /\ walk' = [walk EXCEPT !.offset = @ + 1]
            /\ UNCHANGED <<boardVars, flagged, timeVars>>

(* A header that is longer than the aggregate it announces. *)
ScanShort == /\ walk.at = "scan"
             /\ HeaderFits
             /\ ~sound
             /\ walk' = [walk EXCEPT !.offset = @ + 1]
             /\ flagged' = TRUE
             /\ UNCHANGED <<boardVars, timeVars>>

(* Mutant: an aggregate that ends with the buffer counts as partial. *)
FitsStrictly(aggLen) == walk.offset + aggLen < NumWords

(* Whether the aggregate is in the buffer as a whole. *)
Fits(aggLen) == walk.offset + aggLen <= NumWords

(* The lengths that a sound board announces: the header and, per couple, a  *)
(* header of two words and whole events.                                    *)
Consistent(aggLen, mask) ==
    LET words == aggLen - kAggHeaderWords - 2 * Cardinality(mask)
    IN  words >= 0 /\ words % EvtSize = 0 /\ walk.offset + aggLen <= NumWords

(* A header: the rest of the buffer is given up if the aggregate does not   *)
(* fit; an aggregate of a board that is not registered, or not supported,   *)
(* is passed over; else its couples follow.                                 *)
ScanAggregate ==
    /\ walk.at = "scan"
    /\ HeaderFits
    /\ \E aggLen \in kAggHeaderWords .. NumWords + 1, mask \in SUBSET Couples,
          known \in BOOLEAN, fail \in BOOLEAN :
         /\ sound => known /\ ~fail /\ Consistent(aggLen, mask)
         /\ \/ ~Fits(aggLen) /\ End /\ UNCHANGED flagged
            \/ /\ Fits(aggLen)
               /\ flagged' = (flagged \/ fail)
               /\ walk' = IF known
                          THEN [walk EXCEPT !.at = "couple", !.left = mask,
                                            !.pos = walk.offset + kAggHeaderWords,
                                            !.aggEnd = walk.offset + aggLen]
                          ELSE [walk EXCEPT !.offset = @ + aggLen]
    /\ UNCHANGED <<boardVars, timeVars>>

-----------------------------------------------------------------------------
(* The couples: decodePHA() and decodePSD(). *)

(* Mutant: decode() does not move on by the length of the aggregate. *)
ReturnStay == walk' = [Idle EXCEPT !.at = "scan", !.offset = walk.offset]

(* Back in decode(), behind the aggregate. *)
Return == walk' = [Idle EXCEPT !.at = "scan", !.offset = walk.aggEnd]

(* The next couple starts where this one ends. *)
NextCouple(size) == walk' = [walk EXCEPT !.at = "couple", !.pos = @ + size,
                                         !.left = @ \ {Min(@)},
                                         !.size = 0, !.evtSize = 0, !.hasTS = FALSE,
                                         !.n = 0, !.evt = 0]

CouplesDone == /\ walk.at = "couple"
               /\ walk.left = {}
               /\ Return
               /\ UNCHANGED <<boardVars, flagged, timeVars>>

(* Not even the header of the couple is in the aggregate. *)
CoupleMissing == /\ walk.at = "couple"
                 /\ walk.left # {}
                 /\ walk.pos + 2 > walk.aggEnd
                 /\ flagged' = TRUE
                 /\ Return
                 /\ UNCHANGED <<boardVars, timeVars>>

(* Mutant: the size is not compared with the end of the aggregate. *)
PlausibleUnbounded(size, evtSize) == size >= 2 /\ evtSize # 0

Plausible(size, evtSize) == /\ size >= 2
                            /\ walk.pos + size <= walk.aggEnd
                            /\ evtSize # 0

(* A real couple holds whole events, and the last one ends the aggregate. *)
ConsistentCouple(size, evtSize) ==
    LET events == (walk.aggEnd - walk.pos - 2 * Cardinality(walk.left)) \div EvtSize
    IN  /\ evtSize = EvtSize
        /\ \E k \in 0 .. events : /\ size = 2 + k * EvtSize
                                  /\ Cardinality(walk.left) = 1 => k = events

(* The header of a couple: its size and its data format.  A couple in which *)
(* some event has a reserved bit set is condemned as a whole.               *)
Couple ==
    /\ walk.at = "couple"
    /\ walk.left # {}
    /\ walk.pos + 2 <= walk.aggEnd
    /\ \E size \in 0 .. NumWords, evtSize \in EvtSizes \cup {EvtSize}, hasTS \in BOOLEAN :
         /\ sound => hasTS /\ ConsistentCouple(size, evtSize)
         /\ \/ /\ ~Plausible(size, evtSize)
               /\ flagged' = TRUE
               /\ Return
            \/ /\ Plausible(size, evtSize)
               /\ \/ /\ Reserved /\ ~sound /\ (size - 2) \div evtSize > 0
                     /\ flagged' = TRUE
                     /\ NextCouple(size)
                  \/ /\ walk' = [walk EXCEPT !.at = "event", !.size = size,
                                             !.evtSize = evtSize, !.hasTS = hasTS,
                                             !.n = (size - 2) \div evtSize, !.evt = 0]
                     /\ UNCHANGED flagged
    /\ UNCHANGED <<boardVars, timeVars>>

EventsDone == /\ walk.at = "event"
              /\ walk.evt = walk.n
              /\ NextCouple(walk.size)
              /\ last' = NoEvent
              /\ UNCHANGED <<boardVars, flagged, clock, front>>

-----------------------------------------------------------------------------
(* The events. *)

Distance(a, b) == IF a > b THEN a - b ELSE b - a

(* Mutant: only the current epoch and the next are tried. *)
CandidatesForward(c) == c.epoch .. c.epoch + 1

(* The epochs that are tried; before the first event only the current one.  *)
Candidates(c) == IF c.seen THEN (IF c.epoch > 0 THEN c.epoch - 1 ELSE 0) .. c.epoch + 1
                 ELSE {c.epoch}

(* The epoch that places raw nearest to the reference, the first of equals. *)
Best(c, raw, range) ==
    LET d(k) == Distance(raw + k * range, c.reference)
    IN  CHOOSE k \in Candidates(c) :
            \A j \in Candidates(c) : d(k) < d(j) \/ (d(k) = d(j) /\ k <= j)

(* unwrap(): where raw goes. *)
Unwrapped(c, raw, range) == raw + Best(c, raw, range) * range

(* unwrap(): the clock afterwards. *)
Advance(c, raw, range) ==
    [epoch     |-> Max({c.epoch, Best(c, raw, range)}),
     reference |-> Max({c.reference, Unwrapped(c, raw, range)}),
     seen      |-> TRUE]

(* True times of the next hit: less than a wrap after the start of the run  *)
(* or, later, within half a wrap of what the board has already sent.        *)
HitTimes == IF clock.seen
            THEN {t \in 0 .. MaxTime : t >= front - Wrap \div 2 /\ t < front + Wrap \div 2}
            ELSE {t \in 0 .. MaxTime : t < Wrap}

(* The width of the counter that the events of the current couple show. *)
CoupleRange == IF Min(walk.left) \in extended THEN ExtendedWrap ELSE Wrap

(* An event with a time stamp.  In an arbitrary buffer it is no hit, and it *)
(* may lack the energy or charge word.                                      *)
TimedEvent ==
    /\ walk.at = "event"
    /\ walk.evt < walk.n
    /\ walk.hasTS
    /\ \E t \in IF sound THEN HitTimes ELSE Stamps :
         LET raw == t % CoupleRange
         IN  /\ clock' = Advance(clock, raw, CoupleRange)
             /\ last' = [timed |-> TRUE, true |-> t, placed |-> Unwrapped(clock, raw, CoupleRange)]
             /\ front' = IF sound THEN Max({front, t}) ELSE front
    /\ walk' = [walk EXCEPT !.evt = @ + 1]
    /\ \E incomplete \in IF sound THEN {FALSE} ELSE BOOLEAN : flagged' = (flagged \/ incomplete)
    /\ UNCHANGED boardVars

(* An event without one leaves the clock alone. *)
UntimedEvent == /\ walk.at = "event"
                /\ walk.evt < walk.n
                /\ ~walk.hasTS
                /\ flagged' = TRUE
                /\ last' = NoEvent
                /\ walk' = [walk EXCEPT !.evt = @ + 1]
                /\ UNCHANGED <<boardVars, clock, front>>

(* The steps of decode() between two calls of fn, and those that call it. *)
WalkStep == \/ ScanEnd \/ ScanSkip \/ ScanShort \/ ScanAggregate
            \/ CouplesDone \/ CoupleMissing \/ Couple \/ EventsDone
Emit == TimedEvent \/ UntimedEvent

-----------------------------------------------------------------------------
(* Properties *)

DecoderTypeOK ==
    /\ sound \in BOOLEAN
    /\ extended \subseteq Couples
    /\ walk \in [at : {"idle", "scan", "couple", "event", "end"}, offset : 0 .. NumWords,
                 aggEnd : 0 .. NumWords, pos : 0 .. NumWords, left : SUBSET Couples,
                 size : 0 .. NumWords, evtSize : Nat, hasTS : BOOLEAN,
                 n : 0 .. NumWords, evt : 0 .. NumWords]
    /\ flagged \in BOOLEAN
    /\ clock \in [epoch : Nat, reference : Nat, seen : BOOLEAN]
    /\ front \in 0 .. MaxTime
    /\ last \in [timed : BOOLEAN, true : Nat, placed : Nat]

(* Whatever the words are, no event reaches beyond its aggregate and no      *)
(* aggregate beyond the buffer: the comment on the class promises that every *)
(* access is bounds-checked.                                                 *)
InBounds ==
    /\ walk.at = "couple" => walk.offset + kAggHeaderWords <= walk.pos /\ walk.pos <= walk.aggEnd
    /\ walk.at = "event" => /\ walk.pos + 2 + walk.n * walk.evtSize <= walk.pos + walk.size
                            /\ walk.pos + walk.size <= walk.aggEnd
    /\ walk.at \in {"couple", "event"} => walk.aggEnd <= NumWords

(* A sound buffer is walked to its end and nothing of it counts as corrupt:  *)
(* the checks against corruption reject no good data.                        *)
SoundBufferRead ==
    sound => /\ ~flagged
             /\ walk.at = "end" => ~HeaderFits

(* If the couples of a board agree on the width of their time stamps, every  *)
(* hit is placed at its true time through all wraps, although hits arrive    *)
(* out of order by up to half a wrap and the couples share one clock.        *)
TimesAreTrue ==
    (sound /\ extended \in {{}, Couples} /\ last.timed) => last.placed = last.true

(* The same for couples that differ in width: the header says that a channel *)
(* lands in the right epoch because the reference is the board's.            *)
MixedTimesAreTrue == (sound /\ last.timed) => last.placed = last.true
=============================================================================

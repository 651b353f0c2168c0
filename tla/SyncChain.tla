----------------------------- MODULE SyncChain -----------------------------
(***************************************************************************)
(* The boards as one chain: the registers Daq::start() decides by, the     *)
(* choice of the master, the alignment of the daisy-chained clock          *)
(* (ClockSync.cpp), arming and the software trigger.  How a board fails to *)
(* arm and how a run is stopped is in Daq.tla.                             *)
(*                                                                         *)
(* Boards are numbered in the order they were added.  The cables are as    *)
(* README.md asks: from the first board of the chain to the others in the  *)
(* order they were added.  The first is the synchronised board with        *)
(* register id 0, or the first synchronised one if none has that id.  A    *)
(* free-running board may have any id.                                     *)
(***************************************************************************)
EXTENDS Naturals, Sequences, FiniteSets

CONSTANTS N,           \* number of boards
          MaxPolls,    \* readyTimeoutMs / pollMs
          MaxFaults,   \* bound: register accesses that fail
          MaxUnlocks   \* bound: times a PLL loses its lock by itself

ASSUME ChainAssumption == N \in Nat \ {0} /\ {MaxPolls, MaxFaults, MaxUnlocks} \subseteq Nat

Boards == 1 .. N

VARIABLES
    wired,      \* the system: [first, zeroIds, sync, external, unread], see Init
    at,         \* where start() is
    i,          \* the board of the chain, or of the list, it is at
    polls,      \* polls of the current board so far
    state,      \* state[b]: ClockLockState of board b
    moving,     \* the board whose clock output is moving, 0 if none
    locked,     \* boards whose PLL is locked
    latch,      \* boards with 0x8104[7]: no unlock since 0xEF04 was read
    phase,      \* boards whose clock has its known phase to CLK-IN
    acq,        \* acq[b]: "stopped", "armed", "running"
    faults,     \* failed accesses so far
    unlocks,    \* losses of lock so far
    outside     \* history: boards without lock at or after their re-alignment, not in their window

hwVars == <<moving, locked, latch, phase>>
vars == <<wired, at, i, polls, state, hwVars, acq, faults, unlocks, outside>>

NoState == [synced |-> FALSE, statusRead |-> FALSE, ready |-> FALSE, stable |-> FALSE,
            external |-> FALSE]

(* prepare() is done.  sync: boards that wait for a start signal (0x8100[1:0]),*)
(* external: boards that take their clock from CLK-IN (0x8100[6]), unread: the *)
(* board whose 0x8100 could not be read back, if any.  The register dumps have *)
(* just been loaded: no clock has a known phase.  Not admitted: two            *)
(* synchronised boards with id 0.                                              *)
Init == /\ wired \in [first : Boards, zeroIds : SUBSET Boards, sync : SUBSET Boards,
                      external : SUBSET Boards, unread : {{}} \cup {{b} : b \in Boards}]
        /\ \/ wired.zeroIds \cap wired.sync = {wired.first}
           \/ wired.zeroIds \cap wired.sync = {} /\ \A b \in wired.sync : wired.first <= b
        /\ IF wired.sync = {} THEN wired.first = 1 ELSE wired.first \in wired.sync
        /\ at = "align"
        /\ i = 1
        /\ polls = 0
        /\ state = [b \in Boards |-> NoState]
        /\ moving = 0
        /\ locked = Boards
        /\ latch = {}
        /\ phase = {}
        /\ acq = [b \in Boards |-> "stopped"]
        /\ faults = Cardinality(wired.unread)
        /\ unlocks = 0
        /\ outside = {}

-----------------------------------------------------------------------------
(* What the program knows: a register that could not be read counts as 0. *)

synchronised(b) == b \in wired.sync \ wired.unread

takesClock(b) == b \in wired.external \ wired.unread

synced == {b \in Boards : synchronised(b)}

Lowest(S) == CHOOSE b \in S : \A c \in S : b <= c

(* Mutant: the first synchronised board, whatever its id. *)
masterIndexFirst == IF synced = {} THEN 0 ELSE Lowest(synced)

(* The synchronised board with id 0, else the first one; 0 if there is none. *)
masterIndex == IF synced = {} THEN 0
               ELSE IF synced \cap wired.zeroIds # {} THEN Lowest(synced \cap wired.zeroIds)
               ELSE Lowest(synced)

(* The boards of S from the lowest to the highest: the k-th has k - 1 below. *)
InOrder(S) == [k \in 1 .. Cardinality(S) |->
                  CHOOSE b \in S : Cardinality({c \in S : c < b}) = k - 1]

(* Mutant: the chain is taken in board order. *)
clockChainOrderPlain ==
    LET slaves == {b \in Boards : takesClock(b)}
    IN  IF slaves = {} THEN <<>>
        ELSE InOrder(slaves \cup ({masterIndex} \ {0}))

(* The master, then every other board on an external clock, in board order. *)
clockChainOrder ==
    LET slaves == {b \in Boards : takesClock(b)}
    IN  IF slaves = {} THEN <<>>
        ELSE (IF masterIndex = 0 THEN <<>> ELSE <<masterIndex>>)
             \o InOrder(slaves \ {masterIndex})

board == clockChainOrder[i]

ok(b) == /\ state[b].synced
         /\ state[b].statusRead
         /\ state[b].ready
         /\ state[b].stable
         /\ b = masterIndex \/ state[b].external

-----------------------------------------------------------------------------
(* The boards *)

(* Boards behind b on the clock cable. *)
Behind(b) == {c \in wired.external \ {b, wired.first} : b = wired.first \/ c > b}

(* The clock of the boards in S is disturbed. *)
Disturb(S) == latch' = latch \ S /\ phase' = phase \ S

(* The register access in hand fails. *)
Fault == faults < MaxFaults /\ faults' = faults + 1

Aligning == at \in {"align", "write", "settle", "poll", "rearm", "check"}

-----------------------------------------------------------------------------
(* alignClockChain() and synchroniseClockChain() *)

(* A chain of one board is left alone. *)
AlignBegin == /\ at = "align"
              /\ at' = IF Len(clockChainOrder) < 2 THEN "arm" ELSE "write"
              /\ UNCHANGED <<wired, i, polls, state, hwVars, acq, faults, unlocks, outside>>

(* The next board of the chain, or the next part of start(). *)
NextInChain(again, then) ==
    IF i < Len(clockChainOrder) THEN at' = again /\ i' = i + 1 ELSE at' = then /\ i' = 1

(* 0x813C: the board puts its outputs in phase, which disturbs the boards    *)
(* behind it until they have settled.  Its own phase is right only if its    *)
(* reference is stable.                                                      *)
WriteSync ==
    /\ at = "write"
    /\ at' = "settle"
    /\ \/ /\ state' = [state EXCEPT ![board].synced = TRUE]
          /\ moving' = board
          /\ latch' = latch \ Behind(board)
          /\ phase' = (phase \ Behind(board))
                      \cup (IF board \in locked /\ (moving = 0 \/ board \notin Behind(moving))
                            THEN {board} ELSE {})
          /\ outside' = outside \cup ({board} \ locked)
          /\ UNCHANGED faults
       \/ Fault /\ UNCHANGED <<state, moving, latch, phase, outside>>
    /\ UNCHANGED <<wired, i, polls, locked, acq, unlocks>>

(* sleep(settleMs), which is long enough. *)
Settle == /\ at = "settle"
          /\ moving' = 0
          /\ NextInChain("write", "poll")
          /\ UNCHANGED <<wired, polls, state, locked, latch, phase, acq, faults, unlocks, outside>>

(* Poll 0x8104 for Board Ready: it is, or the time is over, or sleep(pollMs).*)
(* A board whose status was never read is left.                              *)
Poll ==
    /\ at = "poll"
    /\ \E read \in BOOLEAN :
           /\ IF read THEN UNCHANGED faults ELSE Fault
           /\ state' = [state EXCEPT ![board].statusRead = @ \/ read]
           /\ \/ read /\ board \in locked /\ at' = "rearm" /\ polls' = 0 /\ UNCHANGED i
              \/ /\ ~(read /\ board \in locked)
                 /\ polls < MaxPolls
                 /\ polls' = polls + 1
                 /\ UNCHANGED <<at, i>>
              \/ /\ ~(read /\ board \in locked)
                 /\ polls = MaxPolls
                 /\ polls' = 0
                 /\ IF state'[board].statusRead THEN at' = "rearm" /\ UNCHANGED i
                    ELSE NextInChain("poll", "arm")
    /\ UNCHANGED <<wired, hwVars, acq, unlocks, outside>>

(* Read 0xEF04; the result is not looked at.  The window of stableMs begins. *)
Rearm == /\ at = "rearm"
         /\ at' = "check"
         /\ \/ latch' = latch \cup ({board} \cap locked) /\ UNCHANGED faults
            \/ Fault /\ UNCHANGED latch
         /\ UNCHANGED <<wired, i, polls, state, moving, locked, phase, acq, unlocks, outside>>

(* Mutant: the sticky bit is not looked at. *)
CheckUnlatched ==
    /\ at = "check"
    /\ state' = [state EXCEPT ![board] = [@ EXCEPT !.ready = board \in locked,
                                                   !.stable = board \in locked,
                                                   !.external = board \in wired.external]]
    /\ NextInChain("poll", "arm")
    /\ UNCHANGED <<wired, polls, hwVars, acq, faults, unlocks, outside>>

(* The window is over: read 0x8104 once more. *)
Check ==
    /\ at = "check"
    /\ \/ /\ state' = [state EXCEPT ![board] = [@ EXCEPT !.ready = board \in locked,
                                                         !.stable = board \in latch,
                                                         !.external = board \in wired.external]]
          /\ UNCHANGED faults
       \/ Fault /\ state' = [state EXCEPT ![board].statusRead = FALSE]
    /\ NextInChain("poll", "arm")
    /\ UNCHANGED <<wired, polls, hwVars, acq, unlocks, outside>>

Align == AlignBegin \/ WriteSync \/ Settle \/ Poll \/ Rearm \/ Check

(* A PLL loses its lock by itself, and the boards behind it are disturbed;   *)
(* only what happens until the boards are armed is of interest.              *)
Unlock == /\ unlocks < MaxUnlocks
          /\ Aligning
          /\ unlocks' = unlocks + 1
          /\ \E b \in locked :
                 LET hit == {b} \cup Behind(b)
                 IN  /\ locked' = locked \ {b}
                     /\ Disturb(hit)
                     /\ outside' = outside \cup {c \in hit : state[c].synced
                                                             /\ ~(at = "check" /\ c = board)}
          /\ UNCHANGED <<wired, at, i, polls, state, moving, acq, faults>>

Relock == /\ locked # Boards
          /\ Aligning
          /\ locked' = Boards
          /\ UNCHANGED <<wired, at, i, polls, state, moving, latch, phase, acq, faults, unlocks,
                         outside>>

-----------------------------------------------------------------------------
(* Arming and the trigger *)

(* Arm or start every board: the same bit, and the board's own start mode    *)
(* decides what it does.                                                     *)
Arm == /\ at = "arm"
       /\ acq' = [acq EXCEPT ![i] = IF i \in wired.sync THEN "armed" ELSE "running"]
       /\ IF i < N THEN i' = i + 1 /\ UNCHANGED at ELSE i' = 1 /\ at' = "trigger"
       /\ UNCHANGED <<wired, polls, state, hwVars, faults, unlocks, outside>>

(* sendSWTrigger() on the master, if there is one; it runs down the cable. *)
Trigger == /\ at = "trigger"
           /\ at' = "up"
           /\ acq' = [b \in Boards |->
                         IF /\ acq[b] = "armed" /\ masterIndex # 0
                            /\ \/ masterIndex \in {b, wired.first}
                               \/ b # wired.first /\ b > masterIndex
                         THEN "running" ELSE acq[b]]
           /\ UNCHANGED <<wired, i, polls, state, hwVars, faults, unlocks, outside>>

-----------------------------------------------------------------------------
Next == Align \/ Unlock \/ Relock \/ Arm \/ Trigger

Spec == Init /\ [][Next]_vars

-----------------------------------------------------------------------------
(* Properties *)

(* "every board is checked for a PLL that is ready and has stayed locked"    *)
(* (ClockSync.hpp:21): a board that is reported as locked has its known      *)
(* phase to CLK-IN when the boards are armed, whatever accesses failed -     *)
(* unless its clock was lost at or after its re-alignment, outside of its    *)
(* own window, or 0x8100 of the first board could not be read: the board     *)
(* that then stands in for the master is re-aligned too early.               *)
LockedMeansAligned ==
    (~Aligning /\ wired.first \notin wired.unread) =>
        \A b \in Boards : (ok(b) /\ b \notin outside) => b \in phase

(* Where every register could be read and every PLL held, a board that takes *)
(* the clock of another one is in phase and reported as locked before the    *)
(* first board is armed - but not the only board on an external clock where  *)
(* none is synchronised: a chain of one board is left alone (Daq.cpp:101).   *)
HealthyChainIsAligned ==
    (~Aligning /\ faults = 0 /\ unlocks = 0) =>
        \A b \in wired.external \ {wired.first} :
            (wired.sync # {} \/ wired.external # {b}) => b \in phase /\ ok(b)

(* "all boards ... start on the same edge" (README.md:224): once start() has *)
(* returned no board still waits for its start signal - unless the start     *)
(* mode of the board that should have fired it could not be read.            *)
EveryBoardStarts ==
    (at = "up" /\ wired.first \notin wired.unread) => \A b \in Boards : acq[b] = "running"
=============================================================================

--------------------------- MODULE CaenDigitizer ---------------------------
(***************************************************************************)
(* One real board (CaenDigitizer.cpp) and the threads that touch it: main  *)
(* (open, configure, start or arm, stop, drain, close), the reader thread, *)
(* and an API thread that reads and writes registers during the run.  A    *)
(* sibling board on the same bridge takes the link mutex for its own       *)
(* readout.                                                                *)
(*                                                                         *)
(* A thread whose pc is in InDriver executes a driver call; the call takes *)
(* effect when the thread leaves that pc.  A call works while the board    *)
(* answers; otherwise it fails and the driver drops isActive.              *)
(***************************************************************************)
EXTENDS Naturals, FiniteSets

CONSTANTS MaxOutages,     \* bound: times the board stops answering
          MaxAccesses,    \* bound: register accesses by the API thread
          MaxDrain        \* bound: reads drain() makes (kMaxReads)

ASSUME DigitizerAssumption == /\ MaxOutages \in Nat
                              /\ MaxAccesses \in Nat
                              /\ MaxDrain \in Nat

VARIABLES
    synchronised,   \* the board is configured to wait for a start signal
    dgtz,       \* dgtz_: "null", "inactive" or "active" (the driver's isActive)
    buffer,     \* readoutBuffer_ is allocated
    running,    \* running_
    link,       \* the thread that holds *ioMutex_, or "free"
    pc,         \* pc[t]: where thread t is
    wanted,     \* BoardRunner::running_: the reader is to go on
    answering,  \* the board answers
    runBit,     \* Acquisition Control bit[2] in the board: started or armed
    outages,    \* outages so far
    accesses,   \* register accesses so far
    drained,    \* reads drain() has made
    alone,      \* history: a teardown step went ahead without the link
    missed      \* history: SWStopAcquisition did not reach the board

vars == <<synchronised, dgtz, buffer, running, link, pc, wanted, answering, runBit, outages, accesses,
          drained, alone, missed>>

hwVars == <<synchronised, answering, runBit, outages>>
objVars == <<dgtz, buffer, running>>
mainVars == <<drained, alone, missed>>

Threads == {"main", "reader", "api", "sibling"}

(* Threads that may call read(). *)
ReadCallers == {"main", "reader"}

BusyAt == {"open", "configure", "start", "stopCall", "closeCall",
           "activate", "config", "restart", "readData", "access", "siblingRead"}

InDriver(t) == pc[t] \in BusyAt

connected == dgtz = "active"

Init == /\ synchronised \in BOOLEAN
        /\ dgtz = "null"
        /\ buffer = FALSE
        /\ running = FALSE
        /\ link = "free"
        /\ pc = [t \in Threads |-> IF t = "main" THEN "open" ELSE "idle"]
        /\ wanted = FALSE
        /\ answering = TRUE
        /\ runBit = FALSE
        /\ outages = 0
        /\ accesses = 0
        /\ drained = 0
        /\ alone = FALSE
        /\ missed = FALSE

Goto(t, line) == pc' = [pc EXCEPT ![t] = line]

Lock(t) == link = "free" /\ link' = t

Unlock(t) == link' = IF link = t THEN "free" ELSE link

(* Where read() returns to; a read that fails ends drain(). *)
ReadReturns(t, ok) ==
    Goto(t, IF t = "reader" THEN "loop" ELSE IF ok THEN "drain" ELSE "close")

-----------------------------------------------------------------------------
(* Outside the program: the board, and the other board on the bridge. *)

(* The board stops answering; it may have lost its power and its registers. *)
Outage == /\ answering
          /\ outages < MaxOutages
          /\ answering' = FALSE
          /\ outages' = outages + 1
          /\ runBit' \in {runBit, FALSE}
          /\ UNCHANGED <<synchronised, objVars, link, pc, wanted, accesses, mainVars>>

Recovery == /\ ~answering
            /\ answering' = TRUE
            /\ UNCHANGED <<synchronised, objVars, link, pc, wanted, runBit, outages, accesses, mainVars>>

SiblingTakes == /\ pc["sibling"] = "idle"
                /\ Lock("sibling")
                /\ Goto("sibling", "siblingRead")
                /\ UNCHANGED <<objVars, wanted, hwVars, accesses, mainVars>>

SiblingReleases == /\ pc["sibling"] = "siblingRead"
                   /\ Unlock("sibling")
                   /\ Goto("sibling", "idle")
                   /\ UNCHANGED <<objVars, wanted, hwVars, accesses, mainVars>>

-----------------------------------------------------------------------------
(* open(), configure(), start() or arm(): none of them takes the link. *)

Open == /\ pc["main"] = "open"
        /\ dgtz' = IF answering THEN "active" ELSE "inactive"
        /\ Goto("main", IF answering THEN "configure" ELSE "close")
        /\ UNCHANGED <<buffer, running, link, wanted, hwVars, accesses, mainVars>>

Configure == /\ pc["main"] = "configure"
             /\ dgtz' = IF answering THEN dgtz ELSE "inactive"
             /\ buffer' = answering
             /\ Goto("main", IF answering THEN "start" ELSE "close")
             /\ UNCHANGED <<running, link, wanted, hwVars, accesses, mainVars>>

(* The board starts or is armed; BoardRunner::startReader() follows. *)
Start == /\ pc["main"] = "start"
         /\ \/ /\ answering
               /\ runBit' = TRUE
               /\ running' = TRUE
               /\ wanted' = TRUE
               /\ pc' = [pc EXCEPT !["main"] = "up", !["reader"] = "loop"]
               /\ UNCHANGED dgtz
            \/ /\ ~answering
               /\ dgtz' = "inactive"
               /\ Goto("main", "close")
               /\ UNCHANGED <<runBit, running, wanted>>
         /\ UNCHANGED <<buffer, link, synchronised, answering, outages, accesses, mainVars>>

-----------------------------------------------------------------------------
(* read() and reconnect(), called by the reader and by drain() *)

(* A null handle or a missing buffer is an error, before the link is taken. *)
ReadEnter(t) ==
    /\ pc[t] = "read"
    /\ IF dgtz = "null" \/ ~buffer THEN ReadReturns(t, FALSE) ELSE Goto(t, "readLock")
    /\ UNCHANGED <<objVars, link, wanted, hwVars, accesses, mainVars>>

(* reconnect() begins by freeing the buffer and deactivating the handle. *)
ReadLock(t) ==
    /\ pc[t] = "readLock"
    /\ Lock(t)
    /\ IF connected
       THEN Goto(t, "readData") /\ UNCHANGED <<dgtz, buffer>>
       ELSE /\ Goto(t, "activate")
            /\ buffer' = FALSE
            /\ dgtz' = "inactive"
    /\ UNCHANGED <<running, wanted, hwVars, accesses, mainVars>>

(* reconnect() failed: the link is released and read() returns false. *)
GiveUp(t) == ReadReturns(t, FALSE) /\ Unlock(t)

Activate(t) ==
    /\ pc[t] = "activate"
    /\ dgtz # "null"
    /\ IF answering
       THEN dgtz' = "active" /\ Goto(t, "config") /\ UNCHANGED link
       ELSE GiveUp(t) /\ UNCHANGED dgtz
    /\ UNCHANGED <<buffer, running, wanted, hwVars, accesses, mainVars>>

(* Mutant: reconnect() forgets to restart the acquisition. *)
ApplyConfigNoRestart(t) ==
    /\ pc[t] = "config"
    /\ dgtz # "null"
    /\ IF answering
       THEN buffer' = TRUE /\ Goto(t, "readData") /\ UNCHANGED <<dgtz, running, link>>
       ELSE dgtz' = "inactive" /\ GiveUp(t) /\ UNCHANGED <<buffer, running>>
    /\ UNCHANGED <<wanted, hwVars, accesses, mainVars>>

(* Mutant: reconnect() restarts the acquisition whether it ran or not. *)
ApplyConfigRestart(t) ==
    /\ pc[t] = "config"
    /\ dgtz # "null"
    /\ IF answering
       THEN buffer' = TRUE /\ Goto(t, "restart") /\ UNCHANGED <<dgtz, running, link>>
       ELSE dgtz' = "inactive" /\ GiveUp(t) /\ UNCHANGED <<buffer, running>>
    /\ UNCHANGED <<wanted, hwVars, accesses, mainVars>>

(* applyConfig() allocates the buffer again; running_ decides whether the    *)
(* acquisition is restarted.  It is cleared first on a synchronised board.   *)
ApplyConfig(t) ==
    /\ pc[t] = "config"
    /\ dgtz # "null"
    /\ IF answering
       THEN /\ buffer' = TRUE
            /\ Goto(t, IF running THEN "restart" ELSE "readData")
            /\ running' = (running /\ ~synchronised)
            /\ UNCHANGED <<dgtz, link>>
       ELSE dgtz' = "inactive" /\ GiveUp(t) /\ UNCHANGED <<buffer, running>>
    /\ UNCHANGED <<wanted, hwVars, accesses, mainVars>>

(* arm(), or ClearData and SWStartAcquisition; then the read goes on. *)
Restart(t) ==
    /\ pc[t] = "restart"
    /\ dgtz # "null"
    /\ IF answering
       THEN /\ runBit' = TRUE
            /\ running' = (running \/ synchronised)
            /\ Goto(t, "readData")
            /\ UNCHANGED <<dgtz, link>>
       ELSE dgtz' = "inactive" /\ GiveUp(t) /\ UNCHANGED <<running, runBit>>
    /\ UNCHANGED <<buffer, wanted, synchronised, answering, outages, accesses, mainVars>>

ReadData(t) ==
    /\ pc[t] = "readData"
    /\ dgtz # "null"
    /\ dgtz' = IF answering THEN dgtz ELSE "inactive"
    /\ ReadReturns(t, answering)
    /\ Unlock(t)
    /\ UNCHANGED <<buffer, running, wanted, hwVars, accesses, mainVars>>

Read(t) == ReadEnter(t) \/ Activate(t) \/ ApplyConfig(t) \/ Restart(t) \/ ReadData(t)

(* readerLoop(): read again while BoardRunner::running_ is up. *)
ReaderLoop == /\ pc["reader"] = "loop"
              /\ Goto("reader", IF wanted THEN "read" ELSE "exited")
              /\ UNCHANGED <<objVars, link, wanted, hwVars, accesses, mainVars>>

-----------------------------------------------------------------------------
(* writeRegister() and readRegister() *)

AccessEnter == /\ pc["api"] = "idle"
               /\ accesses < MaxAccesses
               /\ accesses' = accesses + 1
               /\ Goto("api", IF dgtz = "null" THEN "idle" ELSE "accessLock")
               /\ UNCHANGED <<objVars, link, wanted, hwVars, mainVars>>

(* Mutant: the handle is not looked at again under the link. *)
AccessLockTrusting ==
    /\ pc["api"] = "accessLock"
    /\ Lock("api")
    /\ Goto("api", "access")
    /\ UNCHANGED <<objVars, wanted, hwVars, accesses, mainVars>>

AccessLock == /\ pc["api"] = "accessLock"
              /\ link = "free"
              /\ IF connected
                 THEN Lock("api") /\ Goto("api", "access")
                 ELSE Goto("api", "idle") /\ UNCHANGED link
              /\ UNCHANGED <<objVars, wanted, hwVars, accesses, mainVars>>

Access == /\ pc["api"] = "access"
          /\ dgtz # "null"
          /\ dgtz' = IF answering THEN dgtz ELSE "inactive"
          /\ Unlock("api")
          /\ Goto("api", "idle")
          /\ UNCHANGED <<buffer, running, wanted, hwVars, accesses, mainVars>>

-----------------------------------------------------------------------------
(* BoardRunner::stop(): stop(), join the reader, drain(), close() *)

CallStop == /\ pc["main"] = "up"
            /\ wanted' = FALSE
            /\ Goto("main", "stopLock")
            /\ UNCHANGED <<objVars, link, hwVars, accesses, mainVars>>

(* Mutant: the teardown does not take the link at all. *)
TeardownLockFree(line) ==
    /\ Goto("main", line)
    /\ UNCHANGED <<link, wanted, hwVars, accesses, mainVars>>

(* Mutant: the teardown waits for the link as everybody else does. *)
TeardownLockWaits(line) ==
    /\ Lock("main")
    /\ Goto("main", line)
    /\ UNCHANGED <<wanted, hwVars, accesses, mainVars>>

(* acquireLinkForTeardown(): the link, or two seconds and on without it. *)
TeardownLock(line) ==
    /\ \/ Lock("main") /\ UNCHANGED alone
       \/ link \notin {"free", "main"} /\ alone' = TRUE /\ UNCHANGED link
    /\ Goto("main", line)
    /\ UNCHANGED <<wanted, hwVars, accesses, drained, missed>>

(* running_ goes down before the driver is called. *)
StopLock == /\ pc["main"] = "stopLock"
            /\ TeardownLock("stopCall")
            /\ running' = FALSE
            /\ UNCHANGED <<dgtz, buffer>>

(* SWStopAcquisition; an error is reported and no more. *)
StopCall == /\ pc["main"] = "stopCall"
            /\ runBit' = IF connected /\ answering THEN FALSE ELSE runBit
            /\ dgtz' = IF answering THEN dgtz ELSE "inactive"
            /\ missed' = ~(connected /\ answering)
            /\ Unlock("main")
            /\ Goto("main", IF pc["reader"] = "idle" THEN "closeLock" ELSE "join")
            /\ UNCHANGED <<buffer, running, wanted, synchronised, answering, outages, accesses, drained, alone>>

Join == /\ pc["main"] = "join"
        /\ pc["reader"] = "exited"
        /\ pc' = [pc EXCEPT !["main"] = "read", !["reader"] = "idle"]
        /\ UNCHANGED <<objVars, link, wanted, hwVars, accesses, mainVars>>

(* A read came back.  drain() reads on after a buffer and ends at its limit  *)
(* or at an empty read.                                                      *)
Drain == /\ pc["main"] = "drain"
         /\ \/ /\ drained < MaxDrain
               /\ drained' = drained + 1
               /\ Goto("main", "read")
            \/ Goto("main", "close") /\ UNCHANGED drained
         /\ UNCHANGED <<objVars, link, wanted, hwVars, accesses, alone, missed>>

(* close() stops the board first if running_ is up. *)
Close == /\ pc["main"] = "close"
         /\ Goto("main", IF dgtz = "null" THEN "done"
                         ELSE IF running THEN "stopLock" ELSE "closeLock")
         /\ UNCHANGED <<objVars, link, wanted, hwVars, accesses, mainVars>>

CloseLock == /\ pc["main"] = "closeLock"
             /\ TeardownLock("closeCall")
             /\ UNCHANGED objVars

(* Free the buffer, deactivate, reset the handle. *)
CloseCall == /\ pc["main"] = "closeCall"
             /\ buffer' = FALSE
             /\ dgtz' = "null"
             /\ Unlock("main")
             /\ Goto("main", "done")
             /\ UNCHANGED <<running, wanted, hwVars, accesses, mainVars>>

-----------------------------------------------------------------------------
MainStep == Open \/ Configure \/ Start \/ StopLock \/ StopCall \/ Join \/ Drain \/ Close
            \/ CloseLock \/ CloseCall

Next == \/ Outage \/ Recovery \/ SiblingTakes \/ SiblingReleases
        \/ MainStep \/ CallStop
        \/ \E t \in ReadCallers : ReadLock(t) \/ Read(t)
        \/ ReaderLoop
        \/ AccessEnter \/ AccessLock \/ Access

(* Every thread that can run does, a mutex that comes free again and again  *)
(* is got in the end, and an outage passes.  stop() and register accesses   *)
(* need not happen, and a sibling may keep the link for ever.               *)
Fairness == /\ WF_vars(Recovery)
            /\ WF_vars(MainStep)
            /\ \A t \in ReadCallers : WF_vars(Read(t)) /\ SF_vars(ReadLock(t))
            /\ WF_vars(ReaderLoop)
            /\ SF_vars(AccessLock)
            /\ WF_vars(Access)

Spec == Init /\ [][Next]_vars

WedgeSpec == Spec /\ Fairness

(* The sibling's driver calls come back. *)
FairSpec == WedgeSpec /\ WF_vars(SiblingReleases)

-----------------------------------------------------------------------------
(* Properties *)

(* Every variable stays in its type. *)
TypeOK == /\ synchronised \in BOOLEAN
          /\ dgtz \in {"null", "inactive", "active"}
          /\ buffer \in BOOLEAN
          /\ running \in BOOLEAN
          /\ link \in Threads \cup {"free"}
          /\ pc \in [Threads -> BusyAt \cup {"idle", "up", "loop", "read", "readLock", "exited",
                                             "accessLock", "stopLock", "join", "drain", "close",
                                             "closeLock", "done"}]
          /\ wanted \in BOOLEAN
          /\ answering \in BOOLEAN
          /\ runBit \in BOOLEAN
          /\ outages \in 0 .. MaxOutages
          /\ accesses \in 0 .. MaxAccesses
          /\ drained \in 0 .. MaxDrain
          /\ alone \in BOOLEAN
          /\ missed \in BOOLEAN

(* The handle is never used after close() has reset it, although its users  *)
(* test it before they wait for the link and close() may run meanwhile -    *)
(* unless a teardown gave up on the link.                                   *)
NoUseAfterClose ==
    (dgtz = "null" /\ ~alone) => \A t \in {"reader", "api"} : ~InDriver(t)

(* Once the reader is up and until a teardown gives up on the link, two      *)
(* threads are never in the driver at once.  Before that, open(),            *)
(* configure(), start(), arm() and sendSWTrigger() take no link, and a       *)
(* register access may meet them there (CaenDigitizer.cpp:236-285).          *)
BusIsSerialised ==
    (~alone /\ pc["main"] \notin {"open", "configure", "start"}) =>
        Cardinality({t \in Threads : InDriver(t)}) <= 1

(* A board that was reached by stop() and then closed does not acquire,     *)
(* although its reader, and later drain(), may reconnect and restart it     *)
(* around the stop - unless the stop went without the link.                 *)
ClosedIsStopped ==
    (pc["main"] = "done" /\ ~alone /\ ~missed) => ~runBit

(* A reconnect() of read() comes to its end with success. *)
Reconnected(t) == pc[t] \in {"config", "restart"} /\ pc'[t] = "readData"

(* A reconnect() that succeeds while the run is on leaves a software-started *)
(* board acquiring, whatever the outages did to it and to earlier attempts.  *)
ReconnectRestarts ==
    [][\A t \in ReadCallers : (Reconnected(t) /\ wanted /\ ~synchronised) => runBit']_vars

(* "After an auto-reconnect a synchronised board is re-armed" (README.md:246): *)
(* a reconnect() that succeeds while the run is on leaves the board armed.     *)
ReconnectRearms ==
    [][\A t \in ReadCallers : (Reconnected(t) /\ wanted /\ synchronised) => runBit']_vars

(* "Communication error: ... let the board wrapper attempt recovery on the   *)
(* next read()" (BoardRunner.cpp:98-99): a board that answers again is       *)
(* reconnected, or the run ends.                                             *)
ReadsResume == (dgtz = "inactive" /\ wanted) ~> (dgtz = "active" \/ ~wanted)

(* A board on the bridge has not come back from its read and keeps the link, *)
(* and the teardown waits for a read of its own board: read() waits for the  *)
(* link without a timeout (CaenDigitizer.cpp:324).                           *)
WaitsForRead == link = "sibling" /\ pc["main"] \in {"join", "readLock"}

(* A teardown comes to its end although a sibling may never release the      *)
(* link: stop() and close() "must not be able to block for ever"             *)
(* (CaenDigitizer.cpp:385) and do not.  What may stay away is a read() of    *)
(* the board's reader or of drain(), and then for as long as the sibling     *)
(* keeps the link: BoardRunner::stop() waits for it in the join or the drain.*)
TeardownReturns == (pc["main"] = "stopLock") ~> (pc["main"] = "done" \/ []WaitsForRead)
=============================================================================

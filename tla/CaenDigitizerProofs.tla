------------------------ MODULE CaenDigitizerProofs ------------------------
(***************************************************************************)
(* CaenDigitizer.tla for any number of outages, register accesses and      *)
(* drain reads: the handle is not used after close(), driver calls are     *)
(* serialised, a board that was stopped and closed does not acquire, and a *)
(* reconnect restarts a software-started board.                            *)
(***************************************************************************)
EXTENDS CaenDigitizer, FiniteSetTheorems, TLAPS

(* read() from the moment it has the link. *)
ReadHolding == {"activate", "config", "restart", "readData"}

(* Where each of the threads can be. *)
Places ==
    /\ pc["main"] \in {"open", "configure", "start", "up", "stopLock", "stopCall", "join", "read",
                       "readLock", "drain", "close", "closeLock", "closeCall", "done"}
                      \cup ReadHolding
    /\ pc["reader"] \in {"idle", "loop", "read", "readLock", "exited"} \cup ReadHolding
    /\ pc["api"] \in {"idle", "accessLock", "access"}
    /\ pc["sibling"] \in {"idle", "siblingRead"}

(* Whoever reads, accesses a register or tears down is the holder of the     *)
(* link; only a teardown that gave up on it is not.                          *)
LinkHeld ==
    /\ \A t \in Threads : pc[t] \in ReadHolding \cup {"access", "siblingRead"} => link = t
    /\ (~alone /\ pc["main"] \in {"stopCall", "closeCall"}) => link = "main"

(* The handle is null before open() and after close(), and only then; nobody *)
(* is in an access or a read at those times, unless a teardown gave up.      *)
HandleAlive ==
    /\ (dgtz = "null") <=> (pc["main"] \in {"open", "done"})
    /\ (dgtz = "null" /\ ~alone) => pc["api"] # "access"

(* The reader thread exists from start() to the join. *)
ReaderAlive == pc["reader"] # "idle" => pc["main"] \in {"up", "stopLock", "stopCall", "join"}

(* While the reader is wanted the run is on, and running_ is up on a board   *)
(* that needs no signal.                                                     *)
WantedRuns == wanted => /\ pc["main"] = "up"
                        /\ ~synchronised => running

(* Main before the start. *)
Before == {"open", "configure", "start"}

(* Main behind a stop(), or behind a start that failed. *)
After == {"join", "read", "readLock", "drain", "close", "closeLock", "closeCall", "done"}
         \cup ReadHolding

(* Once running_ is down under the link nobody takes it up again: a          *)
(* reconnect finds it down and does not restart the board.                   *)
StopHolds ==
    /\ pc["main"] \in Before => ~running /\ ~runBit /\ pc["reader"] = "idle"
    /\ (~alone /\ pc["main"] \in After \cup {"stopCall"}) => ~running
    /\ (~alone /\ pc["main"] \in After) => /\ \A t \in ReadCallers : pc[t] # "restart"
                                           /\ ~missed => ~runBit

(* The inductive invariant, beside the types. *)
Guarded == Places /\ LinkHeld /\ HandleAlive /\ ReaderAlive /\ WantedRuns /\ StopHolds

DigitizerInv == TypeOK /\ Guarded

-----------------------------------------------------------------------------
(* Types.  The flags and the rest apart: the provers that do arithmetic do   *)
(* not treat Boolean variables well.                                         *)

Flags == {synchronised, buffer, running, wanted, answering, runBit, alone, missed} \subseteq BOOLEAN

Rest == /\ dgtz \in {"null", "inactive", "active"}
        /\ link \in Threads \cup {"free"}
        /\ pc \in [Threads -> BusyAt \cup {"idle", "up", "loop", "read", "readLock", "exited",
                                           "accessLock", "stopLock", "join", "drain", "close",
                                           "closeLock", "done"}]
        /\ outages \in 0 .. MaxOutages
        /\ accesses \in 0 .. MaxAccesses
        /\ drained \in 0 .. MaxDrain

(* TypeOK is the flags and the rest. *)
LEMMA TypeParts == TypeOK <=> Flags /\ Rest
BY Zenon DEF TypeOK, Flags, Rest

(* A board that was just constructed is well-typed. *)
LEMMA TypeInit == Init => TypeOK
<1> SUFFICES ASSUME Init PROVE TypeOK
    OBVIOUS
<1>1. Flags
    BY Zenon DEF Init, Flags
<1>2. Rest
    BY DigitizerAssumption DEF Init, Rest, Threads, BusyAt
<1> QED BY <1>1, <1>2, TypeParts

(* Every step of every thread keeps the flags Boolean. *)
LEMMA FlagsStep == ASSUME Flags, [Next]_vars PROVE Flags'
<1> USE DEF Flags, Threads, BusyAt, ReadCallers, hwVars, objVars, mainVars, Goto, Lock, Unlock,
           ReadReturns, connected, GiveUp, TeardownLock
<1>1. CASE Outage
    BY <1>1, Zenon DEF Outage
<1>2. CASE Recovery
    BY <1>2, Zenon DEF Recovery
<1>3. CASE SiblingTakes
    BY <1>3, Zenon DEF SiblingTakes
<1>4. CASE SiblingReleases
    BY <1>4, Zenon DEF SiblingReleases
<1>5. CASE Open
    BY <1>5, Zenon DEF Open
<1>6. CASE Configure
    BY <1>6, Zenon DEF Configure
<1>7. CASE Start
    BY <1>7, Zenon DEF Start
<1>8. CASE CallStop
    BY <1>8, Zenon DEF CallStop
<1>9. CASE StopLock
    BY <1>9, Zenon DEF StopLock
<1>10. CASE StopCall
    BY <1>10, Zenon DEF StopCall
<1>11. CASE Join
    BY <1>11, Zenon DEF Join
<1>12. CASE Drain
    BY <1>12, Zenon DEF Drain
<1>13. CASE Close
    BY <1>13, Zenon DEF Close
<1>14. CASE CloseLock
    BY <1>14, Zenon DEF CloseLock
<1>15. CASE CloseCall
    BY <1>15, Zenon DEF CloseCall
<1>16. CASE ReaderLoop
    BY <1>16, Zenon DEF ReaderLoop
<1>17. CASE AccessEnter
    BY <1>17, Zenon DEF AccessEnter
<1>18. CASE AccessLock
    BY <1>18, Zenon DEF AccessLock
<1>19. CASE Access
    BY <1>19, Zenon DEF Access
<1>20. ASSUME NEW t \in ReadCallers, ReadEnter(t) PROVE Flags'
    BY <1>20, Zenon DEF ReadEnter
<1>21. ASSUME NEW t \in ReadCallers, ReadLock(t) PROVE Flags'
    BY <1>21, Zenon DEF ReadLock
<1>22. ASSUME NEW t \in ReadCallers, Activate(t) PROVE Flags'
    BY <1>22, Zenon DEF Activate
<1>23. ASSUME NEW t \in ReadCallers, ApplyConfig(t) PROVE Flags'
    BY <1>23, Zenon DEF ApplyConfig
<1>24. ASSUME NEW t \in ReadCallers, Restart(t) PROVE Flags'
    BY <1>24, Zenon DEF Restart
<1>25. ASSUME NEW t \in ReadCallers, ReadData(t) PROVE Flags'
    BY <1>25, Zenon DEF ReadData
<1>26. CASE UNCHANGED vars
    BY <1>26, Zenon DEF vars
<1> QED BY ONLY [Next]_vars, <1>1, <1>2, <1>3, <1>4, <1>5, <1>6, <1>7, <1>8, <1>9,
    <1>10, <1>11, <1>12, <1>13, <1>14, <1>15, <1>16, <1>17, <1>18, <1>19, <1>20,
    <1>21, <1>22, <1>23, <1>24, <1>25, <1>26
    DEF Next, MainStep, Read

(* Every step keeps the handle, the link, the places and the counters typed. *)
LEMMA RestStep == ASSUME Rest, [Next]_vars PROVE Rest'
<1> USE DigitizerAssumption DEF Rest, Threads, BusyAt, ReadCallers, hwVars, objVars, mainVars, Goto, Lock, Unlock,
           ReadReturns, connected, GiveUp, TeardownLock
<1>1. CASE Outage
    BY <1>1, SMTT(15) DEF Outage
<1>2. CASE Recovery
    BY <1>2, SMTT(15) DEF Recovery
<1>3. CASE SiblingTakes
    BY <1>3, SMTT(15) DEF SiblingTakes
<1>4. CASE SiblingReleases
    BY <1>4, SMTT(15) DEF SiblingReleases
<1>5. CASE Open
    BY <1>5, SMTT(15) DEF Open
<1>6. CASE Configure
    BY <1>6, SMTT(15) DEF Configure
<1>7. CASE Start
    BY <1>7, SMTT(15) DEF Start
<1>8. CASE CallStop
    BY <1>8, SMTT(15) DEF CallStop
<1>9. CASE StopLock
    BY <1>9, SMTT(15) DEF StopLock
<1>10. CASE StopCall
    BY <1>10, SMTT(15) DEF StopCall
<1>11. CASE Join
    BY <1>11, SMTT(15) DEF Join
<1>12. CASE Drain
    BY <1>12, SMTT(15) DEF Drain
<1>13. CASE Close
    BY <1>13, SMTT(15) DEF Close
<1>14. CASE CloseLock
    BY <1>14, SMTT(15) DEF CloseLock
<1>15. CASE CloseCall
    BY <1>15, SMTT(15) DEF CloseCall
<1>16. CASE ReaderLoop
    BY <1>16, SMTT(15) DEF ReaderLoop
<1>17. CASE AccessEnter
    BY <1>17, SMTT(15) DEF AccessEnter
<1>18. CASE AccessLock
    BY <1>18, SMTT(15) DEF AccessLock
<1>19. CASE Access
    BY <1>19, SMTT(15) DEF Access
<1>20. ASSUME NEW t \in ReadCallers, ReadEnter(t) PROVE Rest'
    BY <1>20, SMTT(15) DEF ReadEnter
<1>21. ASSUME NEW t \in ReadCallers, ReadLock(t) PROVE Rest'
    BY <1>21, SMTT(15) DEF ReadLock
<1>22. ASSUME NEW t \in ReadCallers, Activate(t) PROVE Rest'
    BY <1>22, SMTT(15) DEF Activate
<1>23. ASSUME NEW t \in ReadCallers, ApplyConfig(t) PROVE Rest'
    BY <1>23, SMTT(15) DEF ApplyConfig
<1>24. ASSUME NEW t \in ReadCallers, Restart(t) PROVE Rest'
    BY <1>24, SMTT(15) DEF Restart
<1>25. ASSUME NEW t \in ReadCallers, ReadData(t) PROVE Rest'
    BY <1>25, SMTT(15) DEF ReadData
<1>26. CASE UNCHANGED vars
    BY <1>26 DEF vars
<1> QED BY ONLY [Next]_vars, <1>1, <1>2, <1>3, <1>4, <1>5, <1>6, <1>7, <1>8, <1>9,
    <1>10, <1>11, <1>12, <1>13, <1>14, <1>15, <1>16, <1>17, <1>18, <1>19, <1>20,
    <1>21, <1>22, <1>23, <1>24, <1>25, <1>26
    DEF Next, MainStep, Read

(* Every variable keeps its type, for any number of outages, register        *)
(* accesses and drain reads.                                                 *)
THEOREM TypeCorrect == Spec => []TypeOK
<1>1. ASSUME TypeOK, [Next]_vars PROVE TypeOK'
  <2>1. Flags /\ Rest
      BY <1>1, TypeParts
  <2>2. Flags'
      BY <1>1, <2>1, FlagsStep
  <2>3. Rest'
      BY <1>1, <2>1, RestStep
  <2>4. (TypeOK <=> Flags /\ Rest)'
      BY TypeParts, PTL
  <2> QED BY <2>2, <2>3, <2>4
<1> QED BY <1>1, TypeInit, PTL DEF Spec

-----------------------------------------------------------------------------
(* The inductive invariant. *)

(* Nothing runs before open(). *)
LEMMA GuardedInit == Init => Guarded
<1> SUFFICES ASSUME Init PROVE Guarded
    OBVIOUS
<1> USE DEF Init, Threads, ReadCallers, ReadHolding, Before, After
<1>1. Places
    BY DEF Places
<1>2. LinkHeld
    BY DEF LinkHeld
<1>3. HandleAlive
    BY DEF HandleAlive
<1>4. ReaderAlive
    BY DEF ReaderAlive
<1>5. WantedRuns
    BY DEF WantedRuns
<1>6. StopHolds
    BY DEF StopHolds
<1> QED BY <1>1, <1>2, <1>3, <1>4, <1>5, <1>6 DEF Guarded

(* Every step of main, of the reader, of the register accesses, of the       *)
(* sibling and of the board keeps the invariant.                             *)
LEMMA GuardedStep == ASSUME TypeOK, TypeOK', Guarded, [Next]_vars PROVE Guarded'
<1> USE DEF Guarded, TypeOK, Places, LinkHeld, HandleAlive, ReaderAlive, WantedRuns, StopHolds,
           Before, After, ReadHolding,
           Threads, BusyAt, ReadCallers, hwVars, objVars, mainVars, Goto, Lock, Unlock,
           ReadReturns, connected, GiveUp, TeardownLock
<1>1. CASE Outage
  <2>7. ~runBit => ~runBit'
      BY <1>1, Zenon DEF Outage
  <2>1. Places'
      BY <1>1, SMTT(15) DEF Outage
  <2>2. LinkHeld'
      BY <1>1, SMTT(15) DEF Outage
  <2>3. HandleAlive'
      BY <1>1, SMTT(15) DEF Outage
  <2>4. ReaderAlive'
      BY <1>1, SMTT(15) DEF Outage
  <2>5. WantedRuns'
      BY <1>1, SMTT(15) DEF Outage
  <2>6. StopHolds'
      BY <1>1, <2>7, SMTT(15) DEF Outage
  <2> QED BY <2>1, <2>2, <2>3, <2>4, <2>5, <2>6
<1>2. CASE Recovery
    BY <1>2, SMTT(30) DEF Recovery
<1>3. CASE SiblingTakes
    BY <1>3, SMTT(30) DEF SiblingTakes
<1>4. CASE SiblingReleases
    BY <1>4, SMTT(30) DEF SiblingReleases
<1>5. CASE Open
    BY <1>5, SMTT(30) DEF Open
<1>6. CASE Configure
    BY <1>6, SMTT(30) DEF Configure
<1>7. CASE Start
  <2>7. wanted' => running' \/ wanted
      BY <1>7, Zenon DEF Start
  <2>8. ~wanted /\ synchronised' = synchronised /\ (wanted' => pc'["main"] = "up")
      BY <1>7 DEF Start
  <2>1. Places'
      BY <1>7, SMTT(15) DEF Start
  <2>2. LinkHeld'
      BY <1>7, SMTT(15) DEF Start
  <2>3. HandleAlive'
      BY <1>7, SMTT(15) DEF Start
  <2>4. ReaderAlive'
      BY <1>7, SMTT(15) DEF Start
  <2>5. WantedRuns'
      BY <2>7, <2>8, Zenon
  <2>6. StopHolds'
      BY <1>7, SMTT(15) DEF Start
  <2> QED BY <2>1, <2>2, <2>3, <2>4, <2>5, <2>6
<1>8. CASE CallStop
  <2>1. Places'
      BY <1>8, SMTT(15) DEF CallStop
  <2>2. LinkHeld'
      BY <1>8, SMTT(15) DEF CallStop
  <2>3. HandleAlive'
      BY <1>8, SMTT(15) DEF CallStop
  <2>4. ReaderAlive'
      BY <1>8, SMTT(15) DEF CallStop
  <2>5. WantedRuns'
      BY <1>8, SMTT(15) DEF CallStop
  <2>6. StopHolds'
      BY <1>8, SMTT(15) DEF CallStop
  <2> QED BY <2>1, <2>2, <2>3, <2>4, <2>5, <2>6
<1>9. CASE StopLock
  <2>1. Places'
      BY <1>9, SMTT(15) DEF StopLock
  <2>2. LinkHeld'
      BY <1>9, SMTT(15) DEF StopLock
  <2>3. HandleAlive'
      BY <1>9, SMTT(15) DEF StopLock
  <2>4. ReaderAlive'
      BY <1>9, SMTT(15) DEF StopLock
  <2>5. WantedRuns'
      BY <1>9, SMTT(15) DEF StopLock
  <2>6. StopHolds'
      BY <1>9, SMTT(15) DEF StopLock
  <2> QED BY <2>1, <2>2, <2>3, <2>4, <2>5, <2>6
<1>10. CASE StopCall
  <2>1. Places'
      BY <1>10, SMTT(15) DEF StopCall
  <2>2. LinkHeld'
      BY <1>10, SMTT(15) DEF StopCall
  <2>3. HandleAlive'
      BY <1>10, SMTT(15) DEF StopCall
  <2>4. ReaderAlive'
      BY <1>10, SMTT(15) DEF StopCall
  <2>5. WantedRuns'
      BY <1>10, SMTT(15) DEF StopCall
  <2>6. StopHolds'
      BY <1>10, SMTT(15) DEF StopCall
  <2> QED BY <2>1, <2>2, <2>3, <2>4, <2>5, <2>6
<1>11. CASE Join
    BY <1>11, SMTT(30) DEF Join
<1>12. CASE Drain
    BY <1>12, SMTT(30) DEF Drain
<1>13. CASE Close
    BY <1>13, SMTT(30) DEF Close
<1>14. CASE CloseLock
  <2>1. Places'
      BY <1>14, SMTT(15) DEF CloseLock
  <2>2. LinkHeld'
      BY <1>14, SMTT(15) DEF CloseLock
  <2>3. HandleAlive'
      BY <1>14, SMTT(15) DEF CloseLock
  <2>4. ReaderAlive'
      BY <1>14, SMTT(15) DEF CloseLock
  <2>5. WantedRuns'
      BY <1>14, SMTT(15) DEF CloseLock
  <2>6. StopHolds'
      BY <1>14, SMTT(15) DEF CloseLock
  <2> QED BY <2>1, <2>2, <2>3, <2>4, <2>5, <2>6
<1>15. CASE CloseCall
  <2>1. Places'
      BY <1>15, SMTT(15) DEF CloseCall
  <2>2. LinkHeld'
      BY <1>15, SMTT(15) DEF CloseCall
  <2>3. HandleAlive'
      BY <1>15, SMTT(15) DEF CloseCall
  <2>4. ReaderAlive'
      BY <1>15, SMTT(15) DEF CloseCall
  <2>5. WantedRuns'
      BY <1>15, SMTT(15) DEF CloseCall
  <2>6. StopHolds'
      BY <1>15, SMTT(15) DEF CloseCall
  <2> QED BY <2>1, <2>2, <2>3, <2>4, <2>5, <2>6
<1>16. CASE ReaderLoop
    BY <1>16, SMTT(30) DEF ReaderLoop
<1>17. CASE AccessEnter
    BY <1>17, SMTT(30) DEF AccessEnter
<1>18. CASE AccessLock
    BY <1>18, SMTT(30) DEF AccessLock
<1>19. CASE Access
    BY <1>19, SMTT(30) DEF Access
<1>20. ASSUME NEW t \in ReadCallers, ReadEnter(t) PROVE Guarded'
    BY <1>20, SMTT(30) DEF ReadEnter
<1>21. ASSUME NEW t \in ReadCallers, ReadLock(t) PROVE Guarded'
  <2>1. Places'
      BY <1>21, SMTT(15) DEF ReadLock
  <2>2. LinkHeld'
      BY <1>21, SMTT(15) DEF ReadLock
  <2>3. HandleAlive'
      BY <1>21, SMTT(15) DEF ReadLock
  <2>4. ReaderAlive'
      BY <1>21, SMTT(15) DEF ReadLock
  <2>5. WantedRuns'
      BY <1>21, SMTT(15) DEF ReadLock
  <2>6. StopHolds'
      BY <1>21, SMTT(15) DEF ReadLock
  <2> QED BY <2>1, <2>2, <2>3, <2>4, <2>5, <2>6
<1>22. ASSUME NEW t \in ReadCallers, Activate(t) PROVE Guarded'
    BY <1>22, SMTT(30) DEF Activate
<1>23. ASSUME NEW t \in ReadCallers, ApplyConfig(t) PROVE Guarded'
  <2>1. Places'
      BY <1>23, SMTT(15) DEF ApplyConfig
  <2>2. LinkHeld'
      BY <1>23, SMTT(15) DEF ApplyConfig
  <2>3. HandleAlive'
      BY <1>23, SMTT(15) DEF ApplyConfig
  <2>4. ReaderAlive'
      BY <1>23, SMTT(15) DEF ApplyConfig
  <2>5. WantedRuns'
      BY <1>23, SMTT(15) DEF ApplyConfig
  <2>6. StopHolds'
      BY <1>23, SMTT(15) DEF ApplyConfig
  <2> QED BY <2>1, <2>2, <2>3, <2>4, <2>5, <2>6
<1>24. ASSUME NEW t \in ReadCallers, Restart(t) PROVE Guarded'
  <2>1. Places'
      BY <1>24, SMTT(15) DEF Restart
  <2>2. LinkHeld'
      BY <1>24, SMTT(15) DEF Restart
  <2>3. HandleAlive'
      BY <1>24, SMTT(15) DEF Restart
  <2>4. ReaderAlive'
      BY <1>24, SMTT(15) DEF Restart
  <2>5. WantedRuns'
      BY <1>24, SMTT(15) DEF Restart
  <2>6. StopHolds'
      BY <1>24, SMTT(15) DEF Restart
  <2> QED BY <2>1, <2>2, <2>3, <2>4, <2>5, <2>6
<1>25. ASSUME NEW t \in ReadCallers, ReadData(t) PROVE Guarded'
    BY <1>25, SMTT(30) DEF ReadData
<1>26. CASE UNCHANGED vars
    BY <1>26 DEF vars
<1> QED BY ONLY [Next]_vars, <1>1, <1>2, <1>3, <1>4, <1>5, <1>6, <1>7, <1>8, <1>9,
    <1>10, <1>11, <1>12, <1>13, <1>14, <1>15, <1>16, <1>17, <1>18, <1>19, <1>20,
    <1>21, <1>22, <1>23, <1>24, <1>25, <1>26
    DEF Next, MainStep, Read

(* The types and the guards hold in every reachable state. *)
THEOREM InvariantHolds == Spec => []DigitizerInv
<1>1. ASSUME TypeOK, TypeOK', Guarded, [Next]_vars PROVE Guarded'
    BY <1>1, GuardedStep
<1> QED BY <1>1, GuardedInit, TypeCorrect, PTL DEF Spec, DigitizerInv

-----------------------------------------------------------------------------
(* What follows. *)

(* The handle that close() has reset is used by no read and no register      *)
(* access, for any number of outages and accesses, unless a teardown gave up *)
(* on the link.                                                              *)
THEOREM HandleNotUsedAfterClose == Spec => []NoUseAfterClose
<1>1. DigitizerInv => NoUseAfterClose
    BY DEF DigitizerInv, TypeOK, Guarded, Places, HandleAlive, ReaderAlive, NoUseAfterClose,
           InDriver, BusyAt, ReadHolding
<1> QED BY <1>1, InvariantHolds, PTL

(* Between start() and a teardown that gives up, the threads in the driver   *)
(* are at most the holder of the link.                                       *)
THEOREM DriverSerialised == Spec => []BusIsSerialised
<1>1. ASSUME DigitizerInv PROVE BusIsSerialised
  <2> DEFINE inside == {t \in Threads : InDriver(t)}
  <2> SUFFICES ASSUME ~alone, pc["main"] \notin {"open", "configure", "start"}
               PROVE Cardinality(inside) <= 1
      BY DEF BusIsSerialised
  <2>1. inside \subseteq {link}
      BY <1>1 DEF DigitizerInv, Guarded, Places, LinkHeld, InDriver, Threads, BusyAt, ReadHolding
  <2>2. IsFiniteSet({link}) /\ Cardinality({link}) = 1
      BY FS_Singleton
  <2>3. Cardinality(inside) <= Cardinality({link})
      BY <2>1, <2>2, FS_Subset
  <2> QED BY <2>2, <2>3
<1> QED BY <1>1, InvariantHolds, PTL

(* A board that stop() reached and close() closed does not acquire.          *)
THEOREM ClosedBoardStopped == Spec => []ClosedIsStopped
<1>1. DigitizerInv => ClosedIsStopped
    BY DEF DigitizerInv, Guarded, StopHolds, After, ClosedIsStopped
<1> QED BY <1>1, InvariantHolds, PTL

(* A reconnect that succeeds during the run leaves a software-started board  *)
(* acquiring: running_ is up throughout, so applyConfig() never skips the    *)
(* restart.                                                                  *)
THEOREM ReconnectsRestart == Spec => ReconnectRestarts
<1> DEFINE Restarted(t) == (Reconnected(t) /\ wanted /\ ~synchronised) => runBit'
<1>1. ASSUME DigitizerInv, [Next]_vars, NEW t \in ReadCallers PROVE Restarted(t)
  <2> SUFFICES ASSUME Reconnected(t), wanted, ~synchronised PROVE runBit'
      OBVIOUS
  <2>1. t = "reader" /\ running
      BY <1>1 DEF DigitizerInv, Guarded, WantedRuns, Reconnected, ReadCallers
  <2>2. ApplyConfig(t) \/ Restart(t)
    <3> USE <1>1, <2>1 DEF Reconnected, DigitizerInv, TypeOK, Goto, Threads
    <3>1. ~(Outage \/ Recovery \/ SiblingTakes \/ SiblingReleases \/ UNCHANGED vars)
        BY DEF Outage, Recovery, SiblingTakes, SiblingReleases, vars
    <3>2. ~(MainStep \/ CallStop)
        BY DEF MainStep, CallStop, Open, Configure, Start, StopLock, StopCall, Join, Drain, Close,
               CloseLock, CloseCall, TeardownLock
    <3>3. ~(ReaderLoop \/ AccessEnter \/ AccessLock \/ Access)
        BY DEF ReaderLoop, AccessEnter, AccessLock, Access
    <3>4. ASSUME NEW u \in ReadCallers PROVE ~(ReadEnter(u) \/ ReadLock(u) \/ Activate(u) \/ ReadData(u))
        BY DEF ReadCallers, ReadEnter, ReadLock, Activate, ReadData, ReadReturns, GiveUp
    <3>5. ASSUME NEW u \in ReadCallers, u # t PROVE ~(ApplyConfig(u) \/ Restart(u))
        BY <3>5 DEF ReadCallers, ApplyConfig, Restart, ReadReturns, GiveUp
    <3>6. PICK u \in ReadCallers : ApplyConfig(u) \/ Restart(u)
        BY ONLY [Next]_vars, <3>1, <3>2, <3>3, <3>4 DEF Next, Read
    <3> QED BY <3>5, <3>6
  <2>3. ~ApplyConfig(t)
      BY <1>1, <2>1 DEF ApplyConfig, Reconnected, DigitizerInv, TypeOK, Goto, GiveUp, ReadReturns, Threads
  <2>4. CASE Restart(t)
      BY <1>1, <2>1, <2>4 DEF Restart, Reconnected, DigitizerInv, TypeOK, Goto, GiveUp, ReadReturns, Threads
  <2> QED BY <2>2, <2>3, <2>4
<1>2. DigitizerInv /\ [Next]_vars => [\A t \in ReadCallers : Restarted(t)]_vars
    BY <1>1
<1> QED BY <1>2, InvariantHolds, PTL DEF Spec, ReconnectRestarts
=============================================================================

------------------------ MODULE StatsCollectorProofs ------------------------
(***************************************************************************)
(* StatsCollector.tla for any boards, servers, prefixes and intervals:     *)
(* metrics go where the operator asked, a change of the interval is not    *)
(* slept through and is felt at once unless the wait overtook it, and      *)
(* rates add up.                                                           *)
(***************************************************************************)
EXTENDS StatsCollector, TLAPS

(* Each generation belongs to a call of setInterval(). *)
GenCounted == intervalGen + (IF setter = "bump" THEN 1 ELSE 0) <= calls

(* The sink in force and the copy in hand were configured as pairs. *)
SinkConfigured ==
    /\ graphite \in configured
    /\ loop.at = "send" => <<loop.sink, loop.prefix>> \in configured
    /\ sent \subseteq configured

(* The loop holds cvMtx_ around the predicate, and the generation it waits   *)
(* with is the latest unless a notification is on its way.                   *)
WaitSound ==
    /\ cvMtx = "loop" <=> loop.at \in {"pred", "block", "woken"}
    /\ loop.at = "block" => intervalGen = loop.gen
    /\ (loop.at = "asleep" /\ intervalGen # loop.gen) => setter = "notify"

(* A wait beyond the interval in force is one that overtook the change, or   *)
(* one whose thread has the change still to notice.                          *)
Felt ==
    /\ loop.gen <= intervalGen
    /\ (Loaded /\ ~loop.overtaken /\ setter # "bump") => loop.wait <= intervalMs
    /\ (/\ loop.at \in {"pred", "block", "asleep", "relock"}
        /\ ~loop.overtaken /\ setter # "bump" /\ intervalGen = loop.gen)
       => loop.wait <= intervalMs

(* Samples grow, and what is published is the latest sample. *)
Added ==
    /\ prev # NoSample => \A b \in Boards : prev[b] <= count[b]
    /\ loop.at \in {"publish", "sink", "send"} =>
           /\ loop.cur \in Samples
           /\ \A b \in Boards : loop.cur[b] <= count[b]
           /\ prev # NoSample => \A b \in Boards : prev[b] <= loop.cur[b]
    /\ \A b \in Boards : published[b] = IF loop.at \in {"sink", "send"} THEN loop.cur[b]
                                        ELSE IF prev = NoSample THEN 0 ELSE prev[b]

-----------------------------------------------------------------------------
(* Helpers *)

(* An interval is clamped into its range. *)
LEMMA ClampRange == \A ms \in Nat : clampInterval(ms) \in kMinIntervalMs .. kMaxIntervalMs
BY TimesAssumption DEF clampInterval

-----------------------------------------------------------------------------
(* Types *)

(* A collector that was just started is well-typed. *)
LEMMA TypeInit == Init => TypeOK /\ GenCounted
<1> SUFFICES ASSUME Init PROVE TypeOK /\ GenCounted
    OBVIOUS
<1>1. running \in BOOLEAN
    BY Zenon DEF Init
<1>2. intervalMs \in kMinIntervalMs .. kMaxIntervalMs
    BY ClampRange, TimesAssumption DEF Init
<1>3. loop \in LoopType
    BY TimesAssumption, BoundsAssumption DEF Init, LoopType
<1>4. graphite \in (Targets \cup {NoTarget}) \X Prefixes /\ configured = {graphite}
    BY TargetsAssumption DEF Init
<1>5. count \in Samples
    BY BoundsAssumption DEF Init, Samples
<1> QED BY <1>1, <1>2, <1>3, <1>4, <1>5, TimesAssumption, BoundsAssumption
        DEF Init, TypeOK, GenCounted, LoopType

(* Every step keeps the types. *)
LEMMA TypeStep == ASSUME TypeOK, GenCounted, SinkConfigured,
    [Next]_vars PROVE TypeOK' /\ GenCounted'
<1> USE IdsAssumption, TargetsAssumption, TimesAssumption, BoundsAssumption
    DEF TypeOK, GenCounted, timeVars, sinkVars, dataVars, apiVars
<1>1. CASE Tick
    BY <1>1 DEF Tick
<1>2. CASE SetIntervalBump
  <2>1. loop' = [loop EXCEPT !.overtaken = loop.overtaken \/ Loaded]
      BY <1>2 DEF SetIntervalBump
  <2>2. (loop.overtaken \/ Loaded) \in BOOLEAN
      OBVIOUS
  <2>3. loop' \in LoopType
      BY <2>1, <2>2 DEF LoopType
  <2> QED BY <1>2, <2>3 DEF SetIntervalBump
<1>3. CASE SetIntervalNotify
  <2>1. loop' \in LoopType
      BY <1>3 DEF SetIntervalNotify, LoopType, Goto, NotifyAll, Least
  <2> QED BY <1>3, <2>1 DEF SetIntervalNotify, SamplerThrows
<1>4. CASE StopSet
  <2>1. running' \in BOOLEAN
      BY <1>4, Zenon DEF StopSet
  <2> QED BY <1>4, <2>1 DEF StopSet
<1>5. CASE StopNotify
  <2>1. loop' \in LoopType
      BY <1>5 DEF StopNotify, LoopType, Goto, NotifyAll, Least
  <2> QED BY <1>5, <2>1 DEF StopNotify, SamplerThrows
<1>6. CASE StopJoin
    BY <1>6 DEF StopJoin
<1>7. CASE LoopFirst
  <2>1. Least(clampInterval(firstIntervalMs), intervalMs) \in 0 .. kMaxIntervalMs
      BY ClampRange DEF Least
  <2>2. loop' \in LoopType
      BY <1>7, <2>1 DEF LoopFirst, LoopType
  <2>3. prev' \in Samples \cup {NoSample} /\ throws' \in 0 .. MaxThrows
      BY <1>7 DEF LoopFirst, SamplerThrows
  <2> QED BY <1>7, <2>2, <2>3 DEF LoopFirst
<1>8. CASE LoopCheck
  <2>1. loop' \in LoopType
      BY <1>8 DEF LoopCheck, LoopType, Goto, NotifyAll, Least
  <2> QED BY <1>8, <2>1 DEF LoopCheck, SamplerThrows
<1>9. CASE LoopLock
  <2>1. loop' \in LoopType
      BY <1>9 DEF LoopLock, LoopType, Goto, NotifyAll, Least
  <2> QED BY <1>9, <2>1 DEF LoopLock, SamplerThrows
<1>10. CASE LoopPred
  <2>1. loop' \in LoopType
      BY <1>10 DEF LoopPred, LoopType, Goto, NotifyAll, Least
  <2> QED BY <1>10, <2>1 DEF LoopPred, SamplerThrows
<1>11. CASE LoopBlock
  <2>1. loop' \in LoopType
      BY <1>11 DEF LoopBlock, LoopType, Goto, NotifyAll, Least
  <2> QED BY <1>11, <2>1 DEF LoopBlock, SamplerThrows
<1>12. CASE LoopWake
  <2>1. loop' \in LoopType
      BY <1>12 DEF LoopWake, LoopType, Goto, NotifyAll, Least
  <2> QED BY <1>12, <2>1 DEF LoopWake, SamplerThrows
<1>13. CASE LoopTimeout
  <2>1. loop' \in LoopType
      BY <1>13 DEF LoopTimeout, LoopType, Goto, NotifyAll, Least
  <2> QED BY <1>13, <2>1 DEF LoopTimeout, SamplerThrows
<1>14. CASE LoopWoken
  <2>1. Least(loop.wait, intervalMs) \in 0 .. kMaxIntervalMs
      BY DEF Least, LoopType
  <2>2. loop' \in LoopType
    <3>1. CASE running
      <4>1. loop' = [loop EXCEPT !.at = "pred", !.gen = intervalGen,
                                 !.wait = Least(loop.wait, intervalMs), !.overtaken = FALSE]
          BY <1>14, <3>1 DEF LoopWoken
      <4> QED BY <2>1, <4>1 DEF LoopType
    <3>2. CASE ~running
        BY <1>14, <3>2 DEF LoopWoken, LoopType, Goto
    <3> QED BY <3>1, <3>2
  <2> QED BY <1>14, <2>2 DEF LoopWoken
<1>15. CASE LoopTick
  <2>1. loop' \in LoopType
    <3> intervalMs \in 0 .. kMaxIntervalMs
        OBVIOUS
    <3>1. CASE running
        BY <1>15, <3>1 DEF LoopTick, LoopType
    <3>2. CASE ~running
        BY <1>15, <3>2 DEF LoopTick, LoopType
    <3> QED BY <3>1, <3>2
  <2> QED BY <1>15, <2>1 DEF LoopTick
<1>16. CASE LoopSample
  <2>1. loop' \in LoopType
      BY <1>16 DEF LoopSample, LoopType, Goto, NotifyAll, Least
  <2> QED BY <1>16, <2>1 DEF LoopSample, SamplerThrows
<1>17. CASE LoopPublish
  <2>1. loop' \in LoopType
      BY <1>17 DEF LoopPublish, LoopType, Goto, NotifyAll, Least
  <2> QED BY <1>17, <2>1 DEF LoopPublish, SamplerThrows
<1>18. CASE LoopSink
  <2>1. loop' \in LoopType
      BY <1>18 DEF LoopSink, LoopType, Goto, NotifyAll, Least
  <2> QED BY <1>18, <2>1 DEF LoopSink, SamplerThrows
<1>19. CASE LoopSend
  <2>1. loop' \in LoopType
      BY <1>19 DEF LoopSend, LoopType
  <2>2. sent' \subseteq Targets \X Prefixes
    <3>1. <<loop.sink, loop.prefix>> \in (Targets \cup {NoTarget}) \X Prefixes
        BY <1>19 DEF LoopSend, SinkConfigured
    <3> QED BY <1>19, <3>1 DEF LoopSend
  <2>3. prev' \in Samples \cup {NoSample}
      BY <1>19 DEF LoopSend, LoopType
  <2> QED BY <1>19, <2>1, <2>2, <2>3 DEF LoopSend
<1>20. ASSUME NEW b \in Boards, Count(b) PROVE TypeOK' /\ GenCounted'
    BY <1>20 DEF Count, Samples
<1>21. ASSUME NEW ms \in Requests, SetInterval(ms) PROVE TypeOK' /\ GenCounted'
    BY <1>21, ClampRange DEF SetInterval
<1>22. ASSUME NEW host \in Targets \cup {NoTarget}, NEW prefix \in Prefixes \cup {NoPrefix},
            SetGraphite(host, prefix)
      PROVE  TypeOK' /\ GenCounted'
    BY <1>22 DEF SetGraphite
<1>23. CASE UNCHANGED vars
    BY <1>23 DEF vars
<1> QED BY ONLY [Next]_vars, <1>1, <1>2, <1>3, <1>4, <1>5, <1>6, <1>7, <1>8, <1>9, <1>10,
    <1>11, <1>12, <1>13, <1>14, <1>15, <1>16, <1>17, <1>18, <1>19, <1>20, <1>21, <1>22,
        <1>23 DEF Next, Loop

(* The sink and its prefix change together, and travel together. *)
LEMMA SinkStep == ASSUME TypeOK, SinkConfigured, [Next]_vars PROVE SinkConfigured'
<1> USE DEF TypeOK, SinkConfigured, LoopType, timeVars, sinkVars, dataVars, apiVars, Goto,
    NotifyAll
<1>1. CASE Tick
    BY <1>1 DEF Tick
<1>2. CASE SetIntervalBump
    BY <1>2 DEF SetIntervalBump
<1>3. CASE SetIntervalNotify
    BY <1>3 DEF SetIntervalNotify
<1>4. CASE StopSet
    BY <1>4 DEF StopSet
<1>5. CASE StopNotify
    BY <1>5 DEF StopNotify
<1>6. CASE StopJoin
    BY <1>6 DEF StopJoin
<1>7. CASE LoopFirst
    BY <1>7 DEF LoopFirst
<1>8. CASE LoopCheck
    BY <1>8 DEF LoopCheck
<1>9. CASE LoopLock
    BY <1>9 DEF LoopLock
<1>10. CASE LoopPred
    BY <1>10 DEF LoopPred
<1>11. CASE LoopBlock
    BY <1>11 DEF LoopBlock
<1>12. CASE LoopWake
    BY <1>12 DEF LoopWake
<1>13. CASE LoopTimeout
    BY <1>13 DEF LoopTimeout
<1>14. CASE LoopWoken
    BY <1>14 DEF LoopWoken
<1>15. CASE LoopTick
    BY <1>15 DEF LoopTick
<1>16. CASE LoopSample
    BY <1>16 DEF LoopSample
<1>17. CASE LoopPublish
    BY <1>17 DEF LoopPublish
<1>18. CASE LoopSink
    BY <1>18 DEF LoopSink
<1>19. CASE LoopSend
    BY <1>19 DEF LoopSend
<1>20. ASSUME NEW b \in Boards, Count(b)
      PROVE  SinkConfigured'
    BY <1>20 DEF Count
<1>21. ASSUME NEW ms \in Requests, SetInterval(ms)
      PROVE  SinkConfigured'
    BY <1>21 DEF SetInterval
<1>22. ASSUME NEW host \in Targets \cup {NoTarget}, NEW prefix \in Prefixes \cup {NoPrefix},
             SetGraphite(host, prefix)
      PROVE  SinkConfigured'
    BY <1>22 DEF SetGraphite
<1>23. CASE UNCHANGED vars
    BY <1>23 DEF vars
<1> QED BY ONLY [Next]_vars, <1>1, <1>2, <1>3, <1>4, <1>5, <1>6, <1>7, <1>8, <1>9, <1>10,
    <1>11, <1>12, <1>13, <1>14, <1>15, <1>16, <1>17, <1>18, <1>19, <1>20, <1>21, <1>22,
        <1>23 DEF Next, Loop

(* The wait. *)
LEMMA WaitStep == ASSUME TypeOK, WaitSound, [Next]_vars PROVE WaitSound'
<1> USE DEF TypeOK, WaitSound, LoopType, timeVars, sinkVars, dataVars, apiVars, Goto,
    NotifyAll, Due
<1>1. CASE Tick
    BY <1>1 DEF Tick
<1>2. CASE SetIntervalBump
    BY <1>2 DEF SetIntervalBump
<1>3. CASE SetIntervalNotify
    BY <1>3 DEF SetIntervalNotify
<1>4. CASE StopSet
    BY <1>4 DEF StopSet
<1>5. CASE StopNotify
    BY <1>5 DEF StopNotify
<1>6. CASE StopJoin
    BY <1>6 DEF StopJoin
<1>7. CASE LoopFirst
    BY <1>7 DEF LoopFirst
<1>8. CASE LoopCheck
    BY <1>8 DEF LoopCheck
<1>9. CASE LoopLock
    BY <1>9 DEF LoopLock
<1>10. CASE LoopPred
    BY <1>10 DEF LoopPred
<1>11. CASE LoopBlock
    BY <1>11 DEF LoopBlock
<1>12. CASE LoopWake
    BY <1>12 DEF LoopWake
<1>13. CASE LoopTimeout
    BY <1>13 DEF LoopTimeout
<1>14. CASE LoopWoken
    BY <1>14 DEF LoopWoken
<1>15. CASE LoopTick
    BY <1>15 DEF LoopTick
<1>16. CASE LoopSample
    BY <1>16 DEF LoopSample
<1>17. CASE LoopPublish
    BY <1>17 DEF LoopPublish
<1>18. CASE LoopSink
    BY <1>18 DEF LoopSink
<1>19. CASE LoopSend
    BY <1>19 DEF LoopSend
<1>20. ASSUME NEW b \in Boards, Count(b)
      PROVE  WaitSound'
    BY <1>20 DEF Count
<1>21. ASSUME NEW ms \in Requests, SetInterval(ms)
      PROVE  WaitSound'
    BY <1>21 DEF SetInterval
<1>22. ASSUME NEW host \in Targets \cup {NoTarget}, NEW prefix \in Prefixes \cup {NoPrefix},
             SetGraphite(host, prefix)
      PROVE  WaitSound'
    BY <1>22 DEF SetGraphite
<1>23. CASE UNCHANGED vars
    BY <1>23 DEF vars
<1> QED BY ONLY [Next]_vars, <1>1, <1>2, <1>3, <1>4, <1>5, <1>6, <1>7, <1>8, <1>9, <1>10,
    <1>11, <1>12, <1>13, <1>14, <1>15, <1>16, <1>17, <1>18, <1>19, <1>20, <1>21, <1>22,
        <1>23 DEF Next, Loop

(* A change of the interval makes the loop look again, and then the wait is  *)
(* no longer than the new interval.                                          *)
LEMMA FeltStep == ASSUME TypeOK, Felt, [Next]_vars PROVE Felt'
<1> USE DEF TypeOK, Felt, LoopType, timeVars, sinkVars, dataVars, apiVars, Goto,
    NotifyAll, Due, Loaded
<1>1. CASE Tick
    BY <1>1 DEF Tick
<1>2. CASE SetIntervalBump
  <2>1. loop'.at = loop.at /\ loop'.wait = loop.wait /\ loop'.gen = loop.gen
      BY <1>2 DEF SetIntervalBump
  <2>2. ~loop'.overtaken => ~loop.overtaken /\ ~Loaded
    <3>1. loop'.overtaken = (loop.overtaken \/ Loaded)
        BY <1>2 DEF SetIntervalBump
    <3> HIDE DEF Loaded
    <3> QED BY <3>1, Zenon
  <2>3. intervalGen' = intervalGen + 1 /\ loop.gen \in Nat /\ intervalGen \in Nat
      BY <1>2 DEF SetIntervalBump
  <2> QED BY <2>1, <2>2, <2>3
<1>3. CASE SetIntervalNotify
    BY <1>3 DEF SetIntervalNotify
<1>4. CASE StopSet
    BY <1>4 DEF StopSet
<1>5. CASE StopNotify
    BY <1>5 DEF StopNotify
<1>6. CASE StopJoin
    BY <1>6 DEF StopJoin
<1>7. CASE LoopFirst
  <2> clampInterval(firstIntervalMs) \in Nat
      BY ClampRange, TimesAssumption
  <2> QED BY <1>7 DEF LoopFirst, Least
<1>8. CASE LoopCheck
    BY <1>8 DEF LoopCheck
<1>9. CASE LoopLock
    BY <1>9 DEF LoopLock
<1>10. CASE LoopPred
    BY <1>10 DEF LoopPred
<1>11. CASE LoopBlock
    BY <1>11 DEF LoopBlock
<1>12. CASE LoopWake
    BY <1>12 DEF LoopWake
<1>13. CASE LoopTimeout
    BY <1>13 DEF LoopTimeout
<1>14. CASE LoopWoken
  <2>1. CASE running
    <3>1. loop' = [loop EXCEPT !.at = "pred", !.gen = intervalGen,
                               !.wait = Least(loop.wait, intervalMs), !.overtaken = FALSE]
        BY <1>14, <2>1 DEF LoopWoken
    <3>2. /\ loop'.at = "pred" /\ loop'.gen = intervalGen
          /\ loop'.wait = Least(loop.wait, intervalMs)
        BY <3>1
    <3>3. Least(loop.wait, intervalMs) <= intervalMs
        BY TimesAssumption DEF Least
    <3>4. intervalGen' = intervalGen /\ intervalMs' = intervalMs /\ setter' = setter
        BY <1>14 DEF LoopWoken
    <3> QED BY <3>2, <3>3, <3>4
  <2>2. CASE ~running
      BY <1>14, <2>2 DEF LoopWoken
  <2> QED BY <2>1, <2>2
<1>15. CASE LoopTick
    BY <1>15 DEF LoopTick
<1>16. CASE LoopSample
    BY <1>16 DEF LoopSample
<1>17. CASE LoopPublish
    BY <1>17 DEF LoopPublish
<1>18. CASE LoopSink
    BY <1>18 DEF LoopSink
<1>19. CASE LoopSend
    BY <1>19 DEF LoopSend
<1>20. ASSUME NEW b \in Boards, Count(b)
      PROVE  Felt'
    BY <1>20 DEF Count
<1>21. ASSUME NEW ms \in Requests, SetInterval(ms)
      PROVE  Felt'
    BY <1>21 DEF SetInterval
<1>22. ASSUME NEW host \in Targets \cup {NoTarget}, NEW prefix \in Prefixes \cup {NoPrefix},
             SetGraphite(host, prefix)
      PROVE  Felt'
    BY <1>22 DEF SetGraphite
<1>23. CASE UNCHANGED vars
    BY <1>23 DEF vars
<1> QED BY ONLY [Next]_vars, <1>1, <1>2, <1>3, <1>4, <1>5, <1>6, <1>7, <1>8, <1>9, <1>10,
    <1>11, <1>12, <1>13, <1>14, <1>15, <1>16, <1>17, <1>18, <1>19, <1>20, <1>21, <1>22,
        <1>23 DEF Next, Loop

-----------------------------------------------------------------------------
(* Rates *)

(* The ids tell the boards apart. *)
Distinct == \A b, c \in Boards : boardRegId[b] = boardRegId[c] => b = c

(* A sample that was taken has every board. *)
LEMMA SampleKnown == ASSUME NEW f \in Samples, NEW b \in Boards PROVE f # NoSample
BY DEF Samples, NoSample

(* With distinct ids a board is differenced against its own sample. *)
LEMMA OwnPrevious ==
    ASSUME Distinct, TypeOK, NEW b \in Boards
    PROVE  Previous(b) = IF prev = NoSample THEN 0 ELSE prev[b]
<1> DEFINE same == {c \in DOMAIN prev : boardRegId[c] = boardRegId[b]}
<1>1. CASE prev = NoSample
    BY <1>1 DEF NoSample, Previous
<1>2. CASE prev # NoSample
  <2>1. same = {b}
      BY <1>2 DEF TypeOK, Samples, Distinct
  <2>2. b \in Nat
      BY IdsAssumption
  <2> QED BY <1>2, <2>1, <2>2 DEF Previous
<1> QED BY <1>1, <1>2

(* Counters grow, samples are taken of them in order, and each publication   *)
(* adds what lies between two samples.                                       *)
LEMMA AddedStep ==
    ASSUME Distinct, TypeOK, Added, [Next]_vars
    PROVE  Added'
<1> USE DEF TypeOK, Added, LoopType, timeVars, sinkVars, dataVars, apiVars, Goto, NotifyAll
<1>1. CASE Tick
    BY <1>1 DEF Tick
<1>2. CASE SetIntervalBump
    BY <1>2 DEF SetIntervalBump
<1>3. CASE SetIntervalNotify
    BY <1>3 DEF SetIntervalNotify
<1>4. CASE StopSet
    BY <1>4 DEF StopSet
<1>5. CASE StopNotify
    BY <1>5 DEF StopNotify
<1>6. CASE StopJoin
    BY <1>6 DEF StopJoin
<1>7. CASE LoopFirst
    BY <1>7, SampleKnown DEF LoopFirst, Samples
<1>8. CASE LoopCheck
    BY <1>8 DEF LoopCheck
<1>9. CASE LoopLock
    BY <1>9 DEF LoopLock
<1>10. CASE LoopPred
    BY <1>10 DEF LoopPred
<1>11. CASE LoopBlock
    BY <1>11 DEF LoopBlock
<1>12. CASE LoopWake
    BY <1>12 DEF LoopWake
<1>13. CASE LoopTimeout
    BY <1>13 DEF LoopTimeout
<1>14. CASE LoopWoken
    BY <1>14 DEF LoopWoken
<1>15. CASE LoopTick
    BY <1>15 DEF LoopTick
<1>16. CASE LoopSample
  <2>1. CASE loop' = [loop EXCEPT !.at = "publish", !.cur = count]
    <3>1. loop'.at = "publish" /\ loop'.cur = count
        BY <2>1
    <3>2. \A b \in Boards : count[b] <= count[b]
        BY DEF Samples
    <3> QED BY <1>16, <3>1, <3>2 DEF LoopSample
  <2>2. CASE Goto("check")
      BY <1>16, <2>2 DEF LoopSample
  <2> QED BY <1>16, <2>1, <2>2 DEF LoopSample
<1>17. CASE LoopPublish
  <2>1. ASSUME NEW b \in Boards PROVE published'[b] = loop.cur[b]
    <3>1. Previous(b) = published[b]
        BY <1>17, OwnPrevious DEF LoopPublish
    <3>2. Previous(b) \in Nat /\ loop.cur[b] \in Nat /\ Previous(b) <= loop.cur[b]
        BY <1>17, OwnPrevious DEF LoopPublish, Samples
    <3> QED BY <1>17, <3>1, <3>2 DEF LoopPublish, Rate
  <2> QED BY <1>17, <2>1 DEF LoopPublish
<1>18. CASE LoopSink
    BY <1>18 DEF LoopSink
<1>19. CASE LoopSend
    BY <1>19, SampleKnown DEF LoopSend, Samples
<1>20. ASSUME NEW b \in Boards, Count(b)
      PROVE  Added'
    BY <1>20 DEF Count, Samples
<1>21. ASSUME NEW ms \in Requests, SetInterval(ms)
      PROVE  Added'
    BY <1>21 DEF SetInterval
<1>22. ASSUME NEW host \in Targets \cup {NoTarget}, NEW prefix \in Prefixes \cup {NoPrefix},
             SetGraphite(host, prefix)
      PROVE  Added'
    BY <1>22 DEF SetGraphite
<1>23. CASE UNCHANGED vars
    BY <1>23 DEF vars
<1> QED BY ONLY [Next]_vars, <1>1, <1>2, <1>3, <1>4, <1>5, <1>6, <1>7, <1>8, <1>9, <1>10,
    <1>11, <1>12, <1>13, <1>14, <1>15, <1>16, <1>17, <1>18, <1>19, <1>20, <1>21, <1>22,
        <1>23 DEF Next, Loop

-----------------------------------------------------------------------------
(* Theorems *)

(* All that needs no distinct ids. *)
StatsInv == TypeOK /\ GenCounted /\ SinkConfigured /\ WaitSound

(* The types, the pairs of server and prefix and the wait are kept together. *)
THEOREM InvariantHolds == Spec => []StatsInv
<1>1. Init => SinkConfigured /\ WaitSound
    BY DEF Init, SinkConfigured, WaitSound
<1> QED BY <1>1, TypeInit, TypeStep, SinkStep, WaitStep, PTL DEF Spec, StatsInv

(* The collector's variables keep their types, the interval its range, for   *)
(* any boards, servers, prefixes and intervals.                              *)
THEOREM TypeCorrect == Spec => []TypeOK
BY InvariantHolds, PTL DEF StatsInv

(* However often the operator retargets: metrics only go out as a pair that  *)
(* was configured.                                                           *)
THEOREM SinkMatches == Spec => []SinkMatchesPrefix
<1>1. SinkConfigured => SinkMatchesPrefix
    BY DEF SinkConfigured, SinkMatchesPrefix
<1> QED BY <1>1, InvariantHolds, PTL DEF StatsInv

(* A thread that sleeps with an old generation is about to be notified: a    *)
(* change of the interval is never slept through.                            *)
THEOREM ChangeIsNoticed ==
    Spec => [](loop.at = "asleep" /\ intervalGen # loop.gen => setter = "notify")
<1>1. WaitSound => (loop.at = "asleep" /\ intervalGen # loop.gen => setter = "notify")
    BY DEF WaitSound
<1> QED BY <1>1, InvariantHolds, PTL DEF StatsInv

(* A shorter interval is felt in the tick in flight, whatever intervals are  *)
(* asked for and however the calls meet the loop, unless the wait has        *)
(* overtaken the change.                                                     *)
THEOREM IntervalFelt == Spec => []IntervalIsFelt
<1>1. Init => Felt
    BY DEF Init, Felt, Loaded
<1>2. TypeOK /\ Felt /\ [Next]_vars => Felt'
    BY FeltStep
<1>3. WaitSound /\ Felt => IntervalIsFelt
    BY DEF WaitSound, Felt, IntervalIsFelt
<1> QED BY <1>1, <1>2, <1>3, InvariantHolds, PTL DEF Spec, StatsInv

(* With distinct ids, everything a board counted between its first and its   *)
(* latest sample is in exactly one published rate, for any boards and any    *)
(* pattern of samples that fail.                                             *)
THEOREM RatesAdd == Distinct => (Spec => []RatesAddUp)
<1> SUFFICES ASSUME Distinct PROVE Spec => []RatesAddUp
    OBVIOUS
<1>1. Init => Added
    BY DEF Init, Added
<1>2. TypeOK /\ Added /\ [Next]_vars => Added'
    BY AddedStep
<1>3. Added => RatesAddUp
    BY DEF Added, RatesAddUp
<1> QED BY <1>1, <1>2, <1>3, TypeCorrect, PTL DEF Spec
=============================================================================

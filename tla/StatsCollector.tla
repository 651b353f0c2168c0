-------------------------- MODULE StatsCollector --------------------------
(***************************************************************************)
(* The rate monitor (StatsCollector.cpp): a thread that samples the        *)
(* counters once per interval, publishes the differences and pushes them   *)
(* to Graphite, while one thread calls setInterval() and setGraphite() and *)
(* another calls stop().                                                   *)
(*                                                                         *)
(* Time is counted from the start of the tick that is being waited out, so *)
(* the deadline of the wait is elapsed = loop.wait.  std::condition_       *)
(* variable and std::mutex are modelled as in BlockQueue.tla.  A board has *)
(* one counter here: the events of one of its channels.                    *)
(***************************************************************************)
EXTENDS Integers, FiniteSets

CONSTANTS Boards,            \* the boards that are sampled
          boardRegId,        \* their VME board ids
          Targets,           \* Graphite servers; NoTarget is the empty host
          NoTarget,
          Prefixes,          \* metric prefixes; NoPrefix is the empty one
          NoPrefix,
          FirstPrefix,       \* Options::prefix
          Requests,          \* intervals that are asked for
          kMinIntervalMs, kMaxIntervalMs,
          firstIntervalMs,   \* Options::firstIntervalMs
          MaxCalls,          \* bound: calls of setInterval()
          MaxConfigured,     \* bound: pairs of server and prefix that are configured
          MaxCount,          \* bound: what a board counts
          MaxThrows          \* bound: times the sampler throws

ASSUME IdsAssumption == Boards \subseteq Nat /\ boardRegId \in [Boards -> Nat]
ASSUME TargetsAssumption == /\ NoTarget \notin Targets
                            /\ NoPrefix \notin Prefixes
                            /\ FirstPrefix \in Prefixes
ASSUME TimesAssumption == /\ kMinIntervalMs \in Nat
                          /\ kMaxIntervalMs \in Nat
                          /\ kMinIntervalMs <= kMaxIntervalMs
                          /\ firstIntervalMs \in Nat
                          /\ Requests \subseteq Nat
ASSUME BoundsAssumption == {MaxCalls, MaxConfigured, MaxCount, MaxThrows} \subseteq Nat

VARIABLES
    running,     \* running_
    intervalMs,  \* intervalMs_
    intervalGen, \* intervalGen_
    cvMtx,       \* cvMtx_: who holds it, or "free"
    loop,        \* the sampling thread; overtaken is a history, see Loaded
    elapsed,     \* time since tickStart
    setter,      \* the thread in setInterval()
    stopper,     \* the thread in stop()
    calls,       \* calls of setInterval() so far
    graphite,    \* graphite_ and opt_.prefix
    configured,  \* history: the pairs graphite ever was
    sent,        \* history: the pair the latest metrics were sent with, until the next tick
    count,       \* count[b]: the counters of a board
    prev,        \* the previous sample, or NoSample
    published,   \* history: the first sample and all published differences, added up
    throws       \* times the sampler threw

timeVars == <<intervalMs, intervalGen, cvMtx, elapsed>>
sinkVars == <<graphite, configured, sent>>
dataVars == <<count, prev, published, throws>>
apiVars == <<setter, stopper, calls>>
vars == <<running, timeVars, loop, apiVars, sinkVars, dataVars>>

Samples == [Boards -> 0 .. MaxCount]

NoSample == [b \in {} |-> 0]

clampInterval(ms) == IF ms < kMinIntervalMs THEN kMinIntervalMs
                     ELSE IF ms > kMaxIntervalMs THEN kMaxIntervalMs ELSE ms

Least(a, b) == IF a <= b THEN a ELSE b

(* start() has just created the thread. *)
Init == /\ running = TRUE
        /\ intervalMs \in {clampInterval(ms) : ms \in Requests}
        /\ intervalGen = 0
        /\ cvMtx = "free"
        /\ loop = [at |-> "first", wait |-> 0, gen |-> 0, cur |-> NoSample,
                   sink |-> NoTarget, prefix |-> NoPrefix, overtaken |-> FALSE]
        /\ elapsed = 0
        /\ setter = "idle"
        /\ stopper = "idle"
        /\ calls = 0
        /\ graphite \in (Targets \cup {NoTarget}) \X {FirstPrefix}
        /\ configured = {graphite}
        /\ sent = {}
        /\ count = [b \in Boards |-> 0]
        /\ prev = NoSample
        /\ published = [b \in Boards |-> 0]
        /\ throws = 0

Goto(line) == loop' = [loop EXCEPT !.at = line]

(* cv_.notify_all() *)
NotifyAll == loop' = IF loop.at = "asleep" THEN [loop EXCEPT !.at = "relock"] ELSE loop

-----------------------------------------------------------------------------
(* Outside: the boards count, time passes. *)

Count(b) == /\ count[b] < MaxCount
            /\ count' = [count EXCEPT ![b] = @ + 1]
            /\ UNCHANGED <<running, timeVars, loop, apiVars, sinkVars, prev, published, throws>>

(* Only the time between tickStart and the end of the wait is looked at. *)
Tick == /\ loop.at \in {"lock", "pred", "block", "asleep", "relock", "woken"}
        /\ elapsed < kMaxIntervalMs
        /\ elapsed' = elapsed + 1
        /\ UNCHANGED <<running, intervalMs, intervalGen, cvMtx, loop, apiVars, sinkVars, dataVars>>

-----------------------------------------------------------------------------
(* setInterval(), setGraphite() *)

SetInterval(ms) ==
    /\ setter = "idle"
    /\ calls < MaxCalls
    /\ calls' = calls + 1
    /\ intervalMs' = clampInterval(ms)
    /\ setter' = IF intervalMs' = intervalMs THEN "idle" ELSE "bump"
    /\ UNCHANGED <<running, intervalGen, cvMtx, elapsed, loop, stopper, sinkVars, dataVars>>

(* The loop has loaded its next wait and not yet the generation that goes     *)
(* with it: a generation that is made now looks old to the wait, and the      *)
(* change is overtaken by it.                                                 *)
Loaded == loop.at \in {"check", "lock", "sample", "publish", "sink", "send"}

(* Mutant: the generation is changed without the mutex of the wait. *)
SetIntervalBumpUnlocked ==
    /\ setter = "bump"
    /\ intervalGen' = intervalGen + 1
    /\ setter' = "notify"
    /\ loop' = [loop EXCEPT !.overtaken = @ \/ Loaded]
    /\ UNCHANGED <<running, intervalMs, cvMtx, elapsed, stopper, calls, sinkVars, dataVars>>

SetIntervalBump ==
    /\ setter = "bump"
    /\ cvMtx = "free"
    /\ intervalGen' = intervalGen + 1
    /\ setter' = "notify"
    /\ loop' = [loop EXCEPT !.overtaken = @ \/ Loaded]
    /\ UNCHANGED <<running, intervalMs, cvMtx, elapsed, stopper, calls, sinkVars, dataVars>>

SetIntervalNotify ==
    /\ setter = "notify"
    /\ NotifyAll
    /\ setter' = "idle"
    /\ UNCHANGED <<running, timeVars, stopper, calls, sinkVars, dataVars>>

(* All of it runs under graphiteMtx_; an empty prefix keeps the old one. *)
SetGraphite(host, prefix) ==
    /\ setter = "idle"
    /\ Cardinality(configured) < MaxConfigured
    /\ graphite' = <<host, IF prefix = NoPrefix THEN graphite[2] ELSE prefix>>
    /\ configured' = configured \cup {graphite'}
    /\ UNCHANGED <<running, timeVars, loop, apiVars, sent, dataVars>>

-----------------------------------------------------------------------------
(* stop(): running_ goes down without cvMtx_ *)

StopSet == /\ stopper = "idle"
           /\ running' = FALSE
           /\ stopper' = "notify"
           /\ UNCHANGED <<timeVars, loop, setter, calls, sinkVars, dataVars>>

StopNotify == /\ stopper = "notify"
              /\ NotifyAll
              /\ stopper' = "join"
              /\ UNCHANGED <<running, timeVars, setter, calls, sinkVars, dataVars>>

StopJoin == /\ stopper = "join"
            /\ loop.at = "exited"
            /\ stopper' = "done"
            /\ UNCHANGED <<running, timeVars, loop, setter, calls, sinkVars, dataVars>>

-----------------------------------------------------------------------------
(* loop() *)

(* The sampler returns the counters or throws. *)
SamplerThrows == throws < MaxThrows /\ throws' = throws + 1

(* The first tick is waited out early. *)
LoopFirst ==
    /\ loop.at = "first"
    /\ \/ prev' = count /\ published' = count /\ UNCHANGED throws
       \/ SamplerThrows /\ UNCHANGED <<prev, published>>
    /\ loop' = [loop EXCEPT !.at = "check",
                            !.wait = Least(clampInterval(firstIntervalMs), intervalMs)]
    /\ UNCHANGED <<running, timeVars, apiVars, sinkVars, count>>

LoopCheck ==
    /\ loop.at = "check"
    /\ Goto(IF running THEN "lock" ELSE "exited")
    /\ elapsed' = 0
    /\ sent' = {}
    /\ UNCHANGED <<running, intervalMs, intervalGen, cvMtx, apiVars, graphite, configured, dataVars>>

LoopLock ==
    /\ loop.at = "lock"
    /\ cvMtx = "free"
    /\ cvMtx' = "loop"
    /\ loop' = [loop EXCEPT !.at = "pred", !.gen = intervalGen]
    /\ UNCHANGED <<running, intervalMs, intervalGen, elapsed, apiVars, sinkVars, dataVars>>

(* The predicate of the wait. *)
Due == ~running \/ intervalGen # loop.gen

LoopPred ==
    /\ loop.at = "pred"
    /\ Goto(IF Due THEN "woken" ELSE "block")
    /\ UNCHANGED <<running, timeVars, apiVars, sinkVars, dataVars>>

(* The wait releases the mutex and falls asleep in one step. *)
LoopBlock ==
    /\ loop.at = "block"
    /\ Goto("asleep")
    /\ cvMtx' = "free"
    /\ UNCHANGED <<running, intervalMs, intervalGen, elapsed, apiVars, sinkVars, dataVars>>

(* A notified thread, or one woken for no reason, looks again. *)
LoopWake ==
    /\ loop.at \in {"relock", "asleep"}
    /\ elapsed < loop.wait
    /\ cvMtx = "free"
    /\ cvMtx' = "loop"
    /\ Goto("pred")
    /\ UNCHANGED <<running, intervalMs, intervalGen, elapsed, apiVars, sinkVars, dataVars>>

(* At the deadline or after it the predicate is looked at once more. *)
LoopTimeout ==
    /\ loop.at \in {"relock", "asleep"}
    /\ elapsed >= loop.wait
    /\ cvMtx = "free"
    /\ IF Due THEN Goto("woken") /\ cvMtx' = "loop" ELSE Goto("tick") /\ UNCHANGED cvMtx
    /\ UNCHANGED <<running, intervalMs, intervalGen, elapsed, apiVars, sinkVars, dataVars>>

(* Mutant: a woken thread does not ask whether it is to stop. *)
LoopWokenDeaf ==
    /\ loop.at = "woken"
    /\ loop' = [loop EXCEPT !.at = "pred", !.gen = intervalGen,
                            !.wait = Least(loop.wait, intervalMs)]
    /\ UNCHANGED <<running, timeVars, apiVars, sinkVars, dataVars>>

(* Mutant: the generation is read once per tick. *)
LoopWokenOldGen ==
    /\ loop.at = "woken"
    /\ IF running
       THEN /\ loop' = [loop EXCEPT !.at = "pred", !.wait = Least(loop.wait, intervalMs)]
            /\ UNCHANGED cvMtx
       ELSE Goto("tick") /\ cvMtx' = "free"
    /\ UNCHANGED <<running, intervalMs, intervalGen, elapsed, apiVars, sinkVars, dataVars>>

(* The wait ended early: to stop, or with a deadline that may be nearer. *)
LoopWoken ==
    /\ loop.at = "woken"
    /\ IF running
       THEN /\ loop' = [loop EXCEPT !.at = "pred", !.gen = intervalGen,
                                    !.wait = Least(loop.wait, intervalMs),
                                    !.overtaken = FALSE]
            /\ UNCHANGED cvMtx
       ELSE Goto("tick") /\ cvMtx' = "free"
    /\ UNCHANGED <<running, intervalMs, intervalGen, elapsed, apiVars, sinkVars, dataVars>>

(* The tick is over; the interval in force is the next wait. *)
LoopTick ==
    /\ loop.at = "tick"
    /\ loop' = IF running
               THEN [loop EXCEPT !.at = "sample", !.wait = intervalMs, !.overtaken = FALSE]
               ELSE [loop EXCEPT !.at = "exited"]
    /\ UNCHANGED <<running, timeVars, apiVars, sinkVars, dataVars>>

(* Mutant: a sampler that throws leaves an empty sample behind. *)
LoopSampleForgets ==
    /\ loop.at = "sample"
    /\ \/ loop' = [loop EXCEPT !.at = "publish", !.cur = count] /\ UNCHANGED <<prev, throws>>
       \/ SamplerThrows /\ Goto("check") /\ prev' = NoSample
    /\ UNCHANGED <<running, timeVars, apiVars, sinkVars, count, published>>

(* A sampler that throws skips the tick. *)
LoopSample ==
    /\ loop.at = "sample"
    /\ \/ loop' = [loop EXCEPT !.at = "publish", !.cur = count] /\ UNCHANGED throws
       \/ SamplerThrows /\ Goto("check")
    /\ UNCHANGED <<running, timeVars, apiVars, sinkVars, count, prev, published>>

(* The sample a board is differenced against: the last of prev with its id.  *)
(* A board that prev does not know starts at zero.                           *)
Previous(b) ==
    LET same == {c \in DOMAIN prev : boardRegId[c] = boardRegId[b]}
    IN IF same = {} THEN 0 ELSE prev[CHOOSE c \in same : \A d \in same : d <= c]

(* The difference, or nothing when the counter went back. *)
Rate(b) == IF loop.cur[b] >= Previous(b) THEN loop.cur[b] - Previous(b) ELSE 0

LoopPublish ==
    /\ loop.at = "publish"
    /\ published' = [b \in Boards |-> published[b] + Rate(b)]
    /\ Goto("sink")
    /\ UNCHANGED <<running, timeVars, apiVars, sinkVars, count, prev, throws>>

(* The sink and the prefix are copied together under graphiteMtx_ ... *)
LoopSink ==
    /\ loop.at = "sink"
    /\ loop' = [loop EXCEPT !.at = "send", !.sink = graphite[1], !.prefix = graphite[2]]
    /\ UNCHANGED <<running, timeVars, apiVars, sinkVars, dataVars>>

(* Mutant: the prefix is looked up when the text is built. *)
LoopSendLatePrefix ==
    /\ loop.at = "send"
    /\ sent' = IF loop.sink = NoTarget THEN {} ELSE {<<loop.sink, graphite[2]>>}
    /\ prev' = loop.cur
    /\ loop' = [loop EXCEPT !.at = "check", !.cur = NoSample,
                            !.sink = NoTarget, !.prefix = NoPrefix]
    /\ UNCHANGED <<running, timeVars, apiVars, graphite, configured, count, published, throws>>

(* ... and used without it.  send() fails or works without a trace here.     *)
LoopSend ==
    /\ loop.at = "send"
    /\ sent' = IF loop.sink = NoTarget THEN {} ELSE {<<loop.sink, loop.prefix>>}
    /\ prev' = loop.cur
    /\ loop' = [loop EXCEPT !.at = "check", !.cur = NoSample,
                            !.sink = NoTarget, !.prefix = NoPrefix]
    /\ UNCHANGED <<running, timeVars, apiVars, graphite, configured, count, published, throws>>

Loop == \/ LoopFirst \/ LoopCheck \/ LoopLock \/ LoopPred \/ LoopBlock \/ LoopWoken
        \/ LoopTick \/ LoopSample \/ LoopPublish \/ LoopSink \/ LoopSend
        \/ (loop.at = "relock" /\ LoopWake) \/ LoopTimeout

Next == \/ Tick
        \/ \E b \in Boards : Count(b)
        \/ \E ms \in Requests : SetInterval(ms)
        \/ SetIntervalBump \/ SetIntervalNotify
        \/ \E host \in Targets \cup {NoTarget}, prefix \in Prefixes \cup {NoPrefix} :
             SetGraphite(host, prefix)
        \/ StopSet \/ StopNotify \/ StopJoin
        \/ LoopWake
        \/ Loop

(* Threads that can run do, and time goes on.  cvMtx_ is only held for a few *)
(* steps by either side.  Nobody need call a setter or stop().               *)
Fairness == /\ WF_vars(Tick)
            /\ WF_vars(Loop)
            /\ WF_vars(StopNotify \/ StopJoin)
            /\ SF_vars(SetIntervalBump)
            /\ WF_vars(SetIntervalNotify)

Spec == Init /\ [][Next]_vars

FairSpec == Spec /\ Fairness

-----------------------------------------------------------------------------
(* Properties *)

(* The sampling thread: its place and its locals. *)
LoopType == [at : {"first", "check", "lock", "pred", "block", "asleep", "relock", "woken",
                   "tick", "sample", "publish", "sink", "send", "exited"},
             wait : 0 .. kMaxIntervalMs,
             gen : 0 .. MaxCalls,
             cur : Samples \cup {NoSample},
             sink : Targets \cup {NoTarget},
             prefix : Prefixes \cup {NoPrefix},
             overtaken : BOOLEAN]

(* Every variable stays in its type; the interval stays in its range.        *)
(* What published holds is the subject of RatesAddUp.                        *)
TypeOK ==
    /\ running \in BOOLEAN
    /\ intervalMs \in kMinIntervalMs .. kMaxIntervalMs
    /\ intervalGen \in 0 .. MaxCalls
    /\ cvMtx \in {"free", "loop"}
    /\ loop \in LoopType
    /\ elapsed \in 0 .. kMaxIntervalMs
    /\ setter \in {"idle", "bump", "notify"}
    /\ stopper \in {"idle", "notify", "join", "done"}
    /\ calls \in 0 .. MaxCalls
    /\ graphite \in (Targets \cup {NoTarget}) \X Prefixes
    /\ configured \subseteq (Targets \cup {NoTarget}) \X Prefixes
    /\ sent \subseteq Targets \X Prefixes
    /\ count \in Samples
    /\ prev \in Samples \cup {NoSample}
    /\ throws \in 0 .. MaxThrows

(* Everything a board counted between its first and its latest sample is in  *)
(* exactly one published rate, although samples may fail in between.  The    *)
(* ids have to tell the boards apart.                                        *)
RatesAddUp ==
    loop.at \in {"check", "asleep", "sample", "exited"} =>
        \A b \in Boards :
            published[b] = IF prev = NoSample THEN 0 ELSE prev[b]

(* Metrics only go to a server under a prefix the operator asked for there:  *)
(* retargeting while a batch is under way never mixes the old server with    *)
(* the new prefix.                                                           *)
SinkMatchesPrefix == sent \subseteq configured

(* An operator who shortens the interval "does not sit through the old one   *)
(* first" (StatsCollector.hpp:87): once setInterval() has returned, the loop *)
(* does not sleep towards a deadline beyond the new interval.  Excepted is a *)
(* change that is overtaken: it falls between the loads of the wait          *)
(* (StatsCollector.cpp:133) and of its generation (:117).                    *)
IntervalIsFelt ==
    (loop.at = "asleep" /\ setter = "idle" /\ ~loop.overtaken) => loop.wait <= intervalMs

(* The same without the exception: "Takes effect immediately" (:85).         *)
IntervalIsFeltAtOnce == (loop.at = "asleep" /\ setter = "idle") => loop.wait <= intervalMs

(* stop() returns. *)
StopReturns == (stopper # "idle") ~> (stopper = "done")

(* A collector that is not stopped publishes again and again, however often  *)
(* setInterval() wakes it.                                                   *)
KeepsPublishing == running ~> (loop.at = "sink" \/ ~running)

(* "stop() must not wait out the interval" (tests/stats_interval_test.cpp:   *)
(* 137): once stop() has notified the thread it does not sleep towards a     *)
(* deadline that lies ahead.                                                 *)
StopIsPrompt == (stopper = "join" /\ loop.at = "asleep") => elapsed >= loop.wait
=============================================================================

-------------------------- MODULE BlockQueueProofs --------------------------
(***************************************************************************)
(* BlockQueue.tla for any number of producers, any capacity and any number *)
(* of pushes: typing, the bound on the queue, the wake-up discipline of    *)
(* its two condition variables, and that it implements BoundedQueue.       *)
(***************************************************************************)
EXTENDS BlockQueue, FiniteSetTheorems, SequenceTheorems, TLAPS

(* The effective capacity is a positive number (the constructor's "? :"). *)
LEMMA CapacityPositive == capacity \in Nat /\ capacity >= 1
BY CapacityAssumption DEF capacity

(* What push_back and pop_front do to the blocks in the queue. *)
LEMMA QueueSteps ==
    ASSUME NEW S, NEW s \in Seq(S), NEW e \in S
    PROVE  /\ Append(s, e) \in Seq(S)
           /\ Len(Append(s, e)) = Len(s) + 1
           /\ s # <<>> => /\ Head(s) \in S
                          /\ Tail(s) \in Seq(S)
                          /\ Len(s) >= 1
                          /\ Len(Tail(s)) = Len(s) - 1
OBVIOUS

-----------------------------------------------------------------------------
(* Typing. *)

(* The three ways a push() ends keep the types of what they touch. *)
LEMMA PushOutcomeTypes ==
    ASSUME TypeOK, NEW b \in Blocks,
           Enqueue(b) \/ DropFull(b) \/ RefuseClosed(b)
    PROVE  /\ q' \in Seq(Blocks)
           /\ dropped' \in Nat
           /\ fate' \in [Blocks -> Fates]
           /\ cpc' \in {"idle", "waiting", "woken", "done"}
           /\ cexpired' \in BOOLEAN
<1>1. CASE Enqueue(b)
  <2>1. q' \in Seq(Blocks) /\ dropped' \in Nat
    BY <1>1, QueueSteps DEF TypeOK, Enqueue
  <2>2. fate' \in [Blocks -> Fates] /\ cexpired' \in BOOLEAN
    BY <1>1 DEF TypeOK, Enqueue, Fates
  <2>3. cpc' \in {"idle", "waiting", "woken", "done"}
    BY <1>1 DEF TypeOK, Enqueue, NotifyNotEmpty
  <2> QED BY <2>1, <2>2, <2>3
<1>2. CASE DropFull(b)
  BY <1>2 DEF TypeOK, DropFull, consumerVars, Fates
<1>3. CASE RefuseClosed(b)
  BY <1>3 DEF TypeOK, RefuseClosed, consumerVars, Fates
<1> QED BY <1>1, <1>2, <1>3

(* Removing the front block keeps the types of what it touches. *)
LEMMA TakeFrontTypes ==
    ASSUME TypeOK, TakeFront
    PROVE  /\ q' \in Seq(Blocks)
           /\ fate' \in [Blocks -> Fates]
           /\ pc' \in [Producers -> {"idle", "waiting", "woken"}]
           /\ cpc' = "idle"
<1>1. q' \in Seq(Blocks) /\ Head(q) \in Blocks /\ cpc' = "idle"
  BY HeadTailProperties DEF TypeOK, TakeFront
<1>2. fate' \in [Blocks -> Fates]
  BY <1>1 DEF TypeOK, TakeFront, Fates
<1>3. pc' \in [Producers -> {"idle", "waiting", "woken"}]
  <2>1. CASE Waiting = {}
    BY <2>1 DEF TypeOK, TakeFront, NotifyNotFull
  <2>2. CASE Waiting # {}
    BY <2>2 DEF TypeOK, TakeFront, NotifyNotFull
  <2> QED BY <2>1, <2>2
<1> QED BY <1>1, <1>2, <1>3

(* The block a producer in the middle of a push() is pushing is a block. *)
PushBegun == \A p \in Producers : pc[p] # "idle" => pushes[p] >= 1

(* A push() that has begun carries one of the model's blocks. *)
LEMMA BlockIsBlock ==
    ASSUME TypeOK, PushBegun, NEW p \in Producers, pc[p] # "idle"
    PROVE  Block(p) \in Blocks
BY PushesAssumption DEF TypeOK, PushBegun, Block, Blocks

(* So does the push() a producer is about to begin. *)
LEMMA NextBlockIsBlock ==
    ASSUME TypeOK, NEW p \in Producers, pushes[p] < MaxPushes
    PROVE  /\ <<p, pushes[p] + 1>> \in Blocks
           /\ [pushes EXCEPT ![p] = @ + 1] \in [Producers -> 0 .. MaxPushes]
BY PushesAssumption DEF TypeOK, Blocks

(* The type invariant of the queue holds in every behaviour of the code. *)
THEOREM TypeCorrect == Spec => [](TypeOK /\ PushBegun)
<1>1. ASSUME Init
      PROVE  TypeOK /\ PushBegun
  <2>1. /\ q \in Seq(Blocks) /\ dropped \in Nat
        /\ pushes \in [Producers -> 0 .. MaxPushes]
    BY <1>1, PushesAssumption DEF Init
  <2>2. /\ closed \in BOOLEAN /\ cexpired \in BOOLEAN
        /\ expired \in [Producers -> BOOLEAN]
        /\ fate \in [Blocks -> Fates]
    BY <1>1, Zenon DEF Init, Fates
  <2>3. PushBegun /\ pc \in [Producers -> {"idle", "waiting", "woken"}]
    BY <1>1 DEF Init, PushBegun
  <2> QED BY <1>1, <2>1, <2>2, <2>3 DEF Init, TypeOK
<1>2. ASSUME TypeOK, PushBegun, [Next]_vars
      PROVE  TypeOK' /\ PushBegun'
  <2>1. ASSUME NEW p \in Producers, Push(p)
        PROVE  TypeOK' /\ PushBegun'
    <3> DEFINE b == <<p, pushes[p] + 1>>
    <3>1. b \in Blocks /\ pushes' \in [Producers -> 0 .. MaxPushes]
      BY <1>2, <2>1, NextBlockIsBlock DEF Push
    <3>2. /\ q' \in Seq(Blocks) /\ dropped' \in Nat /\ fate' \in [Blocks -> Fates]
          /\ cpc' \in {"idle", "waiting", "woken", "done"} /\ cexpired' \in BOOLEAN
      BY <1>2, <2>1, <3>1, PushOutcomeTypes DEF Push, TypeOK, consumerVars
    <3>3. /\ pc' \in [Producers -> {"idle", "waiting", "woken"}]
          /\ expired' \in [Producers -> BOOLEAN]
          /\ closed' = closed /\ closer' = closer
      BY <1>2, <2>1 DEF Push, TypeOK
    <3>4. PushBegun'
      BY <1>2, <2>1 DEF Push, TypeOK, PushBegun
    <3> QED BY <1>2, <3>1, <3>2, <3>3, <3>4 DEF TypeOK
  <2>2. ASSUME NEW p \in Producers, PushResume(p)
        PROVE  TypeOK' /\ PushBegun'
    <3>1. Block(p) \in Blocks
      BY <1>2, <2>2, BlockIsBlock DEF PushResume
    <3>2. /\ q' \in Seq(Blocks) /\ dropped' \in Nat /\ fate' \in [Blocks -> Fates]
          /\ cpc' \in {"idle", "waiting", "woken", "done"} /\ cexpired' \in BOOLEAN
      BY <1>2, <2>2, <3>1, PushOutcomeTypes DEF PushResume, TypeOK, consumerVars
    <3>3. /\ pc' \in [Producers -> {"idle", "waiting", "woken"}]
          /\ pushes' = pushes /\ expired' = expired /\ closed' = closed /\ closer' = closer
      BY <1>2, <2>2 DEF PushResume, TypeOK
    <3>4. PushBegun'
      BY <1>2, <2>2 DEF PushResume, TypeOK, PushBegun
    <3> QED BY <1>2, <3>2, <3>3, <3>4 DEF TypeOK
  <2>3. ASSUME NEW p \in Producers, PushExpire(p) \/ PushSpurious(p)
        PROVE  TypeOK' /\ PushBegun'
    BY <1>2, <2>3 DEF PushExpire, PushSpurious, TypeOK, PushBegun, consumerVars
  <2>4. ASSUME Pop \/ PopResume
        PROVE  TypeOK' /\ PushBegun'
    <3>1. CASE TakeFront
      <4>1. \A p \in Producers : pc'[p] # "idle" => pc[p] # "idle"
        BY <1>2, <3>1 DEF TakeFront, NotifyNotFull, Waiting, TypeOK
      <4> QED BY <1>2, <2>4, <3>1, <4>1, TakeFrontTypes DEF Pop, PopResume, TypeOK, PushBegun
    <3>2. CASE ~TakeFront
      BY <1>2, <2>4, <3>2 DEF Pop, PopResume, TypeOK, PushBegun
    <3> QED BY <3>1, <3>2
  <2>5. ASSUME PopExpire \/ PopSpurious \/ ConsumerLeaves
        PROVE  TypeOK' /\ PushBegun'
    BY <1>2, <2>5 DEF PopExpire, PopSpurious, ConsumerLeaves, TypeOK, PushBegun
  <2>6. ASSUME Closer
        PROVE  TypeOK' /\ PushBegun'
    BY <1>2, <2>6 DEF Closer, CloseSet, CloseNotifyEmpty, CloseNotifyFull, NotifyNotEmpty,
                      NotifyAllNotFull, TypeOK, PushBegun, consumerVars
  <2>7. CASE UNCHANGED vars
    BY <1>2, <2>7 DEF vars, TypeOK, PushBegun
  <2> QED BY <1>2, <2>1, <2>2, <2>3, <2>4, <2>5, <2>6, <2>7 DEF Next, Producer, Consumer
<1> QED BY <1>1, <1>2, PTL DEF Spec

-----------------------------------------------------------------------------
(* The wake-up discipline. *)

(* The woken producers are finitely many. *)
LEMMA WokenFinite == IsFiniteSet(Woken) /\ Cardinality(Woken) \in Nat
BY ProducersAssumption, FS_Subset, FS_CardinalityType DEF Woken

(* A sleeping producer that wakes up, whatever the reason. *)
LEMMA OneWakes ==
    ASSUME TypeOK, NEW p \in Waiting, pc' = [pc EXCEPT ![p] = "woken"]
    PROVE  /\ Waiting' = Waiting \ {p}
           /\ Cardinality(Woken') = Cardinality(Woken) + 1
<1>1. Waiting' = Waiting \ {p} /\ Woken' = Woken \cup {p} /\ p \notin Woken
  BY DEF TypeOK, Waiting, Woken
<1> QED BY <1>1, WokenFinite, FS_AddElement

(* A woken producer that returns from push(). *)
LEMMA OneReturns ==
    ASSUME TypeOK, NEW p \in Woken, pc' = [pc EXCEPT ![p] = "idle"]
    PROVE  /\ Waiting' = Waiting
           /\ Cardinality(Woken') = Cardinality(Woken) - 1
<1>1. Waiting' = Waiting /\ Woken' = Woken \ {p} /\ p \in Woken
  BY DEF TypeOK, Waiting, Woken
<1> QED BY <1>1, WokenFinite, FS_RemoveElement

(* closed_ and the progress of close() agree. *)
CloserAgrees == closed <=> closer # "open"

(* The inductive invariant: the bound, the three wake-up facts, and          *)
(* CloserAgrees, without which a notification of close() could not be told   *)
(* from one that is still to come.                                           *)
QueueInv == /\ CapacityRespected
            /\ ConsumerSleepsSoundly
            /\ RoomIsAnnounced
            /\ CloseWakesProducers
            /\ CloserAgrees

(* The constructor establishes the invariant: empty, open, nobody asleep. *)
LEMMA QueueInvInit == Init => QueueInv
<1> SUFFICES ASSUME Init PROVE QueueInv
  OBVIOUS
<1>1. Len(q) = 0 /\ Waiting = {}
  BY DEF Init, Waiting
<1> QED BY <1>1, CapacityPositive DEF Init, QueueInv, CapacityRespected, ConsumerSleepsSoundly,
                                      RoomIsAnnounced, CloseWakesProducers, CloserAgrees

(* The parts of the invariant that the ways out of push() can disturb. *)
LEMMA EnqueueKeeps ==
    ASSUME TypeOK, QueueInv, NEW b \in Blocks, Enqueue(b), ~closed, ~Full,
           closed' = closed, closer' = closer
    PROVE  /\ CapacityRespected'
           /\ ConsumerSleepsSoundly'
           /\ Len(q') = Len(q) + 1
<1>1. Len(q) \in Nat /\ Len(q') = Len(q) + 1
  BY QueueSteps, LenProperties DEF TypeOK, Enqueue
<1>2. CapacityRespected'
  BY <1>1, CapacityPositive DEF CapacityRespected, Full, capacity
<1>3. cpc' # "waiting"
  BY DEF Enqueue, NotifyNotEmpty
<1> QED BY <1>1, <1>2, <1>3 DEF ConsumerSleepsSoundly

(* A push() up to its return or its wait_for() keeps the invariant. *)
LEMMA PushKeeps ==
    ASSUME TypeOK, QueueInv, NEW p \in Producers, Push(p)
    PROVE  QueueInv'
<1> DEFINE b == <<p, pushes[p] + 1>>
<1>0. b \in Blocks /\ closed' = closed /\ closer' = closer
  BY NextBlockIsBlock DEF Push
<1>1. CASE closed /\ RefuseClosed(b) /\ UNCHANGED <<pc, expired>>
  BY <1>0, <1>1 DEF RefuseClosed, consumerVars, QueueInv, CapacityRespected, capacity,
                    ConsumerSleepsSoundly, RoomIsAnnounced, CloseWakesProducers, CloserAgrees,
                    Waiting, Woken
<1>2. CASE ~closed /\ ~Full /\ Enqueue(b) /\ UNCHANGED <<pc, expired>>
  <2>1. CapacityRespected' /\ ConsumerSleepsSoundly' /\ Len(q') = Len(q) + 1
    BY <1>0, <1>2, EnqueueKeeps
  <2>2. Waiting' = Waiting /\ Woken' = Woken
    BY <1>2 DEF Waiting, Woken
  <2>3. RoomIsAnnounced'
    BY <1>0, <2>1, <2>2, WokenFinite, CapacityPositive, LenProperties
       DEF QueueInv, RoomIsAnnounced, TypeOK, capacity
  <2> QED BY <1>0, <2>1, <2>2, <2>3 DEF QueueInv, CloseWakesProducers, CloserAgrees
<1>3. CASE /\ ~closed /\ Full
           /\ pc' = [pc EXCEPT ![p] = "waiting"]
           /\ UNCHANGED <<q, dropped, fate, consumerVars>>
           /\ pc[p] = "idle"
  <2>1. Woken' = Woken
    BY <1>3 DEF TypeOK, Woken
  <2>2. RoomIsAnnounced'
    BY <1>0, <1>3, <2>1, WokenFinite, CapacityPositive, LenProperties
       DEF QueueInv, RoomIsAnnounced, TypeOK, capacity, Full
  <2>3. closer' # "closed"
    BY <1>0, <1>3 DEF QueueInv, CloserAgrees
  <2> QED BY <1>0, <1>3, <2>2, <2>3
          DEF QueueInv, CapacityRespected, ConsumerSleepsSoundly, CloseWakesProducers,
              CloserAgrees, consumerVars, capacity
<1> QED BY <1>1, <1>2, <1>3 DEF Push

(* A producer that leaves wait_for(), or waits again, keeps the invariant. *)
LEMMA PushResumeKeeps ==
    ASSUME TypeOK, PushBegun, QueueInv, NEW p \in Producers, PushResume(p)
    PROVE  QueueInv'
<1>0. Block(p) \in Blocks /\ p \in Woken /\ closed' = closed /\ closer' = closer
  BY BlockIsBlock DEF PushResume, Woken
<1>1. CASE closed /\ RefuseClosed(Block(p)) /\ pc' = [pc EXCEPT ![p] = "idle"]
  BY <1>0, <1>1, OneReturns
     DEF RefuseClosed, consumerVars, QueueInv, CapacityRespected, capacity,
         ConsumerSleepsSoundly, RoomIsAnnounced, CloseWakesProducers, CloserAgrees
<1>2. CASE ~closed /\ ~Full /\ Enqueue(Block(p)) /\ pc' = [pc EXCEPT ![p] = "idle"]
  <2>1. CapacityRespected' /\ ConsumerSleepsSoundly' /\ Len(q') = Len(q) + 1
    BY <1>0, <1>2, EnqueueKeeps
  <2>2. Waiting' = Waiting /\ Cardinality(Woken') = Cardinality(Woken) - 1
    BY <1>0, <1>2, OneReturns
  <2>3. RoomIsAnnounced'
    BY <1>0, <2>1, <2>2, WokenFinite, CapacityPositive, LenProperties
       DEF QueueInv, RoomIsAnnounced, TypeOK, capacity
  <2> QED BY <1>0, <2>1, <2>2, <2>3 DEF QueueInv, CloseWakesProducers, CloserAgrees
<1>3. CASE ~closed /\ Full /\ DropFull(Block(p)) /\ pc' = [pc EXCEPT ![p] = "idle"]
  <2>1. Waiting' = Waiting /\ Cardinality(Woken') \in Nat
    <3>1. Woken' \subseteq Producers
      BY DEF Woken
    <3> QED BY <1>0, <1>3, <3>1, OneReturns, ProducersAssumption, FS_Subset, FS_CardinalityType
  <2>2. RoomIsAnnounced'
    BY <1>0, <1>3, <2>1, CapacityPositive, LenProperties
       DEF RoomIsAnnounced, TypeOK, capacity, Full, DropFull
  <2> QED BY <1>0, <1>3, <2>1, <2>2
          DEF DropFull, QueueInv, CapacityRespected, ConsumerSleepsSoundly, CloseWakesProducers,
              CloserAgrees, consumerVars, capacity
<1>4. CASE /\ ~closed /\ Full
           /\ pc' = [pc EXCEPT ![p] = "waiting"]
           /\ UNCHANGED <<q, dropped, fate, consumerVars>>
  <2>1. Cardinality(Woken') \in Nat
    <3>1. Woken' \subseteq Producers
      BY DEF Woken
    <3> QED BY <3>1, ProducersAssumption, FS_Subset, FS_CardinalityType
  <2>2. RoomIsAnnounced'
    BY <1>0, <1>4, <2>1, CapacityPositive, LenProperties
       DEF RoomIsAnnounced, TypeOK, capacity, Full
  <2>3. closer' # "closed"
    BY <1>0, <1>4 DEF QueueInv, CloserAgrees
  <2> QED BY <1>0, <1>4, <2>2, <2>3
          DEF QueueInv, CapacityRespected, ConsumerSleepsSoundly, CloseWakesProducers,
              CloserAgrees, consumerVars, capacity
<1> QED BY <1>1, <1>2, <1>3, <1>4 DEF PushResume

(* A deadline or a spurious wake-up of a producer keeps the invariant. *)
LEMMA PushWakesKeeps ==
    ASSUME TypeOK, QueueInv, NEW p \in Producers, PushExpire(p) \/ PushSpurious(p)
    PROVE  QueueInv'
<1>0. /\ q' = q /\ closed' = closed /\ closer' = closer /\ cpc' = cpc
      /\ pc' = [pc EXCEPT ![p] = "woken"]
      /\ pc[p] \in {"waiting", "woken"}
  BY DEF PushExpire, PushSpurious, consumerVars, TypeOK
<1>1. CASE pc[p] = "waiting"
  <2>1. p \in Waiting
    BY <1>1 DEF Waiting
  <2>2. Waiting' \subseteq Waiting /\ Cardinality(Woken') = Cardinality(Woken) + 1
    BY <1>0, <2>1, OneWakes
  <2>3. RoomIsAnnounced'
    BY <1>0, <2>1, <2>2, WokenFinite, CapacityPositive, LenProperties
       DEF QueueInv, RoomIsAnnounced, TypeOK, capacity
  <2> QED BY <1>0, <2>2, <2>3 DEF QueueInv, CapacityRespected, ConsumerSleepsSoundly,
                                  CloseWakesProducers, CloserAgrees, capacity
<1>2. CASE pc[p] = "woken"
  <2>1. pc' = pc
    BY <1>0, <1>2 DEF TypeOK
  <2> QED BY <1>0, <2>1 DEF QueueInv, CapacityRespected, ConsumerSleepsSoundly, RoomIsAnnounced,
                            CloseWakesProducers, CloserAgrees, capacity, Waiting, Woken
<1> QED BY <1>0, <1>1, <1>2

(* pop() and popFor(), from the call or after the wait, keep the invariant. *)
LEMMA PopKeeps ==
    ASSUME TypeOK, QueueInv, Pop \/ PopResume
    PROVE  QueueInv'
<1>0. closed' = closed /\ closer' = closer
  BY DEF Pop, PopResume
<1>1. CASE TakeFront
  <2>1. Len(q) \in Nat /\ Len(q') = Len(q) - 1 /\ cpc' = "idle"
    BY <1>1, HeadTailProperties, LenProperties DEF TypeOK, TakeFront
  <2>2. CASE Waiting = {}
    <3>1. Waiting' = {}
      BY <1>1, <2>2 DEF TakeFront, NotifyNotFull, Waiting
    <3> QED BY <1>0, <2>1, <3>1, CapacityPositive
            DEF QueueInv, CapacityRespected, ConsumerSleepsSoundly, RoomIsAnnounced,
                CloseWakesProducers, CloserAgrees, capacity
  <2>3. CASE Waiting # {}
    <3>1. PICK p \in Waiting : pc' = [pc EXCEPT ![p] = "woken"]
      BY <1>1, <2>3 DEF TakeFront, NotifyNotFull
    <3>2. Waiting' \subseteq Waiting /\ Cardinality(Woken') = Cardinality(Woken) + 1
      BY <3>1, OneWakes
    <3>3. RoomIsAnnounced'
      BY <1>0, <2>1, <2>3, <3>2, WokenFinite, CapacityPositive
         DEF QueueInv, RoomIsAnnounced, capacity
    <3> QED BY <1>0, <2>1, <3>2, <3>3, CapacityPositive
            DEF QueueInv, CapacityRespected, ConsumerSleepsSoundly, CloseWakesProducers,
                CloserAgrees, capacity
  <2> QED BY <2>2, <2>3
<1>2. CASE ~TakeFront
  <2>1. q = <<>> /\ q' = q /\ pc' = pc
    BY <1>2 DEF Pop, PopResume
  <2>2. cpc' = "waiting" => ~closed
    BY <1>2 DEF Pop, PopResume
  <2> QED BY <1>0, <2>1, <2>2
          DEF QueueInv, CapacityRespected, ConsumerSleepsSoundly, RoomIsAnnounced,
              CloseWakesProducers, CloserAgrees, capacity, Waiting, Woken
<1> QED BY <1>1, <1>2

(* A deadline, a spurious wake-up or the end of the consumer keeps it. *)
LEMMA ConsumerWakesKeeps ==
    ASSUME TypeOK, QueueInv, PopExpire \/ PopSpurious \/ ConsumerLeaves
    PROVE  QueueInv'
<1>1. q' = q /\ pc' = pc /\ closed' = closed /\ closer' = closer /\ cpc' # "waiting"
  BY DEF PopExpire, PopSpurious, ConsumerLeaves
<1> QED BY <1>1 DEF QueueInv, CapacityRespected, ConsumerSleepsSoundly, RoomIsAnnounced,
                    CloseWakesProducers, CloserAgrees, capacity, Waiting, Woken

(* Each of the three steps of close() keeps the invariant. *)
LEMMA CloserKeeps ==
    ASSUME TypeOK, QueueInv, Closer
    PROVE  QueueInv'
<1>1. CASE CloseSet
  BY <1>1 DEF CloseSet, consumerVars, QueueInv, CapacityRespected, ConsumerSleepsSoundly,
              RoomIsAnnounced, CloseWakesProducers, CloserAgrees, capacity
<1>2. CASE CloseNotifyEmpty
  BY <1>2 DEF CloseNotifyEmpty, NotifyNotEmpty, QueueInv, CapacityRespected,
              ConsumerSleepsSoundly, RoomIsAnnounced, CloseWakesProducers, CloserAgrees,
              capacity, Waiting, Woken
<1>3. CASE CloseNotifyFull
  <2>1. Waiting' = {}
    BY <1>3 DEF CloseNotifyFull, NotifyAllNotFull, Waiting, TypeOK
  <2> QED BY <1>3, <2>1 DEF CloseNotifyFull, consumerVars, QueueInv, CapacityRespected,
                            ConsumerSleepsSoundly, RoomIsAnnounced, CloseWakesProducers,
                            CloserAgrees, capacity
<1> QED BY <1>1, <1>2, <1>3 DEF Closer

(* Every step of the queue's threads keeps the invariant. *)
LEMMA QueueInvStep ==
    ASSUME TypeOK, PushBegun, QueueInv, [Next]_vars
    PROVE  QueueInv'
<1>1. CASE UNCHANGED vars
  BY <1>1 DEF vars, QueueInv, CapacityRespected, ConsumerSleepsSoundly, RoomIsAnnounced,
              CloseWakesProducers, CloserAgrees, capacity, Waiting, Woken
<1> QED BY <1>1, PushKeeps, PushResumeKeeps, PushWakesKeeps, PopKeeps, ConsumerWakesKeeps,
           CloserKeeps DEF Next, Producer, Consumer

(* The inductive invariant holds in every behaviour of BlockQueue.hpp. *)
LEMMA QueueInvariant == Spec => []QueueInv
<1>1. Spec => []TypeOK /\ []PushBegun
  BY TypeCorrect, PTL
<1> QED BY <1>1, QueueInvInit, QueueInvStep, PTL DEF Spec

(* The queue never exceeds its capacity, however many producers wake up for  *)
(* one place.                                                                *)
THEOREM BoundHolds == Spec => []CapacityRespected
<1>1. QueueInv => CapacityRespected
  BY DEF QueueInv
<1> QED BY <1>1, QueueInvariant, PTL

(* No notify_one() of pop() is lost: free places are always announced.       *)
THEOREM RoomAlwaysAnnounced == Spec => []RoomIsAnnounced
<1>1. QueueInv => RoomIsAnnounced
  BY DEF QueueInv
<1> QED BY <1>1, QueueInvariant, PTL

(* No notify_one() of push() and no notify_all() of close() passes the       *)
(* consumer by.                                                              *)
THEOREM ConsumerNeverForgotten == Spec => []ConsumerSleepsSoundly
<1>1. QueueInv => ConsumerSleepsSoundly
  BY DEF QueueInv
<1> QED BY <1>1, QueueInvariant, PTL

(* close() leaves no producer asleep.                                        *)
THEOREM CloseReleasesProducers == Spec => []CloseWakesProducers
<1>1. QueueInv => CloseWakesProducers
  BY DEF QueueInv
<1> QED BY <1>1, QueueInvariant, PTL

-----------------------------------------------------------------------------
(* Refinement. *)

(* What the mapping to BoundedQueue rests on: blocks not pushed yet, or in   *)
(* the middle of their push(), are new; blocks in the queue are queued, each *)
(* in one place.                                                             *)
NewAhead == \A p \in Producers, n \in 1 .. MaxPushes :
    (n > pushes[p] \/ (n = pushes[p] /\ pc[p] # "idle")) => fate[<<p, n>>] = "new"

QueuedOnce == /\ \A i \in 1 .. Len(q) : fate[q[i]] = "queued"
              /\ \A i, j \in 1 .. Len(q) : q[i] = q[j] => i = j

FateInv == NewAhead /\ QueuedOnce

(* The end of a push() of a new block b keeps the rest as it was. *)
LEMMA OutcomeKeepsQueued ==
    ASSUME TypeOK, QueuedOnce, NEW b \in Blocks, fate[b] = "new",
           Enqueue(b) \/ DropFull(b) \/ RefuseClosed(b)
    PROVE  /\ QueuedOnce'
           /\ \A c \in Blocks : c # b => fate'[c] = fate[c]
<1>0. /\ q \in Seq(Blocks) /\ fate \in [Blocks -> Fates]
      /\ \A i \in 1 .. Len(q) : q[i] \in Blocks /\ q[i] # b
  BY DEF TypeOK, QueuedOnce
<1>1. \A c \in Blocks : c # b => fate'[c] = fate[c]
  BY <1>0 DEF Enqueue, DropFull, RefuseClosed
<1>2. CASE Enqueue(b)
  <2>1. /\ Len(q') = Len(q) + 1 /\ Len(q) \in Nat
        /\ \A i \in 1 .. Len(q) : q'[i] = q[i]
        /\ q'[Len(q) + 1] = b
    BY <1>0, <1>2 DEF Enqueue
  <2>2. fate'[b] = "queued"
    BY <1>0, <1>2 DEF Enqueue
  <2> QED BY <1>0, <1>1, <2>1, <2>2 DEF QueuedOnce
<1>3. CASE DropFull(b) \/ RefuseClosed(b)
  <2>1. q' = q
    BY <1>3 DEF DropFull, RefuseClosed
  <2> QED BY <1>0, <1>1, <2>1 DEF QueuedOnce
<1> QED BY <1>1, <1>2, <1>3

(* Every step keeps what is known of the fate of the blocks. *)
LEMMA FateInvStep ==
    ASSUME TypeOK, PushBegun, FateInv, [Next]_vars
    PROVE  FateInv'
<1>1. ASSUME NEW p \in Producers, Push(p)
      PROVE  FateInv'
  <2> DEFINE b == <<p, pushes[p] + 1>>
  <2>0. /\ b \in Blocks /\ fate[b] = "new"
        /\ pushes' = [pushes EXCEPT ![p] = @ + 1] /\ pc[p] = "idle"
    BY <1>1, NextBlockIsBlock, PushesAssumption DEF Push, FateInv, NewAhead, TypeOK
  <2>1. ASSUME RefuseClosed(b) \/ Enqueue(b), pc' = pc
        PROVE  FateInv'
    <3>1. QueuedOnce' /\ \A c \in Blocks : c # b => fate'[c] = fate[c]
      BY <2>0, <2>1, OutcomeKeepsQueued DEF FateInv
    <3>2. ASSUME NEW r \in Producers, NEW n \in 1 .. MaxPushes,
                 n > pushes'[r] \/ (n = pushes'[r] /\ pc'[r] # "idle")
          PROVE  fate'[<<r, n>>] = "new"
      <4>1. <<r, n>> \in Blocks /\ <<r, n>> # b
        BY <2>0, <2>1, <3>2 DEF TypeOK, Blocks
      <4>2. n > pushes[r] \/ (n = pushes[r] /\ pc[r] # "idle")
        BY <2>0, <2>1, <3>2, PushesAssumption DEF TypeOK
      <4> QED BY <3>1, <4>1, <4>2 DEF FateInv, NewAhead
    <3> QED BY <3>1, <3>2 DEF FateInv, NewAhead
  <2>2. ASSUME UNCHANGED <<q, fate>>, pc' = [pc EXCEPT ![p] = "waiting"]
        PROVE  FateInv'
    <3>1. ASSUME NEW r \in Producers, NEW n \in 1 .. MaxPushes,
                 n > pushes'[r] \/ (n = pushes'[r] /\ pc'[r] # "idle")
          PROVE  n > pushes[r] \/ (n = pushes[r] /\ pc[r] # "idle")
      BY <2>0, <2>2, <3>1, PushesAssumption DEF TypeOK
    <3> QED BY <2>2, <3>1 DEF FateInv, NewAhead, QueuedOnce
  <2>3. \/ (RefuseClosed(b) \/ Enqueue(b)) /\ pc' = pc
        \/ UNCHANGED <<q, fate>> /\ pc' = [pc EXCEPT ![p] = "waiting"]
    BY <1>1 DEF Push
  <2> QED BY <2>1, <2>2, <2>3
<1>2. ASSUME NEW p \in Producers, PushResume(p)
      PROVE  FateInv'
  <2>0. /\ Block(p) \in Blocks /\ fate[Block(p)] = "new"
        /\ pushes' = pushes /\ pc[p] = "woken"
    BY <1>2, BlockIsBlock, PushesAssumption DEF PushResume, FateInv, NewAhead, TypeOK, Block, PushBegun
  <2>1. CASE /\ RefuseClosed(Block(p)) \/ Enqueue(Block(p)) \/ DropFull(Block(p))
             /\ pc' = [pc EXCEPT ![p] = "idle"]
    <3>1. QueuedOnce' /\ \A c \in Blocks : c # Block(p) => fate'[c] = fate[c]
      BY <2>0, <2>1, OutcomeKeepsQueued DEF FateInv
    <3>2. ASSUME NEW r \in Producers, NEW n \in 1 .. MaxPushes,
                 n > pushes'[r] \/ (n = pushes'[r] /\ pc'[r] # "idle")
          PROVE  fate'[<<r, n>>] = "new"
      <4>1. <<r, n>> \in Blocks /\ <<r, n>> # Block(p)
        BY <2>0, <2>1, <3>2 DEF TypeOK, Blocks, Block
      <4>2. n > pushes[r] \/ (n = pushes[r] /\ pc[r] # "idle")
        BY <2>0, <2>1, <3>2 DEF TypeOK
      <4> QED BY <3>1, <4>1, <4>2 DEF FateInv, NewAhead
    <3> QED BY <3>1, <3>2 DEF FateInv, NewAhead
  <2>2. CASE UNCHANGED <<q, fate>> /\ pc' = [pc EXCEPT ![p] = "waiting"]
    BY <2>0, <2>2 DEF FateInv, NewAhead, QueuedOnce, TypeOK
  <2> QED BY <1>2, <2>1, <2>2 DEF PushResume
<1>3. ASSUME Pop \/ PopResume, TakeFront
      PROVE  FateInv'
  <2>0. /\ pushes' = pushes
        /\ \A p \in Producers : pc'[p] # "idle" => pc[p] # "idle"
    BY <1>3 DEF Pop, PopResume, TakeFront, NotifyNotFull, Waiting, TypeOK
  <2>1. /\ Head(q) \in Blocks /\ Head(q) = q[1] /\ Len(q) \in Nat /\ Len(q) >= 1
        /\ Len(q') = Len(q) - 1
        /\ \A i \in 1 .. Len(q') : q'[i] = q[i + 1]
    BY <1>3 DEF TakeFront, TypeOK
  <2>2. /\ fate[Head(q)] = "queued"
        /\ \A c \in Blocks : c # Head(q) => fate'[c] = fate[c]
    BY <1>3, <2>1 DEF TakeFront, TypeOK, FateInv, QueuedOnce
  <2>3. QueuedOnce'
    <3>1. \A i \in 1 .. Len(q') : q'[i] \in Blocks /\ q'[i] # Head(q)
      BY <2>1 DEF FateInv, QueuedOnce, TypeOK
    <3>2. \A i \in 1 .. Len(q') : fate'[q'[i]] = "queued"
      BY <2>1, <2>2, <3>1 DEF FateInv, QueuedOnce
    <3>3. ASSUME NEW i \in 1 .. Len(q'), NEW j \in 1 .. Len(q'), q'[i] = q'[j]
          PROVE  i = j
      <4>1. q[i + 1] = q[j + 1] /\ i + 1 \in 1 .. Len(q) /\ j + 1 \in 1 .. Len(q)
        BY <2>1, <3>3
      <4>2. i + 1 = j + 1
        BY <4>1 DEF FateInv, QueuedOnce
      <4> QED BY <2>1, <4>2
    <3> QED BY <3>2, <3>3 DEF QueuedOnce
  <2>4. NewAhead'
    BY <2>0, <2>2 DEF FateInv, NewAhead, TypeOK, Blocks
  <2> QED BY <2>3, <2>4 DEF FateInv
<1>4. ASSUME UNCHANGED <<q, fate, pushes>>,
             \A p \in Producers : pc'[p] # "idle" => pc[p] # "idle"
      PROVE  FateInv'
  BY <1>4 DEF FateInv, NewAhead, QueuedOnce
<1>5. ASSUME Pop \/ PopResume, ~TakeFront
      PROVE  FateInv'
  BY <1>4, <1>5 DEF Pop, PopResume
<1>6. ASSUME NEW p \in Producers, PushExpire(p) \/ PushSpurious(p)
      PROVE  FateInv'
  <2>1. \A r \in Producers : pc'[r] # "idle" => pc[r] # "idle"
    BY <1>6 DEF PushExpire, PushSpurious, TypeOK
  <2> QED BY <1>4, <1>6, <2>1 DEF PushExpire, PushSpurious
<1>7. ASSUME PopExpire \/ PopSpurious \/ ConsumerLeaves \/ Closer
      PROVE  FateInv'
  <2>1. \A r \in Producers : pc'[r] # "idle" => pc[r] # "idle"
    BY <1>7 DEF PopExpire, PopSpurious, ConsumerLeaves, Closer, CloseSet, CloseNotifyEmpty,
                CloseNotifyFull, NotifyAllNotFull, TypeOK
  <2> QED BY <1>4, <1>7, <2>1 DEF PopExpire, PopSpurious, ConsumerLeaves, Closer, CloseSet,
                                  CloseNotifyEmpty, CloseNotifyFull
<1>8. CASE UNCHANGED vars
  BY <1>4, <1>8 DEF vars
<1> QED BY <1>1, <1>2, <1>3, <1>5, <1>6, <1>7, <1>8 DEF Next, Producer, Consumer

(* A block is new until its push() ends, and in the queue at most once. *)
LEMMA FateInvariant == Spec => []FateInv
<1>1. Init => FateInv
  BY PushesAssumption DEF Init, FateInv, NewAhead, QueuedOnce, Blocks
<1>2. Spec => []TypeOK /\ []PushBegun
  BY TypeCorrect, PTL
<1> QED BY <1>1, <1>2, FateInvStep, PTL DEF Spec

(* A push() that ends is an Accept, a Drop or a Reject of the abstract queue. *)
LEMMA OutcomeRefines ==
    ASSUME TypeOK, NEW b \in Blocks, fate[b] = "new", closed' = closed,
           \/ ~closed /\ ~Full /\ Enqueue(b)
           \/ ~closed /\ Full /\ DropFull(b)
           \/ closed /\ RefuseClosed(b)
    PROVE  Abstract!QNext
<1>1. CASE ~closed /\ ~Full /\ Enqueue(b)
  BY <1>1 DEF Enqueue, Full, Abstract!QNext, Abstract!Accept, Abstract!Full
<1>2. CASE ~closed /\ Full /\ DropFull(b)
  BY <1>2 DEF DropFull, Full, Abstract!QNext, Abstract!Drop, Abstract!Full
<1>3. CASE closed /\ RefuseClosed(b)
  BY <1>3 DEF RefuseClosed, Abstract!QNext, Abstract!Reject
<1> QED BY <1>1, <1>2, <1>3

(* The queue of the code, with its waiting, timeouts, barging and spurious   *)
(* wake-ups, implements the abstract bounded queue.                          *)
THEOREM Refinement == Spec => ImplementsBoundedQueue
<1>1. Init => Abstract!QInit
  BY DEF Init, Abstract!QInit
<1>2. ASSUME TypeOK, PushBegun, FateInv, [Next]_vars
      PROVE  [Abstract!QNext]_Abstract!qvars
  <2>1. ASSUME NEW p \in Producers, Push(p)
        PROVE  [Abstract!QNext]_Abstract!qvars
    <3> DEFINE b == <<p, pushes[p] + 1>>
    <3>1. b \in Blocks /\ fate[b] = "new" /\ closed' = closed
      BY <1>2, <2>1, NextBlockIsBlock, PushesAssumption DEF Push, FateInv, NewAhead, TypeOK
    <3> QED BY <1>2, <2>1, <3>1, OutcomeRefines DEF Push, Abstract!qvars
  <2>2. ASSUME NEW p \in Producers, PushResume(p)
        PROVE  [Abstract!QNext]_Abstract!qvars
    <3>1. Block(p) \in Blocks /\ fate[Block(p)] = "new" /\ closed' = closed
      BY <1>2, <2>2, BlockIsBlock, PushesAssumption
         DEF PushResume, FateInv, NewAhead, TypeOK, Block, PushBegun
    <3> QED BY <1>2, <2>2, <3>1, OutcomeRefines DEF PushResume, Abstract!qvars
  <2>3. ASSUME Pop \/ PopResume
        PROVE  [Abstract!QNext]_Abstract!qvars
    <3>1. CASE TakeFront
      BY <2>3, <3>1 DEF Pop, PopResume, TakeFront, Abstract!QNext, Abstract!Take
    <3>2. CASE ~TakeFront
      BY <2>3, <3>2 DEF Pop, PopResume, Abstract!qvars
    <3> QED BY <3>1, <3>2
  <2>4. ASSUME NEW p \in Producers, PushExpire(p) \/ PushSpurious(p)
        PROVE  [Abstract!QNext]_Abstract!qvars
    BY <2>4 DEF PushExpire, PushSpurious, Abstract!qvars
  <2>5. ASSUME PopExpire \/ PopSpurious \/ ConsumerLeaves
        PROVE  [Abstract!QNext]_Abstract!qvars
    BY <2>5 DEF PopExpire, PopSpurious, ConsumerLeaves, Abstract!qvars
  <2>6. ASSUME Closer
        PROVE  [Abstract!QNext]_Abstract!qvars
    BY <2>6 DEF Closer, CloseSet, CloseNotifyEmpty, CloseNotifyFull, Abstract!qvars,
                Abstract!QNext, Abstract!Close
  <2>7. CASE UNCHANGED vars
    BY <2>7 DEF vars, Abstract!qvars
  <2> QED BY <1>2, <2>1, <2>2, <2>3, <2>4, <2>5, <2>6, <2>7 DEF Next, Producer, Consumer
<1>3. Spec => []TypeOK /\ []PushBegun /\ []FateInv
  BY TypeCorrect, FateInvariant, PTL
<1> QED BY <1>1, <1>2, <1>3, PTL DEF Spec, ImplementsBoundedQueue, Abstract!QSpec
=============================================================================

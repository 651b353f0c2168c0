----------------------------- MODULE BlockQueue -----------------------------
(***************************************************************************)
(* caendaq::BlockQueue (include/caendaq/BlockQueue.hpp) at the level of its *)
(* mutex and its two condition variables.                                  *)
(*                                                                         *)
(* A critical section of mtx_ is one action.  A thread that waits on a     *)
(* condition variable is "waiting"; a notification, the expiry of its      *)
(* deadline or a spurious wake-up makes it "woken", and only when it has   *)
(* mtx_ again (the next action) does it look at the queue.  Between the    *)
(* two anything may happen.  notify_one() picks any waiting thread.        *)
(*                                                                         *)
(* Several producers (the reader threads of all boards) and one consumer   *)
(* (the writer thread, or a decode thread) use one queue.                  *)
(***************************************************************************)
EXTENDS Integers, Sequences, FiniteSets

CONSTANTS Producers,    \* the threads that push
          Capacity,     \* the constructor's argument
          MaxPushes,    \* bound: pushes made by one producer
          TimedPop      \* TRUE: the consumer calls popFor(), FALSE: pop()

ASSUME ProducersAssumption == IsFiniteSet(Producers)
ASSUME CapacityAssumption  == Capacity \in Nat
ASSUME PushesAssumption    == MaxPushes \in Nat
ASSUME TimedPopAssumption  == TimedPop \in BOOLEAN

VARIABLES q,         \* q_
          closed,    \* closed_
          dropped,   \* dropped_
          pc,        \* pc[p]: "idle" outside push(), "waiting", "woken"
          expired,   \* expired[p]: the deadline of p's wait_for has passed
          pushes,    \* pushes[p]: how many calls of push() p has begun
          cpc,       \* the consumer: "idle", "waiting", "woken", "done"
          cexpired,  \* the deadline of the consumer's wait_for has passed
          closer,    \* close(): "open", "notifyEmpty", "notifyFull", "closed"
          fate       \* history: what became of each block

vars == <<q, closed, dropped, pc, expired, pushes, cpc, cexpired, closer, fate>>

consumerVars == <<cpc, cexpired>>

Blocks == Producers \X (1 .. MaxPushes)

Fates == {"new", "queued", "taken", "dropped", "rejected"}

(* The constructor turns a capacity of 0 into 1. *)
capacity == IF Capacity = 0 THEN 1 ELSE Capacity

Full == Len(q) >= capacity

(* The block p is pushing: its latest. *)
Block(p) == <<p, pushes[p]>>

Waiting == {p \in Producers : pc[p] = "waiting"}

Woken == {p \in Producers : pc[p] = "woken"}

Init == /\ q = <<>>
        /\ closed = FALSE
        /\ dropped = 0
        /\ pc = [p \in Producers |-> "idle"]
        /\ expired = [p \in Producers |-> FALSE]
        /\ pushes = [p \in Producers |-> 0]
        /\ cpc = "idle"
        /\ cexpired = FALSE
        /\ closer = "open"
        /\ fate = [b \in Blocks |-> "new"]

-----------------------------------------------------------------------------
(* Condition variables. *)

(* not_empty_.notify_one(): the consumer is the only thread that waits on it. *)
NotifyNotEmpty == cpc' = IF cpc = "waiting" THEN "woken" ELSE cpc

(* not_full_.notify_one() *)
NotifyNotFull ==
    IF Waiting = {}
    THEN pc' = pc
    ELSE \E p \in Waiting : pc' = [pc EXCEPT ![p] = "woken"]

(* not_full_.notify_all() *)
NotifyAllNotFull ==
    pc' = [p \in Producers |-> IF pc[p] = "waiting" THEN "woken" ELSE pc[p]]

-----------------------------------------------------------------------------
(* push(): the three ways it returns, for block b of producer p. *)

(* Mutant: the notification of the consumer is forgotten. *)
EnqueueSilently(b) == /\ q' = Append(q, b)
                      /\ fate' = [fate EXCEPT ![b] = "queued"]
                      /\ UNCHANGED <<dropped, consumerVars>>

Enqueue(b) == /\ q' = Append(q, b)
              /\ fate' = [fate EXCEPT ![b] = "queued"]
              /\ NotifyNotEmpty
              /\ UNCHANGED <<dropped, cexpired>>

DropFull(b) == /\ dropped' = dropped + 1
               /\ fate' = [fate EXCEPT ![b] = "dropped"]
               /\ UNCHANGED <<q, consumerVars>>

RefuseClosed(b) == /\ fate' = [fate EXCEPT ![b] = "rejected"]
                   /\ UNCHANGED <<q, dropped, consumerVars>>

(* A call of push() up to its return or its first wait. *)
Push(p) ==
    /\ pc[p] = "idle"
    /\ pushes[p] < MaxPushes
    /\ pushes' = [pushes EXCEPT ![p] = @ + 1]
    /\ LET b == <<p, pushes[p] + 1>>
       IN \/ /\ closed
             /\ RefuseClosed(b)
             /\ UNCHANGED <<pc, expired>>
          \/ /\ ~closed /\ ~Full
             /\ Enqueue(b)
             /\ UNCHANGED <<pc, expired>>
          \/ /\ ~closed /\ Full
             /\ pc' = [pc EXCEPT ![p] = "waiting"]
             /\ expired' = [expired EXCEPT ![p] = FALSE]
             /\ UNCHANGED <<q, dropped, fate, consumerVars>>
    /\ UNCHANGED <<closed, closer>>

(* Mutant: closed_ is not looked at again after the wait. *)
PushResumeClosedUnseen(p) ==
    /\ pc[p] = "woken"
    /\ \/ ~Full /\ Enqueue(Block(p))
       \/ Full /\ DropFull(Block(p))
    /\ pc' = [pc EXCEPT ![p] = "idle"]
    /\ UNCHANGED <<closed, expired, pushes, closer>>

(* A woken producer has mtx_ again.  wait_for() evaluates its predicate; it *)
(* goes back to sleep only while the deadline is still ahead.               *)
PushResume(p) ==
    /\ pc[p] = "woken"
    /\ \/ /\ closed
          /\ RefuseClosed(Block(p))
          /\ pc' = [pc EXCEPT ![p] = "idle"]
       \/ /\ ~closed /\ ~Full
          /\ Enqueue(Block(p))
          /\ pc' = [pc EXCEPT ![p] = "idle"]
       \/ /\ ~closed /\ Full /\ expired[p]
          /\ DropFull(Block(p))
          /\ pc' = [pc EXCEPT ![p] = "idle"]
       \/ /\ ~closed /\ Full /\ ~expired[p]
          /\ pc' = [pc EXCEPT ![p] = "waiting"]
          /\ UNCHANGED <<q, dropped, fate, consumerVars>>
    /\ UNCHANGED <<closed, expired, pushes, closer>>

(* Mutant: wait() in the place of wait_for(). *)
PushExpireNever(p) == FALSE /\ pc[p] # "idle" /\ UNCHANGED vars

(* The deadline of a push() passes; it wakes the thread if it is asleep. *)
PushExpire(p) == /\ pc[p] # "idle"
                 /\ ~expired[p]
                 /\ expired' = [expired EXCEPT ![p] = TRUE]
                 /\ pc' = [pc EXCEPT ![p] = "woken"]
                 /\ UNCHANGED <<q, closed, dropped, pushes, consumerVars, closer, fate>>

PushSpurious(p) == /\ pc[p] = "waiting"
                   /\ pc' = [pc EXCEPT ![p] = "woken"]
                   /\ UNCHANGED <<q, closed, dropped, expired, pushes, consumerVars, closer, fate>>

-----------------------------------------------------------------------------
(* pop() and popFor() *)

(* Mutant: no notify_one() after pop_front(). *)
TakeFrontSilently == /\ q # <<>>
                     /\ q' = Tail(q)
                     /\ fate' = [fate EXCEPT ![Head(q)] = "taken"]
                     /\ cpc' = "idle"
                     /\ UNCHANGED pc

TakeFront == /\ q # <<>>
             /\ q' = Tail(q)
             /\ fate' = [fate EXCEPT ![Head(q)] = "taken"]
             /\ NotifyNotFull
             /\ cpc' = "idle"

(* A call up to its return or its first wait.  nullopt with timedOut false, *)
(* "closed and drained", ends the consumer's loop.                          *)
Pop == /\ cpc = "idle"
       /\ \/ TakeFront
          \/ /\ q = <<>>
             /\ cpc' = IF closed THEN "done" ELSE "waiting"
             /\ UNCHANGED <<q, pc, fate>>
       /\ cexpired' = FALSE
       /\ UNCHANGED <<closed, dropped, expired, pushes, closer>>

(* The woken consumer has mtx_ again.  After a timeout on an empty queue    *)
(* popFor() returns nullopt with timedOut true and the consumer calls again.*)
PopResume == /\ cpc = "woken"
             /\ \/ TakeFront
                \/ /\ q = <<>>
                   /\ cpc' = IF closed THEN "done"
                             ELSE IF cexpired THEN "idle" ELSE "waiting"
                   /\ UNCHANGED <<q, pc, fate>>
             /\ UNCHANGED <<closed, dropped, expired, pushes, cexpired, closer>>

PopExpire == /\ TimedPop
             /\ cpc \in {"waiting", "woken"}
             /\ ~cexpired
             /\ cexpired' = TRUE
             /\ cpc' = "woken"
             /\ UNCHANGED <<q, closed, dropped, pc, expired, pushes, closer, fate>>

PopSpurious == /\ cpc = "waiting"
               /\ cpc' = "woken"
               /\ UNCHANGED <<q, closed, dropped, pc, expired, pushes, cexpired, closer, fate>>

(* The consumer never calls again: writerLoop() leaves after a failed write. *)
ConsumerLeaves == /\ cpc = "idle"
                  /\ cpc' = "done"
                  /\ UNCHANGED <<q, closed, dropped, pc, expired, pushes, cexpired, closer, fate>>

-----------------------------------------------------------------------------
(* close(): closed_ is set under mtx_, the notifications come after it. *)

CloseSet == /\ closer = "open"
            /\ closed' = TRUE
            /\ closer' = "notifyEmpty"
            /\ UNCHANGED <<q, dropped, pc, expired, pushes, consumerVars, fate>>

(* Mutant: close() wakes the producers only. *)
CloseNotifyEmptyNot == /\ closer = "notifyEmpty"
                       /\ closer' = "notifyFull"
                       /\ UNCHANGED <<q, closed, dropped, pc, expired, pushes, consumerVars, fate>>

CloseNotifyEmpty == /\ closer = "notifyEmpty"
                    /\ NotifyNotEmpty
                    /\ closer' = "notifyFull"
                    /\ UNCHANGED <<q, closed, dropped, pc, expired, pushes, cexpired, fate>>

(* Mutant: notify_one() in the place of notify_all(). *)
CloseNotifyOne == /\ closer = "notifyFull"
                  /\ NotifyNotFull
                  /\ closer' = "closed"
                  /\ UNCHANGED <<q, closed, dropped, expired, pushes, consumerVars, fate>>

CloseNotifyFull == /\ closer = "notifyFull"
                   /\ NotifyAllNotFull
                   /\ closer' = "closed"
                   /\ UNCHANGED <<q, closed, dropped, expired, pushes, consumerVars, fate>>

-----------------------------------------------------------------------------
Producer(p) == Push(p) \/ PushResume(p) \/ PushExpire(p) \/ PushSpurious(p)

Consumer == Pop \/ PopResume \/ PopExpire \/ PopSpurious \/ ConsumerLeaves

Closer == CloseSet \/ CloseNotifyEmpty \/ CloseNotifyFull

Next == (\E p \in Producers : Producer(p)) \/ Consumer \/ Closer

(* A thread that holds or can get mtx_ runs on; the deadline of a push      *)
(* passes.  Nobody need ever call push(), close(), or pop() again after a   *)
(* failed write, but a consumer that has not left keeps calling.  Nothing   *)
(* is assumed of the consumer's deadline: pop(), which has none, is popFor()*)
(* where it never passes.                                                   *)
Fairness == /\ \A p \in Producers : WF_vars(PushResume(p)) /\ WF_vars(PushExpire(p))
            /\ WF_vars(Pop)
            /\ WF_vars(PopResume)
            /\ WF_vars(CloseNotifyEmpty)
            /\ WF_vars(CloseNotifyFull)

Spec == Init /\ [][Next]_vars

FairSpec == Spec /\ Fairness

-----------------------------------------------------------------------------
(* Properties *)

(* Every variable stays in its type; dropped_ and the queue are well formed. *)
TypeOK == /\ q \in Seq(Blocks)
          /\ closed \in BOOLEAN
          /\ dropped \in Nat
          /\ pc \in [Producers -> {"idle", "waiting", "woken"}]
          /\ expired \in [Producers -> BOOLEAN]
          /\ pushes \in [Producers -> 0 .. MaxPushes]
          /\ cpc \in {"idle", "waiting", "woken", "done"}
          /\ cexpired \in BOOLEAN
          /\ closer \in {"open", "notifyEmpty", "notifyFull", "closed"}
          /\ fate \in [Blocks -> Fates]

(* A slow disk can never grow memory without limit: producers that were      *)
(* woken together for one free place do not overfill the queue (push() looks *)
(* again after wait_for()).                                                  *)
CapacityRespected == Len(q) <= capacity

(* A consumer sleeps in pop()/popFor() only on an empty queue, and never     *)
(* once close() has notified it: no notify_one() of push() and no            *)
(* notify_all() of close() is lost.                                          *)
ConsumerSleepsSoundly ==
    cpc = "waiting" => /\ q = <<>>
                       /\ closer \in {"open", "notifyEmpty"}

(* Free places are never forgotten: while a producer sleeps for room in an   *)
(* open queue, at least as many producers as there are free places are awake *)
(* and on their way to take them.  One notify_one() per pop() is enough even *)
(* though a newcomer may take the place first.                               *)
RoomIsAnnounced ==
    (~closed /\ Waiting # {}) => capacity - Len(q) <= Cardinality(Woken)

(* When close() has returned no producer is asleep in push(), and none will  *)
(* fall asleep again: "close() wakes every waiter".                          *)
CloseWakesProducers == closer = "closed" => Waiting = {}

(* push() returns: within its deadline and a turn of mtx_, whatever the      *)
(* consumer does, even when it has left ("rather than blocking the reader    *)
(* forever").                                                                *)
PushReturns == \A p \in Producers : (pc[p] # "idle") ~> (pc[p] = "idle")

(* After close() the consumer drains the queue and its loop ends, although   *)
(* its wait in pop() has no deadline and nothing but close() may end it.     *)
ConsumerFinishes == closed ~> (cpc = "done")

(* The code implements the abstract queue: acceptance, loss, refusal and     *)
(* removal each happen at one instant, under the conditions BoundedQueue     *)
(* states, and in first-in first-out order.                                  *)
Abstract == INSTANCE BoundedQueue WITH Capacity <- capacity

ImplementsBoundedQueue == Abstract!QSpec
=============================================================================

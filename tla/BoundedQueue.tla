---------------------------- MODULE BoundedQueue ----------------------------
(***************************************************************************)
(* What a BlockQueue promises to the threads that share it, with no mutex, *)
(* condition variable or waiting in sight: every push ends in one of three *)
(* ways, decided by the state of the queue at a single instant, and what   *)
(* was accepted comes out in the order it went in.                         *)
(*                                                                         *)
(* BlockQueue.tla (the code) is shown to implement this module; BoardRunner*)
(* and Daq use it for the shared write queue and for the decode queues.    *)
(***************************************************************************)
EXTENDS Naturals, Sequences

CONSTANTS Blocks,     \* every block that may ever be pushed
          Capacity    \* the capacity_ of the queue

VARIABLES q,          \* q_: the blocks waiting, oldest first
          closed,     \* closed_
          dropped,    \* dropped_: pushes refused because the queue was full
          fate        \* what became of each block

qvars == <<q, closed, dropped, fate>>

Fates == {"new", "queued", "taken", "dropped", "rejected"}

Full == Len(q) >= Capacity

QInit == /\ q = <<>>
         /\ closed = FALSE
         /\ dropped = 0
         /\ fate = [b \in Blocks |-> "new"]

(* push() returned true. *)
Accept(b) == /\ fate[b] = "new"
             /\ ~closed
             /\ ~Full
             /\ q' = Append(q, b)
             /\ fate' = [fate EXCEPT ![b] = "queued"]
             /\ UNCHANGED <<closed, dropped>>

(* push() returned false and the loss is counted. *)
Drop(b) == /\ fate[b] = "new"
           /\ ~closed
           /\ Full
           /\ dropped' = dropped + 1
           /\ fate' = [fate EXCEPT ![b] = "dropped"]
           /\ UNCHANGED <<q, closed>>

(* push() returned false because of close(); dropped_ does not count it. *)
Reject(b) == /\ fate[b] = "new"
             /\ closed
             /\ fate' = [fate EXCEPT ![b] = "rejected"]
             /\ UNCHANGED <<q, closed, dropped>>

(* pop() or popFor() returned a block, also after close(). *)
Take == /\ q # <<>>
        /\ q' = Tail(q)
        /\ fate' = [fate EXCEPT ![Head(q)] = "taken"]
        /\ UNCHANGED <<closed, dropped>>

Close == /\ closed' = TRUE
         /\ UNCHANGED <<q, dropped, fate>>

QNext == \/ \E b \in Blocks : Accept(b) \/ Drop(b) \/ Reject(b)
         \/ Take
         \/ Close

QSpec == QInit /\ [][QNext]_qvars
=============================================================================

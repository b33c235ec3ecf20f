------------------------------ MODULE SpscFifo ------------------------------
(***************************************************************************)
(* What tap::sr::async::spsc_ring promises its two threads, with none of   *)
(* the means: a first-in first-out queue of at most Capacity elements that *)
(* accepts some of what is offered, hands out the oldest elements exactly  *)
(* once and in order, and may drop the oldest ones on request.             *)
(*                                                                         *)
(* Elements are numbered in the order the queue accepted them: the number  *)
(* stands for the sample, so order, loss and duplication show in it.       *)
(***************************************************************************)
EXTENDS Integers, Sequences

CONSTANT Capacity

VARIABLES
  queue,    \* the elements held, oldest first
  accepted, \* how many elements were ever accepted
  got       \* the batch the last successful read returned

fifoVars == <<queue, accepted, got>>

Batch(first, n) == [i \in 1..n |-> first + i - 1]

Init ==
  /\ queue = <<>>
  /\ accepted = 0
  /\ got = <<>>

(* write(): the k elements accepted go to the back; the rest is refused.   *)
Put(k) ==
  /\ k <= Capacity - Len(queue)
  /\ queue' = queue \o Batch(accepted, k)
  /\ accepted' = accepted + k
  /\ got' = got

(* read(): the k oldest elements, in order.                                *)
Take(k) ==
  /\ k <= Len(queue)
  /\ got' = SubSeq(queue, 1, k)
  /\ queue' = SubSeq(queue, k + 1, Len(queue))
  /\ accepted' = accepted

(* discard(): the k oldest elements are dropped, nobody sees them.         *)
Drop(k) ==
  /\ k <= Len(queue)
  /\ queue' = SubSeq(queue, k + 1, Len(queue))
  /\ UNCHANGED <<accepted, got>>

Next == \E k \in 1..Capacity : Put(k) \/ Take(k) \/ Drop(k)

Spec == Init /\ [][Next]_fifoVars

=============================================================================

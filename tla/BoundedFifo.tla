----------------------------- MODULE BoundedFifo -----------------------------
(***************************************************************************)
(* What a run-queue promises its users: a FIFO of thread handles holding  *)
(* at most Capacity of them.  Each enqueue and each dequeue takes effect   *)
(* at one instant; taken records the handles in the order dequeues took    *)
(* them.  A write refused because the queue is full, and a read that finds *)
(* it empty, change nothing.  DraftQueue.tla implements this module under  *)
(* the mapping AbsQueue for a single writer.                               *)
(***************************************************************************)
EXTENDS Naturals, Sequences

CONSTANTS
  Handles,   \* thread handles that can be enqueued
  Capacity   \* the most handles the queue holds

VARIABLES
  q,         \* the handles in the queue, oldest first
  taken      \* the handles dequeued so far, in order

Init == q = <<>> /\ taken = <<>>

Enq == \E v \in Handles : /\ Len(q) < Capacity
                          /\ q' = Append(q, v)
                          /\ UNCHANGED taken

Deq == /\ q # <<>>
       /\ taken' = Append(taken, Head(q))
       /\ q' = Tail(q)

Spec == Init /\ [][Enq \/ Deq]_<<q, taken>>
=============================================================================

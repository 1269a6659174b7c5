----------------------------- MODULE BoundedFifo -----------------------------
(***************************************************************************)
(* What a FIFO promises the modules around it: a bounded queue.  In a      *)
(* cycle the writer may add one item, the reader may take the oldest one,  *)
(* both may happen, and a clear empties it.                                *)
(***************************************************************************)
EXTENDS Integers, Sequences

CONSTANTS
  Data,       \* items
  Capacity    \* most items held

VARIABLE queue

Init == queue = <<>>

Put(d)      == Len(queue) < Capacity /\ queue' = Append(queue, d)
Take        == queue # <<>> /\ queue' = Tail(queue)
PutTake(d)  == /\ queue # <<>> /\ Len(queue) < Capacity
               /\ queue' = Append(Tail(queue), d)
Clear       == queue' = <<>>

Next == \/ \E d \in Data : Put(d) \/ PutTake(d)
        \/ Take
        \/ Clear

Spec == Init /\ [][Next]_queue
=============================================================================

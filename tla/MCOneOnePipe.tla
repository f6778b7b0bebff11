---------------------------- MODULE MCOneOnePipe ----------------------------
(* OneOnePipe for TLC, and the queue it implements. *)
EXTENDS OneOnePipe

\* The elements in the slots the consumer has still to visit.
Contents == [i \in 1 .. Distance(tailPos, cHead) |-> internalArray[(cHead + i - 1) % Capacity]]

Queue == INSTANCE BoundedFifo WITH
  Bound <- Capacity - 1, queue <- Contents, put <- accepted, got <- last

\* The ring is a bounded queue: what its slots hold changes only by one put at
\* the back or one get at the front (OneOnePipe::enqueue, dequeue, dequeueAll).
ImplementsBoundedFifo == Queue!Spec

=============================================================================

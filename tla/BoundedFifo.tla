---------------------------- MODULE BoundedFifo ----------------------------
(***************************************************************************)
(* What a OneOnePipe promises: a queue of at most Bound elements between    *)
(* one producer and one consumer.  The n-th element put is the number n.    *)
(***************************************************************************)
EXTENDS Integers, Sequences

CONSTANT Bound

VARIABLES queue, put, got

vars == <<queue, put, got>>

Put ==
  /\ Len(queue) < Bound
  /\ put' = put + 1
  /\ queue' = Append(queue, put')
  /\ UNCHANGED got

Get ==
  /\ queue # <<>>
  /\ got' = Head(queue)
  /\ queue' = Tail(queue)
  /\ UNCHANGED put

Init == queue = <<>> /\ put = 0 /\ got = 0

Next == Put \/ Get

Spec == Init /\ [][Next]_vars

=============================================================================

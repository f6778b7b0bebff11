------------------------------- MODULE Outbox -------------------------------
(***************************************************************************)
(* What a UdpSender promises: datagrams leave one at a time and in the     *)
(* order in which they were queued; all that wait may be thrown away at    *)
(* once, but never only some of them; nothing is sent that was not queued. *)
(* It may break, with the loss of one datagram: then none leaves it again. *)
(***************************************************************************)
EXTENDS Naturals, Sequences

VARIABLES
  outbox,    \* the datagrams waiting
  last,      \* the last datagram queued
  inFlight,  \* the datagrams given to the socket that have not completed
  sent,      \* the last datagram given to the socket
  broken

vars == <<outbox, last, inFlight, sent, broken>>

Init == outbox = <<>> /\ last = 0 /\ inFlight = 0 /\ sent = 0 /\ ~broken

Queue ==
  /\ last' >= last
  /\ outbox' = outbox \o [i \in 1 .. last' - last |-> last + i]
  /\ UNCHANGED <<inFlight, sent, broken>>

Send ==
  /\ outbox # <<>> /\ inFlight = 0 /\ ~broken
  /\ sent' = Head(outbox)
  /\ outbox' = Tail(outbox)
  /\ inFlight' = 1
  /\ UNCHANGED <<last, broken>>

Complete == inFlight = 1 /\ inFlight' = 0 /\ UNCHANGED <<outbox, last, sent, broken>>

ThrowAll == ~broken /\ outbox' = <<>> /\ UNCHANGED <<last, inFlight, sent, broken>>

\* The oldest datagram is lost, with nothing under way.
Break ==
  /\ outbox # <<>> /\ inFlight = 0
  /\ ~broken /\ broken'
  /\ outbox' = Tail(outbox)
  /\ UNCHANGED <<last, inFlight, sent>>

Next == Queue \/ Send \/ Complete \/ ThrowAll \/ Break

Spec == Init /\ [][Next]_vars

=============================================================================

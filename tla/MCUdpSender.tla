---------------------------- MODULE MCUdpSender ----------------------------
(* UdpSender for TLC, and the outbox it implements. *)
EXTENDS UdpSender

CONSTANTS c1, c2, w1, w2

\* Two datagrams to one target, or one to each of two; and one or two to one target.
Several  == {<<2>>, <<1, 1>>}
OneOrTwo == {<<1>>, <<2>>}

Out == INSTANCE Outbox WITH outbox <- Waiting, last <- queued, inFlight <- sends, broken <- Threw

\* The sender is an outbox: one datagram at a time is given to the socket, the
\* oldest, and what else leaves the queue leaves with all of it (UdpSender::doSend), but
\* for the datagram that an exception of bytesCounter leaves in sendBuff, the last to leave.
ImplementsOutbox == Out!Spec

=============================================================================

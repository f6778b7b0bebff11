--------------------------- MODULE MCTransceiver ---------------------------
(* Transceiver for TLC: two streams, and the fewest pipes that are enough.
   Pipes are interchangeable. *)
EXTENDS Transceiver, TLC

CONSTANTS s1, s2, p1, p2, p3, p4

MCStreams == {s1, s2}
MCPipes   == {p1, p2, p3, p4}
Symmetry  == Permutations(MCPipes)

=============================================================================

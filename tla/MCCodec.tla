------------------------------ MODULE MCCodec ------------------------------
(* Codec for TLC: two decoders that share two channel ids, or one encoder. *)
EXTENDS Codec

CONSTANTS d1, d2, e1

MCDecoders  == {d1, d2}
MCEncoders  == {e1}
MCMaxOpens  == [c \in {d1, d2, e1} |-> IF c = d2 THEN 1 ELSE 2]
MCScenarios == {{d1, d2}, {e1}}

=============================================================================

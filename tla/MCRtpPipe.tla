----------------------------- MODULE MCRtpPipe -----------------------------
(* RtpPipe for TLC, and the reorder buffer it implements. *)
EXTENDS RtpPipe

OneSource  == { <<"s1", "p1">> }
TwoSources == { <<"s1", "p1">>, <<"s2", "p1">>, <<"s1", "p2">> }

Buffer == INSTANCE ReorderBuffer WITH
  newest <- lastSeq,
  next   <- NextSeq,
  held   <- Held

\* The ring with its two cursors delivers exactly what a set of held packets
\* and a window of undecided sequence numbers deliver (RtpPipe::updateData).
ImplementsReorderBuffer == Buffer!Spec

=============================================================================

--------------------------- MODULE MCRecvWorker ---------------------------
(* RecvWorker for TLC: every mode, every queue watched, and three ways to set
   the notifiers. *)
EXTENDS RecvWorker

CONSTANTS n1, n2, n3

Apart   == [rtp |-> n1, rtcp |-> n2, udp |-> n3]
Shared  == [rtp |-> n1, rtcp |-> n1, udp |-> n1]
RtpOnly == [rtp |-> n1, rtcp |-> NoNotifier, udp |-> NoNotifier]

Setup(mode, notifier_, watched) == [mode |-> mode, notifier |-> notifier_, watched |-> watched]

MCConfigs ==
  { Setup("reorder", Apart, q) : q \in Queues } \cup
  { Setup("reorder", Shared, "udp"), Setup("reorder", RtpOnly, "rtp"),
    Setup("plain", Apart, "rtp"), Setup("plain", Shared, "rtcp"),
    Setup("udp", Apart, "udp"), Setup("udp", RtpOnly, "rtp") }

=============================================================================

---------------------------- MODULE RecvWorker ----------------------------
(***************************************************************************)
(* RtpTransceiver::recvWorker of include/rtpTrs/rtpTrs.hpp, the rings it   *)
(* empties, the queues it fills, the notifiers it rings, and one thread    *)
(* that takes what has been received.                                      *)
(*                                                                         *)
(* A datagram is the number of its arrival; whether it is valid RTP is     *)
(* decided when the worker looks.  A ring is the bounded queue that        *)
(* OneOnePipe implements, the pipes are what they hold and hand out        *)
(* (RtpPipe).  Neither condition variable has a predicate: who is notified *)
(* is woken only if it waits, and every wait may end by its timeout.       *)
(***************************************************************************)
EXTENDS Integers, Sequences, FiniteSets, SequencesExt

CONSTANTS
  Configs,       \* how the transceiver is set up; see ConfigAssumption
  NoNotifier,
  RingSize,      \* what a OneOnePipe of 200 slots holds: 199
  MaxDatagrams   \* bound: datagrams that arrive

Sockets == {"rtp", "rtcp"}
Queues  == {"rtp", "rtcp", "udp"}

\* The queues whose notifiers the worker looks at before that of q.
Before(q) == CASE q = "rtp" -> {} [] q = "rtcp" -> {"rtp"} [] q = "udp" -> {"rtp", "rtcp"}

\* mode is "udp" for recvUdpOnly, "plain" for reorderSize_ = 0, and "reorder";
\* watched is the queue that the modelled thread takes from.
ASSUME ConfigAssumption ==
  /\ Configs # {}
  /\ \A c \in Configs : /\ c.mode \in {"udp", "plain", "reorder"}
                        /\ c.watched \in Queues
                        /\ DOMAIN c.notifier = Queues
  /\ RingSize \in Nat /\ MaxDatagrams \in Nat

VARIABLES
  config,        \* set before open2, and then left alone
  arrived,       \* datagrams that have arrived
  ring,          \* rtpRecvBuffQueue, rtcpRecvBuffQueue
  working,       \* rtpWorkingQueue, rtcpWorkingQueue
  pipe,          \* what the pipes hold
  out,           \* recvRtpQueue, recvRtcpQueue, recvUdpQueue
  empty,         \* recvRtpQueueEmpty, ...
  got,           \* the queues for which gotRtp, gotRtcp, gotUdp is set
  busy,          \* not (recvRtpSize == 0 && recvRtcpSize == 0)
  stopRecvWorker,
  pc,            \* where the worker is
  call,          \* where the thread is that takes from the watched queue
  taken,         \* what it has taken
  unannounced    \* queues that got data since their notifier was last notified

worker == <<working, pipe, got, busy>>
caller == <<call, taken>>
vars   == <<config, arrived, ring, worker, out, empty, stopRecvWorker, pc, caller, unannounced>>

notifier == config.notifier

Goto(from, to) == pc = from /\ pc' = to

-----------------------------------------------------------------------------
(* pushUdp of the two processors: enqueue, then notify_one without a lock.  *)
(* An RTCP datagram is cut into packets and only the last is followed by a  *)
(* notification; here each packet is a step that may or may not notify.     *)

Woken == IF pc = "waiting" THEN "woken" ELSE pc

\* Slip: a full ring takes one more.
PushAlways(s) ==
  /\ arrived < MaxDatagrams
  /\ arrived' = arrived + 1
  /\ ring' = [ring EXCEPT ![s] = Append(@, arrived + 1)]
  /\ pc' = Woken
  /\ UNCHANGED <<config, worker, out, empty, stopRecvWorker, caller, unannounced>>

Push(s) ==
  /\ arrived < MaxDatagrams
  /\ arrived' = arrived + 1
  /\ ring' = IF Len(ring[s]) < RingSize THEN [ring EXCEPT ![s] = Append(@, arrived + 1)] ELSE ring
  /\ pc' = Woken \/ (s = "rtcp" /\ pc' = pc)
  /\ UNCHANGED <<config, worker, out, empty, stopRecvWorker, caller, unannounced>>

-----------------------------------------------------------------------------
(* recvWorker. *)

DequeueRtp ==
  /\ Goto("rtp", "deal")
  /\ working' = [working EXCEPT !["rtp"] = @ \o ring["rtp"]]
  /\ ring' = [ring EXCEPT !["rtp"] = <<>>]
  /\ got' = {}
  /\ busy' = (working'["rtp"] # <<>>)
  /\ UNCHANGED <<config, arrived, pipe, out, empty, stopRecvWorker, caller, unannounced>>

\* The datagrams s are appended to a queue, under its mutex.
Deliver(q, s) ==
  /\ out' = [out EXCEPT ![q] = @ \o s]
  /\ empty' = [empty EXCEPT ![q] = FALSE]
  /\ got' = got \cup {q}
  /\ unannounced' = unannounced \cup {q}

\* recvUdpOnly, and no reordering: all at once.
\* Slip: the datagrams moved stay in the working queue.
DealAllTwice(q) ==
  /\ pc = "deal" /\ working["rtp"] # <<>>
  /\ Deliver(q, working["rtp"])
  /\ working' = working
  /\ pc' = "rtcp"
  /\ UNCHANGED <<config, arrived, ring, pipe, busy, stopRecvWorker, caller>>

DealAll(q) ==
  /\ pc = "deal" /\ working["rtp"] # <<>>
  /\ Deliver(q, working["rtp"])
  /\ working' = [working EXCEPT !["rtp"] = <<>>]
  /\ pc' = "rtcp"
  /\ UNCHANGED <<config, arrived, ring, pipe, busy, stopRecvWorker, caller>>

\* Not valid RTP: for the UDP queue if somebody is notified of it, else dropped.
DealOther ==
  /\ pc = "deal" /\ working["rtp"] # <<>>
  /\ working' = [working EXCEPT !["rtp"] = Tail(@)]
  /\ IF notifier["udp"] # NoNotifier
     THEN Deliver("udp", <<Head(working["rtp"])>>)
     ELSE UNCHANGED <<out, empty, got, unannounced>>
  /\ UNCHANGED <<config, arrived, ring, pipe, busy, stopRecvWorker, pc, caller>>

\* What reorderRtp may put out when the pipes hold S: some of it, in any order.
Outputs(S) == { s \in UNION { [1 .. n -> S] : n \in 0 .. Cardinality(S) } : IsInjective(s) }

\* The pipes keep or drop what they do not put out.
DealRtp ==
  /\ pc = "deal" /\ working["rtp"] # <<>>
  /\ working' = [working EXCEPT !["rtp"] = Tail(@)]
  /\ LET held == pipe \cup {Head(working["rtp"])}
     IN  \E s \in Outputs(held) :
           /\ pipe' \in SUBSET (held \ Range(s))
           /\ IF s # <<>>
              THEN Deliver("rtp", s)
              ELSE /\ empty' = [empty EXCEPT !["rtp"] = (out["rtp"] = <<>>)]
                   /\ UNCHANGED <<out, got, unannounced>>
  /\ UNCHANGED <<config, arrived, ring, busy, stopRecvWorker, pc, caller>>

\* With recvUdpOnly and nobody to notify the working queue is left as it is.
Deaf == config.mode = "udp" /\ notifier["udp"] = NoNotifier

DealNothing ==
  /\ Goto("deal", "rtcp")
  /\ Deaf \/ working["rtp"] = <<>>
  /\ UNCHANGED <<config, arrived, ring, worker, out, empty, stopRecvWorker, caller, unannounced>>

Deal ==
  \/ config.mode = "udp" /\ ~Deaf /\ DealAll("udp")
  \/ config.mode = "plain" /\ DealAll("rtp")
  \/ config.mode = "reorder" /\ (DealOther \/ DealRtp)
  \/ DealNothing

DequeueRtcp ==
  /\ Goto("rtcp", "dealRtcp")
  /\ working' = [working EXCEPT !["rtcp"] = @ \o ring["rtcp"]]
  /\ ring' = [ring EXCEPT !["rtcp"] = <<>>]
  /\ busy' = (busy \/ working'["rtcp"] # <<>>)
  /\ UNCHANGED <<config, arrived, pipe, out, empty, got, stopRecvWorker, caller, unannounced>>

DealRtcp ==
  /\ pc = "dealRtcp" /\ working["rtcp"] # <<>>
  /\ working' = [working EXCEPT !["rtcp"] = Tail(@)]
  /\ IF notifier["rtcp"] # NoNotifier
     THEN Deliver("rtcp", <<Head(working["rtcp"])>>)
     ELSE UNCHANGED <<out, empty, got, unannounced>>
  /\ UNCHANGED <<config, arrived, ring, pipe, busy, stopRecvWorker, pc, caller>>

DealtRtcp ==
  /\ Goto("dealRtcp", "notify")
  /\ working["rtcp"] = <<>>
  /\ UNCHANGED <<config, arrived, ring, worker, out, empty, stopRecvWorker, caller, unannounced>>

\* Slip: nobody is notified of datagrams that are not RTP.
NotifiesNotUdp(q) ==
  /\ q \in got \ {"udp"} \/ stopRecvWorker
  /\ notifier[q] # NoNotifier
  /\ \A p \in Before(q) : notifier[p] # notifier[q]

\* A notifier that two queues share is notified for the first of them only.
Notifies(q) ==
  /\ q \in got \/ stopRecvWorker
  /\ notifier[q] # NoNotifier
  /\ \A p \in Before(q) : notifier[p] # notifier[q]

Notify ==
  /\ Goto("notify", "test")
  /\ LET notified == { notifier[q] : q \in { p \in Queues : Notifies(p) } }
     IN  /\ unannounced' = { q \in unannounced : notifier[q] \notin notified }
         /\ call' = IF call = "waiting" /\ notifier[config.watched] \in notified THEN "receive" ELSE call
  /\ UNCHANGED <<config, arrived, ring, worker, out, empty, stopRecvWorker, taken>>

Test ==
  /\ Goto("test", IF busy THEN "rtp" ELSE "waiting")
  /\ UNCHANGED <<config, arrived, ring, worker, out, empty, stopRecvWorker, caller, unannounced>>

\* Slip: the worker waits until it is notified.
TimeoutNever == FALSE /\ UNCHANGED vars

\* The wait of 100 ms.
WorkerTimeout ==
  /\ Goto("waiting", "woken")
  /\ UNCHANGED <<config, arrived, ring, worker, out, empty, stopRecvWorker, caller, unannounced>>

\* The only place where the worker can end.
WakeUp ==
  /\ Goto("woken", IF stopRecvWorker THEN "exited" ELSE "rtp")
  /\ UNCHANGED <<config, arrived, ring, worker, out, empty, stopRecvWorker, caller, unannounced>>

-----------------------------------------------------------------------------
(* The thread that takes from the watched queue: receiveRtp, receiveRtcp or *)
(* receiveUdp, and Notifier::waitNotify when there was nothing.             *)

q0 == config.watched

Receive ==
  /\ call = "receive"
  /\ call' = IF empty[q0] THEN "nothing" ELSE "swap"
  /\ UNCHANGED <<config, arrived, ring, worker, out, empty, stopRecvWorker, pc, taken, unannounced>>

Swap ==
  /\ call = "swap" /\ call' = "receive"
  /\ IF out[q0] # <<>>
     THEN /\ taken' = taken \o out[q0]
          /\ out' = [out EXCEPT ![q0] = <<>>]
          /\ empty' = [empty EXCEPT ![q0] = TRUE]
     ELSE UNCHANGED <<taken, out, empty>>
  /\ UNCHANGED <<config, arrived, ring, worker, stopRecvWorker, pc, unannounced>>

WaitNotify ==
  /\ call = "nothing" /\ call' = "waiting"
  /\ UNCHANGED <<config, arrived, ring, worker, out, empty, stopRecvWorker, pc, taken, unannounced>>

CallerTimeout ==
  /\ call = "waiting" /\ call' = "receive"
  /\ UNCHANGED <<config, arrived, ring, worker, out, empty, stopRecvWorker, pc, taken, unannounced>>

-----------------------------------------------------------------------------
(* RtpTransceiver::close, as far as the worker goes. *)

Stop ==
  /\ ~stopRecvWorker /\ stopRecvWorker' = TRUE
  /\ pc' = Woken
  /\ UNCHANGED <<config, arrived, ring, worker, out, empty, caller, unannounced>>

-----------------------------------------------------------------------------

Init ==
  /\ config \in Configs
  /\ arrived = 0
  /\ ring = [s \in Sockets |-> <<>>] /\ working = [s \in Sockets |-> <<>>]
  /\ pipe = {}
  /\ out = [q \in Queues |-> <<>>] /\ empty = [q \in Queues |-> TRUE]
  /\ got = {} /\ busy = FALSE
  /\ stopRecvWorker = FALSE
  /\ pc = "rtp"
  /\ call = "receive" /\ taken = <<>>
  /\ unannounced = {}

recvWorker ==
  DequeueRtp \/ Deal \/ DequeueRtcp \/ DealRtcp \/ DealtRtcp \/ Notify \/ Test \/ WorkerTimeout \/ WakeUp

Taking == Receive \/ Swap \/ WaitNotify \/ CallerTimeout

Next ==
  \/ \E s \in Sockets : Push(s)
  \/ recvWorker
  \/ Taking
  \/ Stop

Spec == Init /\ [][Next]_vars

\* Threads are scheduled and waits time out; nothing has to arrive or to be closed.
FairSpec == Spec /\ WF_vars(recvWorker) /\ WF_vars(Taking)

-----------------------------------------------------------------------------
(* The properties. *)

Places == {"rtp", "deal", "rtcp", "dealRtcp", "notify", "test", "waiting", "woken", "exited"}

TypeOK ==
  /\ config \in Configs
  /\ arrived \in 0 .. MaxDatagrams
  /\ ring \in [Sockets -> Seq(1 .. arrived)] /\ working \in [Sockets -> Seq(1 .. arrived)]
  /\ \A s \in Sockets : Len(ring[s]) <= RingSize
  /\ pipe \subseteq 1 .. arrived
  /\ out \in [Queues -> Seq(1 .. arrived)]
  /\ empty \in [Queues -> BOOLEAN]
  /\ got \subseteq Queues /\ busy \in BOOLEAN /\ stopRecvWorker \in BOOLEAN
  /\ pc \in Places
  /\ call \in {"receive", "swap", "nothing", "waiting"}
  /\ taken \in Seq(1 .. arrived)
  /\ unannounced \subseteq Queues

Increasing(s) == \A i, j \in DOMAIN s : i < j => s[i] < s[j]

\* What has come out of a queue and what is in it.
Line(q) == (IF q = q0 THEN taken ELSE <<>>) \o out[q]

Behind(s) == working[s] \o ring[s]

InOrder ==
  /\ Increasing(Line("rtcp") \o Behind("rtcp"))
  /\ Increasing(Line("udp") \o Behind("rtp"))
  /\ config.mode # "reorder" => Increasing(Line("rtp") \o Behind("rtp"))

Once ==
  /\ IsInjective(Line("rtp"))
  /\ pipe \cap (Range(Line("rtp")) \cup Range(Behind("rtp"))) = {}
  /\ Range(Line("rtp")) \cap Range(Behind("rtp")) = {}
  /\ Range(Line("udp")) \cap (Range(Line("rtp")) \cup pipe) = {}

\* RTCP, datagrams that are not RTP, and without reordering RTP too, are handed on
\* in the order of their arrival.  With reordering every datagram still goes one way
\* only, through the pipes or not, and never a second time (recvWorker, receiveRtp).
ReceivedOnceInOrder == InOrder /\ Once

\* When the worker goes to wait, everybody has been told of new data, but those
\* whose notifier is also that of a queue looked at before (recvWorker).
AnnouncedUnlessShared ==
  pc \in {"test", "waiting", "woken", "exited"} =>
    \A q \in unannounced :
      \/ notifier[q] = NoNotifier
      \/ \E p \in Before(q) : notifier[p] = notifier[q]

InFlight(n) ==
  \/ \E s \in Sockets : n \in Range(Behind(s))
  \/ n \in Range(out[q0])

\* With recvUdpOnly and no notifier the worker keeps what it got for ever, and never waits.
Spinning == Deaf /\ working["rtp"] # <<>>

\* A datagram in a ring is dropped, kept by a pipe, or taken in the end, although
\* notifications are lost: the waits time out and the queues are looked at again.
Received ==
  \A n \in 1 .. MaxDatagrams : InFlight(n) ~> (~InFlight(n) \/ Spinning \/ pc = "exited")

\* The worker ends after the stop, which close waits for, unless it spins.
WorkerStops == stopRecvWorker ~> (pc = "exited" \/ Spinning)

=============================================================================

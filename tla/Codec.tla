------------------------------- MODULE Codec -------------------------------
(***************************************************************************)
(* The life of the Decoders and Encoders of include/acle/aclengine.hpp:    *)
(* open and its failures, the report thread and its flag isWork, the       *)
(* queue that the callbacks fill, close, the destructor; and the channel   *)
(* ids that all decoders share.                                            *)
(*                                                                         *)
(* One thread uses a codec at a time and does not open it while it is      *)
(* open.  What is decoded or encoded is only counted.  The library is      *)
(* external: its calls may fail, and it runs the callback of a frame on    *)
(* the report thread.                                                      *)
(***************************************************************************)
EXTENDS Integers, Sequences, FiniteSets

CONSTANTS
  Decoders, Encoders,
  Scenarios,      \* the sets of codecs that are constructed together
  ChannelMax,     \* VIDEO_CHANNEL_MAX, 256
  Capacity,       \* of a SafeQueue, 10
  MaxOpens,       \* bound: threads of each codec
  MaxInFlight     \* bound: frames the library has of each codec

Codecs == Decoders \cup Encoders

ASSUME CodecAssumption ==
  /\ Decoders \cap Encoders = {}
  /\ Scenarios \subseteq SUBSET Codecs
  /\ ChannelMax \in Nat /\ Capacity \in Nat \ {0} /\ MaxOpens \in [Codecs -> Nat] /\ MaxInFlight \in Nat

Ids == 0 .. ChannelMax - 1
INVALID_CHANNEL_ID == -1

VARIABLES
  idsUsed,      \* channelId_ of the generator
  channelId_,   \* of each decoder
  channel,      \* the channel of each codec is created
  needClose,
  isWork,
  threads,      \* the report threads that each codec has started
  frames,       \* what the library has
  queue,        \* frameQueue, pakcetQueue
  at,           \* where the user's call is
  gone,         \* not or no longer constructed
  hasty,        \* close found isWork not yet set
  failed,       \* an open failed
  opened,       \* an open was called
  reopened,     \* a decoder was opened after it had been opened or closed
  stray         \* a decoder that nobody had opened was closed

ids   == <<idsUsed, channelId_, reopened, stray>>
data  == <<frames, queue>>
notes == <<hasty, failed, opened>>
vars  == <<ids, channel, needClose, isWork, threads, data, at, gone, notes>>

Idle(c) == at[c] = "idle" /\ ~gone[c]

-----------------------------------------------------------------------------
(* open. *)

\* The parts of open that both codecs have: n threads are started, the channel is
\* created or not, and ok is the success of all of it.
Open(c, n, created, ok) ==
  /\ Idle(c)
  /\ ok => created
  /\ created => n = 1
  /\ Len(threads[c]) < MaxOpens[c]
  /\ threads' = [threads EXCEPT ![c] = IF n = 1 THEN Append(@, "started") ELSE @]
  /\ channel' = [channel EXCEPT ![c] = created]
  /\ failed' = [failed EXCEPT ![c] = @ \/ ~ok]
  /\ opened' = [opened EXCEPT ![c] = TRUE]
  /\ UNCHANGED <<isWork, data, at, gone, hasty>>

Free == Ids \ idsUsed

\* GenerateChannelId: the first free id, or none.
Generated == IF Free = {} THEN INVALID_CHANNEL_ID ELSE CHOOSE i \in Free : \A j \in Free : i <= j

\* Without an id open fails before it starts a thread.  The channel is its last step.
OpenDecoder(d) ==
  \E n \in {0, 1}, ok \in BOOLEAN :
    /\ ~channel[d] /\ Open(d, n, ok, ok)
    /\ Generated = INVALID_CHANNEL_ID => n = 0
    /\ idsUsed' = idsUsed \cup ({Generated} \cap Ids)
    /\ channelId_' = [channelId_ EXCEPT ![d] = Generated]
    /\ reopened' = (reopened \/ opened[d] \/ ~needClose[d])
    /\ UNCHANGED <<needClose, stray>>

\* The channel may be there when a later step fails, but only a success asks for a close.
OpenEncoder(e) ==
  \E n \in {0, 1}, created \in BOOLEAN, ok \in BOOLEAN :
    /\ ~needClose[e] /\ Open(e, n, created, ok)
    /\ needClose' = [needClose EXCEPT ![e] = ok]
    /\ UNCHANGED ids

-----------------------------------------------------------------------------
(* The report threads. *)

State(c, i) == IF i \in DOMAIN threads[c] THEN threads[c][i] ELSE "none"

Becomes(c, i, from, to) ==
  /\ State(c, i) = from
  /\ threads' = [threads EXCEPT ![c][i] = to]

\* The thread says that it works, whether it was told to stop before or not.
SetIsWork(c, i) ==
  /\ Becomes(c, i, "started", "looping")
  /\ isWork' = [isWork EXCEPT ![c] = TRUE]
  /\ UNCHANGED <<ids, channel, needClose, data, at, gone, notes>>

\* An encoder's thread that cannot set the context; a cancelled one.
ThreadFails(e, i) ==
  /\ Becomes(e, i, "started", "ended") \/ (at[e] = "join" /\ i = Len(threads[e]) /\ Becomes(e, i, "looping", "ended"))
  /\ UNCHANGED <<ids, channel, needClose, isWork, data, at, gone, notes>>

\* What is read of a codec that is gone is undefined.
LoopEnds(c, i) ==
  /\ ~isWork[c] \/ gone[c]
  /\ Becomes(c, i, "looping", "ended")
  /\ UNCHANGED <<ids, channel, needClose, isWork, data, at, gone, notes>>

\* The channel was made with the thread of the last open.
Reporter(c) == State(c, Len(threads[c]))

\* Slip: the queue has no limit.
CallbackAlways(c) ==
  /\ Reporter(c) = "looping"
  /\ frames[c] > 0 /\ frames' = [frames EXCEPT ![c] = @ - 1]
  /\ queue' = [queue EXCEPT ![c] = @ + 1]
  /\ UNCHANGED <<ids, channel, needClose, isWork, threads, at, gone, notes>>

\* callback: an error, a full queue, or for a decoder a stop, lose what was made.
Callback(c) ==
  /\ Reporter(c) = "looping"
  /\ frames[c] > 0 /\ frames' = [frames EXCEPT ![c] = @ - 1]
  /\ \/ UNCHANGED queue
     \/ /\ c \in Decoders => isWork[c]
        /\ queue[c] < Capacity
        /\ queue' = [queue EXCEPT ![c] = @ + 1]
  /\ UNCHANGED <<ids, channel, needClose, isWork, threads, at, gone, notes>>

-----------------------------------------------------------------------------
(* readFrame and writeFrame: a frame is sent, then one is taken if there is one. *)

Send(c) ==
  /\ Idle(c) /\ channel[c] /\ frames[c] < MaxInFlight
  /\ frames' = [frames EXCEPT ![c] = @ + 1]
  /\ at' = [at EXCEPT ![c] = "take"]
  /\ UNCHANGED <<ids, channel, needClose, isWork, threads, queue, gone, notes>>

Take(c) ==
  /\ at[c] = "take" /\ at' = [at EXCEPT ![c] = "idle"]
  /\ queue' = [queue EXCEPT ![c] = IF @ > 0 THEN @ - 1 ELSE 0]
  /\ UNCHANGED <<ids, channel, needClose, isWork, threads, frames, gone, notes>>

-----------------------------------------------------------------------------
(* close, and the destructor that calls it. *)

\* The end is sent like a frame.  The encoder's carries no user data, so that no queue gets it.
SendEos(c) ==
  /\ Idle(c) /\ needClose[c]
  /\ at' = [at EXCEPT ![c] = "stop"]
  /\ needClose' = [needClose EXCEPT ![c] = c \in Decoders]
  /\ \/ UNCHANGED frames
     \/ c \in Decoders /\ channel[c] /\ frames' = [frames EXCEPT ![c] = @ + 1]
  /\ UNCHANGED <<ids, channel, isWork, threads, queue, gone, notes>>

\* Slip: the flag is left.
StopNot(c) ==
  /\ at[c] = "stop" /\ at' = [at EXCEPT ![c] = "destroy"]
  /\ hasty' = [hasty EXCEPT ![c] = @ \/ ~isWork[c]]
  /\ UNCHANGED <<ids, channel, needClose, isWork, threads, data, gone, failed, opened>>

\* An encoder remembers in flag whether isWork was set.
Stop(c) ==
  /\ at[c] = "stop"
  /\ at' = [at EXCEPT ![c] = IF c \in Encoders /\ isWork[c] THEN "destroyAndJoin" ELSE "destroy"]
  /\ hasty' = [hasty EXCEPT ![c] = @ \/ ~isWork[c]]
  /\ isWork' = [isWork EXCEPT ![c] = FALSE]
  /\ UNCHANGED <<ids, channel, needClose, threads, data, gone, failed, opened>>

DestroyChannel(c) ==
  /\ channel' = [channel EXCEPT ![c] = FALSE]
  /\ frames' = [frames EXCEPT ![c] = 0]

\* Slip: the id is kept.
CloseDecoderKeepsId(d) ==
  /\ at[d] = "destroy" /\ at' = [at EXCEPT ![d] = "idle"]
  /\ DestroyChannel(d)
  /\ queue' = [queue EXCEPT ![d] = 0]
  /\ needClose' = [needClose EXCEPT ![d] = FALSE]
  /\ stray' = (stray \/ ~opened[d])
  /\ UNCHANGED <<idsUsed, channelId_, reopened, isWork, threads, gone, notes>>

\* unsubscribReportThread does nothing, as stream_ is never set: nobody waits for the
\* thread.  A decoder that nobody opened gives back id 0, with which channelId_ begins.
CloseDecoder(d) ==
  /\ at[d] = "destroy" /\ at' = [at EXCEPT ![d] = "idle"]
  /\ DestroyChannel(d)
  /\ queue' = [queue EXCEPT ![d] = 0]
  /\ idsUsed' = idsUsed \ {channelId_[d]}
  /\ needClose' = [needClose EXCEPT ![d] = FALSE]
  /\ stray' = (stray \/ ~opened[d])
  /\ UNCHANGED <<channelId_, reopened, isWork, threads, gone, notes>>

CloseEncoder(e) ==
  /\ \/ at[e] = "destroy" /\ at' = [at EXCEPT ![e] = "idle"]
     \/ at[e] = "destroyAndJoin" /\ at' = [at EXCEPT ![e] = "join"]
  /\ DestroyChannel(e)
  /\ UNCHANGED <<ids, needClose, isWork, threads, queue, gone, notes>>

\* Slip: the thread is cancelled but not joined.
JoinNot(e) ==
  /\ at[e] = "join" /\ at' = [at EXCEPT ![e] = "idle"]
  /\ UNCHANGED <<ids, channel, needClose, isWork, threads, data, gone, notes>>

\* The last thread that was created is cancelled and joined.
Join(e) ==
  /\ at[e] = "join" /\ at' = [at EXCEPT ![e] = "idle"]
  /\ threads[e][Len(threads[e])] = "ended"
  /\ UNCHANGED <<ids, channel, needClose, isWork, threads, data, gone, notes>>

Destruct(c) ==
  /\ Idle(c) /\ ~needClose[c]
  /\ gone' = [gone EXCEPT ![c] = TRUE]
  /\ UNCHANGED <<ids, channel, needClose, isWork, threads, data, at, notes>>

-----------------------------------------------------------------------------

Init ==
  /\ idsUsed = {} /\ channelId_ = [d \in Decoders |-> 0]
  /\ channel = [c \in Codecs |-> FALSE]
  /\ needClose = [c \in Codecs |-> c \in Decoders]
  /\ isWork = [c \in Codecs |-> FALSE]
  /\ threads = [c \in Codecs |-> <<>>]
  /\ frames = [c \in Codecs |-> 0] /\ queue = [c \in Codecs |-> 0]
  /\ at = [c \in Codecs |-> "idle"]
  /\ \E exist \in Scenarios : gone = [c \in Codecs |-> c \notin exist]
  /\ hasty = [c \in Codecs |-> FALSE] /\ failed = [c \in Codecs |-> FALSE]
  /\ opened = [c \in Codecs |-> FALSE]
  /\ reopened = FALSE /\ stray = FALSE

Thread(c) ==
  \/ \E i \in DOMAIN threads[c] : SetIsWork(c, i) \/ LoopEnds(c, i) \/ (c \in Encoders /\ ThreadFails(c, i))
  \/ Callback(c)

User(c) ==
  \/ Send(c) \/ Take(c) \/ SendEos(c) \/ Stop(c) \/ Destruct(c)
  \/ c \in Decoders /\ (OpenDecoder(c) \/ CloseDecoder(c))
  \/ c \in Encoders /\ (OpenEncoder(c) \/ CloseEncoder(c) \/ Join(c))

Next == \E c \in Codecs : User(c) \/ Thread(c)

Spec == Init /\ [][Next]_vars

\* A thread looks at isWork again and again: aclrtProcessReport returns after its time.
FairSpec == Spec /\ \A c \in Codecs : \A i \in 1 .. MaxOpens[c] : WF_vars(~gone[c] /\ LoopEnds(c, i))

-----------------------------------------------------------------------------
(* The properties. *)

TypeOK ==
  /\ idsUsed \subseteq Ids /\ channelId_ \in [Decoders -> Ids \cup {INVALID_CHANNEL_ID, 0}]
  /\ channel \in [Codecs -> BOOLEAN] /\ needClose \in [Codecs -> BOOLEAN] /\ isWork \in [Codecs -> BOOLEAN]
  /\ threads \in [Codecs -> Seq({"started", "looping", "ended"})]
  /\ frames \in [Codecs -> Nat] /\ queue \in [Codecs -> 0 .. Capacity]
  /\ at \in [Codecs -> {"idle", "take", "stop", "destroy", "destroyAndJoin", "join"}]
  /\ gone \in [Codecs -> BOOLEAN]
  /\ hasty \in [Codecs -> BOOLEAN] /\ failed \in [Codecs -> BOOLEAN] /\ opened \in [Codecs -> BOOLEAN]
  /\ reopened \in BOOLEAN /\ stray \in BOOLEAN

IdsApart ==
  \A c, d \in Decoders : c # d /\ channel[c] /\ channel[d] => channelId_[c] # channelId_[d]

IdsOwned ==
  \A i \in idsUsed : \E d \in Decoders : ~gone[d] /\ needClose[d] /\ channelId_[d] = i

\* Two decoders have the same channel only after a decoder that nobody had opened was
\* closed or destructed, which gives back id 0 (Decoder::close); and an id in use is
\* given back by the close of some decoder, unless a decoder was opened after it had
\* been opened or closed (Decoder::open takes an id each time, close gives one back).
ChannelIdsSound == (stray \/ IdsApart) /\ (reopened \/ IdsOwned)

Alone(c, i) == \A j \in DOMAIN threads[c] \ {i} : threads[c][j] = "ended"

\* A report thread that loops when its codec is closed ends, unless an open had failed or
\* a close came before the thread had set isWork (notifyCallbackFunc), and unless, before
\* it looks at isWork, the codec is destructed or opened again.
ThreadsEnd ==
  \A c \in Codecs : \A i \in 1 .. MaxOpens[c] :
    (at[c] \in {"destroy", "destroyAndJoin"} /\ State(c, i) = "looping" /\ ~hasty[c] /\ ~failed[c]) ~>
      (State(c, i) = "ended" \/ ~Alone(c, i) \/ gone[c])

\* An encoder that is gone leaves no channel and no thread that uses it, unless an open
\* had failed or a close came before the thread had set isWork (Encoder::close).
GoneEncoderIsQuiet ==
  \A e \in Encoders :
    gone[e] /\ ~hasty[e] /\ ~failed[e] =>
      ~channel[e] /\ \A i \in DOMAIN threads[e] : threads[e][i] = "ended"

=============================================================================

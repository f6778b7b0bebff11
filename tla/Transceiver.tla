---------------------------- MODULE Transceiver ----------------------------
(***************************************************************************)
(* The life of an RtpTransceiver (include/rtpTrs/rtpTrs.hpp): open2 with   *)
(* its errors, close, and open again; and the map of pipes that the        *)
(* worker, the resets and the readers of a stream's status share.          *)
(*                                                                         *)
(* bindingMx is held through open2 and close, so there is one owner; who   *)
(* finds isBinded wrong before the lock returns and changes nothing.  What *)
(* the parts do between new and delete is in UdpSender, UdpReceiver and    *)
(* RecvWorker.  A pointer is told by what it points to: nothing, an        *)
(* object, or an object that has been deleted.  The use of the last is     *)
(* undefined, and there the model ends.                                    *)
(***************************************************************************)
EXTENDS FiniteSets, Naturals

CONSTANTS
  Streams,     \* StreamKeys
  Pipes,       \* the RtpPipe objects that can exist
  NoPipe,      \* nullptr
  MaxOpens     \* bound: calls of open2 that get as far as the lock

\* A pipe is free when all streams have one and worker and reader still have another.
ASSUME PipesAssumption ==
  /\ Streams # {} /\ NoPipe \notin Pipes
  /\ IsFiniteSet(Streams) /\ IsFiniteSet(Pipes)
  /\ Cardinality(Pipes) >= Cardinality(Streams) + 2
  /\ MaxOpens \in Nat

Parts == {"rtpReceiver", "rtcpReceiver", "rtpSender", "rtcpSender"}

VARIABLES
  isBinded, sendOnly_,
  socket,               \* rtpSocket_, rtcpSocket_
  ptr,                  \* what the four pointers point to
  owner,                \* where the holder of bindingMx is
  opens,
  stopRecvWorker,
  rtpPipeMap,
  rtpPipeNeedToRemove,
  recvWorker,           \* where the worker is; "none" is not joinable
  packet,               \* the stream of the packet at hand
  pipeToRemove, currentPipe, lastStream,
  reader,               \* the pipe that getStreamStatus or getSeqCounter has found
  made,                 \* the parts that the last open2 to succeed has made
  touched,              \* the deleted parts that close has used
  half,                 \* an RTCP socket could not be opened
  excused               \* since the reader found its pipe it may have been erased

open    == <<isBinded, sendOnly_, socket, ptr, owner, opens, made, touched, half>>
working == <<recvWorker, packet, pipeToRemove, currentPipe, lastStream>>
reading == <<reader, excused>>
vars    == <<open, working, reading, stopRecvWorker, rtpPipeMap, rtpPipeNeedToRemove>>

-----------------------------------------------------------------------------
(* open2, from the lock on. *)

MayOpen == owner = "idle" /\ ~isBinded /\ opens < MaxOpens

\* The RTP socket cannot be opened, as when it is open already, or it cannot be bound
\* and is closed again.
RtpFails ==
  /\ MayOpen
  /\ opens' = opens + 1
  /\ UNCHANGED <<isBinded, sendOnly_, socket, ptr, owner, made, touched, half>>
  /\ UNCHANGED <<working, reading, stopRecvWorker, rtpPipeMap, rtpPipeNeedToRemove>>

\* The RTP socket stays as it is.
RtcpOpenFails(sendOnly) ==
  /\ MayOpen /\ socket["rtp"] = "closed"
  /\ opens' = opens + 1
  /\ socket' = [socket EXCEPT !["rtp"] = "bound"]
  /\ ptr' = [ptr EXCEPT !["rtpSender"] = "live"]
  /\ sendOnly_' = sendOnly
  /\ half' = TRUE
  /\ UNCHANGED <<isBinded, owner, made, touched>>
  /\ UNCHANGED <<working, reading, stopRecvWorker, rtpPipeMap, rtpPipeNeedToRemove>>

\* Slip: only the RTCP socket is closed.
RtcpBindFailsHalf(sendOnly) ==
  /\ MayOpen /\ socket["rtp"] = "closed" /\ socket["rtcp"] = "closed"
  /\ opens' = opens + 1
  /\ socket' = [socket EXCEPT !["rtp"] = "bound"]
  /\ ptr' = [ptr EXCEPT !["rtpSender"] = "live"]
  /\ sendOnly_' = sendOnly
  /\ UNCHANGED <<isBinded, owner, made, touched, half>>
  /\ UNCHANGED <<working, reading, stopRecvWorker, rtpPipeMap, rtpPipeNeedToRemove>>

\* Both sockets are closed again; the sender stays.
RtcpBindFails(sendOnly) ==
  /\ MayOpen /\ socket["rtp"] = "closed" /\ socket["rtcp"] = "closed"
  /\ opens' = opens + 1
  /\ ptr' = [ptr EXCEPT !["rtpSender"] = "live"]
  /\ sendOnly_' = sendOnly
  /\ UNCHANGED <<isBinded, socket, owner, made, touched, half>>
  /\ UNCHANGED <<working, reading, stopRecvWorker, rtpPipeMap, rtpPipeNeedToRemove>>

New(sendOnly, rtcp) ==
  { p \in Parts : /\ p \in {"rtcpSender", "rtcpReceiver"} => rtcp
                  /\ p \in {"rtpReceiver", "rtcpReceiver"} => ~sendOnly }

\* Slip: a part that there was before is not made anew.
OpensKeeping(sendOnly, rtcp) ==
  /\ MayOpen /\ socket["rtp"] = "closed" /\ (rtcp => socket["rtcp"] = "closed")
  /\ opens' = opens + 1
  /\ isBinded' = TRUE /\ sendOnly_' = sendOnly
  /\ socket' = [s \in {"rtp", "rtcp"} |-> IF s = "rtp" \/ rtcp THEN "bound" ELSE socket[s]]
  /\ made' = New(sendOnly, rtcp)
  /\ ptr' = [p \in Parts |-> IF p \in made' /\ ptr[p] = "null" THEN "live" ELSE ptr[p]]
  /\ IF sendOnly
     THEN UNCHANGED <<stopRecvWorker, working>>
     ELSE /\ stopRecvWorker' = FALSE /\ recvWorker' = "turn"
          /\ UNCHANGED <<packet, pipeToRemove, currentPipe, lastStream>>
  /\ UNCHANGED <<owner, touched, half, reading, rtpPipeMap, rtpPipeNeedToRemove>>

Opens(sendOnly, rtcp) ==
  /\ MayOpen /\ socket["rtp"] = "closed" /\ (rtcp => socket["rtcp"] = "closed")
  /\ opens' = opens + 1
  /\ isBinded' = TRUE /\ sendOnly_' = sendOnly
  /\ socket' = [s \in {"rtp", "rtcp"} |-> IF s = "rtp" \/ rtcp THEN "bound" ELSE socket[s]]
  /\ made' = New(sendOnly, rtcp)
  /\ ptr' = [p \in Parts |-> IF p \in made' THEN "live" ELSE ptr[p]]
  /\ IF sendOnly
     THEN UNCHANGED <<stopRecvWorker, working>>
     ELSE /\ stopRecvWorker' = FALSE /\ recvWorker' = "turn"
          /\ UNCHANGED <<packet, pipeToRemove, currentPipe, lastStream>>
  /\ UNCHANGED <<owner, touched, half, reading, rtpPipeMap, rtpPipeNeedToRemove>>

-----------------------------------------------------------------------------
(* close. *)

\* Every part there is is told to close, whether it has been deleted or not.
CloseParts ==
  /\ owner = "idle" /\ isBinded
  /\ isBinded' = FALSE /\ owner' = "delete"
  /\ touched' = { p \in Parts : ptr[p] = "freed" }
  /\ stopRecvWorker' = TRUE
  /\ excused' = TRUE
  /\ UNCHANGED <<sendOnly_, socket, ptr, opens, made, half, working, reader, rtpPipeMap, rtpPipeNeedToRemove>>

\* A part that does not stop in time is given up; no pointer is reset.
DeleteParts ==
  /\ owner = "delete" /\ owner' = "join"
  /\ \E stopped \in SUBSET { p \in Parts : ptr[p] # "null" } :
       ptr' = [p \in Parts |-> IF p \in stopped THEN "freed" ELSE ptr[p]]
  /\ socket' = [s \in {"rtp", "rtcp"} |-> "closed"]
  /\ UNCHANGED <<isBinded, sendOnly_, opens, made, touched, half>>
  /\ UNCHANGED <<working, reading, stopRecvWorker, rtpPipeMap, rtpPipeNeedToRemove>>

Join ==
  /\ owner = "join" /\ owner' = "clear"
  /\ sendOnly_' = FALSE
  /\ IF sendOnly_
     THEN UNCHANGED recvWorker
     ELSE recvWorker \in {"exited", "none"} /\ recvWorker' = "none"
  /\ UNCHANGED <<isBinded, socket, ptr, opens, made, touched, half, packet, pipeToRemove, currentPipe, lastStream>>
  /\ UNCHANGED <<reading, stopRecvWorker, rtpPipeMap, rtpPipeNeedToRemove>>

Clear ==
  /\ owner = "clear" /\ owner' = "idle"
  /\ rtpPipeMap' = [s \in Streams |-> NoPipe]
  /\ UNCHANGED <<isBinded, sendOnly_, socket, ptr, opens, made, touched, half>>
  /\ UNCHANGED <<working, reading, stopRecvWorker, rtpPipeNeedToRemove>>

-----------------------------------------------------------------------------
(* The worker, as far as it uses the map of pipes. *)

At(from, to) == recvWorker = from /\ recvWorker' = to

Unshared == UNCHANGED <<open, reading, stopRecvWorker>>

\* A turn of the loop starts without a pipe.
StartTurn ==
  /\ At("turn", "packets")
  /\ currentPipe' = NoPipe
  /\ UNCHANGED <<packet, pipeToRemove, lastStream, rtpPipeMap, rtpPipeNeedToRemove>> /\ Unshared

\* The packet at the front of the working queue; what is to be removed is taken over.
Packet(s) ==
  /\ At("packets", "erase")
  /\ packet' = s
  /\ pipeToRemove' = rtpPipeNeedToRemove /\ rtpPipeNeedToRemove' = {}
  /\ UNCHANGED <<currentPipe, lastStream, rtpPipeMap>> /\ Unshared

Erased(removed) == [s \in Streams |-> IF s \in removed THEN NoPipe ELSE rtpPipeMap[s]]

\* Slip: the pipe at hand is kept when it is erased.
EraseOnly ==
  /\ At("erase", "find")
  /\ rtpPipeMap' = Erased(pipeToRemove) /\ pipeToRemove' = {}
  /\ UNCHANGED <<currentPipe, packet, lastStream, rtpPipeNeedToRemove>> /\ Unshared

Erase ==
  /\ At("erase", "find")
  /\ rtpPipeMap' = Erased(pipeToRemove) /\ pipeToRemove' = {}
  /\ currentPipe' = IF packet \in pipeToRemove THEN NoPipe ELSE currentPipe
  /\ UNCHANGED <<packet, lastStream, rtpPipeNeedToRemove>> /\ Unshared

Referenced == { rtpPipeMap[s] : s \in Streams } \cup {currentPipe, reader.pipe}

\* The pipe of the packet before, if it is of the same stream.
FindAgain ==
  /\ At("find", "use")
  /\ currentPipe # NoPipe /\ packet = lastStream
  /\ UNCHANGED <<packet, pipeToRemove, currentPipe, lastStream, rtpPipeMap, rtpPipeNeedToRemove>> /\ Unshared

\* Slip: a stream without a pipe gets none.
FindOnly ==
  /\ At("find", "use")
  /\ ~(currentPipe # NoPipe /\ packet = lastStream)
  /\ lastStream' = packet
  /\ currentPipe' = rtpPipeMap[packet]
  /\ UNCHANGED <<packet, pipeToRemove, rtpPipeMap, rtpPipeNeedToRemove>> /\ Unshared

\* The pipe of the stream, a new one if it has none.
Find ==
  /\ At("find", "use")
  /\ ~(currentPipe # NoPipe /\ packet = lastStream)
  /\ lastStream' = packet
  /\ IF rtpPipeMap[packet] # NoPipe
     THEN UNCHANGED rtpPipeMap
     ELSE \E p \in Pipes \ Referenced : rtpPipeMap' = [rtpPipeMap EXCEPT ![packet] = p]
  /\ currentPipe' = rtpPipeMap'[packet]
  /\ UNCHANGED <<packet, pipeToRemove, rtpPipeNeedToRemove>> /\ Unshared

\* reorderRtp with the pipe at hand.
Use ==
  /\ At("use", "packets")
  /\ UNCHANGED <<packet, pipeToRemove, currentPipe, lastStream, rtpPipeMap, rtpPipeNeedToRemove>> /\ Unshared

\* With nothing received the worker waits, and only then looks at the stop.
EndTurn ==
  /\ At("packets", "turn") \/ At("packets", "wait") \/ At("wait", IF stopRecvWorker THEN "exited" ELSE "turn")
  /\ UNCHANGED <<packet, pipeToRemove, currentPipe, lastStream, rtpPipeMap, rtpPipeNeedToRemove>> /\ Unshared

-----------------------------------------------------------------------------
(* Any thread: resetStream, resetStreams, getStreamStatus, getSeqCounter. *)

Request(removed) ==
  /\ rtpPipeNeedToRemove' = rtpPipeNeedToRemove \cup removed
  /\ excused' = (excused \/ reader.stream \in removed)
  /\ UNCHANGED <<open, working, reader, stopRecvWorker, rtpPipeMap>>

ResetStream(s) == Request({s})

ResetStreams == Request({ s \in Streams : rtpPipeMap[s] # NoPipe })

NoReader == [stream |-> CHOOSE s \in Streams : TRUE, pipe |-> NoPipe]

\* The pipe is found under the lock.
Lookup(s) ==
  /\ reader.pipe = NoPipe /\ rtpPipeMap[s] # NoPipe
  /\ reader' = [stream |-> s, pipe |-> rtpPipeMap[s]]
  /\ excused' = (s \in rtpPipeNeedToRemove \cup pipeToRemove \/ owner # "idle")
  /\ UNCHANGED <<open, working, stopRecvWorker, rtpPipeMap, rtpPipeNeedToRemove>>

\* It is read without it.
ReadStatus ==
  /\ reader.pipe # NoPipe
  /\ reader' = NoReader /\ excused' = FALSE
  /\ UNCHANGED <<open, working, stopRecvWorker, rtpPipeMap, rtpPipeNeedToRemove>>

-----------------------------------------------------------------------------

Init ==
  /\ isBinded = FALSE /\ sendOnly_ = FALSE
  /\ socket = [s \in {"rtp", "rtcp"} |-> "closed"]
  /\ ptr = [p \in Parts |-> "null"]
  /\ owner = "idle" /\ opens = 0
  /\ made = {} /\ touched = {} /\ half = FALSE
  /\ recvWorker = "none" /\ packet \in Streams /\ lastStream = packet
  /\ pipeToRemove = {} /\ currentPipe = NoPipe
  /\ reader = NoReader /\ excused = FALSE
  /\ stopRecvWorker = FALSE
  /\ rtpPipeMap = [s \in Streams |-> NoPipe]
  /\ rtpPipeNeedToRemove = {}

Open2 ==
  \/ RtpFails
  \/ \E sendOnly \in BOOLEAN : RtcpOpenFails(sendOnly) \/ RtcpBindFails(sendOnly)
  \/ \E sendOnly, rtcp \in BOOLEAN : Opens(sendOnly, rtcp)

Close == CloseParts \/ DeleteParts \/ Join \/ Clear

Work ==
  \/ StartTurn \/ Erase \/ FindAgain \/ Find \/ Use \/ EndTurn
  \/ \E s \in Streams : Packet(s)

Callers ==
  \/ ResetStreams \/ ReadStatus
  \/ \E s \in Streams : ResetStream(s) \/ Lookup(s)

Next == touched = {} /\ (Open2 \/ Close \/ Work \/ Callers)

Spec == Init /\ [][Next]_vars

-----------------------------------------------------------------------------
(* The properties. *)

TypeOK ==
  /\ isBinded \in BOOLEAN /\ sendOnly_ \in BOOLEAN
  /\ socket \in [{"rtp", "rtcp"} -> {"closed", "bound"}]
  /\ ptr \in [Parts -> {"null", "live", "freed"}]
  /\ owner \in {"idle", "delete", "join", "clear"} /\ opens \in 0 .. MaxOpens
  /\ made \subseteq Parts /\ touched \subseteq Parts /\ half \in BOOLEAN
  /\ recvWorker \in {"none", "turn", "packets", "erase", "find", "use", "wait", "exited"}
  /\ packet \in Streams /\ lastStream \in Streams
  /\ pipeToRemove \subseteq Streams /\ currentPipe \in Pipes \cup {NoPipe}
  /\ recvWorker = "use" => currentPipe \in Pipes
  /\ reader \in [stream : Streams, pipe : Pipes \cup {NoPipe}] /\ excused \in BOOLEAN
  /\ stopRecvWorker \in BOOLEAN
  /\ rtpPipeMap \in [Streams -> Pipes \cup {NoPipe}]
  /\ rtpPipeNeedToRemove \subseteq Streams

WorkerPipeLives == recvWorker = "use" => rtpPipeMap[packet] = currentPipe

ReaderPipeLives == reader.pipe # NoPipe /\ rtpPipeMap[reader.stream] # reader.pipe => excused

\* The worker uses a pipe only while it is in the map, though resets erase pipes and
\* the worker keeps a pointer from packet to packet.  A reader of the status reads an
\* erased one only if a reset of its stream or a close overlaps its call (recvWorker,
\* getStreamStatus).
UsedPipesLive == WorkerPipeLives /\ ReaderPipeLives

\* A transceiver at rest and not open has no worker, so that the next open2 can start
\* one, no pipes and no socket; but after an RTCP socket could not be opened it keeps
\* the RTP socket, and is never open again (open2, close).
ClosedHoldsNothing ==
  /\ owner = "idle" /\ ~isBinded =>
       /\ recvWorker = "none"
       /\ \A s \in Streams : rtpPipeMap[s] = NoPipe
       /\ socket["rtcp"] = "closed" /\ (socket["rtp"] = "bound" <=> half)
  /\ half => ~isBinded

\* close uses a deleted part only if an open2 before had made it and the last did not:
\* with RTCP and then without, to receive and then only to send (close, open2).
FreedOnlyAfterNarrowerOpen == touched \cap made = {}

=============================================================================

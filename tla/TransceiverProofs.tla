------------------------- MODULE TransceiverProofs -------------------------
(***************************************************************************)
(* For any streams, pipes and number of openings: open2 and close leave    *)
(* nothing behind but what ClosedHoldsNothing says, delete what they made, *)
(* and nobody uses an erased pipe but a reader that overlaps the erasure.  *)
(***************************************************************************)
EXTENDS Transceiver, TLAPS

\* What open2 has made is there until close deletes it.
MadeInv ==
  /\ isBinded => owner = "idle" /\ \A p \in made : ptr[p] = "live"
  /\ touched \cap made = {}

\* The worker lives between an open2 to receive and the join of its close.
WorkerInv ==
  recvWorker # "none" => ~sendOnly_ /\ (isBinded \/ owner \in {"delete", "join"})

\* Sockets and pipes between a close and the next open2.
RestInv ==
  /\ owner \in {"join", "clear"} => \A s \in {"rtp", "rtcp"} : socket[s] = "closed"
  /\ owner = "idle" /\ ~isBinded => socket["rtcp"] = "closed" /\ (socket["rtp"] = "bound" <=> half)
  /\ owner = "idle" /\ ~isBinded => \A s \in Streams : rtpPipeMap[s] = NoPipe
  /\ half => ~isBinded /\ owner = "idle"

\* The worker's pointer, from packet to packet.
CacheInv ==
  /\ recvWorker \in {"packets", "erase"} /\ currentPipe # NoPipe => rtpPipeMap[lastStream] = currentPipe
  /\ recvWorker = "find" /\ currentPipe # NoPipe /\ packet = lastStream => rtpPipeMap[lastStream] = currentPipe
  /\ recvWorker = "use" => packet = lastStream /\ rtpPipeMap[packet] = currentPipe

\* A reader is excused as soon as its pipe may be erased.
ReaderInv ==
  reader.pipe # NoPipe =>
    \/ excused
    \/ /\ rtpPipeMap[reader.stream] = reader.pipe
       /\ owner = "idle"
       /\ reader.stream \notin rtpPipeNeedToRemove \cup pipeToRemove

Inv == TypeOK /\ MadeInv /\ WorkerInv /\ RestInv /\ CacheInv /\ ReaderInv

\* The reader that has found nothing.
LEMMA NoReaderType == NoReader \in [stream : Streams, pipe : Pipes \cup {NoPipe}] /\ NoReader.pipe = NoPipe
  BY PipesAssumption DEF NoReader

\* A new transceiver satisfies the invariant.
LEMMA InvInit == Init => Inv
  <1> SUFFICES ASSUME Init PROVE Inv
    OBVIOUS
  <1> USE PipesAssumption
  <1>1. TypeOK
    <2>1. /\ socket \in [{"rtp", "rtcp"} -> {"closed", "bound"}]
          /\ ptr \in [Parts -> {"null", "live", "freed"}]
          /\ rtpPipeMap \in [Streams -> Pipes \cup {NoPipe}]
      BY DEF Init
    <2>2. reader \in [stream : Streams, pipe : Pipes \cup {NoPipe}]
      BY NoReaderType DEF Init
    <2>3. opens \in 0 .. MaxOpens
      BY DEF Init
    <2>4. QED  BY <2>1, <2>2, <2>3 DEF Init, TypeOK
  <1>2. MadeInv /\ WorkerInv /\ RestInv /\ CacheInv
    BY DEF Init, MadeInv, WorkerInv, RestInv, CacheInv
  <1>3. ReaderInv
    BY NoReaderType DEF Init, ReaderInv
  <1>4. QED  BY <1>1, <1>2, <1>3 DEF Inv

\* open2 that fails.
LEMMA OpenFails ==
  ASSUME Inv, \/ RtpFails
              \/ \E sendOnly \in BOOLEAN : RtcpOpenFails(sendOnly) \/ RtcpBindFails(sendOnly)
  PROVE  Inv'
  <1> USE PipesAssumption DEF Inv
  <1>0. /\ MayOpen /\ opens' = opens + 1
        /\ UNCHANGED <<isBinded, owner, made, touched>>
        /\ UNCHANGED <<working, reading, stopRecvWorker, rtpPipeMap, rtpPipeNeedToRemove>>
        /\ sendOnly_' \in BOOLEAN
    BY DEF RtpFails, RtcpOpenFails, RtcpBindFails, TypeOK
  <1>1. TypeOK'
    <2>1. opens' \in 0 .. MaxOpens
      BY <1>0 DEF MayOpen, TypeOK
    <2>2. /\ socket' \in [{"rtp", "rtcp"} -> {"closed", "bound"}]
          /\ ptr' \in [Parts -> {"null", "live", "freed"}] /\ half' \in BOOLEAN
      <3>1. CASE RtpFails
        BY <3>1 DEF RtpFails, TypeOK
      <3>2. ASSUME NEW sendOnly \in BOOLEAN, RtcpOpenFails(sendOnly)
            PROVE  /\ socket' \in [{"rtp", "rtcp"} -> {"closed", "bound"}]
                   /\ ptr' \in [Parts -> {"null", "live", "freed"}] /\ half' \in BOOLEAN
        BY <3>2 DEF RtcpOpenFails, TypeOK
      <3>3. ASSUME NEW sendOnly \in BOOLEAN, RtcpBindFails(sendOnly)
            PROVE  /\ socket' \in [{"rtp", "rtcp"} -> {"closed", "bound"}]
                   /\ ptr' \in [Parts -> {"null", "live", "freed"}] /\ half' \in BOOLEAN
        BY <3>3 DEF RtcpBindFails, TypeOK
      <3>4. QED  BY <3>1, <3>2, <3>3
    <2>3. QED  BY <1>0, <2>1, <2>2 DEF TypeOK, working, reading
  <1>2. recvWorker = "none"
    BY <1>0 DEF MayOpen, WorkerInv
  <1>3. MadeInv' /\ WorkerInv' /\ CacheInv' /\ ReaderInv'
    BY <1>0, <1>2 DEF MayOpen, MadeInv, WorkerInv, CacheInv, ReaderInv, working, reading
  <1>4. RestInv'
    BY <1>0 DEF MayOpen, RestInv, TypeOK, RtpFails, RtcpOpenFails, RtcpBindFails
  <1>5. QED  BY <1>1, <1>3, <1>4

\* open2 that succeeds.
LEMMA OpenSucceeds ==
  ASSUME Inv, NEW sendOnly \in BOOLEAN, NEW rtcp \in BOOLEAN, Opens(sendOnly, rtcp), touched = {}
  PROVE  Inv'
  <1> USE PipesAssumption DEF Inv
  <1>1. New(sendOnly, rtcp) \subseteq Parts
    BY DEF New
  <1>2. /\ MayOpen /\ opens' = opens + 1 /\ socket["rtp"] = "closed"
        /\ isBinded' = TRUE /\ sendOnly_' = sendOnly /\ made' \subseteq Parts
        /\ ptr' = [p \in Parts |-> IF p \in made' THEN "live" ELSE ptr[p]]
        /\ UNCHANGED <<owner, touched, half, reader, excused, rtpPipeMap, rtpPipeNeedToRemove>>
        /\ UNCHANGED <<packet, pipeToRemove, currentPipe, lastStream>>
        /\ IF sendOnly THEN UNCHANGED recvWorker ELSE recvWorker' = "turn"
        /\ stopRecvWorker' \in BOOLEAN
    BY <1>1 DEF Opens, working, reading, TypeOK
  <1>3. recvWorker = "none"
    BY <1>2 DEF MayOpen, WorkerInv
  <1>4. socket' \in [{"rtp", "rtcp"} -> {"closed", "bound"}]
    BY DEF Opens, TypeOK
  <1>5. ptr' \in [Parts -> {"null", "live", "freed"}]
    BY <1>2 DEF TypeOK
  <1>6. opens' \in 0 .. MaxOpens
    BY <1>2 DEF MayOpen, TypeOK
  <1>7. TypeOK'
    BY <1>2, <1>3, <1>4, <1>5, <1>6 DEF TypeOK
  <1>8. WorkerInv' /\ CacheInv' /\ ReaderInv'
    BY <1>2, <1>3 DEF MayOpen, WorkerInv, CacheInv, ReaderInv
  <1>9. RestInv'
    BY <1>2 DEF MayOpen, RestInv, TypeOK
  <1>10. MadeInv'
    <2>1. owner' = "idle" /\ \A p \in made' : ptr'[p] = "live"
      BY <1>2 DEF MayOpen
    <2>2. touched' \cap made' = {}
      BY <1>2 DEF Opens
    <2>3. QED  BY <2>1, <2>2 DEF MadeInv
  <1>11. QED  BY <1>7, <1>8, <1>9, <1>10

\* The steps of close.
LEMMA CloseInv ==
  ASSUME Inv, Close
  PROVE  Inv'
  <1> USE PipesAssumption DEF Inv
  <1>1. CASE CloseParts
    <2>1. TypeOK'
      BY <1>1 DEF CloseParts, TypeOK, working
    <2>2. \A p \in made : ptr[p] = "live"
      BY <1>1 DEF CloseParts, MadeInv
    <2>3. MadeInv'
      BY <1>1, <2>2 DEF CloseParts, MadeInv
    <2>4. WorkerInv' /\ RestInv' /\ CacheInv' /\ ReaderInv'
      BY <1>1 DEF CloseParts, WorkerInv, RestInv, CacheInv, ReaderInv, working
    <2>5. QED  BY <2>1, <2>3, <2>4
  <1>2. CASE DeleteParts
    <2>1. ptr' \in [Parts -> {"null", "live", "freed"}]
      BY <1>2 DEF DeleteParts, TypeOK
    <2>2. socket' = [s \in {"rtp", "rtcp"} |-> "closed"]
      BY <1>2 DEF DeleteParts
    <2>3. TypeOK'
      BY <1>2, <2>1, <2>2 DEF DeleteParts, TypeOK, working, reading
    <2>4. MadeInv' /\ WorkerInv' /\ CacheInv' /\ ReaderInv'
      BY <1>2 DEF DeleteParts, MadeInv, WorkerInv, CacheInv, ReaderInv, working, reading
    <2>5. RestInv'
      BY <1>2, <2>2 DEF DeleteParts, RestInv
    <2>6. QED  BY <2>3, <2>4, <2>5
  <1>3. CASE Join
    <2>1. TypeOK'
      BY <1>3 DEF Join, TypeOK, reading
    <2>2. WorkerInv'
      BY <1>3 DEF Join, WorkerInv
    <2>3. MadeInv' /\ RestInv' /\ ReaderInv'
      BY <1>3 DEF Join, MadeInv, RestInv, ReaderInv, reading
    <2>4. CacheInv'
      BY <1>3, <2>2 DEF Join, CacheInv
    <2>5. QED  BY <2>1, <2>2, <2>3, <2>4
  <1>4. CASE Clear
    <2>1. recvWorker = "none"
      BY <1>4 DEF Clear, WorkerInv, MadeInv
    <2>2. rtpPipeMap' = [s \in Streams |-> NoPipe]
      BY <1>4 DEF Clear
    <2>3. TypeOK'
      BY <1>4, <2>2 DEF Clear, TypeOK, working, reading
    <2>4. MadeInv' /\ WorkerInv' /\ CacheInv' /\ ReaderInv'
      BY <1>4, <2>1 DEF Clear, MadeInv, WorkerInv, CacheInv, ReaderInv, working, reading
    <2>5. RestInv'
      BY <1>4, <2>2 DEF Clear, RestInv, MadeInv
    <2>6. QED  BY <2>3, <2>4, <2>5
  <1>5. QED  BY <1>1, <1>2, <1>3, <1>4 DEF Close

\* The worker.
LEMMA WorkInv ==
  ASSUME Inv, Work
  PROVE  Inv'
  <1> USE PipesAssumption DEF Inv
  <1>1. /\ UNCHANGED <<isBinded, sendOnly_, socket, ptr, owner, opens, made, touched, half>>
        /\ UNCHANGED <<reader, excused, stopRecvWorker>>
        /\ recvWorker # "none"
    BY DEF Work, StartTurn, Packet, Erase, FindAgain, Find, Use, EndTurn, At, Unshared, open, reading
  <1>2. MadeInv' /\ WorkerInv'
    BY <1>1 DEF MadeInv, WorkerInv
  <1>3. isBinded \/ owner # "idle"
    BY <1>1 DEF WorkerInv
  <1>4. RestInv'
    BY <1>1, <1>3 DEF RestInv
  <1>5. CASE StartTurn \/ Use \/ FindAgain \/ EndTurn
    <2>1. TypeOK'
      BY <1>1, <1>5 DEF StartTurn, FindAgain, Use, EndTurn, At, TypeOK
    <2>2. CacheInv'
      BY <1>5 DEF StartTurn, FindAgain, Use, EndTurn, At, CacheInv
    <2>3. ReaderInv'
      BY <1>1, <1>5 DEF StartTurn, FindAgain, Use, EndTurn, ReaderInv
    <2>4. QED  BY <1>2, <1>4, <2>1, <2>2, <2>3
  <1>6. ASSUME NEW s \in Streams, Packet(s) PROVE Inv'
    <2>1. TypeOK'
      BY <1>1, <1>6 DEF Packet, At, TypeOK
    <2>2. CacheInv'
      BY <1>6 DEF Packet, At, CacheInv
    <2>3. ReaderInv'
      BY <1>1, <1>6 DEF Packet, ReaderInv
    <2>4. QED  BY <1>2, <1>4, <2>1, <2>2, <2>3
  <1>7. CASE Erase
    <2>1. /\ rtpPipeMap' = [s \in Streams |-> IF s \in pipeToRemove THEN NoPipe ELSE rtpPipeMap[s]]
          /\ pipeToRemove' = {} /\ recvWorker = "erase" /\ recvWorker' = "find"
          /\ currentPipe' = IF packet \in pipeToRemove THEN NoPipe ELSE currentPipe
          /\ UNCHANGED <<packet, lastStream, rtpPipeNeedToRemove>>
      BY <1>7 DEF Erase, Erased, At
    <2>2. TypeOK'
      BY <1>1, <2>1 DEF TypeOK
    <2>3. CacheInv'
      BY <2>1 DEF CacheInv, TypeOK
    <2>4. ReaderInv'
      <3>1. reader.stream \in Streams
        BY DEF TypeOK
      <3>2. QED  BY <1>1, <2>1, <3>1 DEF ReaderInv
    <2>5. QED  BY <1>2, <1>4, <2>2, <2>3, <2>4
  <1>8. CASE Find
    <2>1. /\ recvWorker = "find" /\ recvWorker' = "use" /\ lastStream' = packet
          /\ currentPipe' = rtpPipeMap'[packet]
          /\ UNCHANGED <<packet, pipeToRemove, rtpPipeNeedToRemove>>
      BY <1>8 DEF Find, At
    <2>2. \/ rtpPipeMap[packet] # NoPipe /\ rtpPipeMap' = rtpPipeMap
          \/ /\ rtpPipeMap[packet] = NoPipe
             /\ \E p \in Pipes : rtpPipeMap' = [rtpPipeMap EXCEPT ![packet] = p]
      BY <1>8 DEF Find
    <2>3. /\ rtpPipeMap' \in [Streams -> Pipes \cup {NoPipe}] /\ rtpPipeMap'[packet] \in Pipes
          /\ \A s \in Streams : rtpPipeMap[s] # NoPipe => rtpPipeMap'[s] = rtpPipeMap[s]
      BY <2>2 DEF TypeOK
    <2>4. TypeOK'
      BY <1>1, <2>1, <2>3 DEF TypeOK
    <2>5. CacheInv'
      BY <2>1 DEF CacheInv
    <2>6. ReaderInv'
      <3>1. reader.stream \in Streams
        BY DEF TypeOK
      <3>2. QED  BY <1>1, <2>1, <2>3, <3>1 DEF ReaderInv
    <2>7. QED  BY <1>2, <1>4, <2>4, <2>5, <2>6
  <1>9. QED  BY <1>5, <1>6, <1>7, <1>8 DEF Work

\* Resets and readers.
LEMMA CallersInv ==
  ASSUME Inv, Callers
  PROVE  Inv'
  <1> USE PipesAssumption DEF Inv
  <1>1. /\ UNCHANGED <<isBinded, sendOnly_, socket, ptr, owner, opens, made, touched, half>>
        /\ UNCHANGED <<working, stopRecvWorker, rtpPipeMap>>
    BY DEF Callers, ResetStream, ResetStreams, Request, Lookup, ReadStatus, open
  <1>2. MadeInv' /\ WorkerInv' /\ RestInv' /\ CacheInv'
    BY <1>1 DEF MadeInv, WorkerInv, RestInv, CacheInv, working
  <1>3. ASSUME NEW removed \in SUBSET Streams, Request(removed) PROVE TypeOK' /\ ReaderInv'
    <2>1. TypeOK'
      BY <1>1, <1>3 DEF Request, TypeOK, working
    <2>2. ReaderInv'
      BY <1>1, <1>3 DEF Request, ReaderInv, working
    <2>3. QED  BY <2>1, <2>2
  <1>4. ASSUME NEW s \in Streams, Lookup(s) PROVE TypeOK' /\ ReaderInv'
    <2>1. reader' \in [stream : Streams, pipe : Pipes \cup {NoPipe}]
      BY <1>4 DEF Lookup, TypeOK
    <2>2. TypeOK'
      BY <1>1, <1>4, <2>1 DEF Lookup, TypeOK, working
    <2>3. ReaderInv'
      BY <1>1, <1>4 DEF Lookup, ReaderInv, working
    <2>4. QED  BY <2>2, <2>3
  <1>5. CASE ReadStatus
    <2>1. reader' = NoReader /\ excused' \in BOOLEAN /\ UNCHANGED rtpPipeNeedToRemove
      BY <1>5 DEF ReadStatus
    <2>2. reader' \in [stream : Streams, pipe : Pipes \cup {NoPipe}] /\ reader'.pipe = NoPipe
      BY <2>1, NoReaderType
    <2>3. TypeOK'
      BY <1>1, <2>1, <2>2 DEF TypeOK, working
    <2>4. ReaderInv'
      BY <2>2 DEF ReaderInv
    <2>5. QED  BY <1>2, <2>3, <2>4
  <1>6. TypeOK' /\ ReaderInv'
    BY <1>3, <1>4, <1>5 DEF Callers, ResetStream, ResetStreams
  <1>7. QED  BY <1>2, <1>6

LEMMA InvStep == Inv /\ [Next]_vars => Inv'
  <1> SUFFICES ASSUME Inv, [Next]_vars PROVE Inv'
    OBVIOUS
  <1>1. CASE UNCHANGED vars
    BY <1>1 DEF vars, open, working, reading, Inv, TypeOK, MadeInv, WorkerInv, RestInv, CacheInv, ReaderInv
  <1>2. CASE Next
    BY <1>2, OpenFails, OpenSucceeds, CloseInv, WorkInv, CallersInv DEF Next, Open2
  <1>3. QED  BY <1>1, <1>2

LEMMA Invariance == Spec => []Inv
  BY InvInit, InvStep, PTL DEF Spec

\* Every variable keeps its type, and the worker has a pipe when it uses one.
THEOREM Typed == Spec => []TypeOK
  <1>1. Inv => TypeOK
    BY DEF Inv
  <1>2. QED  BY <1>1, Invariance, PTL

\* Nobody uses an erased pipe, but a reader that overlaps a reset or a close.
THEOREM PipesLive == Spec => []UsedPipesLive
  <1>1. Inv => UsedPipesLive
    BY DEF Inv, CacheInv, ReaderInv, UsedPipesLive, WorkerPipeLives, ReaderPipeLives
  <1>2. QED  BY <1>1, Invariance, PTL

\* What is closed has no worker, pipe or socket, unless an RTCP socket could not be opened.
THEOREM ClosedIsEmpty == Spec => []ClosedHoldsNothing
  <1>1. Inv => ClosedHoldsNothing
    BY DEF Inv, WorkerInv, RestInv, MadeInv, ClosedHoldsNothing
  <1>2. QED  BY <1>1, Invariance, PTL

\* close uses no deleted part that the open2 before it has made.
THEOREM MadeIsLive == Spec => []FreedOnlyAfterNarrowerOpen
  <1>1. Inv => FreedOnlyAfterNarrowerOpen
    BY DEF Inv, MadeInv, FreedOnlyAfterNarrowerOpen
  <1>2. QED  BY <1>1, Invariance, PTL

=============================================================================

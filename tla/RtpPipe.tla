------------------------------ MODULE RtpPipe ------------------------------
(***************************************************************************)
(* The receive side of one RTP stream: include/rtpTrs/RtpPipe.hpp.         *)
(*                                                                         *)
(* A RtpPipe takes the datagrams of one source as they arrive and appends  *)
(* to outQueue the packets that may be consumed, in sequence order.  It    *)
(* keeps the last 2R + 1 sequence numbers in a ring: seqArray says which   *)
(* of them have arrived, rtpDataArray holds those not yet handed out, and  *)
(* [tailPos, headPos) is the part that waits for a missing packet.         *)
(*                                                                         *)
(* A packet is abstracted to its sequence number, the vector of an empty   *)
(* slot (moved from, or never filled) to Empty.  pipeMx makes reorderRtp   *)
(* and resetPipe atomic; the loop that feeds the sorted leading packets is *)
(* one step per packet, during which nothing else may run.                 *)
(***************************************************************************)
EXTENDS Integers, Sequences, FiniteSets, SequencesExt

CONSTANTS
  Half,          \* half of the range of a sequence number: 32768
  R,             \* reorderSize
  MaxDiff,       \* MAX_DIFF of updateData: 5000
  LeadingSize,   \* leadingReorderSize
  LeadingWrap,   \* the distance LeadingRtp::operator< takes for a wrap: 65000
  Sources,       \* the <<ssrc, payload type>> pairs a datagram may carry
  MaxUdp         \* bound: datagrams handled over the life of the pipe

SeqRange    == 2 * Half
SeqNums   == 0 .. SeqRange - 1
ArraySize == 2 * R + 1
Slots     == 0 .. ArraySize - 1
Empty     == -1
NoSource  == <<>>

ASSUME PipeAssumption ==
  /\ Half \in Nat \ {0}
  /\ R \in 1 .. Half - 1          \* 2R + 1 is kept in a uint16_t; no pipe is built for 0
  /\ MaxDiff \in Nat
  /\ LeadingSize \in Nat
  /\ LeadingWrap \in Nat
  /\ MaxUdp \in Nat
  /\ NoSource \notin Sources

\* 65000 of 65536.  Numbers less than a third of the range apart go round no circle.
ASSUME LeadingAssumption == 3 * LeadingWrap >= 2 * SeqRange

VARIABLES
  lastSeq,       \* seqCounter.lastSeq, -1 before the first packet
  headPos, tailPos,
  seqArray, rtpDataArray,
  counter,       \* the other fields of seqCounter
  source,        \* ssrc_ and payloadType_ of streamStatus, NoSource while startAt_ is unset
  status,        \* the packet counts of streamStatus
  leading,       \* leadingRtpsToReorder while it fills
  feeding,       \* the sorted leading packets not yet passed to updateData
  result,        \* what updateData returned last
  out,           \* what the last step appended to outQueue
  exited,        \* exit(0) was called
  arrived        \* how many datagrams have come, for the bound

ring  == <<headPos, tailPos, seqArray, rtpDataArray>>
vars  == <<lastSeq, ring, counter, source, status, leading, feeding, result, out, exited, arrived>>

-----------------------------------------------------------------------------
(* Arithmetic on sequence numbers and on ring positions. *)

getSeqDistance(a, b) ==
  LET diff == a - b
  IN  IF diff > Half - 1 THEN diff - SeqRange
      ELSE IF diff < -(Half - 1) THEN diff + SeqRange
      ELSE diff

\* Slip: the modulus taken one too large.
forwardPastEnd(pos, distance) == (pos + distance) % (ArraySize + 1)

forward(pos, distance) == (pos + distance) % ArraySize

back(pos, distance) ==
  LET padding == IF distance > pos THEN 1 + (distance \div ArraySize) ELSE 0
  IN  (pos - distance + padding * ArraySize) % ArraySize

\* How far pos1 leads pos2.
forwardDistance(pos1, pos2) ==
  IF pos2 > pos1 THEN pos1 + (ArraySize - pos2) ELSE pos1 - pos2

\* The slot of the packet diff behind lastSeq; updateData asks only for diff < 0.
getPos(diff) ==
  LET newPos == headPos + diff - 1
  IN  IF newPos < 0 THEN newPos + ArraySize ELSE newPos

(* SeqCounter without lastSeq, StreamStatus without times and bytes. *)

CounterFields ==
  { "packetCount", "packetExpected", "ok", "late", "old", "jump", "gap", "duplicated", "invalid" }
StatusFields == { "udp", "valid", "rtp", "ssrcError", "payloadError" }

ZeroCounter == [f \in CounterFields |-> 0]
ZeroStatus  == [f \in StatusFields |-> 0]

-----------------------------------------------------------------------------
(* takeRtps(outQueue, forceRange), on the flags, data and head the caller   *)
(* has just written.  Its two loops move tailPos forward by n slots: over   *)
(* the first forceRange whatever they hold, then over those that have       *)
(* arrived.  An arrived slot without data stops either loop with an error.  *)

NoData(flags, data, pos) == flags[pos] = 1 /\ data[pos] = Empty

\* Slip: the forced range ends one slot early.
StopsEarly(flags, data, head, forceRange, k) ==
  LET pos == forward(tailPos, k)
  IN  \/ k = forwardDistance(head, tailPos)
      \/ k >= forceRange - 1 /\ flags[pos] = 0
      \/ NoData(flags, data, pos)

StopsAt(flags, data, head, forceRange, k) ==
  LET pos == forward(tailPos, k)
  IN  \/ k = forwardDistance(head, tailPos)
      \/ k >= forceRange /\ flags[pos] = 0
      \/ NoData(flags, data, pos)

TakesExactly(flags, data, head, forceRange, n) ==
  /\ StopsAt(flags, data, head, forceRange, n)
  /\ \A k \in 0 .. n - 1 : ~StopsAt(flags, data, head, forceRange, k)

TakeFails(flags, data, head, n) ==
  n < forwardDistance(head, tailPos) /\ NoData(flags, data, forward(tailPos, n))

Taken(flags, n) == { pos \in Slots : flags[pos] = 1 /\ forwardDistance(pos, tailPos) < n }

Emitted(flags, data, n) ==
  FlattenSeq([k \in 1 .. n |-> LET pos == forward(tailPos, k - 1)
                               IN  IF flags[pos] = 1 THEN <<data[pos]>> ELSE <<>>])

takeRtps(flags, data, head, forceRange, n) ==
  /\ TakesExactly(flags, data, head, forceRange, n)
  /\ tailPos' = forward(tailPos, n)
  /\ seqArray' = flags
  /\ rtpDataArray' = [pos \in Slots |-> IF pos \in Taken(flags, n) THEN Empty ELSE data[pos]]
  /\ out' = Emitted(flags, data, n)

-----------------------------------------------------------------------------
(* updateData(seq, rtpData, outQueue), one action per branch. *)

Diff(seq) == getSeqDistance(seq, lastSeq)

Count(state, expected) ==
  counter' = [f \in CounterFields |-> IF f = "packetExpected" THEN counter[f] + expected
                                      ELSE IF f \in {"packetCount", state} THEN counter[f] + 1
                                      ELSE counter[f]]

\* Slip: skipped slots keep the flags of the previous turn of the ring.
SetSeqStatesStale(diff) ==
  [pos \in Slots |-> IF forwardDistance(pos, headPos) = diff - 1 THEN 1 ELSE seqArray[pos]]

\* The flags after setSeqState(0), diff - 1 times, and setSeqState(1).
SetSeqStates(diff) ==
  [pos \in Slots |-> LET k == forwardDistance(pos, headPos)
                     IN  IF k < diff - 1 THEN 0
                         ELSE IF k = diff - 1 THEN 1
                         ELSE seqArray[pos]]

resetPos ==
  /\ lastSeq' = -1
  /\ headPos' = 0
  /\ tailPos' = 0
  /\ seqArray' = [pos \in Slots |-> 0]
  /\ UNCHANGED rtpDataArray

First(seq) ==
  /\ lastSeq < 0
  /\ out' = <<seq>>
  /\ seqArray' = SetSeqStates(1)
  /\ headPos' = forward(headPos, 1)
  /\ tailPos' = forward(tailPos, 1)
  /\ lastSeq' = seq
  /\ Count("ok", 1)
  /\ result' = "ok"
  /\ UNCHANGED <<rtpDataArray, exited>>

InOrderNothingPending(seq) ==
  /\ lastSeq >= 0 /\ Diff(seq) = 1
  /\ tailPos = headPos
  /\ out' = <<seq>>
  /\ seqArray' = SetSeqStates(1)
  /\ headPos' = forward(headPos, 1)
  /\ tailPos' = forward(tailPos, 1)
  /\ lastSeq' = seq
  /\ Count("ok", 1)
  /\ result' = "ok"
  /\ UNCHANGED <<rtpDataArray, exited>>

\* Store the packet diff ahead of lastSeq; hand out what is more than R old.
Store(seq, diff) ==
  LET flags      == SetSeqStates(diff)
      data       == [rtpDataArray EXCEPT ![forward(headPos, diff - 1)] = seq]
      head       == forward(headPos, diff)
      forceRange == forwardDistance(head, tailPos) - R
  IN  /\ headPos' = head
      /\ lastSeq' = seq
      /\ \/ /\ forceRange > 0
            /\ \E n \in 0 .. forwardDistance(head, tailPos) :
                 /\ takeRtps(flags, data, head, forceRange, n)
                 /\ exited' = TakeFails(flags, data, head, n)
         \/ /\ forceRange <= 0
            /\ seqArray' = flags
            /\ rtpDataArray' = data
            /\ out' = <<>>
            /\ UNCHANGED <<tailPos, exited>>

InOrderBehindHole(seq) ==
  /\ lastSeq >= 0 /\ Diff(seq) = 1
  /\ tailPos # headPos
  /\ Store(seq, 1)
  /\ Count("ok", 1)
  /\ result' = "ok"

\* Slip: the skipped packets are not expected.
JumpExpectsOne(seq) ==
  /\ lastSeq >= 0 /\ Diff(seq) \in 2 .. R
  /\ Store(seq, Diff(seq))
  /\ Count("jump", 1)
  /\ result' = "jump"

Jump(seq) ==
  /\ lastSeq >= 0 /\ Diff(seq) \in 2 .. R
  /\ Store(seq, Diff(seq))
  /\ Count("jump", Diff(seq))
  /\ result' = "jump"

\* Slip: the ring is read after the new packet went out.
GapNewFirst(seq) ==
  /\ lastSeq >= 0 /\ Diff(seq) \in R + 1 .. MaxDiff - 1
  /\ \E n \in 0 .. forwardDistance(headPos, tailPos) :
       /\ TakesExactly(seqArray, rtpDataArray, headPos, R, n)
       /\ out' = <<seq>> \o Emitted(seqArray, rtpDataArray, n)
       /\ rtpDataArray' = [pos \in Slots |-> IF pos \in Taken(seqArray, n) THEN Empty
                                             ELSE rtpDataArray[pos]]
  /\ seqArray' = [pos \in Slots |-> IF pos = 0 THEN 1 ELSE 0]
  /\ headPos' = forward(0, 1) /\ tailPos' = forward(0, 1)
  /\ lastSeq' = seq
  /\ Count("gap", Diff(seq))
  /\ result' = "gap"
  /\ UNCHANGED exited

\* takeRtps(outQueue, reorderSize), then resetPos, then this packet as the first one.
Gap(seq) ==
  /\ lastSeq >= 0 /\ Diff(seq) \in R + 1 .. MaxDiff - 1
  /\ \E n \in 0 .. forwardDistance(headPos, tailPos) :
       /\ TakesExactly(seqArray, rtpDataArray, headPos, R, n)
       /\ exited' = TakeFails(seqArray, rtpDataArray, headPos, n)
       /\ out' = Append(Emitted(seqArray, rtpDataArray, n), seq)
       /\ rtpDataArray' = [pos \in Slots |-> IF pos \in Taken(seqArray, n) THEN Empty
                                             ELSE rtpDataArray[pos]]
  /\ seqArray' = [pos \in Slots |-> IF pos = 0 THEN 1 ELSE 0]
  /\ headPos' = forward(0, 1)
  /\ tailPos' = forward(0, 1)
  /\ lastSeq' = seq
  /\ Count("gap", Diff(seq))
  /\ result' = "gap"

Reject(state) ==
  /\ Count(state, 0)
  /\ result' = state
  /\ out' = <<>>
  /\ UNCHANGED <<lastSeq, ring, exited>>

Duplicated(seq) ==
  /\ lastSeq >= 0
  /\ \/ Diff(seq) = 0
     \/ Diff(seq) \in -R .. -1 /\ seqArray[getPos(Diff(seq))] = 1
  /\ Reject("duplicated")

\* tailDistance of updateData: how far the oldest waiting slot is behind lastSeq.
TailDistance ==
  IF headPos = tailPos THEN -1 ELSE forwardDistance(back(headPos, 1), tailPos)

\* Slip: the slot is flagged, the packet not moved into it.
LateNotStored(seq) ==
  LET pos == getPos(Diff(seq)) IN
  /\ lastSeq >= 0 /\ Diff(seq) \in -R .. -1
  /\ seqArray[pos] = 0 /\ -Diff(seq) <= TailDistance
  /\ \E n \in 0 .. forwardDistance(headPos, tailPos) :
       takeRtps([seqArray EXCEPT ![pos] = 1], rtpDataArray, headPos, 0, n)
  /\ Count("late", 0)
  /\ result' = "late"
  /\ UNCHANGED <<headPos, lastSeq, exited>>

\* Slip: no takeRtps after a late packet.
LateNotTaken(seq) ==
  LET pos == getPos(Diff(seq)) IN
  /\ lastSeq >= 0 /\ Diff(seq) \in -R .. -1
  /\ seqArray[pos] = 0 /\ -Diff(seq) <= TailDistance
  /\ seqArray' = [seqArray EXCEPT ![pos] = 1]
  /\ rtpDataArray' = [rtpDataArray EXCEPT ![pos] = seq]
  /\ out' = <<>>
  /\ Count("late", 0)
  /\ result' = "late"
  /\ UNCHANGED <<headPos, tailPos, lastSeq, exited>>

\* The return value of takeRtps is ignored here.
Late(seq) ==
  LET pos == getPos(Diff(seq)) IN
  /\ lastSeq >= 0 /\ Diff(seq) \in -R .. -1
  /\ seqArray[pos] = 0
  /\ -Diff(seq) <= TailDistance
  /\ \E n \in 0 .. forwardDistance(headPos, tailPos) :
       takeRtps([seqArray EXCEPT ![pos] = 1], [rtpDataArray EXCEPT ![pos] = seq], headPos, 0, n)
  /\ Count("late", 0)
  /\ result' = "late"
  /\ UNCHANGED <<headPos, lastSeq, exited>>

Old(seq) ==
  /\ lastSeq >= 0
  /\ \/ /\ Diff(seq) \in -R .. -1
        /\ seqArray[getPos(Diff(seq))] = 0
        /\ -Diff(seq) > TailDistance
     \/ Diff(seq) \in -MaxDiff + 1 .. -R - 1
  /\ Reject("old")

\* Whatever waited in the ring is forgotten.
Invalid(seq) ==
  /\ lastSeq >= 0
  /\ Diff(seq) \notin -R .. R
  /\ Diff(seq) <= -MaxDiff \/ Diff(seq) >= MaxDiff
  /\ resetPos
  /\ Count("invalid", 0)
  /\ result' = "invalid"
  /\ out' = <<>>
  /\ UNCHANGED exited

updateData(seq) ==
  \/ First(seq)
  \/ InOrderNothingPending(seq)
  \/ InOrderBehindHole(seq)
  \/ Jump(seq)
  \/ Gap(seq)
  \/ Duplicated(seq)
  \/ Late(seq)
  \/ Old(seq)
  \/ Invalid(seq)

-----------------------------------------------------------------------------
(* reorderRtp(rtpData, arrivedTimestamp, outQueue). *)

\* Slip: the wrap forgotten.
LeadingLessPlain(a, b) == a < b

\* LeadingRtp::operator<
LeadingLess(a, b) ==
  LET distance == IF a < b THEN b - a ELSE a - b
  IN  IF distance > LeadingWrap THEN b < a ELSE a < b

\* std::sort needs a strict weak order; on numbers where LeadingLess has a
\* cycle its outcome is undefined, and the packets may come in any order.
SortIsDefined(S) ==
  \A a, b, c \in S : LeadingLess(a, b) /\ LeadingLess(b, c) => LeadingLess(a, c)

SortOutcomes(s) ==
  { t \in { [i \in DOMAIN s |-> s[p[i]]] : p \in Bijection(DOMAIN s, DOMAIN s) } :
      SortIsDefined(Range(s)) => \A i, j \in DOMAIN s : i < j => ~LeadingLess(t[j], t[i]) }

Running == ~exited /\ feeding = <<>>

Arrives == Running /\ arrived < MaxUdp /\ arrived' = arrived + 1

Tally(fields) == [f \in StatusFields |-> IF f \in fields THEN status[f] + 1 ELSE status[f]]

NoOutput == out' = <<>> /\ UNCHANGED <<lastSeq, ring, counter, result, exited>>

\* A datagram shorter than an RTP header.
PackageLengthError ==
  /\ Arrives
  /\ status' = Tally({"udp"})
  /\ NoOutput
  /\ UNCHANGED <<source, leading, feeding>>

\* The first datagram fixes the source; one of another source is refused.
ForeignSource(src) ==
  /\ Arrives
  /\ source # NoSource /\ src # source
  /\ status' = Tally({"udp", IF src[2] # source[2] THEN "payloadError" ELSE "ssrcError"})
  /\ NoOutput
  /\ UNCHANGED <<source, leading, feeding>>

Accepts(src) ==
  /\ Arrives
  /\ source \in {NoSource, src}
  /\ source' = src

\* The first LeadingSize packets are kept; the last of them has all sorted.
Lead(src, seq) ==
  /\ Accepts(src)
  /\ status["rtp"] < LeadingSize
  /\ status' = Tally({"udp", "rtp"})
  /\ IF Len(leading) + 1 = LeadingSize
     THEN leading' = <<>> /\ feeding' \in SortOutcomes(Append(leading, seq))
     ELSE leading' = Append(leading, seq) /\ feeding' = feeding
  /\ NoOutput

Valid(rst) == IF rst \in {"invalid", "duplicated"} THEN {} ELSE {"valid"}

\* One iteration of the loop over the sorted leading packets.
FeedLeading ==
  /\ ~exited /\ feeding # <<>>
  /\ updateData(Head(feeding))
  /\ feeding' = Tail(feeding)
  /\ status' = Tally(Valid(result'))
  /\ UNCHANGED <<source, leading, arrived>>

Reorder(src, seq) ==
  /\ Accepts(src)
  /\ status["rtp"] >= LeadingSize
  /\ updateData(seq)
  /\ status' = Tally({"udp", "rtp"} \cup Valid(result'))
  /\ UNCHANGED <<leading, feeding>>

resetPipe ==
  /\ Running
  /\ counter' = ZeroCounter
  /\ status' = ZeroStatus
  /\ source' = NoSource
  /\ leading' = <<>>
  /\ resetPos
  /\ out' = <<>>
  /\ UNCHANGED <<feeding, result, exited, arrived>>

Init ==
  /\ lastSeq = -1
  /\ headPos = 0 /\ tailPos = 0
  /\ seqArray = [pos \in Slots |-> 0]
  /\ rtpDataArray = [pos \in Slots |-> Empty]
  /\ counter = ZeroCounter
  /\ status = ZeroStatus
  /\ source = NoSource
  /\ leading = <<>> /\ feeding = <<>>
  /\ result = "ok"
  /\ out = <<>>
  /\ exited = FALSE
  /\ arrived = 0

Next ==
  \/ PackageLengthError
  \/ \E src \in Sources : ForeignSource(src)
  \/ \E src \in Sources, seq \in SeqNums : Lead(src, seq)
  \/ \E src \in Sources, seq \in SeqNums : Reorder(src, seq)
  \/ FeedLeading
  \/ resetPipe

Spec == Init /\ [][Next]_vars

-----------------------------------------------------------------------------
(* The properties. *)

Pending   == forwardDistance(headPos, tailPos)
InWindow(pos) == forwardDistance(pos, tailPos) < Pending

\* What waits in the ring, and what it waits for.
HeldSlots == { pos \in Slots : InWindow(pos) /\ seqArray[pos] = 1 }
HoleSlots == { pos \in Slots : InWindow(pos) /\ seqArray[pos] = 0 }
Held      == { rtpDataArray[pos] : pos \in HeldSlots }

\* The oldest sequence number neither handed out nor given up.
NextSeq == IF lastSeq < 0 THEN -1 ELSE (lastSeq + 1 - Pending) % SeqRange

\* SeqCounter::lost()
Lost == counter["packetExpected"] - counter["ok"] - counter["late"] - counter["gap"] - counter["jump"]

RingTypeOK ==
  /\ lastSeq \in SeqNums \cup {-1}
  /\ headPos \in Slots /\ tailPos \in Slots
  /\ seqArray \in [Slots -> {0, 1}]
  /\ rtpDataArray \in [Slots -> SeqNums \cup {Empty}]
  /\ counter \in [CounterFields -> Int]
  /\ exited \in BOOLEAN

StreamTypeOK ==
  /\ source \in Sources \cup {NoSource}
  /\ status \in [StatusFields -> Nat]
  /\ leading \in Seq(SeqNums) /\ feeding \in Seq(SeqNums)
  /\ result \in {"ok", "jump", "late", "old", "gap", "duplicated", "invalid"}
  /\ arrived \in 0 .. MaxUdp

\* The fields keep to their types: positions inside the ring, sequence numbers
\* of 16 bits, a flag of 0 or 1 for every slot.
TypeOK == RingTypeOK /\ StreamTypeOK

\* The ring never waits for more than R packets, waits only because the oldest
\* of them is missing, and is empty until a first packet came.
WindowShape ==
  /\ Pending <= R
  /\ headPos # tailPos => seqArray[tailPos] = 0
  /\ lastSeq < 0 => headPos = tailPos

\* updateData never reaches exit(0): the ring never waits more than R packets,
\* and a slot flagged as arrived holds a packet whenever takeRtps comes to it.
NeverExits == ~exited

\* Every flagged slot of the window has a packet, and that packet is as
\* far behind lastSeq as the slot is behind the last one written: no wrap of
\* the ring or of the sequence numbers puts a packet in another one's place.
SlotsHoldTheirSeq ==
  \A pos \in HeldSlots :
    /\ rtpDataArray[pos] # Empty
    /\ getSeqDistance(lastSeq, rtpDataArray[pos]) = forwardDistance(headPos, pos) - 1

\* SeqCounter::lost() is a difference of uint32_t: it never wraps, and it
\* counts at least the packets the ring is still waiting for.
LostCoversHoles == Lost >= Cardinality(HoleSlots)

\* The E_LOG of reorderRtp that "should never happen", and what a full
\* buffer means: the leading packets are exactly the packets counted so far.
LeadingMatchesCount ==
  /\ Len(leading) <= LeadingSize
  /\ status["rtp"] < LeadingSize => Len(leading) = status["rtp"] /\ feeding = <<>>
  /\ status["rtp"] >= LeadingSize => leading = <<>>

\* If the leading packets lie within fewer than SeqRange - LeadingWrap numbers of
\* each other, they are fed in stream order, across a wrap as well.
LeadingFedInOrder ==
  [][ LET t == feeding' IN
      (/\ feeding = <<>>
       /\ \A i, j \in DOMAIN t : getSeqDistance(t[i], t[j]) < SeqRange - LeadingWrap)
        => \A i, j \in DOMAIN t : i < j => getSeqDistance(t[j], t[i]) >= 0 ]_vars

\* A step hands packets out in sequence order, none before the oldest
\* undecided number and none at or after the new one: over a stretch without
\* invalid packets or resets, no packet is delivered twice or out of order.
DeliveredInOrder ==
  [][ (lastSeq >= 0 /\ lastSeq' >= 0) =>
        LET offset(s) == (s - NextSeq) % SeqRange
            decided   == IF result' = "gap" /\ out' # <<>> THEN getSeqDistance(lastSeq', lastSeq) + Pending
                         ELSE (NextSeq' - NextSeq) % SeqRange
        IN  /\ \A i \in DOMAIN out' : offset(out'[i]) < decided
            /\ \A i, j \in DOMAIN out' : i < j => offset(out'[i]) < offset(out'[j]) ]_vars

=============================================================================

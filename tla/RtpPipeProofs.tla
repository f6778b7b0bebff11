--------------------------- MODULE RtpPipeProofs ---------------------------
(***************************************************************************)
(* For every reorder size and every width of the sequence numbers that     *)
(* RtpPipe admits: the ring of the pipe is sound.  RingInv says where the  *)
(* tail, the head, the holes and the waiting packets lie; each branch of   *)
(* updateData has a lemma that it keeps RingInv, and the theorems read the *)
(* properties off it.  The second half counts sequence numbers from the    *)
(* oldest undecided one: under RingInv a packet lies as far from the tail  *)
(* as its number from that one (Placed), takeRtps is what Admit decides    *)
(* (AdmitIs), and so the pipe implements ReorderBuffer and delivers in     *)
(* order.                                                                  *)
(***************************************************************************)
EXTENDS MCRtpPipe, FiniteSetTheorems, SequenceTheorems, WellFoundedInduction, TLAPS

-----------------------------------------------------------------------------
(* Ring arithmetic. *)

\* What the provers need of the sizes of the ring and of the 16-bit numbers.
LEMMA SizeFacts ==
  /\ ArraySize \in Nat /\ ArraySize > 2 /\ ArraySize = 2 * R + 1
  /\ R \in Nat /\ R > 0 /\ R < Half
  /\ Slots = 0 .. ArraySize - 1
  /\ Half \in Nat /\ SeqRange = 2 * Half /\ SeqNums = 0 .. 2 * Half - 1
  /\ MaxDiff \in Nat
  BY PipeAssumption DEF ArraySize, Slots, SeqRange, SeqNums

\* The quotient in back is 0 for one step.
LEMMA DivSmall ==
  ASSUME NEW n \in Nat, n > 1
  PROVE  1 \div n = 0
  BY SMT

\* One turn of the ring at most: forward is an addition with one correction.
LEMMA ForwardIs ==
  ASSUME NEW pos \in Slots, NEW d \in 0 .. ArraySize
  PROVE  /\ forward(pos, d) = IF pos + d < ArraySize THEN pos + d ELSE pos + d - ArraySize
         /\ forward(pos, d) \in Slots
  <1>1. ArraySize \in Nat \ {0} /\ pos \in 0 .. ArraySize - 1
    BY SizeFacts
  <1>2. (pos + d) % ArraySize = IF pos + d < ArraySize THEN pos + d ELSE pos + d - ArraySize
    BY <1>1, SMT
  <1>3. QED  BY <1>1, <1>2, SizeFacts DEF forward

\* One turn of the ring at most: back is a subtraction with one correction.
LEMMA BackIs ==
  ASSUME NEW pos \in Slots
  PROVE  back(pos, 1) = IF pos = 0 THEN ArraySize - 1 ELSE pos - 1
  <1>1. ArraySize \in Nat /\ ArraySize > 2 /\ pos \in 0 .. ArraySize - 1
    BY SizeFacts
  <1>2. 1 \div ArraySize = 0
    BY <1>1, DivSmall
  <1>3. CASE pos = 0
    <2>1. (ArraySize - 1) % ArraySize = ArraySize - 1
      BY <1>1, SMT
    <2>2. back(pos, 1) = (pos - 1 + 1 * ArraySize) % ArraySize
      BY <1>2, <1>3 DEF back
    <2>3. pos - 1 + 1 * ArraySize = ArraySize - 1
      BY <1>1, <1>3
    <2>4. QED  BY <1>3, <2>1, <2>2, <2>3
  <1>4. CASE pos # 0
    <2>1. (pos - 1) % ArraySize = pos - 1
      BY <1>1, <1>4, SMT
    <2>2. ~(1 > pos)
      BY <1>1, <1>4
    <2>3. back(pos, 1) = (pos - 1 + 0 * ArraySize) % ArraySize
      BY <2>2 DEF back
    <2>4. pos - 1 + 0 * ArraySize = pos - 1
      BY <1>1
    <2>5. QED  BY <1>4, <2>1, <2>3, <2>4
  <1>5. QED  BY <1>3, <1>4

\* Distances along the ring, and how a step forward changes them.
LEMMA DistanceType ==
  ASSUME NEW p \in Slots, NEW q \in Slots
  PROVE  /\ forwardDistance(p, q) \in 0 .. ArraySize - 1
         /\ forwardDistance(p, q) = 0 <=> p = q
         /\ p # q => forwardDistance(p, q) = ArraySize - forwardDistance(q, p)
  BY SizeFacts DEF forwardDistance

\* forward by n slots lies at distance n; this is what the loops over the ring count.
LEMMA DistanceForward ==
  ASSUME NEW p \in Slots, NEW d \in 0 .. ArraySize - 1
  PROVE  forwardDistance(forward(p, d), p) = d
  <1>1. /\ d \in 0 .. ArraySize
        /\ ArraySize \in Nat /\ Slots = 0 .. ArraySize - 1
    BY SizeFacts
  <1>2. forward(p, d) = IF p + d < ArraySize THEN p + d ELSE p + d - ArraySize
    BY <1>1, ForwardIs
  <1>3. QED  BY <1>1, <1>2 DEF forwardDistance

\* Moving both ends of a distance: the head away, the tail closer.
LEMMA DistanceOfHead ==
  ASSUME NEW h \in Slots, NEW q \in Slots, NEW d \in 0 .. ArraySize - 1,
         forwardDistance(h, q) + d < ArraySize
  PROVE  forwardDistance(forward(h, d), q) = forwardDistance(h, q) + d
  <1>1. /\ d \in 0 .. ArraySize
        /\ ArraySize \in Nat /\ Slots = 0 .. ArraySize - 1
    BY SizeFacts
  <1>2. forward(h, d) = IF h + d < ArraySize THEN h + d ELSE h + d - ArraySize
    BY <1>1, ForwardIs
  <1>3. QED  BY <1>1, <1>2 DEF forwardDistance

\* Moving the tail forward by n brings a slot n closer, round the ring if it is passed.
LEMMA DistanceOfTail ==
  ASSUME NEW p \in Slots, NEW t \in Slots, NEW n \in 0 .. ArraySize - 1
  PROVE  forwardDistance(p, forward(t, n)) =
           IF n <= forwardDistance(p, t) THEN forwardDistance(p, t) - n
           ELSE forwardDistance(p, t) - n + ArraySize
  <1>1. /\ n \in 0 .. ArraySize
        /\ ArraySize \in Nat /\ Slots = 0 .. ArraySize - 1
    BY SizeFacts
  <1>2. forward(t, n) = IF t + n < ArraySize THEN t + n ELSE t + n - ArraySize
    BY <1>1, ForwardIs
  <1>3. QED  BY <1>1, <1>2 DEF forwardDistance

\* A slot closer to the tail than the head is divides the distance of the head.
LEMMA DistanceChain ==
  ASSUME NEW h \in Slots, NEW p \in Slots, NEW t \in Slots,
         forwardDistance(p, t) < forwardDistance(h, t)
  PROVE  forwardDistance(h, p) = forwardDistance(h, t) - forwardDistance(p, t)
  BY SizeFacts DEF forwardDistance

\* A head closer to the tail than a slot is divides the distance of the slot.
LEMMA DistanceSplit ==
  ASSUME NEW h \in Slots, NEW p \in Slots, NEW t \in Slots,
         forwardDistance(h, t) <= forwardDistance(p, t)
  PROVE  forwardDistance(p, h) = forwardDistance(p, t) - forwardDistance(h, t)
  BY SizeFacts DEF forwardDistance

\* Sequence numbers: short distances add up across the 16-bit wrap.
LEMMA SeqDistanceAdds ==
  ASSUME NEW a \in SeqNums, NEW b \in SeqNums, NEW c \in SeqNums,
         getSeqDistance(a, b) >= 0, getSeqDistance(b, c) >= 0,
         getSeqDistance(a, b) + getSeqDistance(b, c) < Half
  PROVE  getSeqDistance(a, c) = getSeqDistance(a, b) + getSeqDistance(b, c)
  BY SizeFacts DEF getSeqDistance

\* The distance of two numbers the other way round, half the numbers apart excepted.
LEMMA SeqDistanceOpposite ==
  ASSUME NEW a \in SeqNums, NEW b \in SeqNums, getSeqDistance(a, b) \in -(Half - 1) .. Half - 1
  PROVE  getSeqDistance(b, a) = -getSeqDistance(a, b)
  BY SizeFacts DEF getSeqDistance

\* Type of getSeqDistance.
LEMMA SeqDistanceType ==
  ASSUME NEW a \in SeqNums, NEW b \in SeqNums
  PROVE  getSeqDistance(a, b) \in Int /\ getSeqDistance(a, a) = 0
  BY SizeFacts DEF getSeqDistance

-----------------------------------------------------------------------------
(* takeRtps. *)

\* When every flagged slot of the window has a packet, takeRtps does not fail,
\* passes the forced range, and stops before a missing packet or at the head.
LEMMA TakeStops ==
  ASSUME tailPos \in Slots, NEW flags \in [Slots -> {0, 1}], NEW data, NEW head \in Slots,
         NEW F \in Int, F <= forwardDistance(head, tailPos),
         NEW n \in 0 .. forwardDistance(head, tailPos),
         TakesExactly(flags, data, head, F, n),
         \A pos \in Slots : forwardDistance(pos, tailPos) < forwardDistance(head, tailPos)
                            /\ flags[pos] = 1 => data[pos] # Empty
  PROVE  /\ ~TakeFails(flags, data, head, n)
         /\ n >= F
         /\ forward(tailPos, n) \in Slots
         /\ forwardDistance(head, forward(tailPos, n)) = forwardDistance(head, tailPos) - n
         /\ head # forward(tailPos, n) => flags[forward(tailPos, n)] = 0
  <1> DEFINE D == forwardDistance(head, tailPos)
             t == forward(tailPos, n)
  <1> HIDE DEF D
  <1>0. D \in 0 .. ArraySize - 1 /\ ArraySize \in Nat
    BY DistanceType, SizeFacts DEF D
  <1>1. n \in 0 .. ArraySize - 1 /\ n <= D
    BY <1>0 DEF D
  <1> USE <1>0 DEF D
  <1>2. t \in Slots
    BY <1>1, ForwardIs
  <1>3. forwardDistance(t, tailPos) = n
    BY <1>1, DistanceForward
  <1>4. forwardDistance(head, t) = D - n
    BY <1>1, DistanceOfTail
  <1>5. n < D => ~NoData(flags, data, t)
    BY <1>2, <1>3 DEF NoData
  <1>6. n = D => head = t
    BY <1>1, <1>2, <1>4, DistanceType
  <1>7. \/ n = D
        \/ n >= F /\ flags[t] = 0
        \/ NoData(flags, data, t)
    BY DEF TakesExactly, StopsAt
  <1>8. QED
    BY <1>1, <1>2, <1>4, <1>5, <1>6, <1>7 DEF TakeFails

\* The slots of the window after the tail has moved by n are those of the old
\* window that are n or more from the old tail.
LEMMA WindowAfterTake ==
  ASSUME tailPos \in Slots, NEW head \in Slots, NEW n \in 0 .. forwardDistance(head, tailPos),
         NEW pos \in Slots
  PROVE  forwardDistance(pos, forward(tailPos, n)) < forwardDistance(head, forward(tailPos, n))
           <=> /\ n <= forwardDistance(pos, tailPos)
               /\ forwardDistance(pos, tailPos) < forwardDistance(head, tailPos)
  <1>0. /\ forwardDistance(head, tailPos) \in 0 .. ArraySize - 1
        /\ forwardDistance(pos, tailPos) \in 0 .. ArraySize - 1
        /\ ArraySize \in Nat
    BY DistanceType, SizeFacts
  <1>1. n \in 0 .. ArraySize - 1
    BY <1>0
  <1>2. forwardDistance(head, forward(tailPos, n)) = forwardDistance(head, tailPos) - n
    BY <1>1, DistanceOfTail
  <1>3. forwardDistance(pos, forward(tailPos, n)) =
           IF n <= forwardDistance(pos, tailPos) THEN forwardDistance(pos, tailPos) - n
           ELSE forwardDistance(pos, tailPos) - n + ArraySize
    BY <1>1, DistanceOfTail
  <1>4. QED  BY <1>0, <1>1, <1>2, <1>3

\* What the step that writes flags and data, and then moves the tail by n,
\* must have written for the packets to be in their places afterwards.
LEMMA AfterTake ==
  ASSUME tailPos \in Slots, NEW flags \in [Slots -> {0, 1}], NEW data, NEW head \in Slots,
         NEW n \in 0 .. forwardDistance(head, tailPos),
         headPos' = head, tailPos' = forward(tailPos, n), seqArray' = flags,
         \A pos \in Slots : n <= forwardDistance(pos, tailPos) => rtpDataArray'[pos] = data[pos],
         \A pos \in Slots :
           (/\ flags[pos] = 1
            /\ n <= forwardDistance(pos, tailPos)
            /\ forwardDistance(pos, tailPos) < forwardDistance(head, tailPos))
           => /\ data[pos] # Empty
              /\ getSeqDistance(lastSeq', data[pos]) = forwardDistance(head, pos) - 1
  PROVE  /\ SlotsHoldTheirSeq'
         /\ HoleSlots' \subseteq
              { pos \in Slots : flags[pos] = 0
                                /\ forwardDistance(pos, tailPos) < forwardDistance(head, tailPos) }
  <1>1. \A pos \in Slots : InWindow(pos)' <=>
           /\ n <= forwardDistance(pos, tailPos)
           /\ forwardDistance(pos, tailPos) < forwardDistance(head, tailPos)
    BY WindowAfterTake DEF InWindow, Pending, forwardDistance
  <1>2. ASSUME NEW pos \in HeldSlots'
        PROVE  /\ rtpDataArray'[pos] # Empty
               /\ getSeqDistance(lastSeq', rtpDataArray'[pos]) = forwardDistance(head, pos) - 1
    BY <1>1, <1>2 DEF HeldSlots
  <1>3. SlotsHoldTheirSeq'
    BY <1>2 DEF SlotsHoldTheirSeq, getSeqDistance, forwardDistance
  <1>4. QED
    BY <1>1, <1>3 DEF HoleSlots

-----------------------------------------------------------------------------
(* The invariant of the ring, and the branches of updateData. *)

RingInv ==
  /\ RingTypeOK
  /\ NeverExits
  /\ WindowShape
  /\ SlotsHoldTheirSeq
  /\ LostCoversHoles

\* setSeqState called diff times leaves the waiting slots alone and writes the
\* slots from headPos on.
LEMMA SetSeqStatesWindow ==
  ASSUME RingTypeOK, WindowShape, NEW diff \in 1 .. R, NEW pos \in Slots
  PROVE  /\ SetSeqStates(diff) \in [Slots -> {0, 1}]
         /\ forward(headPos, diff) \in Slots /\ forward(headPos, diff - 1) \in Slots
         /\ forwardDistance(forward(headPos, diff), tailPos) = Pending + diff
         /\ forwardDistance(pos, tailPos) < Pending =>
              /\ SetSeqStates(diff)[pos] = seqArray[pos]
              /\ pos # forward(headPos, diff - 1)
              /\ forwardDistance(forward(headPos, diff), pos) = forwardDistance(headPos, pos) + diff
         /\ (Pending <= forwardDistance(pos, tailPos) /\ forwardDistance(pos, tailPos) < Pending + diff) =>
              /\ forwardDistance(pos, headPos) = forwardDistance(pos, tailPos) - Pending
              /\ SetSeqStates(diff)[pos] = 1 <=> pos = forward(headPos, diff - 1)
              /\ pos = forward(headPos, diff - 1) => forwardDistance(forward(headPos, diff), pos) = 1
  <1> DEFINE k == forwardDistance(pos, headPos)
             head == forward(headPos, diff)
             last == forward(headPos, diff - 1)
  <1>1. /\ headPos \in Slots /\ tailPos \in Slots /\ seqArray \in [Slots -> {0, 1}]
        /\ Pending \in 0 .. R /\ Pending = forwardDistance(headPos, tailPos)
    BY DistanceType, SizeFacts DEF RingTypeOK, WindowShape, Pending
  <1>2. /\ diff \in 0 .. ArraySize - 1 /\ diff - 1 \in 0 .. ArraySize - 1
        /\ diff \in Nat /\ ArraySize = 2 * R + 1 /\ R \in Nat /\ diff <= R /\ diff >= 1
    BY SizeFacts
  <1>3. /\ head \in Slots /\ last \in Slots
        /\ forwardDistance(last, headPos) = diff - 1
        /\ forwardDistance(head, headPos) = diff
    BY <1>1, <1>2, ForwardIs, DistanceForward
  <1>4. k \in 0 .. ArraySize - 1 /\ forwardDistance(headPos, pos) \in 0 .. ArraySize - 1
    BY <1>1, DistanceType
  <1>5. SetSeqStates(diff) \in [Slots -> {0, 1}]
    BY <1>1 DEF SetSeqStates
  <1>6. SetSeqStates(diff)[pos] = IF k < diff - 1 THEN 0 ELSE IF k = diff - 1 THEN 1 ELSE seqArray[pos]
    BY DEF SetSeqStates
  <1>7. forwardDistance(head, tailPos) = Pending + diff
    BY <1>1, <1>2, DistanceOfHead
  <1>8. ASSUME forwardDistance(pos, tailPos) < Pending
        PROVE  /\ k > diff - 1
               /\ forwardDistance(head, pos) = forwardDistance(headPos, pos) + diff
    <2>1. forwardDistance(headPos, pos) = Pending - forwardDistance(pos, tailPos)
      BY <1>1, <1>8, DistanceChain
    <2>2. forwardDistance(pos, tailPos) \in 0 .. ArraySize - 1
      BY <1>1, DistanceType
    <2>3. forwardDistance(headPos, pos) \in 1 .. R
      BY <1>1, <1>2, <1>8, <2>1, <2>2
    <2>4. headPos # pos
      BY <1>1, <2>3, DistanceType
    <2>5. k = ArraySize - forwardDistance(headPos, pos)
      BY <1>1, <2>4, DistanceType
    <2>6. forwardDistance(headPos, pos) + diff < ArraySize
      BY <1>2, <2>3
    <2>7. forwardDistance(head, pos) = forwardDistance(headPos, pos) + diff
      BY <1>1, <1>2, <2>6, DistanceOfHead
    <2>8. QED  BY <1>2, <2>3, <2>5, <2>7
  <1>9. ASSUME Pending <= forwardDistance(pos, tailPos),
               forwardDistance(pos, tailPos) < Pending + diff
        PROVE  /\ k = forwardDistance(pos, tailPos) - Pending
               /\ SetSeqStates(diff)[pos] = 1 <=> pos = last
               /\ pos = last => forwardDistance(head, pos) = 1
    <2>1. k = forwardDistance(pos, tailPos) - Pending
      BY <1>1, <1>9, DistanceSplit
    <2>2. forwardDistance(pos, tailPos) \in 0 .. ArraySize - 1
      BY <1>1, DistanceType
    <2>3. k <= diff - 1
      BY <1>1, <1>2, <1>9, <2>1, <2>2
    <2>4. k = diff - 1 <=> pos = last
      <3>1. /\ last = (IF headPos + (diff - 1) < ArraySize THEN headPos + (diff - 1)
                       ELSE headPos + (diff - 1) - ArraySize)
        BY <1>1, <1>2, ForwardIs
      <3>2. QED  BY <1>1, <1>2, <3>1, SizeFacts DEF forwardDistance
    <2>5. pos = last => forwardDistance(head, pos) = 1
      BY <1>1, <1>2, <1>3, DistanceChain, DistanceSplit
    <2>6. QED  BY <1>2, <1>4, <1>6, <2>1, <2>3, <2>4, <2>5
  <1>10. QED
    BY <1>2, <1>3, <1>4, <1>5, <1>6, <1>7, <1>8, <1>9

\* The slots that setSeqState(0) has just written are at most diff - 1 new holes.
LEMMA NewHoles ==
  ASSUME RingTypeOK, NEW diff \in 1 .. R,
         NEW H \in SUBSET (HoleSlots \cup { pos \in Slots : forwardDistance(pos, headPos) < diff - 1 })
  PROVE  Cardinality(H) <= Cardinality(HoleSlots) + diff - 1
  <1> DEFINE Z == { pos \in Slots : forwardDistance(pos, headPos) < diff - 1 }
             f == [pos \in Z |-> forwardDistance(pos, headPos)]
  <1>1. headPos \in Slots /\ Slots = 0 .. ArraySize - 1 /\ ArraySize \in Nat
        /\ diff \in Nat /\ diff >= 1
    BY SizeFacts DEF RingTypeOK
  <1>2. IsFiniteSet(0 .. diff - 2) /\ Cardinality(0 .. diff - 2) = diff - 1
    <2>1. diff - 2 \in Int /\ 0 \in Int
      BY <1>1
    <2>2. /\ IsFiniteSet(0 .. diff - 2)
          /\ Cardinality(0 .. diff - 2) = IF 0 > diff - 2 THEN 0 ELSE diff - 2 - 0 + 1
      BY <2>1, FS_Interval
    <2>3. QED  BY <1>1, <2>2
  <1>3. f \in Injection(Z, 0 .. diff - 2)
    <2>1. ASSUME NEW pos \in Z
          PROVE  forwardDistance(pos, headPos) \in 0 .. diff - 2
      <3>1. forwardDistance(pos, headPos) \in 0 .. ArraySize - 1
        BY <1>1, DistanceType
      <3>2. QED  BY <1>1, <3>1
    <2>2. \A p, q \in Z : forwardDistance(p, headPos) = forwardDistance(q, headPos) => p = q
      BY <1>1 DEF forwardDistance
    <2>3. QED  BY <2>1, <2>2 DEF Injection, IsInjective
  <1>4. IsFiniteSet(Z) /\ Cardinality(Z) <= diff - 1
    BY <1>2, <1>3, FS_Injection
  <1>5. IsFiniteSet(HoleSlots)
    <2>1. IsFiniteSet(Slots)
      BY <1>1, FS_Interval
    <2>2. HoleSlots \in SUBSET Slots
      BY DEF HoleSlots
    <2>3. QED  BY <2>1, <2>2, FS_Subset
  <1>6. /\ IsFiniteSet(HoleSlots \cup Z)
        /\ Cardinality(HoleSlots \cup Z) =
             Cardinality(HoleSlots) + Cardinality(Z) - Cardinality(HoleSlots \cap Z)
    BY <1>4, <1>5, FS_Union
  <1>7. Cardinality(HoleSlots \cap Z) \in Nat
    <2>1. HoleSlots \cap Z \in SUBSET HoleSlots
      OBVIOUS
    <2>2. IsFiniteSet(HoleSlots \cap Z)
      BY <1>5, <2>1, FS_Subset
    <2>3. QED  BY <2>2, FS_CardinalityType
  <1>8. IsFiniteSet(H) /\ Cardinality(H) <= Cardinality(HoleSlots \cup Z)
    <2> HIDE DEF Z
    <2>1. H \in SUBSET (HoleSlots \cup Z)
      BY DEF Z
    <2>2. QED  BY <1>6, <2>1, FS_Subset
  <1>9. /\ Cardinality(H) \in Nat /\ Cardinality(HoleSlots) \in Nat /\ Cardinality(Z) \in Nat
    BY <1>4, <1>5, <1>8, FS_CardinalityType
  <1>10. QED
    BY <1>1, <1>4, <1>6, <1>7, <1>8, <1>9

\* The holes of the window are finitely many, so that lost() can count them.
LEMMA HolesFinite ==
  /\ IsFiniteSet(HoleSlots) /\ Cardinality(HoleSlots) \in Nat
  <1>1. IsFiniteSet(Slots)
    BY SizeFacts, FS_Interval
  <1>2. HoleSlots \in SUBSET Slots
    BY DEF HoleSlots
  <1>3. QED  BY <1>1, <1>2, FS_Subset, FS_CardinalityType

\* How the counters of an accepted packet change lost().
LEMMA CountAccepted ==
  ASSUME RingTypeOK, NEW e \in Int, NEW state \in {"ok", "jump", "late", "gap"}, Count(state, e)
  PROVE  counter' \in [CounterFields -> Int] /\ Lost' = Lost + e - 1 /\ Lost \in Int
  <1>1. counter \in [CounterFields -> Int]
    BY DEF RingTypeOK
  <1>2. counter' = [f \in CounterFields |->
                      IF f = "packetExpected" THEN counter[f] + e
                      ELSE IF f \in {"packetCount", state} THEN counter[f] + 1 ELSE counter[f]]
    BY DEF Count
  <1>3. QED  BY <1>1, <1>2 DEF CounterFields, Lost

\* The counters of a packet that is not stored do not change lost().
LEMMA CountRejected ==
  ASSUME RingTypeOK, NEW state \in {"old", "duplicated", "invalid"}, Count(state, 0)
  PROVE  counter' \in [CounterFields -> Int] /\ Lost' = Lost /\ Lost \in Int
  <1>1. counter \in [CounterFields -> Int]
    BY DEF RingTypeOK
  <1>2. counter' = [f \in CounterFields |->
                      IF f = "packetExpected" THEN counter[f] + 0
                      ELSE IF f \in {"packetCount", state} THEN counter[f] + 1 ELSE counter[f]]
    BY DEF Count
  <1>3. QED  BY <1>1, <1>2 DEF CounterFields, Lost

\* A packet up to R ahead is stored; what is then more than R old goes out.
LEMMA StorePreserves ==
  ASSUME RingInv, lastSeq >= 0, NEW seq \in SeqNums, NEW diff \in 1 .. R, Diff(seq) = diff,
         diff = 1 => headPos # tailPos,
         Store(seq, diff), NEW state \in {"ok", "jump"}, Count(state, diff)
  PROVE  RingInv'
  <1> DEFINE flags == SetSeqStates(diff)
             data  == [rtpDataArray EXCEPT ![forward(headPos, diff - 1)] = seq]
             head  == forward(headPos, diff)
             far   == forwardDistance(head, tailPos)
  <1>1. RingTypeOK /\ WindowShape /\ SlotsHoldTheirSeq /\ LostCoversHoles /\ ~exited
    BY DEF RingInv, NeverExits
  <1>2. /\ headPos \in Slots /\ tailPos \in Slots /\ lastSeq \in SeqNums
        /\ rtpDataArray \in [Slots -> SeqNums \cup {Empty}]
        /\ Pending \in 0 .. R /\ Pending = forwardDistance(headPos, tailPos)
        /\ diff \in Nat /\ diff >= 1 /\ diff <= R /\ R \in Nat /\ R < Half /\ Half \in Nat
        /\ ArraySize = 2 * R + 1
    BY <1>1, DistanceType, SizeFacts DEF RingTypeOK, WindowShape, Pending
  <1>3. /\ flags \in [Slots -> {0, 1}] /\ head \in Slots /\ forward(headPos, diff - 1) \in Slots
        /\ far = forwardDistance(head, tailPos) /\ far = Pending + diff
        /\ far \in Nat /\ far < ArraySize
    <2>1. /\ flags \in [Slots -> {0, 1}] /\ head \in Slots /\ forward(headPos, diff - 1) \in Slots
          /\ far = Pending + diff
      BY <1>1, <1>2, SetSeqStatesWindow
    <2>2. QED  BY <1>2, <2>1
  <1>4. data \in [Slots -> SeqNums \cup {Empty}]
    BY <1>2, <1>3
  <1>4a. /\ forwardDistance(head, tailPos) = far
        /\ \A pos \in Slots :
             /\ data[pos] = IF pos = forward(headPos, diff - 1) THEN seq ELSE rtpDataArray[pos]
             /\ forwardDistance(pos, tailPos) < Pending =>
                  /\ flags[pos] = seqArray[pos]
                  /\ pos # forward(headPos, diff - 1)
                  /\ forwardDistance(head, pos) = forwardDistance(headPos, pos) + diff
             /\ (Pending <= forwardDistance(pos, tailPos) /\ forwardDistance(pos, tailPos) < far) =>
                  /\ forwardDistance(pos, headPos) = forwardDistance(pos, tailPos) - Pending
                  /\ flags[pos] = 1 <=> pos = forward(headPos, diff - 1)
                  /\ pos = forward(headPos, diff - 1) => forwardDistance(head, pos) = 1
             /\ forwardDistance(pos, headPos) = diff - 1 => flags[pos] = 1
    <2>1. \A pos \in Slots : data[pos] = IF pos = forward(headPos, diff - 1) THEN seq ELSE rtpDataArray[pos]
      BY <1>2, <1>3
    <2>2. \A pos \in Slots : forwardDistance(pos, headPos) = diff - 1 => flags[pos] = 1
      BY <1>2 DEF SetSeqStates
    <2>3. ASSUME NEW pos \in Slots, forwardDistance(pos, tailPos) < Pending
          PROVE  /\ flags[pos] = seqArray[pos]
                 /\ pos # forward(headPos, diff - 1)
                 /\ forwardDistance(head, pos) = forwardDistance(headPos, pos) + diff
      BY <1>1, <2>3, SetSeqStatesWindow
    <2>4. ASSUME NEW pos \in Slots, Pending <= forwardDistance(pos, tailPos),
                 forwardDistance(pos, tailPos) < Pending + diff
          PROVE  /\ forwardDistance(pos, headPos) = forwardDistance(pos, tailPos) - Pending
                 /\ flags[pos] = 1 <=> pos = forward(headPos, diff - 1)
                 /\ pos = forward(headPos, diff - 1) => forwardDistance(head, pos) = 1
      BY <1>1, <2>4, SetSeqStatesWindow
    <2> HIDE DEF flags, data, head
    <2>5. QED  BY <1>3, <2>1, <2>2, <2>3, <2>4
  <1> HIDE DEF flags, data, head
  \* What is in the window between the old tail and the new head.
  <1>5. ASSUME NEW pos \in Slots, forwardDistance(pos, tailPos) < far, flags[pos] = 1
        PROVE  /\ data[pos] # Empty
               /\ forwardDistance(head, pos) <= R =>
                    getSeqDistance(seq, data[pos]) = forwardDistance(head, pos) - 1
    <2>1. CASE forwardDistance(pos, tailPos) < Pending
      <3>1. /\ flags[pos] = seqArray[pos] /\ data[pos] = rtpDataArray[pos]
            /\ forwardDistance(head, pos) = forwardDistance(headPos, pos) + diff
        BY <1>4a, <2>1
      <3>2. pos \in HeldSlots
        BY <1>5, <2>1, <3>1 DEF HeldSlots, InWindow
      <3>3. /\ rtpDataArray[pos] # Empty /\ rtpDataArray[pos] \in SeqNums
            /\ getSeqDistance(lastSeq, rtpDataArray[pos]) = forwardDistance(headPos, pos) - 1
        BY <1>1, <1>2, <3>2 DEF SlotsHoldTheirSeq
      <3>4. forwardDistance(headPos, pos) \in 1 .. R
        <4>1. forwardDistance(headPos, pos) = Pending - forwardDistance(pos, tailPos)
          BY <1>2, <2>1, DistanceChain
        <4>2. forwardDistance(pos, tailPos) \in 0 .. ArraySize - 1
          BY <1>2, DistanceType
        <4>3. QED  BY <1>2, <2>1, <4>1, <4>2
      <3>5. getSeqDistance(seq, lastSeq) = diff
        BY DEF Diff
      <3>6. ASSUME forwardDistance(head, pos) <= R
            PROVE  getSeqDistance(seq, rtpDataArray[pos]) = diff + (forwardDistance(headPos, pos) - 1)
        <4>1. /\ getSeqDistance(seq, lastSeq) >= 0
              /\ getSeqDistance(lastSeq, rtpDataArray[pos]) >= 0
              /\ getSeqDistance(seq, lastSeq) + getSeqDistance(lastSeq, rtpDataArray[pos]) < Half
          BY <1>2, <3>1, <3>3, <3>4, <3>5, <3>6
        <4>2. QED  BY <1>2, <3>3, <3>5, <4>1, SeqDistanceAdds
      <3>7. QED  BY <1>2, <3>1, <3>3, <3>4, <3>6
    <2>2. CASE ~(forwardDistance(pos, tailPos) < Pending)
      <3>1. forwardDistance(pos, tailPos) \in 0 .. ArraySize - 1
        BY <1>2, DistanceType
      <3>2. Pending <= forwardDistance(pos, tailPos)
        BY <1>2, <2>2, <3>1
      <3>3. /\ pos = forward(headPos, diff - 1) /\ forwardDistance(head, pos) = 1
        BY <1>4a, <1>5, <3>2
      <3>4. data[pos] = seq
        BY <1>4a, <3>3
      <3>5. getSeqDistance(seq, seq) = 0
        BY SeqDistanceType
      <3>6. seq # Empty
        BY SizeFacts DEF Empty
      <3>7. QED  BY <3>3, <3>4, <3>5, <3>6
    <2>3. QED  BY <2>1, <2>2
  \* Both ways of the code, with and without takeRtps, move the tail by some n.
  <1>6. PICK n \in 0 .. far :
          /\ headPos' = head /\ tailPos' = forward(tailPos, n) /\ seqArray' = flags
          /\ rtpDataArray' \in [Slots -> SeqNums \cup {Empty}]
          /\ \A pos \in Slots : n <= forwardDistance(pos, tailPos) => rtpDataArray'[pos] = data[pos]
          /\ lastSeq' = seq
          /\ exited' = FALSE
          /\ tailPos' \in Slots
          /\ forwardDistance(headPos', tailPos') = far - n /\ far - n <= R
          /\ headPos' # tailPos' => seqArray'[tailPos'] = 0
    <2>0. /\ headPos' = head /\ lastSeq' = seq
          /\ \/ /\ far - R > 0
                /\ \E n \in 0 .. far : /\ takeRtps(flags, data, head, far - R, n)
                                      /\ exited' = TakeFails(flags, data, head, n)
             \/ /\ far - R <= 0
                /\ seqArray' = flags /\ rtpDataArray' = data
                /\ tailPos' = tailPos /\ exited' = exited
      BY DEF Store, flags, data, head
    <2>1. CASE far - R > 0
      <3>1. PICK n \in 0 .. far : /\ takeRtps(flags, data, head, far - R, n)
                                  /\ exited' = TakeFails(flags, data, head, n)
        BY <1>2, <1>3, <2>0, <2>1
      <3>2. TakesExactly(flags, data, head, far - R, n)
        BY <3>1 DEF takeRtps
      <3>3. far - R \in Int /\ far - R <= far
        BY <1>2, <1>3
      <3>4. /\ ~TakeFails(flags, data, head, n)
            /\ n >= far - R
            /\ forward(tailPos, n) \in Slots
            /\ forwardDistance(head, forward(tailPos, n)) = far - n
            /\ head # forward(tailPos, n) => flags[forward(tailPos, n)] = 0
        BY <1>2, <1>3, <1>5, <3>2, <3>3, TakeStops
      <3>5. headPos' = head /\ lastSeq' = seq
        BY <2>0
      <3>6. /\ rtpDataArray' \in [Slots -> SeqNums \cup {Empty}]
            /\ \A pos \in Slots : n <= forwardDistance(pos, tailPos) => rtpDataArray'[pos] = data[pos]
        <4>1. rtpDataArray' = [pos \in Slots |-> IF pos \in Taken(flags, n) THEN Empty ELSE data[pos]]
          BY <3>1 DEF takeRtps
        <4>2. \A pos \in Slots : n <= forwardDistance(pos, tailPos) => pos \notin Taken(flags, n)
          <5>1. \A pos \in Slots : forwardDistance(pos, tailPos) \in 0 .. ArraySize - 1
            BY <1>2, DistanceType
          <5>2. n \in Nat
            BY <1>3
          <5>3. QED  BY <1>2, <5>1, <5>2 DEF Taken
        <4>3. QED  BY <1>4, <4>1, <4>2
      <3>7. tailPos' = forward(tailPos, n) /\ seqArray' = flags
        BY <3>1 DEF takeRtps
      <3>8. exited' = FALSE
        BY <3>1, <3>4 DEF TakeFails
      <3>9. far - n <= R
        BY <1>2, <1>3, <3>4
      <3>10. QED  BY <3>4, <3>5, <3>6, <3>7, <3>8, <3>9
    <2>2. CASE ~(far - R > 0)
      <3>1. /\ headPos' = head /\ lastSeq' = seq /\ seqArray' = flags /\ rtpDataArray' = data
            /\ tailPos' = tailPos /\ exited' = exited
        BY <1>2, <1>3, <2>0, <2>2
      <3>2. forward(tailPos, 0) = tailPos
        <4>1. 0 \in 0 .. ArraySize /\ tailPos + 0 < ArraySize /\ tailPos + 0 = tailPos
          BY <1>2, SizeFacts
        <4>2. QED  BY <1>2, <4>1, ForwardIs
      <3>3. far <= R
        BY <1>2, <1>3, <2>2
      <3>4. forwardDistance(tailPos, tailPos) = 0
        BY <1>2, DistanceType
      <3>5. flags[tailPos] = 0
        <4>1. CASE Pending > 0
          <5>1. headPos # tailPos
            <6>1. forwardDistance(headPos, tailPos) # 0
              BY <1>2, <4>1
            <6>2. QED  BY <1>2, <3>4, <6>1
          <5>2. seqArray[tailPos] = 0
            BY <1>1, <5>1 DEF WindowShape
          <5>3. QED  BY <1>2, <1>4a, <3>4, <4>1, <5>2
        <4>2. CASE Pending = 0
          <5>1. headPos = tailPos
            <6>1. forwardDistance(headPos, tailPos) = 0
              BY <1>2, <4>2
            <6>2. QED  BY <1>2, <6>1, DistanceType
          <5>2. diff > 1
            BY <1>2, <5>1
          <5>3. tailPos # forward(headPos, diff - 1)
            <6>1. diff - 1 \in 0 .. ArraySize - 1
              BY <1>2
            <6>2. forwardDistance(forward(headPos, diff - 1), headPos) = diff - 1
              BY <1>2, <6>1, DistanceForward
            <6>3. QED  BY <1>2, <3>4, <5>1, <5>2, <6>2
          <5>4. ~(flags[tailPos] = 1)
            BY <1>2, <1>3, <1>4a, <3>4, <4>2, <5>3
          <5>5. QED  BY <1>2, <1>3, <5>4
        <4>3. QED  BY <1>2, <4>1, <4>2
      <3>6. far - 0 = far /\ 0 \in 0 .. far
        BY <1>2, <1>3
      <3>7. /\ rtpDataArray' \in [Slots -> SeqNums \cup {Empty}]
            /\ \A pos \in Slots : 0 <= forwardDistance(pos, tailPos) => rtpDataArray'[pos] = data[pos]
        BY <1>4, <3>1
      <3>8. exited' = FALSE
        BY <1>1, <3>1 DEF RingTypeOK
      <3>9. QED  BY <1>1, <1>2, <1>3, <3>8, <3>1, <3>2, <3>3, <3>5, <3>6, <3>7
    <2>3. QED  BY <2>1, <2>2
  <1>7. ASSUME NEW pos \in Slots, flags[pos] = 1,
               n <= forwardDistance(pos, tailPos), forwardDistance(pos, tailPos) < far
        PROVE  /\ data[pos] # Empty
               /\ getSeqDistance(lastSeq', data[pos]) = forwardDistance(head, pos) - 1
    <2>1. forwardDistance(head, pos) = far - forwardDistance(pos, tailPos)
      BY <1>2, <1>3, <1>7, DistanceChain
    <2>2. forwardDistance(pos, tailPos) \in 0 .. ArraySize - 1
      BY <1>2, DistanceType
    <2>3. forwardDistance(head, pos) <= R
      BY <1>2, <1>3, <1>6, <1>7, <2>1, <2>2
    <2>4. QED  BY <1>5, <1>6, <1>7, <2>3
  <1>8. /\ SlotsHoldTheirSeq'
        /\ HoleSlots' \subseteq { pos \in Slots : flags[pos] = 0 /\ forwardDistance(pos, tailPos) < far }
    BY <1>2, <1>3, <1>6, <1>7, AfterTake
  <1>9. LostCoversHoles'
    <2>1. HoleSlots' \in SUBSET (HoleSlots \cup { pos \in Slots : forwardDistance(pos, headPos) < diff - 1 })
      <3>1. ASSUME NEW pos \in Slots, flags[pos] = 0, forwardDistance(pos, tailPos) < far
            PROVE  pos \in HoleSlots \/ forwardDistance(pos, headPos) < diff - 1
        <4>1. CASE forwardDistance(pos, tailPos) < Pending
          <5>1. flags[pos] = seqArray[pos]
            BY <1>4a, <3>1, <4>1
          <5>2. QED  BY <3>1, <4>1, <5>1 DEF HoleSlots, InWindow
        <4>2. CASE ~(forwardDistance(pos, tailPos) < Pending)
          <5>1. forwardDistance(pos, tailPos) \in 0 .. ArraySize - 1
            BY <1>2, DistanceType
          <5>2. forwardDistance(pos, headPos) = forwardDistance(pos, tailPos) - Pending
            BY <1>2, <1>4a, <3>1, <4>2, <5>1
          <5>3. forwardDistance(pos, headPos) # diff - 1
            BY <1>4a, <3>1
          <5>4. QED
            <6>1. forwardDistance(pos, tailPos) < Pending + diff
              BY <1>3, <3>1
            <6>2. forwardDistance(pos, headPos) <= diff - 1 /\ forwardDistance(pos, headPos) \in Int
              BY <1>2, <5>1, <5>2, <6>1
            <6>3. QED  BY <1>2, <5>3, <6>2
        <4>3. QED  BY <4>1, <4>2
      <3>2. QED  BY <1>8, <3>1
    <2>2. Cardinality(HoleSlots') <= Cardinality(HoleSlots) + diff - 1
      BY <1>1, <2>1, NewHoles
    <2>3. Lost' = Lost + diff - 1 /\ Lost \in Int
      BY <1>1, <1>2, CountAccepted
    <2>4. Cardinality(HoleSlots') \in Nat
      <3>1. IsFiniteSet(Slots)
        BY <1>2, FS_Interval, SizeFacts
      <3>2. HoleSlots' \in SUBSET Slots
        BY <1>8
      <3>3. QED  BY <3>1, <3>2, FS_Subset, FS_CardinalityType
    <2>5. QED  BY <1>1, <1>2, <2>2, <2>3, <2>4, HolesFinite DEF LostCoversHoles
  <1>10. RingTypeOK'
    <2>1. counter' \in [CounterFields -> Int]
      BY <1>1, <1>2, CountAccepted
    <2>2. QED  BY <1>3, <1>6, <2>1 DEF RingTypeOK
  <1>11. WindowShape'
    <2>1. forwardDistance(headPos, tailPos)' = far - n
      BY <1>6 DEF forwardDistance
    <2>2. ~(lastSeq' < 0)
      BY <1>6, SizeFacts
    <2>3. QED  BY <1>6, <2>1, <2>2 DEF WindowShape, Pending
  <1>12. QED
    BY <1>6, <1>8, <1>9, <1>10, <1>11 DEF RingInv, NeverExits

\* A ring in which nothing waits satisfies whatever is said of waiting packets.
LEMMA NothingPending ==
  ASSUME RingTypeOK', headPos' = tailPos', NeverExits', Lost' >= 0
  PROVE  RingInv'
  <1>1. headPos' \in Slots /\ tailPos' \in Slots
    BY DEF RingTypeOK, Slots, ArraySize
  <1>2. forwardDistance(headPos', tailPos') = 0
    BY <1>1, DistanceType
  <1>3. Pending' = 0
    BY <1>2 DEF Pending, forwardDistance
  <1>4. \A pos \in Slots : ~InWindow(pos)'
    <2>1. \A pos \in Slots : forwardDistance(pos, tailPos') \in 0 .. ArraySize - 1
      BY <1>1, DistanceType
    <2>2. QED  BY <1>3, <2>1, SizeFacts DEF InWindow, forwardDistance
  <1>5. HoleSlots' = {} /\ HeldSlots' = {}
    BY <1>4 DEF HoleSlots, HeldSlots
  <1>6. SlotsHoldTheirSeq'
    BY <1>5 DEF SlotsHoldTheirSeq
  <1>7. LostCoversHoles'
    BY <1>5, FS_EmptySet DEF LostCoversHoles
  <1>8. WindowShape'
    BY <1>3, SizeFacts DEF WindowShape
  <1>9. QED
    BY <1>6, <1>7, <1>8 DEF RingInv

\* The first packet, and the next in order when nothing waits, go straight out.
LEMMA EmitPreserves ==
  ASSUME RingInv, NEW seq \in SeqNums, First(seq) \/ InOrderNothingPending(seq)
  PROVE  RingInv'
  <1>1. RingTypeOK /\ WindowShape /\ LostCoversHoles /\ ~exited
    BY DEF RingInv, NeverExits
  <1>2. /\ headPos = tailPos
        /\ seqArray' = SetSeqStates(1)
        /\ headPos' = forward(headPos, 1) /\ tailPos' = forward(tailPos, 1)
        /\ lastSeq' = seq /\ Count("ok", 1)
        /\ rtpDataArray' = rtpDataArray /\ exited' = exited
    BY <1>1 DEF First, InOrderNothingPending, WindowShape
  <1>3. headPos \in Slots /\ seqArray \in [Slots -> {0, 1}] /\ exited \in BOOLEAN
    BY <1>1 DEF RingTypeOK
  <1>4. SetSeqStates(1) \in [Slots -> {0, 1}]
    BY <1>3 DEF SetSeqStates
  <1>5. 1 \in 0 .. ArraySize
    BY SizeFacts
  <1>6. forward(headPos, 1) \in Slots
    BY <1>3, <1>5, ForwardIs
  <1>7. counter' \in [CounterFields -> Int] /\ Lost' = Lost + 1 - 1 /\ Lost \in Int
    BY <1>1, <1>2, CountAccepted
  <1>8. Lost' >= 0
    BY <1>1, <1>7, HolesFinite DEF LostCoversHoles
  <1>9. RingTypeOK'
    BY <1>1, <1>2, <1>3, <1>4, <1>6, <1>7 DEF RingTypeOK
  <1>10. NeverExits'
    BY <1>1, <1>2 DEF NeverExits
  <1>11. QED
    BY <1>2, <1>8, <1>9, <1>10, NothingPending

\* takeRtps(outQueue, reorderSize) reaches the end of the window, so that
\* the resetPos that follows forgets nothing but holes.
LEMMA GapPreserves ==
  ASSUME RingInv, NEW seq \in SeqNums, Gap(seq)
  PROVE  RingInv'
  <1>1. RingTypeOK /\ WindowShape /\ LostCoversHoles /\ SlotsHoldTheirSeq /\ ~exited
    BY DEF RingInv, NeverExits
  <1>2. /\ headPos \in Slots /\ tailPos \in Slots /\ seqArray \in [Slots -> {0, 1}]
        /\ rtpDataArray \in [Slots -> SeqNums \cup {Empty}]
        /\ forwardDistance(headPos, tailPos) <= R
        /\ forwardDistance(headPos, tailPos) \in Nat /\ R \in Nat
    <2>1. /\ headPos \in Slots /\ tailPos \in Slots /\ seqArray \in [Slots -> {0, 1}]
          /\ rtpDataArray \in [Slots -> SeqNums \cup {Empty}]
          /\ forwardDistance(headPos, tailPos) <= R
      BY <1>1 DEF RingTypeOK, WindowShape, Pending
    <2>2. forwardDistance(headPos, tailPos) \in 0 .. ArraySize - 1
      BY <2>1, DistanceType
    <2>3. QED  BY <2>1, <2>2, SizeFacts
  <1>3. PICK n \in 0 .. forwardDistance(headPos, tailPos) :
          /\ TakesExactly(seqArray, rtpDataArray, headPos, R, n)
          /\ exited' = TakeFails(seqArray, rtpDataArray, headPos, n)
          /\ rtpDataArray' = [pos \in Slots |-> IF pos \in Taken(seqArray, n) THEN Empty
                                                ELSE rtpDataArray[pos]]
    BY DEF Gap
  <1>4. ~TakeFails(seqArray, rtpDataArray, headPos, n)
    <2>1. \A pos \in Slots : forwardDistance(pos, tailPos) < forwardDistance(headPos, tailPos)
                             /\ seqArray[pos] = 1 => rtpDataArray[pos] # Empty
      BY <1>1 DEF SlotsHoldTheirSeq, HeldSlots, InWindow, Pending
    <2>2. n = forwardDistance(headPos, tailPos) => ~TakeFails(seqArray, rtpDataArray, headPos, n)
      BY <1>2 DEF TakeFails
    <2>3. CASE n < forwardDistance(headPos, tailPos)
      <3>1. forward(tailPos, n) \in Slots /\ forwardDistance(forward(tailPos, n), tailPos) = n
        <4>1. forwardDistance(headPos, tailPos) \in 0 .. ArraySize - 1
          BY <1>2, DistanceType
        <4>2. n \in 0 .. ArraySize - 1 /\ n \in 0 .. ArraySize
          BY <4>1, SizeFacts
        <4>3. QED  BY <1>2, <4>2, ForwardIs, DistanceForward
      <3>2. QED  BY <2>1, <2>3, <3>1 DEF TakeFails, NoData
    <2>4. QED  BY <1>2, <2>2, <2>3
  <1>5. /\ seqArray' = [pos \in Slots |-> IF pos = 0 THEN 1 ELSE 0]
        /\ headPos' = forward(0, 1) /\ tailPos' = forward(0, 1)
        /\ lastSeq' = seq /\ Count("gap", Diff(seq)) /\ Diff(seq) > 0 /\ Diff(seq) \in Int
    BY SizeFacts DEF Gap
  <1>6. counter' \in [CounterFields -> Int] /\ Lost' = Lost + Diff(seq) - 1 /\ Lost \in Int
    BY <1>1, <1>5, CountAccepted
  <1>7. Lost' >= 0
    BY <1>1, <1>5, <1>6, HolesFinite DEF LostCoversHoles
  <1>8. exited' = FALSE
    BY <1>3, <1>4 DEF TakeFails
  <1>9. forward(0, 1) \in Slots
    <2>1. 0 \in Slots /\ 1 \in 0 .. ArraySize
      BY SizeFacts
    <2>2. QED  BY <2>1, ForwardIs
  <1>10. rtpDataArray' \in [Slots -> SeqNums \cup {Empty}] /\ seqArray' \in [Slots -> {0, 1}]
    BY <1>2, <1>3, <1>5
  <1>11. RingTypeOK'
    BY <1>5, <1>6, <1>8, <1>9, <1>10 DEF RingTypeOK
  <1>12. QED
    BY <1>5, <1>7, <1>8, <1>11, NothingPending DEF NeverExits

\* resetPos, after an invalid packet or in resetPipe.
LEMMA ResetPreserves ==
  ASSUME RingInv, resetPos, exited' = exited,
         counter' \in [CounterFields -> Int], Lost' >= 0
  PROVE  RingInv'
  <1>1. RingTypeOK /\ ~exited
    BY DEF RingInv, NeverExits
  <1>2. RingTypeOK'
    BY <1>1, SizeFacts DEF RingTypeOK, resetPos
  <1>3. headPos' = tailPos'
    BY DEF resetPos
  <1>4. QED
    BY <1>1, <1>2, <1>3, NothingPending DEF NeverExits

\* A duplicated or old packet changes nothing but counters.
LEMMA RejectPreserves ==
  ASSUME RingInv, NEW state \in {"old", "duplicated"}, Reject(state)
  PROVE  RingInv'
  <1>1. RingTypeOK /\ WindowShape /\ LostCoversHoles /\ SlotsHoldTheirSeq /\ NeverExits
    BY DEF RingInv
  <1>2. UNCHANGED <<lastSeq, ring, exited>> /\ Count(state, 0)
    BY DEF Reject
  <1>3. counter' \in [CounterFields -> Int] /\ Lost' = Lost
    BY <1>1, <1>2, CountRejected
  <1>4. QED
    BY <1>1, <1>2, <1>3
       DEF RingInv, RingTypeOK, WindowShape, LostCoversHoles, SlotsHoldTheirSeq, NeverExits, ring,
           Pending, InWindow, HeldSlots, HoleSlots

\* A late packet that is still waited for goes to the slot that is as far
\* behind headPos as the packet is behind lastSeq, inside the window.
LEMMA LateSlot ==
  ASSUME RingTypeOK, Pending \in 0 .. R, NEW d \in 1 .. R, d <= TailDistance
  PROVE  /\ getPos(-d) \in Slots
         /\ forwardDistance(headPos, getPos(-d)) = d + 1
         /\ forwardDistance(getPos(-d), tailPos) < Pending
  <1>1. headPos \in Slots /\ tailPos \in Slots
    BY DEF RingTypeOK
  <1>2. /\ ArraySize \in Nat /\ ArraySize = 2 * R + 1 /\ R \in Nat /\ R > 0
        /\ Slots = 0 .. ArraySize - 1
    BY SizeFacts
  <1>3. headPos # tailPos
    BY <1>2 DEF TailDistance
  <1>4. /\ back(headPos, 1) = IF headPos = 0 THEN ArraySize - 1 ELSE headPos - 1
    BY <1>1, BackIs
  <1>5. TailDistance = forwardDistance(headPos, tailPos) - 1
    BY <1>1, <1>2, <1>3, <1>4 DEF TailDistance, forwardDistance
  <1>6. d + 1 <= forwardDistance(headPos, tailPos)
    <2>1. forwardDistance(headPos, tailPos) \in 0 .. ArraySize - 1
      BY <1>1, DistanceType
    <2>2. QED  BY <1>5, <2>1
  <1>7. getPos(-d) = IF headPos - d - 1 < 0 THEN headPos - d - 1 + ArraySize ELSE headPos - d - 1
    BY <1>1, <1>2 DEF getPos
  <1>8. getPos(-d) \in Slots /\ forwardDistance(headPos, getPos(-d)) = d + 1
    BY <1>1, <1>2, <1>7 DEF forwardDistance
  <1>9. forwardDistance(getPos(-d), tailPos) < forwardDistance(headPos, tailPos)
    BY <1>1, <1>2, <1>6, <1>7 DEF forwardDistance
  <1>10. QED
    BY <1>8, <1>9 DEF Pending

\* A late packet fills its hole, and what follows it in the ring goes out.
LEMMA LatePreserves ==
  ASSUME RingInv, NEW seq \in SeqNums, Late(seq)
  PROVE  RingInv'
  <1> DEFINE slot  == getPos(Diff(seq))
             flags == [seqArray EXCEPT ![slot] = 1]
             data  == [rtpDataArray EXCEPT ![slot] = seq]
             far   == forwardDistance(headPos, tailPos)
  <1>1. RingTypeOK /\ WindowShape /\ SlotsHoldTheirSeq /\ LostCoversHoles /\ ~exited
    BY DEF RingInv, NeverExits
  <1>2. /\ lastSeq >= 0 /\ Diff(seq) \in -R .. -1 /\ seqArray[slot] = 0 /\ -Diff(seq) <= TailDistance
        /\ Count("late", 0) /\ headPos' = headPos /\ lastSeq' = lastSeq /\ exited' = exited
    BY DEF Late
  <1>3. /\ headPos \in Slots /\ tailPos \in Slots /\ lastSeq \in SeqNums
        /\ seqArray \in [Slots -> {0, 1}] /\ rtpDataArray \in [Slots -> SeqNums \cup {Empty}]
        /\ far = Pending
    BY <1>1, <1>2, SizeFacts DEF RingTypeOK, Pending
  <1>4. /\ far \in 0 .. ArraySize - 1 /\ far <= R /\ R \in Nat /\ R < Half /\ Half \in Nat
        /\ ArraySize \in Nat /\ R < ArraySize
    <2>1. far \in 0 .. ArraySize - 1
      BY <1>3, DistanceType
    <2>2. far <= R
      BY <1>1, <1>3 DEF WindowShape
    <2>3. QED  BY <2>1, <2>2, SizeFacts
  <1>5. /\ slot \in Slots
        /\ forwardDistance(headPos, slot) = 1 - Diff(seq)
        /\ forwardDistance(slot, tailPos) < far
    <2>1. -Diff(seq) \in 1 .. R /\ -(-Diff(seq)) = Diff(seq) /\ Pending \in 0 .. R
      BY <1>2, <1>3, <1>4
    <2> DEFINE d == -Diff(seq)
    <2>2. d \in 1 .. R /\ d <= TailDistance /\ -d = Diff(seq)
      BY <1>2, <2>1
    <2> HIDE DEF d
    <2>3. /\ getPos(-d) \in Slots
          /\ forwardDistance(headPos, getPos(-d)) = d + 1
          /\ forwardDistance(getPos(-d), tailPos) < Pending
      BY <1>1, <2>1, <2>2, LateSlot
    <2>4. d + 1 = 1 - Diff(seq)
      BY <1>2, <1>4 DEF d
    <2>5. QED  BY <1>3, <2>2, <2>3, <2>4
  <1>6. getSeqDistance(lastSeq, seq) = -Diff(seq)
    <2>1. getSeqDistance(seq, lastSeq) \in -(Half - 1) .. Half - 1
      BY <1>2, <1>4 DEF Diff
    <2>2. QED  BY <1>3, <2>1, SeqDistanceOpposite DEF Diff
  <1>7. /\ flags \in [Slots -> {0, 1}] /\ data \in [Slots -> SeqNums \cup {Empty}]
        /\ \A pos \in Slots : /\ flags[pos] = IF pos = slot THEN 1 ELSE seqArray[pos]
                              /\ data[pos] = IF pos = slot THEN seq ELSE rtpDataArray[pos]
    BY <1>3, <1>5
  <1>8. PICK n \in 0 .. far : takeRtps(flags, data, headPos, 0, n)
    BY DEF Late
  <1> HIDE DEF slot, flags, data, far
  <1>9. ASSUME NEW pos \in Slots, flags[pos] = 1, forwardDistance(pos, tailPos) < far
        PROVE  /\ data[pos] # Empty
               /\ getSeqDistance(lastSeq, data[pos]) = forwardDistance(headPos, pos) - 1
    <2>1. CASE pos = slot
      <3>1. data[pos] = seq
        BY <1>7, <2>1
      <3>2. seq # Empty
        BY SizeFacts DEF Empty
      <3>3. 1 - Diff(seq) - 1 = -Diff(seq)
        BY <1>2, <1>4
      <3>4. QED  BY <1>5, <1>6, <2>1, <3>1, <3>2, <3>3
    <2>2. CASE pos # slot
      <3>1. seqArray[pos] = 1 /\ data[pos] = rtpDataArray[pos]
        BY <1>7, <1>9, <2>2
      <3>2. pos \in HeldSlots
        BY <1>3, <1>9, <3>1 DEF HeldSlots, InWindow
      <3>3. QED  BY <1>1, <3>1, <3>2 DEF SlotsHoldTheirSeq
    <2>3. QED  BY <2>1, <2>2
  <1>10. /\ forward(tailPos, n) \in Slots
         /\ forwardDistance(headPos, forward(tailPos, n)) = far - n
         /\ headPos # forward(tailPos, n) => flags[forward(tailPos, n)] = 0
    <2>1. TakesExactly(flags, data, headPos, 0, n)
      BY <1>8 DEF takeRtps
    <2>2. 0 \in Int /\ 0 <= far
      BY <1>4
    <2>3. QED  BY <1>3, <1>7, <1>9, <2>1, <2>2, TakeStops DEF far
  <1>11. /\ tailPos' = forward(tailPos, n) /\ seqArray' = flags
         /\ rtpDataArray' = [pos \in Slots |-> IF pos \in Taken(flags, n) THEN Empty ELSE data[pos]]
    BY <1>8 DEF takeRtps
  <1>12. /\ rtpDataArray' \in [Slots -> SeqNums \cup {Empty}]
         /\ \A pos \in Slots : n <= forwardDistance(pos, tailPos) => rtpDataArray'[pos] = data[pos]
    <2>1. \A pos \in Slots : forwardDistance(pos, tailPos) \in 0 .. ArraySize - 1
      BY <1>3, DistanceType
    <2>2. n \in Nat
      BY <1>4
    <2>3. \A pos \in Slots : n <= forwardDistance(pos, tailPos) => pos \notin Taken(flags, n)
      BY <1>4, <2>1, <2>2 DEF Taken
    <2>4. QED  BY <1>7, <1>11, <2>3
  <1>13. /\ SlotsHoldTheirSeq'
         /\ HoleSlots' \subseteq { pos \in Slots : flags[pos] = 0 /\ forwardDistance(pos, tailPos) < far }
    <2>1. \A pos \in Slots :
            (/\ flags[pos] = 1
             /\ n <= forwardDistance(pos, tailPos)
             /\ forwardDistance(pos, tailPos) < far)
            => /\ data[pos] # Empty
               /\ getSeqDistance(lastSeq', data[pos]) = forwardDistance(headPos, pos) - 1
      BY <1>2, <1>9
    <2>2. QED  BY <1>2, <1>3, <1>7, <1>8, <1>11, <1>12, <2>1, AfterTake DEF far
  <1>14. LostCoversHoles'
    <2>1. HoleSlots' \in SUBSET (HoleSlots \ {slot})
      BY <1>3, <1>7, <1>13 DEF HoleSlots, InWindow
    <2>2. slot \in HoleSlots
      BY <1>2, <1>3, <1>5 DEF HoleSlots, InWindow, slot
    <2>3. /\ IsFiniteSet(HoleSlots \ {slot})
          /\ Cardinality(HoleSlots \ {slot}) = Cardinality(HoleSlots) - 1
      BY <2>2, HolesFinite, FS_RemoveElement
    <2>4. /\ IsFiniteSet(HoleSlots') /\ Cardinality(HoleSlots') <= Cardinality(HoleSlots \ {slot})
      BY <2>1, <2>3, FS_Subset
    <2>5. Cardinality(HoleSlots') \in Nat
      BY <2>4, FS_CardinalityType
    <2>6. Lost' = Lost + 0 - 1 /\ Lost \in Int
      BY <1>1, <1>2, CountAccepted
    <2>7. QED  BY <1>1, <2>3, <2>4, <2>5, <2>6, HolesFinite DEF LostCoversHoles
  <1>15. RingTypeOK'
    <2>1. counter' \in [CounterFields -> Int]
      BY <1>1, <1>2, CountAccepted
    <2>2. exited' \in BOOLEAN
      BY <1>1, <1>2 DEF RingTypeOK
    <2>3. QED  BY <1>2, <1>3, <1>7, <1>10, <1>11, <1>12, <2>1, <2>2 DEF RingTypeOK
  <1>16. WindowShape'
    <2>1. Pending' = far - n
      BY <1>2, <1>10, <1>11 DEF Pending, forwardDistance
    <2>2. far - n <= R
      BY <1>4
    <2>3. ~(lastSeq' < 0)
      BY <1>2, <1>3, SizeFacts
    <2>4. QED  BY <1>2, <1>10, <1>11, <2>1, <2>2, <2>3 DEF WindowShape
  <1>17. QED
    BY <1>1, <1>2, <1>13, <1>14, <1>15, <1>16 DEF RingInv, NeverExits

\* Whatever branch of updateData a packet takes.
LEMMA UpdatePreserves ==
  ASSUME RingInv, NEW seq \in SeqNums, updateData(seq)
  PROVE  RingInv'
  <1>1. RingTypeOK /\ R \in Nat /\ LostCoversHoles
    BY SizeFacts DEF RingInv
  <1>2. CASE First(seq)
    BY <1>2, EmitPreserves
  <1>3. CASE InOrderNothingPending(seq)
    BY <1>3, EmitPreserves
  <1>4. CASE InOrderBehindHole(seq)
    <2>1. /\ lastSeq >= 0 /\ Diff(seq) = 1 /\ headPos # tailPos
          /\ Store(seq, 1) /\ Count("ok", 1)
      BY <1>4 DEF InOrderBehindHole
    <2>2. 1 \in 1 .. R
      BY SizeFacts
    <2>3. QED  BY <2>1, <2>2, StorePreserves
  <1>5. CASE Jump(seq)
    <2>1. /\ lastSeq >= 0 /\ Diff(seq) \in 2 .. R
          /\ Store(seq, Diff(seq)) /\ Count("jump", Diff(seq))
      BY <1>5 DEF Jump
    <2>2. Diff(seq) \in 1 .. R /\ Diff(seq) # 1
      BY <1>1, <2>1
    <2>3. QED  BY <2>1, <2>2, StorePreserves
  <1>6. CASE Gap(seq)
    BY <1>6, GapPreserves
  <1>7. CASE Duplicated(seq)
    <2>1. Reject("duplicated")
      BY <1>7 DEF Duplicated
    <2>2. QED  BY <2>1, RejectPreserves
  <1>8. CASE Late(seq)
    BY <1>8, LatePreserves
  <1>9. CASE Old(seq)
    <2>1. Reject("old")
      BY <1>9 DEF Old
    <2>2. QED  BY <2>1, RejectPreserves
  <1>10. CASE Invalid(seq)
    <2>1. resetPos /\ Count("invalid", 0) /\ exited' = exited
      BY <1>10 DEF Invalid
    <2>2. counter' \in [CounterFields -> Int] /\ Lost' = Lost /\ Lost \in Int
      BY <1>1, <2>1, CountRejected
    <2>3. Lost' >= 0
      BY <1>1, <2>2, HolesFinite DEF LostCoversHoles
    <2>4. QED  BY <2>1, <2>2, <2>3, ResetPreserves
  <1>11. QED
    BY <1>2, <1>3, <1>4, <1>5, <1>6, <1>7, <1>8, <1>9, <1>10 DEF updateData

\* A step that leaves the ring and its counters alone keeps the invariant.
LEMMA RingUnchanged ==
  ASSUME RingInv, UNCHANGED <<lastSeq, ring, counter, exited>>
  PROVE  RingInv'
  BY DEF RingInv, RingTypeOK, WindowShape, LostCoversHoles, SlotsHoldTheirSeq, NeverExits, ring,
         Pending, InWindow, HeldSlots, HoleSlots, Lost

\* The outcome of a sort is a sequence of the same packets.
LEMMA SortType ==
  ASSUME NEW s \in Seq(SeqNums), NEW t \in SortOutcomes(s)
  PROVE  t \in Seq(SeqNums)
  <1>1. PICK p \in Bijection(DOMAIN s, DOMAIN s) : t = [i \in DOMAIN s |-> s[p[i]]]
    BY DEF SortOutcomes
  <1>2. p \in [DOMAIN s -> DOMAIN s]
    BY <1>1 DEF Bijection, Injection
  <1>3. s \in [1 .. Len(s) -> SeqNums] /\ DOMAIN s = 1 .. Len(s) /\ Len(s) \in Nat
    OBVIOUS
  <1>4. t \in [1 .. Len(s) -> SeqNums]
    BY <1>1, <1>2, <1>3
  <1>5. QED  BY <1>3, <1>4

\* The states of updateData are the ones result may have.
LEMMA UpdateResult ==
  ASSUME NEW seq, updateData(seq)
  PROVE  result' \in {"ok", "jump", "late", "old", "gap", "duplicated", "invalid"}
  BY DEF updateData, First, InOrderNothingPending, InOrderBehindHole, Jump, Gap, Duplicated, Late,
         Old, Invalid, Reject

\* A tally adds one to some of the counts.
LEMMA TallyType ==
  ASSUME StreamTypeOK, NEW fields, status' = Tally(fields)
  PROVE  status' \in [StatusFields -> Nat]
  BY DEF StreamTypeOK, Tally

IInv == RingInv /\ StreamTypeOK

\* The constructor leaves an empty ring.
LEMMA InitEstablishes == Init => IInv
  <1> SUFFICES ASSUME Init PROVE IInv
    OBVIOUS
  <1>1. RingTypeOK
    <2>1. lastSeq \in SeqNums \cup {-1} /\ headPos \in Slots /\ tailPos \in Slots
      BY SizeFacts DEF Init
    <2>2. seqArray \in [Slots -> {0, 1}] /\ rtpDataArray \in [Slots -> SeqNums \cup {Empty}]
      BY DEF Init
    <2>3. counter \in [CounterFields -> Int]
      BY DEF Init, ZeroCounter
    <2>4. exited \in BOOLEAN
      BY DEF Init
    <2>5. QED  BY <2>1, <2>2, <2>3, <2>4 DEF RingTypeOK
  <1>2. Pending = 0
    BY SizeFacts DEF Init, Pending, forwardDistance
  <1>3. WindowShape
    BY <1>2, SizeFacts DEF Init, WindowShape
  <1>4. \A pos \in Slots : ~InWindow(pos)
    <2>1. \A pos \in Slots : forwardDistance(pos, tailPos) \in 0 .. ArraySize - 1
      BY <1>1, DistanceType DEF RingTypeOK
    <2>2. QED  BY <1>2, <2>1, SizeFacts DEF InWindow
  <1>5. HoleSlots = {} /\ HeldSlots = {}
    BY <1>4 DEF HoleSlots, HeldSlots
  <1>6. Lost = 0
    BY DEF Init, Lost, ZeroCounter, CounterFields
  <1>7. LostCoversHoles
    BY <1>5, <1>6, FS_EmptySet DEF LostCoversHoles
  <1>8. SlotsHoldTheirSeq
    BY <1>5 DEF SlotsHoldTheirSeq
  <1>9. StreamTypeOK
    BY PipeAssumption DEF Init, StreamTypeOK, ZeroStatus
  <1>10. QED
    BY <1>1, <1>3, <1>7, <1>8, <1>9 DEF IInv, RingInv, NeverExits, Init

\* Every handler keeps the invariant.
LEMMA StepPreserves == IInv /\ [Next]_vars => IInv'
  <1> SUFFICES ASSUME IInv, [Next]_vars PROVE IInv'
    OBVIOUS
  <1>0. RingInv /\ StreamTypeOK /\ MaxUdp \in Nat
    BY PipeAssumption DEF IInv
  <1>1. CASE PackageLengthError
    <2>1. /\ UNCHANGED <<lastSeq, ring, counter, exited>> /\ status' = Tally({"udp"})
          /\ UNCHANGED <<source, leading, feeding, result>> /\ arrived < MaxUdp /\ arrived' = arrived + 1
      BY <1>1 DEF PackageLengthError, NoOutput, Arrives
    <2>2. StreamTypeOK'
      BY <1>0, <2>1, TallyType DEF StreamTypeOK
    <2>3. QED  BY <1>0, <2>1, <2>2, RingUnchanged DEF IInv
  <1>2. ASSUME NEW src \in Sources, ForeignSource(src)
        PROVE  IInv'
    <2>1. /\ UNCHANGED <<lastSeq, ring, counter, exited>>
          /\ status' = Tally({"udp", IF src[2] # source[2] THEN "payloadError" ELSE "ssrcError"})
          /\ UNCHANGED <<source, leading, feeding, result>> /\ arrived < MaxUdp /\ arrived' = arrived + 1
      BY <1>2 DEF ForeignSource, NoOutput, Arrives
    <2>2. status' \in [StatusFields -> Nat]
      BY <1>0, <2>1, TallyType
    <2>3. source' \in Sources \cup {NoSource} /\ arrived' \in 0 .. MaxUdp
      BY <1>0, <2>1 DEF StreamTypeOK
    <2>4. StreamTypeOK'
      <3>1. UNCHANGED <<leading, feeding, result>>
        BY <2>1
      <3>2. QED  BY <1>0, <2>2, <2>3, <3>1 DEF StreamTypeOK
    <2>5. QED  BY <1>0, <2>1, <2>4, RingUnchanged DEF IInv
  <1>3. ASSUME NEW src \in Sources, NEW seq \in SeqNums, Lead(src, seq)
        PROVE  IInv'
    <2>1. /\ UNCHANGED <<lastSeq, ring, counter, exited>> /\ status' = Tally({"udp", "rtp"})
          /\ source' = src /\ result' = result /\ arrived < MaxUdp /\ arrived' = arrived + 1
      BY <1>3 DEF Lead, NoOutput, Accepts, Arrives
    <2>2. Append(leading, seq) \in Seq(SeqNums) /\ <<>> \in Seq(SeqNums)
      BY <1>0 DEF StreamTypeOK
    <2>3. \/ leading' = <<>> /\ feeding' \in SortOutcomes(Append(leading, seq))
          \/ leading' = Append(leading, seq) /\ feeding' = feeding
      BY <1>3 DEF Lead
    <2>4. leading' \in Seq(SeqNums) /\ feeding' \in Seq(SeqNums)
      BY <1>0, <2>2, <2>3, SortType DEF StreamTypeOK
    <2>5. StreamTypeOK'
      BY <1>0, <2>1, <2>4, TallyType DEF StreamTypeOK
    <2>6. QED  BY <1>0, <2>1, <2>5, RingUnchanged DEF IInv
  <1>4. ASSUME NEW src \in Sources, NEW seq \in SeqNums, Reorder(src, seq)
        PROVE  IInv'
    <2>1. /\ updateData(seq) /\ status' = Tally({"udp", "rtp"} \cup Valid(result'))
          /\ source' = src /\ UNCHANGED <<leading, feeding>>
          /\ arrived < MaxUdp /\ arrived' = arrived + 1
      BY <1>4 DEF Reorder, Accepts, Arrives
    <2>2. status' \in [StatusFields -> Nat]
      BY <1>0, <2>1, TallyType
    <2>3. result' \in {"ok", "jump", "late", "old", "gap", "duplicated", "invalid"}
      BY <2>1, UpdateResult
    <2>4. source' \in Sources \cup {NoSource} /\ arrived' \in 0 .. MaxUdp
      BY <1>0, <2>1 DEF StreamTypeOK
    <2>5. StreamTypeOK'
      <3>1. UNCHANGED <<leading, feeding>>
        BY <2>1
      <3>2. QED  BY <1>0, <2>2, <2>3, <2>4, <3>1 DEF StreamTypeOK
    <2>6. QED  BY <1>0, <2>1, <2>5, UpdatePreserves DEF IInv
  <1>5. CASE FeedLeading
    <2>1. /\ feeding # <<>> /\ updateData(Head(feeding)) /\ feeding' = Tail(feeding)
          /\ status' = Tally(Valid(result')) /\ UNCHANGED <<source, leading, arrived>>
      BY <1>5 DEF FeedLeading
    <2>2. Head(feeding) \in SeqNums /\ Tail(feeding) \in Seq(SeqNums)
      BY <1>0, <2>1 DEF StreamTypeOK
    <2>3. StreamTypeOK'
      BY <1>0, <2>1, <2>2, TallyType, UpdateResult DEF StreamTypeOK
    <2>4. QED  BY <1>0, <2>1, <2>2, <2>3, UpdatePreserves DEF IInv
  <1>6. CASE resetPipe
    <2>1. /\ resetPos /\ exited' = exited /\ counter' = ZeroCounter /\ status' = ZeroStatus
          /\ source' = NoSource /\ leading' = <<>> /\ UNCHANGED <<feeding, result, arrived>>
      BY <1>6 DEF resetPipe
    <2>2. counter' \in [CounterFields -> Int] /\ Lost' >= 0
      BY <2>1 DEF ZeroCounter, CounterFields, Lost
    <2>3. StreamTypeOK'
      BY <1>0, <2>1 DEF StreamTypeOK, ZeroStatus
    <2>4. QED  BY <1>0, <2>1, <2>2, <2>3, ResetPreserves DEF IInv
  <1>7. CASE UNCHANGED vars
    <2>1. UNCHANGED <<lastSeq, ring, counter, exited>>
      BY <1>7 DEF vars
    <2>2. StreamTypeOK'
      BY <1>0, <1>7 DEF vars, StreamTypeOK
    <2>3. QED  BY <1>0, <2>1, <2>2, RingUnchanged DEF IInv
  <1>8. QED
    BY <1>1, <1>2, <1>3, <1>4, <1>5, <1>6, <1>7 DEF Next

\* The inductive invariant holds of every behaviour.
LEMMA Inductive == Spec => []IInv
  BY InitEstablishes, StepPreserves, PTL DEF Spec

-----------------------------------------------------------------------------
(* The theorems. *)

\* Positions, flags, packets and counts keep to their types.
THEOREM Types == Spec => []TypeOK
  <1>1. IInv => TypeOK
    BY DEF IInv, RingInv, TypeOK
  <1>2. QED  BY <1>1, Inductive, PTL

\* The ring never waits for more than reorderSize packets, and only because
\* the oldest of them is missing.
THEOREM Windows == Spec => []WindowShape
  <1>1. IInv => WindowShape
    BY DEF IInv, RingInv
  <1>2. QED  BY <1>1, Inductive, PTL

\* For every ring size and sequence range, the exit(0) of updateData is dead code.
THEOREM ExitIsDead == Spec => []NeverExits
  <1>1. IInv => NeverExits
    BY DEF IInv, RingInv
  <1>2. QED  BY <1>1, Inductive, PTL

\* A slot that is flagged and waits holds the packet of its own sequence number.
THEOREM SlotsAreRight == Spec => []SlotsHoldTheirSeq
  <1>1. IInv => SlotsHoldTheirSeq
    BY DEF IInv, RingInv
  <1>2. QED  BY <1>1, Inductive, PTL

\* lost() never wraps below zero and never hides a packet still waited for.
THEOREM LostIsSound == Spec => []LostCoversHoles
  <1>1. IInv => LostCoversHoles
    BY DEF IInv, RingInv
  <1>2. QED  BY <1>1, Inductive, PTL

\* Inductive as it stands: a packet is counted and kept in one step, the step
\* that counts the last one empties the buffer, and resetPipe clears both.
LEMMA LeadingStep ==
  StreamTypeOK /\ LeadingMatchesCount /\ [Next]_vars => LeadingMatchesCount'
  <1> SUFFICES ASSUME StreamTypeOK, LeadingMatchesCount, [Next]_vars
               PROVE  LeadingMatchesCount'
    OBVIOUS
  <1>0. /\ status \in [StatusFields -> Nat] /\ LeadingSize \in Nat
        /\ status["rtp"] \in Nat
        /\ leading \in Seq(SeqNums) /\ Len(leading) \in Nat
    BY PipeAssumption DEF StreamTypeOK, StatusFields
  <1>1. \A fields : status' = Tally(fields) =>
           status'["rtp"] = IF "rtp" \in fields THEN status["rtp"] + 1 ELSE status["rtp"]
    BY DEF Tally, StatusFields
  <1>2. CASE PackageLengthError
    <2>1. status' = Tally({"udp"}) /\ leading' = leading /\ feeding' = feeding
      BY <1>2 DEF PackageLengthError
    <2>2. status'["rtp"] = status["rtp"]
      BY <1>1, <2>1
    <2>3. QED  BY <2>1, <2>2 DEF LeadingMatchesCount
  <1>3. ASSUME NEW src \in Sources, ForeignSource(src)
        PROVE  LeadingMatchesCount'
    <2>1. PICK f \in {"payloadError", "ssrcError"} :
            status' = Tally({"udp", f}) /\ leading' = leading /\ feeding' = feeding
      BY <1>3 DEF ForeignSource
    <2>2. status'["rtp"] = status["rtp"]
      BY <1>1, <2>1
    <2>3. QED  BY <2>1, <2>2 DEF LeadingMatchesCount
  <1>4. ASSUME NEW src \in Sources, NEW seq \in SeqNums, Lead(src, seq)
        PROVE  LeadingMatchesCount'
    <2>1. /\ status["rtp"] < LeadingSize /\ status' = Tally({"udp", "rtp"}) /\ feeding = <<>>
          /\ \/ Len(leading) + 1 = LeadingSize /\ leading' = <<>>
             \/ /\ Len(leading) + 1 # LeadingSize
                /\ leading' = Append(leading, seq) /\ feeding' = feeding
      BY <1>4 DEF Lead, Accepts, Arrives, Running
    <2>2. status'["rtp"] = status["rtp"] + 1
      BY <1>1, <2>1
    <2>3. Len(leading) = status["rtp"]
      BY <2>1 DEF LeadingMatchesCount
    <2>4. Len(Append(leading, seq)) = Len(leading) + 1 /\ Len(<<>>) = 0
      BY <1>0
    <2>5. QED  BY <1>0, <2>1, <2>2, <2>3, <2>4 DEF LeadingMatchesCount
  <1>5. ASSUME NEW src \in Sources, NEW seq \in SeqNums, Reorder(src, seq)
        PROVE  LeadingMatchesCount'
    <2>1. /\ status["rtp"] >= LeadingSize /\ leading' = leading /\ feeding' = feeding
          /\ status' = Tally({"udp", "rtp"} \cup Valid(result'))
      BY <1>5 DEF Reorder
    <2>2. status'["rtp"] = status["rtp"] + 1
      BY <1>1, <2>1
    <2>3. QED  BY <1>0, <2>1, <2>2 DEF LeadingMatchesCount
  <1>6. CASE FeedLeading
    <2>1. /\ feeding # <<>> /\ leading' = leading /\ status' = Tally(Valid(result'))
      BY <1>6 DEF FeedLeading
    <2>2. status'["rtp"] = status["rtp"]
      BY <1>1, <2>1 DEF Valid
    <2>3. ~(status["rtp"] < LeadingSize)
      BY <2>1 DEF LeadingMatchesCount
    <2>4. QED  BY <1>0, <2>1, <2>2, <2>3 DEF LeadingMatchesCount
  <1>7. CASE resetPipe
    <2>1. leading' = <<>> /\ feeding' = feeding /\ feeding = <<>> /\ status' = ZeroStatus
      BY <1>7 DEF resetPipe, Running
    <2>2. status'["rtp"] = 0 /\ Len(leading') = 0
      BY <2>1 DEF ZeroStatus, StatusFields
    <2>3. QED  BY <1>0, <2>1, <2>2 DEF LeadingMatchesCount
  <1>8. CASE UNCHANGED vars
    BY <1>8 DEF vars, LeadingMatchesCount
  <1>9. QED
    BY <1>2, <1>3, <1>4, <1>5, <1>6, <1>7, <1>8 DEF Next

\* The log line of reorderRtp that should never be written never is: while the
\* leading buffer fills it holds exactly the packets counted so far.
THEOREM LeadingIsExact == Spec => []LeadingMatchesCount
  <1>1. Init => LeadingMatchesCount
    BY PipeAssumption DEF Init, LeadingMatchesCount, ZeroStatus, StatusFields
  <1>2. IInv => StreamTypeOK
    BY DEF IInv
  <1>3. QED  BY <1>1, <1>2, LeadingStep, Inductive, PTL DEF Spec

-----------------------------------------------------------------------------
(* Sequence numbers counted from the oldest undecided one. *)

\* A remainder of a number less than one turn away from the sequence numbers.
LEMMA ModIs ==
  ASSUME NEW x \in Int, -SeqRange <= x, x < 2 * SeqRange
  PROVE  /\ x % SeqRange = IF x < 0 THEN x + SeqRange ELSE IF x < SeqRange THEN x ELSE x - SeqRange
         /\ x % SeqRange \in SeqNums
  <1>1. SeqRange \in Nat \ {0}
    BY SizeFacts
  <1>2. x % SeqRange = IF x < 0 THEN x + SeqRange ELSE IF x < SeqRange THEN x ELSE x - SeqRange
    BY <1>1, SMT
  <1>3. QED  BY <1>1, <1>2 DEF SeqNums

\* The k-th sequence number from next on, and the way back.
Number(next, k) == (next + k) % SeqRange
OffsetOf(next, s) == (s - next) % SeqRange

LEMMA Numbers ==
  ASSUME NEW next \in SeqNums, NEW k \in 0 .. SeqRange - 1, NEW s \in SeqNums
  PROVE  /\ Number(next, k) \in SeqNums
         /\ OffsetOf(next, s) \in 0 .. SeqRange - 1
         /\ Number(next, k) = s <=> OffsetOf(next, s) = k
  <1>1. /\ SeqRange \in Nat /\ SeqRange > 0 /\ next \in 0 .. SeqRange - 1 /\ s \in 0 .. SeqRange - 1
        /\ SeqNums = 0 .. SeqRange - 1
    BY SizeFacts DEF SeqNums
  <1>2. next + k \in Int /\ -SeqRange <= next + k /\ next + k < 2 * SeqRange
    BY <1>1
  <1>3. s - next \in Int /\ -SeqRange <= s - next /\ s - next < 2 * SeqRange
    BY <1>1
  <1>4. /\ Number(next, k) = (IF next + k < SeqRange THEN next + k ELSE next + k - SeqRange)
        /\ OffsetOf(next, s) = (IF s - next < 0 THEN s - next + SeqRange ELSE s - next)
    BY <1>1, <1>2, <1>3, ModIs DEF Number, OffsetOf
  <1>5. QED  BY <1>1, <1>4

\* The oldest undecided number when width numbers up to newest are undecided.
Oldest(newest, width) == (newest + 1 - width) % SeqRange

\* Where other numbers lie, seen from the oldest undecided one.
LEMMA OldestIs ==
  ASSUME NEW newest \in SeqNums, NEW width \in 0 .. SeqRange - 1
  PROVE  /\ Oldest(newest, width) \in SeqNums
         /\ (newest + 1 - Oldest(newest, width)) % SeqRange = width
         /\ \A n \in 0 .. width : Number(Oldest(newest, width), n) = Oldest(newest, width - n)
         /\ \A s \in SeqNums : getSeqDistance(newest, s) \in 0 .. width - 1 =>
              OffsetOf(Oldest(newest, width), s) = width - 1 - getSeqDistance(newest, s)
         /\ \A s \in SeqNums :
              (getSeqDistance(s, newest) > 0 /\ width + getSeqDistance(s, newest) <= SeqRange) =>
                /\ OffsetOf(Oldest(newest, width), s) = width + getSeqDistance(s, newest) - 1
                /\ Oldest(s, width + getSeqDistance(s, newest)) = Oldest(newest, width)
  <1>1. /\ SeqRange \in Nat /\ SeqRange > 0 /\ newest \in 0 .. SeqRange - 1
        /\ SeqNums = 0 .. SeqRange - 1 /\ Half \in Nat /\ SeqRange = 2 * Half
    BY SizeFacts DEF SeqNums
  <1>2. Oldest(newest, width) = IF newest + 1 - width < 0 THEN newest + 1 - width + SeqRange
                                ELSE IF newest + 1 - width < SeqRange THEN newest + 1 - width
                                ELSE newest + 1 - width - SeqRange
    <2>1. newest + 1 - width \in Int /\ -SeqRange <= newest + 1 - width /\ newest + 1 - width < 2 * SeqRange
      BY <1>1
    <2>2. QED  BY <1>1, <2>1, ModIs DEF Oldest
  <1> DEFINE next == Oldest(newest, width)
  <1>3. next \in 0 .. SeqRange - 1
    BY <1>1, <1>2
  <1>4. (newest + 1 - next) % SeqRange = width
    <2>1. PICK x \in Int : x = newest + 1 - next
      BY <1>1, <1>3
    <2>2. -SeqRange <= x /\ x < 2 * SeqRange
      BY <1>1, <1>3, <2>1
    <2>3. x % SeqRange = IF x < 0 THEN x + SeqRange ELSE IF x < SeqRange THEN x ELSE x - SeqRange
      BY <1>1, <2>2, ModIs
    <2>4. x % SeqRange = width
      BY <1>1, <1>2, <2>1, <2>3
    <2>5. QED  BY <2>1, <2>4
  <1>5. ASSUME NEW n \in 0 .. width
        PROVE  Number(next, n) = Oldest(newest, width - n)
    <2>1. next + n \in Int /\ -SeqRange <= next + n /\ next + n < 2 * SeqRange
      BY <1>1, <1>3
    <2>2. Number(next, n) = IF next + n < SeqRange THEN next + n ELSE next + n - SeqRange
      BY <1>1, <1>3, <2>1, ModIs DEF Number
    <2>3. /\ newest + 1 - (width - n) \in Int /\ -SeqRange <= newest + 1 - (width - n)
          /\ newest + 1 - (width - n) < 2 * SeqRange
      BY <1>1
    <2>4. Oldest(newest, width - n) =
             IF newest + 1 - (width - n) < 0 THEN newest + 1 - (width - n) + SeqRange
             ELSE IF newest + 1 - (width - n) < SeqRange THEN newest + 1 - (width - n)
             ELSE newest + 1 - (width - n) - SeqRange
      BY <1>1, <2>3, ModIs DEF Oldest
    <2>5. QED  BY <1>1, <1>2, <2>2, <2>4
  <1>6. ASSUME NEW s \in SeqNums
        PROVE  OffsetOf(next, s) = IF s - next < 0 THEN s - next + SeqRange ELSE s - next
    <2>1. s - next \in Int /\ -SeqRange <= s - next /\ s - next < SeqRange
      BY <1>1, <1>3
    <2>2. QED  BY <1>1, <2>1, ModIs DEF OffsetOf
  <1>7. ASSUME NEW s \in SeqNums, getSeqDistance(newest, s) \in 0 .. width - 1
        PROVE  OffsetOf(next, s) = width - 1 - getSeqDistance(newest, s)
    <2>1. \/ s = newest - getSeqDistance(newest, s)
          \/ s = newest - getSeqDistance(newest, s) + SeqRange
      BY <1>1, <1>7 DEF getSeqDistance
    <2>2. PICK d \in Int : d = getSeqDistance(newest, s)
      BY <1>1, <1>7
    <2>3. d \in 0 .. width - 1 /\ (s = newest - d \/ s = newest - d + SeqRange)
      BY <1>7, <2>1, <2>2
    <2>4. OffsetOf(next, s) = IF s - next < 0 THEN s - next + SeqRange ELSE s - next
      BY <1>6
    <2>5. OffsetOf(next, s) = width - 1 - d
      BY <1>1, <1>2, <2>3, <2>4
    <2>6. QED  BY <2>2, <2>5
  <1>8. ASSUME NEW s \in SeqNums, getSeqDistance(s, newest) > 0,
               width + getSeqDistance(s, newest) <= SeqRange
        PROVE  /\ OffsetOf(next, s) = width + getSeqDistance(s, newest) - 1
               /\ Oldest(s, width + getSeqDistance(s, newest)) = next
    <2>1. PICK d \in Int : d = getSeqDistance(s, newest)
      BY SeqDistanceType
    <2>2. /\ d > 0 /\ width + d <= SeqRange
          /\ s = newest + d \/ s = newest + d - SeqRange
      BY <1>1, <1>8, <2>1 DEF getSeqDistance
    <2>3. OffsetOf(next, s) = width + d - 1
      <3>1. OffsetOf(next, s) = IF s - next < 0 THEN s - next + SeqRange ELSE s - next
        BY <1>6
      <3>2. QED  BY <1>1, <1>2, <2>2, <3>1
    <2>4. PICK x \in Int : x = s + 1 - (width + d)
      BY <1>1
    <2>5. -SeqRange <= x /\ x < 2 * SeqRange
      BY <1>1, <2>2, <2>4
    <2>6. x % SeqRange = IF x < 0 THEN x + SeqRange ELSE IF x < SeqRange THEN x ELSE x - SeqRange
      BY <1>1, <2>5, ModIs
    <2>7. x % SeqRange = next
      BY <1>1, <1>2, <2>2, <2>4, <2>6
    <2>8. Oldest(s, width + d) = next
      BY <2>4, <2>7 DEF Oldest
    <2>9. QED  BY <2>1, <2>3, <2>8
  <1>9. QED  BY <1>1, <1>3, <1>4, <1>5, <1>7, <1>8

-----------------------------------------------------------------------------
(* The packets of the ring, placed by those counts, and takeRtps on them. *)

\* The packets in the slots up to far from the tail, and that each of them lies
\* as far from the tail as its number from the oldest undecided one.
PacketsIn(flags, data, far) ==
  { data[pos] : pos \in { p \in Slots : flags[p] = 1 /\ forwardDistance(p, tailPos) < far } }

Placed(flags, data, far, next) ==
  \A pos \in Slots :
    flags[pos] = 1 /\ forwardDistance(pos, tailPos) < far =>
      data[pos] \in SeqNums /\ OffsetOf(next, data[pos]) = forwardDistance(pos, tailPos)

\* A slot is found again by its distance from the tail.
LEMMA SlotAt ==
  ASSUME NEW p \in Slots, NEW t \in Slots
  PROVE  forward(t, forwardDistance(p, t)) = p
  <1>1. forwardDistance(p, t) \in 0 .. ArraySize - 1
    BY DistanceType
  <1>2. forwardDistance(p, t) \in 0 .. ArraySize
    BY <1>1, SizeFacts
  <1>3. forward(t, forwardDistance(p, t)) =
          IF t + forwardDistance(p, t) < ArraySize THEN t + forwardDistance(p, t)
          ELSE t + forwardDistance(p, t) - ArraySize
    BY <1>2, ForwardIs
  <1>4. QED  BY <1>3, SizeFacts DEF forwardDistance

\* The slot at distance k is flagged when the k-th undecided packet is there.
LEMMA PlacedIs ==
  ASSUME tailPos \in Slots, NEW flags, NEW data, NEW next \in SeqNums,
         NEW far \in Nat, far < ArraySize, Placed(flags, data, far, next), NEW k \in Nat, k < far
  PROVE  /\ forward(tailPos, k) \in Slots
         /\ flags[forward(tailPos, k)] = 1 <=> Number(next, k) \in PacketsIn(flags, data, far)
         /\ flags[forward(tailPos, k)] = 1 => data[forward(tailPos, k)] = Number(next, k)
         /\ ~NoData(flags, data, forward(tailPos, k))
  <1> DEFINE pos == forward(tailPos, k)
  <1>1. /\ k \in 0 .. ArraySize - 1 /\ k \in 0 .. ArraySize /\ k \in 0 .. SeqRange - 1
    BY SizeFacts
  <1>2. pos \in Slots /\ forwardDistance(pos, tailPos) = k
    BY <1>1, ForwardIs, DistanceForward
  <1> HIDE DEF pos
  <1>3. flags[pos] = 1 => data[pos] \in SeqNums /\ data[pos] = Number(next, k)
    <2>1. flags[pos] = 1 => data[pos] \in SeqNums /\ OffsetOf(next, data[pos]) = k
      BY <1>2 DEF Placed
    <2>2. QED  BY <1>1, <2>1, Numbers
  <1>4. flags[pos] = 1 => Number(next, k) \in PacketsIn(flags, data, far)
    BY <1>2, <1>3 DEF PacketsIn
  <1>5. ASSUME Number(next, k) \in PacketsIn(flags, data, far) PROVE flags[pos] = 1
    <2>1. PICK p \in Slots : /\ flags[p] = 1 /\ forwardDistance(p, tailPos) < far
                             /\ data[p] = Number(next, k)
      BY <1>5 DEF PacketsIn
    <2>2. data[p] \in SeqNums /\ OffsetOf(next, data[p]) = forwardDistance(p, tailPos)
      BY <2>1 DEF Placed
    <2>3. forwardDistance(p, tailPos) = k
      BY <1>1, <2>1, <2>2, Numbers
    <2>4. p = pos
      BY <2>3, SlotAt DEF pos
    <2>5. QED  BY <2>1, <2>4
  <1>6. ~NoData(flags, data, pos)
    BY <1>3, SizeFacts DEF NoData, Empty
  <1>7. QED  BY <1>2, <1>3, <1>4, <1>5, <1>6 DEF pos

\* The packets of a set in the order of their numbers, up to n from next on.
Ordered(next, h, n) ==
  FlattenSeq([k \in 1 .. n |-> IF Number(next, k - 1) \in h THEN <<Number(next, k - 1)>> ELSE <<>>])

\* takeRtps in terms of the packets instead of the slots: where it stops, and
\* what it hands out.
LEMMA TakeIs ==
  ASSUME tailPos \in Slots, NEW flags \in [Slots -> {0, 1}], NEW data, NEW next \in SeqNums,
         NEW head \in Slots, NEW far \in Nat, far = forwardDistance(head, tailPos),
         Placed(flags, data, far, next), NEW F \in Int, NEW n \in 0 .. far
  PROVE  /\ StopsAt(flags, data, head, F, n) <=>
              n = far \/ (n >= F /\ Number(next, n) \notin PacketsIn(flags, data, far))
         /\ Emitted(flags, data, n) = Ordered(next, PacketsIn(flags, data, far), n)
  <1> DEFINE h == PacketsIn(flags, data, far)
  <1>1. far < ArraySize
    BY DistanceType, SizeFacts
  <1>2. StopsAt(flags, data, head, F, n) <=> n = far \/ (n >= F /\ Number(next, n) \notin h)
    <2>1. CASE n = far
      BY <2>1 DEF StopsAt
    <2>2. CASE n # far
      <3>1. n \in Nat /\ n < far
        BY <2>2
      <3>2. /\ forward(tailPos, n) \in Slots
            /\ flags[forward(tailPos, n)] = 1 <=> Number(next, n) \in h
            /\ ~NoData(flags, data, forward(tailPos, n))
        BY <1>1, <3>1, PlacedIs
      <3>3. flags[forward(tailPos, n)] \in {0, 1}
        BY <3>2
      <3>4. QED  BY <2>2, <3>2, <3>3 DEF StopsAt
    <2>3. QED  BY <2>1, <2>2
  <1>3. ASSUME NEW k \in 1 .. n
        PROVE  (LET pos == forward(tailPos, k - 1) IN IF flags[pos] = 1 THEN <<data[pos]>> ELSE <<>>)
                 = IF Number(next, k - 1) \in h THEN <<Number(next, k - 1)>> ELSE <<>>
    <2>1. k - 1 \in Nat /\ k - 1 < far
      OBVIOUS
    <2>2. /\ flags[forward(tailPos, k - 1)] = 1 <=> Number(next, k - 1) \in h
          /\ flags[forward(tailPos, k - 1)] = 1 => data[forward(tailPos, k - 1)] = Number(next, k - 1)
      BY <1>1, <2>1, PlacedIs
    <2>3. QED  BY <2>2
  <1> HIDE DEF h
  <1>4. [k \in 1 .. n |-> LET pos == forward(tailPos, k - 1) IN IF flags[pos] = 1 THEN <<data[pos]>> ELSE <<>>]
          = [k \in 1 .. n |-> IF Number(next, k - 1) \in h THEN <<Number(next, k - 1)>> ELSE <<>>]
    BY <1>3
  <1>5. Emitted(flags, data, n) = Ordered(next, h, n)
    BY <1>4 DEF Emitted, Ordered
  <1>6. QED  BY <1>2, <1>5 DEF h

\* What is held after takeRtps has moved the tail by n.
LEMMA HeldAfter ==
  ASSUME tailPos \in Slots, NEW flags \in [Slots -> {0, 1}], NEW data, NEW next \in SeqNums,
         NEW head \in Slots, NEW far \in Nat, far = forwardDistance(head, tailPos),
         Placed(flags, data, far, next), NEW n \in 0 .. far,
         headPos' = head, tailPos' = forward(tailPos, n), seqArray' = flags,
         \A pos \in Slots : n <= forwardDistance(pos, tailPos) => rtpDataArray'[pos] = data[pos]
  PROVE  Held' = { s \in PacketsIn(flags, data, far) : OffsetOf(next, s) >= n }
  <1>1. \A pos \in Slots : InWindow(pos)' <=>
           /\ n <= forwardDistance(pos, tailPos)
           /\ forwardDistance(pos, tailPos) < forwardDistance(head, tailPos)
    BY WindowAfterTake DEF InWindow, Pending, forwardDistance
  <1>2. HeldSlots' = { pos \in Slots : /\ flags[pos] = 1 /\ n <= forwardDistance(pos, tailPos)
                                       /\ forwardDistance(pos, tailPos) < far }
    BY <1>1 DEF HeldSlots
  <1>3. Held' = { data[pos] : pos \in HeldSlots' }
    <2>1. Held' = { rtpDataArray'[pos] : pos \in HeldSlots' }
      BY DEF Held
    <2>2. \A pos \in HeldSlots' : rtpDataArray'[pos] = data[pos]
      BY <1>2
    <2>3. QED  BY <2>1, <2>2
  <1>4. \A pos \in Slots : forwardDistance(pos, tailPos) \in Nat
    BY DistanceType
  <1>5. ASSUME NEW s \in Held' PROVE s \in PacketsIn(flags, data, far) /\ OffsetOf(next, s) >= n
    <2>1. PICK pos \in HeldSlots' : s = data[pos]
      BY <1>3
    <2>2. QED  BY <1>2, <1>4, <2>1 DEF Placed, PacketsIn
  <1>6. ASSUME NEW s \in PacketsIn(flags, data, far), OffsetOf(next, s) >= n PROVE s \in Held'
    <2>1. PICK pos \in Slots : flags[pos] = 1 /\ forwardDistance(pos, tailPos) < far /\ s = data[pos]
      BY DEF PacketsIn
    <2>2. OffsetOf(next, s) = forwardDistance(pos, tailPos)
      BY <2>1 DEF Placed
    <2>3. pos \in HeldSlots'
      BY <1>2, <1>4, <1>6, <2>1, <2>2
    <2>4. QED  BY <1>3, <2>1, <2>3
  <1>7. QED  BY <1>5, <1>6

-----------------------------------------------------------------------------
(* The ring under the mapping to ReorderBuffer. *)

\* The names of ReorderBuffer under the mapping.
LEMMA BufferNames ==
  /\ Buffer!SeqRange = SeqRange /\ Buffer!SeqNums = SeqNums
  /\ \A k : Buffer!Nth(k) = Number(NextSeq, k)
  /\ \A s : Buffer!Offset(s) = OffsetOf(NextSeq, s)
  /\ \A h, n : Buffer!InOrder(h, n) = Ordered(NextSeq, h, n)
  <1>1. Buffer!SeqRange = SeqRange /\ Buffer!SeqNums = SeqNums
    BY DEF Buffer!SeqRange, SeqRange, Buffer!SeqNums, SeqNums
  <1>2. \A k : Buffer!Nth(k) = Number(NextSeq, k)
    BY <1>1 DEF Buffer!Nth, Number
  <1>3. \A s : Buffer!Offset(s) = OffsetOf(NextSeq, s)
    BY <1>1 DEF Buffer!Offset, OffsetOf
  <1>4. ASSUME NEW h, NEW n PROVE Buffer!InOrder(h, n) = Ordered(NextSeq, h, n)
    <2>1. [k \in 1 .. n |-> IF Buffer!Nth(k - 1) \in h THEN <<Buffer!Nth(k - 1)>> ELSE <<>>]
            = [k \in 1 .. n |-> IF Number(NextSeq, k - 1) \in h THEN <<Number(NextSeq, k - 1)>> ELSE <<>>]
      BY <1>2
    <2>2. \A f : Buffer!FlattenSeq(f) = FlattenSeq(f)
      BY DEF Buffer!FlattenSeq, FlattenSeq
    <2>3. QED  BY <2>1, <2>2 DEF Buffer!InOrder, Ordered
  <1>5. QED  BY <1>1, <1>2, <1>3, <1>4

\* getSeqDistance is the shorter way round, also half the numbers apart.
LEMMA AheadIs ==
  ASSUME lastSeq \in SeqNums, NEW seq \in SeqNums
  PROVE  Buffer!Ahead(seq) = Diff(seq)
  <1>1. /\ SeqRange \in Nat /\ SeqRange > 0 /\ lastSeq \in 0 .. SeqRange - 1 /\ seq \in 0 .. SeqRange - 1
        /\ Half \in Nat /\ SeqRange = 2 * Half
    BY SizeFacts DEF SeqNums
  <1>2. PICK x \in Int : x = seq - lastSeq
    BY <1>1
  <1>3. x % SeqRange = IF x < 0 THEN x + SeqRange ELSE x
    <2>1. -SeqRange <= x /\ x < SeqRange /\ x < 2 * SeqRange
      BY <1>1, <1>2
    <2>2. QED  BY <1>1, <2>1, ModIs
  <1>4. Buffer!Ahead(seq) = LET up == x % SeqRange
                            IN  IF up <= Half - 1 \/ (up = Half /\ seq < lastSeq) THEN up ELSE up - SeqRange
    BY <1>2, BufferNames DEF Buffer!Ahead
  <1>5. QED  BY <1>1, <1>2, <1>3, <1>4 DEF Diff, getSeqDistance

\* What RingInv says of the packets held, once there was a first packet.
LEMMA RingNow ==
  ASSUME RingInv, lastSeq >= 0
  PROVE  /\ lastSeq \in SeqNums /\ headPos \in Slots /\ tailPos \in Slots
         /\ seqArray \in [Slots -> {0, 1}] /\ rtpDataArray \in [Slots -> SeqNums \cup {Empty}]
         /\ Pending \in 0 .. R /\ Pending < ArraySize /\ Pending < SeqRange
         /\ NextSeq = Oldest(lastSeq, Pending) /\ NextSeq \in SeqNums
         /\ Buffer!Width = Pending
         /\ Held = PacketsIn(seqArray, rtpDataArray, Pending)
         /\ Placed(seqArray, rtpDataArray, Pending, NextSeq)
  <1>1. RingTypeOK /\ WindowShape /\ SlotsHoldTheirSeq
    BY DEF RingInv
  <1>2. /\ lastSeq \in SeqNums /\ headPos \in Slots /\ tailPos \in Slots
        /\ seqArray \in [Slots -> {0, 1}] /\ rtpDataArray \in [Slots -> SeqNums \cup {Empty}]
    BY <1>1, SizeFacts DEF RingTypeOK
  <1>3. Pending \in 0 .. R /\ Pending < ArraySize /\ Pending < SeqRange /\ Pending \in 0 .. SeqRange - 1
    <2>1. Pending \in 0 .. ArraySize - 1
      BY <1>2, DistanceType DEF Pending
    <2>2. Pending <= R
      BY <1>1 DEF WindowShape
    <2>3. QED  BY <2>1, <2>2, SizeFacts
  <1>4. NextSeq = Oldest(lastSeq, Pending)
    BY <1>2, SizeFacts DEF NextSeq, Oldest
  <1>5. NextSeq \in SeqNums /\ (lastSeq + 1 - NextSeq) % SeqRange = Pending
    BY <1>2, <1>3, <1>4, OldestIs
  <1>6. Buffer!Width = Pending
    BY <1>5, BufferNames DEF Buffer!Width
  <1>7. Held = PacketsIn(seqArray, rtpDataArray, Pending)
    BY DEF Held, HeldSlots, InWindow, PacketsIn
  <1>8. ASSUME NEW pos \in Slots, seqArray[pos] = 1, forwardDistance(pos, tailPos) < Pending
        PROVE  /\ rtpDataArray[pos] \in SeqNums
               /\ OffsetOf(NextSeq, rtpDataArray[pos]) = forwardDistance(pos, tailPos)
    <2>1. pos \in HeldSlots
      BY <1>8 DEF HeldSlots, InWindow
    <2>2. /\ rtpDataArray[pos] \in SeqNums
          /\ getSeqDistance(lastSeq, rtpDataArray[pos]) = forwardDistance(headPos, pos) - 1
      BY <1>1, <1>2, <2>1 DEF SlotsHoldTheirSeq
    <2>3. forwardDistance(headPos, pos) = Pending - forwardDistance(pos, tailPos)
      BY <1>2, <1>8, DistanceChain DEF Pending
    <2>4. forwardDistance(pos, tailPos) \in Nat
      BY <1>2, DistanceType
    <2>5. getSeqDistance(lastSeq, rtpDataArray[pos]) \in 0 .. Pending - 1
      BY <1>3, <1>8, <2>2, <2>3, <2>4
    <2>6. OffsetOf(NextSeq, rtpDataArray[pos]) = Pending - 1 - getSeqDistance(lastSeq, rtpDataArray[pos])
      BY <1>2, <1>3, <1>4, <2>2, <2>5, OldestIs
    <2>7. QED  BY <1>3, <2>2, <2>3, <2>4, <2>6
  <1>9. QED  BY <1>2, <1>3, <1>4, <1>5, <1>6, <1>7, <1>8 DEF Placed

\* takeRtps decides of the packets what Admit decides.
LEMMA AdmitIs ==
  ASSUME tailPos \in Slots, NEW flags \in [Slots -> {0, 1}], NEW data, NextSeq \in SeqNums,
         NEW head \in Slots, NEW far \in Nat, far = forwardDistance(head, tailPos),
         Placed(flags, data, far, NextSeq), NEW n \in 0 .. far,
         NEW F \in Int, F = far - R \/ (F = 0 /\ far <= R),
         TakesExactly(flags, data, head, F, n),
         out' = Emitted(flags, data, n), NextSeq' = Number(NextSeq, n),
         Held' = { s \in PacketsIn(flags, data, far) : OffsetOf(NextSeq, s) >= n },
         NEW seq, PacketsIn(flags, data, far) = Held \cup {seq}
  PROVE  Buffer!Admit(seq, far)
  <1> DEFINE h == Held \cup {seq}
             Decided(m) == m >= far - R /\ (m = far \/ Number(NextSeq, m) \notin h)
  <1>1. R \in Nat /\ h = PacketsIn(flags, data, far)
    BY SizeFacts
  <1>2. ASSUME NEW m \in 0 .. far PROVE StopsAt(flags, data, head, F, m) <=> Decided(m)
    <2>1. StopsAt(flags, data, head, F, m) <=> m = far \/ (m >= F /\ Number(NextSeq, m) \notin h)
      BY <1>1, TakeIs
    <2>2. m >= F <=> m >= far - R
      BY <1>1
    <2>3. m = far => m >= far - R
      BY <1>1
    <2> HIDE DEF h
    <2>4. QED  BY <2>1, <2>2, <2>3
  <1>3. Decided(n) /\ \A k \in 0 .. n - 1 : ~Decided(k)
    <2>1. StopsAt(flags, data, head, F, n) /\ \A k \in 0 .. n - 1 : ~StopsAt(flags, data, head, F, k)
      BY DEF TakesExactly
    <2>2. \A k \in 0 .. n - 1 : k \in 0 .. far
      OBVIOUS
    <2> HIDE DEF Decided
    <2>3. QED  BY <1>2, <2>1, <2>2
  <1>4. out' = Ordered(NextSeq, h, n)
    <2>1. Emitted(flags, data, n) = Ordered(NextSeq, PacketsIn(flags, data, far), n)
      BY TakeIs
    <2> HIDE DEF h
    <2>2. QED  BY <1>1, <2>1
  <1>5. Held' = { s \in h : OffsetOf(NextSeq, s) >= n }
    BY <1>1
  <1> HIDE DEF h
  <1>6. Buffer!Admit(seq, far) <=>
          \E m \in 0 .. far :
            /\ Decided(m) /\ \A k \in 0 .. m - 1 : ~Decided(k)
            /\ NextSeq' = Number(NextSeq, m)
            /\ out' = Ordered(NextSeq, h, m)
            /\ Held' = { t \in h : OffsetOf(NextSeq, t) >= m }
    BY BufferNames DEF Buffer!Admit, h
  <1>7. QED  BY <1>3, <1>4, <1>5, <1>6

\* With nothing decided nothing is handed out.
LEMMA NoneEmitted ==
  ASSUME NEW flags, NEW data
  PROVE  Emitted(flags, data, 0) = <<>>
  <1> DEFINE f == [k \in 1 .. 0 |-> LET pos == forward(tailPos, k - 1)
                                    IN  IF flags[pos] = 1 THEN <<data[pos]>> ELSE <<>>]
  <1>1. f = <<>>
    OBVIOUS
  <1>2. Len(<<>>) = 0
    OBVIOUS
  <1> HIDE DEF f
  <1>3. FlattenSeq(f) = f
    BY <1>1, <1>2 DEF FlattenSeq
  <1>4. QED  BY <1>1, <1>3 DEF Emitted, f

\* A step that stores and takes is one Admit of the abstract buffer.
LEMMA TakeStep ==
  ASSUME tailPos \in Slots, NEW flags \in [Slots -> {0, 1}], NEW data, NextSeq \in SeqNums,
         NEW head \in Slots, NEW far \in Nat, far = forwardDistance(head, tailPos),
         Placed(flags, data, far, NextSeq), NEW n \in 0 .. far,
         NEW F \in Int, F = far - R \/ (F = 0 /\ far <= R),
         TakesExactly(flags, data, head, F, n), out' = Emitted(flags, data, n),
         headPos' = head, tailPos' = forward(tailPos, n), seqArray' = flags,
         \A pos \in Slots : n <= forwardDistance(pos, tailPos) => rtpDataArray'[pos] = data[pos],
         lastSeq' \in SeqNums, Oldest(lastSeq', far) = NextSeq, NEW seq,
         PacketsIn(flags, data, far) = Held \cup {seq}
  PROVE  Buffer!Admit(seq, far)
  <1>1. far \in 0 .. ArraySize - 1 /\ far \in 0 .. SeqRange - 1 /\ n \in 0 .. ArraySize - 1
    BY DistanceType, SizeFacts
  <1>2. Pending' = far - n
    <2>1. Pending' = forwardDistance(head, forward(tailPos, n))
      BY DEF Pending, forwardDistance
    <2>2. QED  BY <1>1, <2>1, DistanceOfTail
  <1>3. NextSeq' = Oldest(lastSeq', far - n)
    BY <1>2, SizeFacts DEF NextSeq, Oldest
  <1>4. Number(NextSeq, n) = Oldest(lastSeq', far - n)
    <2>1. PICK newest \in SeqNums : newest = lastSeq'
      OBVIOUS
    <2>2. Number(Oldest(newest, far), n) = Oldest(newest, far - n)
      BY <1>1, OldestIs
    <2>3. QED  BY <2>1, <2>2
  <1>5. NextSeq' = Number(NextSeq, n)
    BY <1>3, <1>4
  <1>6. Held' = { s \in PacketsIn(flags, data, far) : OffsetOf(NextSeq, s) >= n }
    BY HeldAfter
  <1>7. QED  BY <1>5, <1>6, AdmitIs

\* Whatever is flagged beyond what is taken keeps its data.
LEMMA TakenData ==
  ASSUME tailPos \in Slots, NEW flags, NEW data, NEW n \in Nat,
         rtpDataArray' = [pos \in Slots |-> IF pos \in Taken(flags, n) THEN Empty ELSE data[pos]]
  PROVE  \A pos \in Slots : n <= forwardDistance(pos, tailPos) => rtpDataArray'[pos] = data[pos]
  <1>1. ASSUME NEW pos \in Slots, n <= forwardDistance(pos, tailPos) PROVE pos \notin Taken(flags, n)
    <2>1. forwardDistance(pos, tailPos) \in Nat
      BY DistanceType
    <2>2. QED  BY <1>1, <2>1 DEF Taken
  <1>2. QED  BY <1>1

\* The ring after setSeqState, with the new packet in its slot.
LEMMA StoredPackets ==
  ASSUME RingInv, lastSeq >= 0, NEW seq \in SeqNums, NEW diff \in 1 .. R, Diff(seq) = diff,
         NEW data, data = [rtpDataArray EXCEPT ![forward(headPos, diff - 1)] = seq]
  PROVE  /\ Placed(SetSeqStates(diff), data, Pending + diff, NextSeq)
         /\ PacketsIn(SetSeqStates(diff), data, Pending + diff) = Held \cup {seq}
         /\ Oldest(seq, Pending + diff) = NextSeq
  <1> DEFINE flags == SetSeqStates(diff)
             slot  == forward(headPos, diff - 1)
             far   == Pending + diff
             dist(pos) == forwardDistance(pos, tailPos)
  <1>1. /\ lastSeq \in SeqNums /\ headPos \in Slots /\ tailPos \in Slots
        /\ seqArray \in [Slots -> {0, 1}] /\ rtpDataArray \in [Slots -> SeqNums \cup {Empty}]
        /\ Pending \in 0 .. R /\ Pending \in Nat /\ Pending \in 0 .. SeqRange - 1
        /\ NextSeq = Oldest(lastSeq, Pending)
        /\ Held = PacketsIn(seqArray, rtpDataArray, Pending)
        /\ Placed(seqArray, rtpDataArray, Pending, NextSeq)
    BY RingNow, SizeFacts
  <1>2. RingTypeOK /\ WindowShape
    BY DEF RingInv
  <1>3. ASSUME NEW pos \in Slots
        PROVE  /\ slot \in Slots /\ dist(pos) \in Nat
               /\ dist(pos) < Pending => flags[pos] = seqArray[pos] /\ data[pos] = rtpDataArray[pos]
               /\ Pending <= dist(pos) /\ dist(pos) < far =>
                    /\ forwardDistance(pos, headPos) = dist(pos) - Pending
                    /\ flags[pos] = 1 <=> pos = slot
    BY <1>1, <1>2, SetSeqStatesWindow, DistanceType
  <1>4. slot \in Slots /\ data[slot] = seq /\ dist(slot) = far - 1
    <2>1. slot \in Slots
      BY <1>1, <1>3
    <2>2. diff - 1 \in 0 .. ArraySize - 1 /\ Pending + (diff - 1) < ArraySize
      BY <1>1, SizeFacts
    <2>3. dist(slot) = Pending + (diff - 1)
      BY <1>1, <2>2, DistanceOfHead DEF Pending
    <2>4. data[slot] = seq
      BY <1>1, <2>1
    <2>5. QED  BY <1>1, <2>1, <2>3, <2>4
  <1>5. /\ OffsetOf(NextSeq, seq) = far - 1
        /\ Oldest(seq, far) = NextSeq
    <2>1. getSeqDistance(seq, lastSeq) > 0 /\ Pending + getSeqDistance(seq, lastSeq) <= SeqRange
      BY <1>1, SizeFacts DEF Diff
    <2>2. /\ OffsetOf(Oldest(lastSeq, Pending), seq) = Pending + getSeqDistance(seq, lastSeq) - 1
          /\ Oldest(seq, Pending + getSeqDistance(seq, lastSeq)) = Oldest(lastSeq, Pending)
      BY <1>1, <2>1, OldestIs
    <2>3. QED  BY <1>1, <2>2 DEF Diff
  <1>6. ASSUME NEW pos \in Slots, flags[pos] = 1, dist(pos) < far
        PROVE  \/ /\ dist(pos) < Pending /\ seqArray[pos] = 1 /\ data[pos] = rtpDataArray[pos]
               \/ pos = slot
    BY <1>1, <1>3, <1>6
  <1>7. Placed(flags, data, far, NextSeq)
    <2>1. ASSUME NEW pos \in Slots, flags[pos] = 1, dist(pos) < far
          PROVE  data[pos] \in SeqNums /\ OffsetOf(NextSeq, data[pos]) = dist(pos)
      <3>1. CASE pos = slot
        BY <1>4, <1>5, <3>1
      <3>2. CASE dist(pos) < Pending /\ seqArray[pos] = 1 /\ data[pos] = rtpDataArray[pos]
        BY <1>1, <3>2 DEF Placed
      <3>3. QED  BY <1>6, <2>1, <3>1, <3>2
    <2>2. QED  BY <2>1 DEF Placed
  <1>8. ASSUME NEW s \in PacketsIn(flags, data, far) PROVE s \in Held \cup {seq}
    <2>1. PICK pos \in Slots : flags[pos] = 1 /\ dist(pos) < far /\ s = data[pos]
      BY DEF PacketsIn
    <2>2. CASE pos = slot
      BY <1>4, <2>1, <2>2
    <2>3. CASE dist(pos) < Pending /\ seqArray[pos] = 1 /\ data[pos] = rtpDataArray[pos]
      BY <1>1, <2>1, <2>3 DEF PacketsIn
    <2>4. QED  BY <1>6, <2>1, <2>2, <2>3
  <1>9. ASSUME NEW s \in Held \cup {seq} PROVE s \in PacketsIn(flags, data, far)
    <2>1. CASE s = seq
      <3>1. flags[slot] = 1 /\ dist(slot) < far
        BY <1>1, <1>3, <1>4
      <3>2. QED  BY <1>4, <2>1, <3>1 DEF PacketsIn
    <2>2. CASE s \in Held
      <3>1. PICK pos \in Slots : seqArray[pos] = 1 /\ dist(pos) < Pending /\ s = rtpDataArray[pos]
        BY <1>1, <2>2 DEF PacketsIn
      <3>2. flags[pos] = 1 /\ dist(pos) < far /\ data[pos] = s
        BY <1>1, <1>3, <3>1
      <3>3. QED  BY <3>2 DEF PacketsIn
    <2>3. QED  BY <2>1, <2>2
  <1>10. QED  BY <1>5, <1>7, <1>8, <1>9

-----------------------------------------------------------------------------
(* Induction, and the sequences that FlattenSeq joins. *)

\* Induction on the naturals, with the property as a set.
LEMMA NatIsClosed ==
  ASSUME NEW T, 0 \in T, \A m \in Nat : m \in T => m + 1 \in T
  PROVE  Nat \subseteq T
  <1> DEFINE Bad == { m \in Nat : m \notin T }
  <1>1. SUFFICES ASSUME Bad # {} PROVE FALSE
    OBVIOUS
  <1>2. \E m \in Bad : \A j \in Bad : ~(<<j, m>> \in OpToRel(<, Nat))
    <2>1. Bad \subseteq Nat
      OBVIOUS
    <2>2. QED BY <1>1, <2>1, NatLessThanWellFounded, WFMin, Zenon
  <1>3. PICK m \in Bad : \A j \in Bad : ~(j < m)
    BY <1>2 DEF OpToRel
  <1>4. m \in Nat /\ m \notin T
    OBVIOUS
  <1>5. m - 1 \in Nat /\ m - 1 < m
    BY <1>4
  <1>6. m - 1 \in T
    BY <1>3, <1>5
  <1>7. (m - 1) + 1 \in T
    BY <1>5, <1>6
  <1>8. QED  BY <1>4, <1>7

\* The sequences joined so far, one more at a time.
Joins(g, f, S, m) ==
  /\ g \in [1 .. m -> Seq(S)]
  /\ \A i \in 1 .. m : g[i] = IF i = 1 THEN f[i] ELSE g[i - 1] \o f[i]

\* One more sequence joins the others.
LEMMA JoinExtends ==
  ASSUME NEW S, NEW f, NEW m \in Nat, f[m + 1] \in Seq(S), NEW g, Joins(g, f, S, m)
  PROVE  \E h : Joins(h, f, S, m + 1)
  <1> DEFINE new == IF m = 0 THEN f[m + 1] ELSE g[m] \o f[m + 1]
             h == [i \in 1 .. m + 1 |-> IF i = m + 1 THEN new ELSE g[i]]
  <1>1. new \in Seq(S)
    BY DEF Joins
  <1>2. \A i \in 1 .. m : g[i] \in Seq(S) /\ g[i] = IF i = 1 THEN f[i] ELSE g[i - 1] \o f[i]
    BY DEF Joins
  <1> HIDE DEF new
  <1>3. h \in [1 .. m + 1 -> Seq(S)]
    BY <1>1, <1>2
  <1>4. h[m + 1] = new /\ \A i \in 1 .. m : h[i] = g[i]
    OBVIOUS
  <1> HIDE DEF h
  <1>5. ASSUME NEW i \in 1 .. m + 1
        PROVE  h[i] = IF i = 1 THEN f[i] ELSE h[i - 1] \o f[i]
    <2>1. CASE i = m + 1
      <3>1. i # 1 => i - 1 \in 1 .. m /\ i - 1 = m
        BY <2>1
      <3>2. QED  BY <1>4, <2>1, <3>1 DEF new
    <2>2. CASE i \in 1 .. m
      <3>1. i # 1 => i - 1 \in 1 .. m
        BY <2>2
      <3>2. QED  BY <1>2, <1>4, <2>2, <3>1
    <2>3. QED  BY <2>1, <2>2
  <1>6. QED  BY <1>3, <1>5 DEF Joins

\* Any number of sequences can be joined.
LEMMA JoinExists ==
  ASSUME NEW S, NEW f, NEW n \in Nat, \A i \in 1 .. n : f[i] \in Seq(S)
  PROVE  \E g : Joins(g, f, S, n)
  <1> DEFINE T == { m \in Nat : m <= n => \E g : Joins(g, f, S, m) }
  <1>1. 0 \in T
    <2>1. Joins([i \in 1 .. 0 |-> <<>>], f, S, 0)
      BY DEF Joins
    <2>2. QED  BY <2>1
  <1>2. ASSUME NEW m \in Nat, m \in T PROVE m + 1 \in T
    <2>1. SUFFICES ASSUME m + 1 <= n PROVE \E g : Joins(g, f, S, m + 1)
      OBVIOUS
    <2>2. m <= n /\ f[m + 1] \in Seq(S)
      BY <2>1
    <2>3. \E g : Joins(g, f, S, m)
      BY <1>2, <2>2
    <2>4. QED  BY <2>2, <2>3, JoinExtends
  <1> HIDE DEF T
  <1>3. Nat \subseteq T
    BY <1>1, <1>2, NatIsClosed
  <1>4. n \in T
    BY <1>3
  <1>5. QED  BY <1>4 DEF T

\* What FlattenSeq computes: the sequences joined one after the other.
LEMMA FlattenIs ==
  ASSUME NEW S, NEW f \in Seq(Seq(S))
  PROVE  \E g \in [0 .. Len(f) -> Seq(S)] :
            /\ g[0] = <<>>
            /\ \A i \in 1 .. Len(f) : g[i] = g[i - 1] \o f[i]
            /\ FlattenSeq(f) = g[Len(f)]
  <1> DEFINE N == Len(f)
             IsJoin(h) == h = [i \in 1 .. N |-> IF i = 1 THEN f[i] ELSE h[i - 1] \o f[i]]
             F == CHOOSE h : IsJoin(h)
  <1>1. N \in Nat /\ \A i \in 1 .. N : f[i] \in Seq(S)
    OBVIOUS
  <1>2. FlattenSeq(f) = IF N = 0 THEN f ELSE F[N]
    BY DEF FlattenSeq
  <1>3. IsJoin(F)
    <2>1. PICK h : Joins(h, f, S, N)
      BY <1>1, JoinExists
    <2>2. IsJoin(h)
      BY <2>1 DEF Joins
    <2>3. QED  BY <2>2
  <1>4. \A i \in 1 .. N : F[i] = IF i = 1 THEN f[i] ELSE F[i - 1] \o f[i]
    BY <1>3
  <1> HIDE DEF F
  <1>5. \A i \in 1 .. N : F[i] \in Seq(S)
    <2> DEFINE U == { m \in Nat : m \in 1 .. N => F[m] \in Seq(S) }
    <2>1. 0 \in U
      OBVIOUS
    <2>2. ASSUME NEW m \in Nat, m \in U PROVE m + 1 \in U
      <3>1. SUFFICES ASSUME m + 1 \in 1 .. N PROVE F[m + 1] \in Seq(S)
        OBVIOUS
      <3>2. f[m + 1] \in Seq(S)
        BY <1>1, <3>1
      <3>3. CASE m = 0
        BY <1>4, <3>1, <3>2, <3>3
      <3>4. CASE m # 0
        <4>1. F[m] \in Seq(S) /\ m + 1 # 1
          BY <1>1, <2>2, <3>1, <3>4
        <4>2. F[m + 1] = F[(m + 1) - 1] \o f[m + 1]
          BY <1>4, <3>1, <4>1
        <4>3. (m + 1) - 1 = m
          OBVIOUS
        <4>4. F[m + 1] = F[m] \o f[m + 1]
          BY <4>2, <4>3
        <4>5. QED  BY <3>2, <4>1, <4>4
      <3>5. QED  BY <3>3, <3>4
    <2> HIDE DEF U
    <2>3. Nat \subseteq U
      BY <2>1, <2>2, NatIsClosed
    <2>4. QED  BY <2>3 DEF U
  <1> DEFINE g == [i \in 0 .. N |-> IF i = 0 THEN <<>> ELSE F[i]]
  <1>6. g \in [0 .. N -> Seq(S)] /\ g[0] = <<>> /\ \A i \in 1 .. N : g[i] = F[i]
    BY <1>1, <1>5
  <1> HIDE DEF g
  <1>7. ASSUME NEW i \in 1 .. N PROVE g[i] = g[i - 1] \o f[i]
    <2>1. CASE i = 1
      BY <1>1, <1>4, <1>6, <2>1, ConcatEmptySeq
    <2>2. CASE i # 1
      <3>1. i - 1 \in 1 .. N
        BY <2>2
      <3>2. QED  BY <1>4, <1>6, <2>2, <3>1
    <2>3. QED  BY <2>1, <2>2
  <1>8. FlattenSeq(f) = g[N]
    BY <1>1, <1>2, <1>6
  <1>9. QED  BY <1>6, <1>7, <1>8

-----------------------------------------------------------------------------
(* Each branch of updateData is a step of ReorderBuffer. *)

\* Store is Extend.
LEMMA StoreExtends ==
  ASSUME RingInv, RingInv', lastSeq >= 0, NEW seq \in SeqNums, NEW diff \in 1 .. R, Diff(seq) = diff,
         Store(seq, diff)
  PROVE  Buffer!Extend(seq)
  <1> DEFINE flags == SetSeqStates(diff)
             data  == [rtpDataArray EXCEPT ![forward(headPos, diff - 1)] = seq]
             head  == forward(headPos, diff)
             far   == Pending + diff
  <1>1. /\ lastSeq \in SeqNums /\ headPos \in Slots /\ tailPos \in Slots
        /\ Pending \in 0 .. R /\ NextSeq \in SeqNums /\ Buffer!Width = Pending
    BY RingNow
  <1>2. RingTypeOK /\ WindowShape /\ WindowShape'
    BY DEF RingInv
  <1>3. /\ flags \in [Slots -> {0, 1}] /\ head \in Slots
        /\ forwardDistance(head, tailPos) = far
    BY <1>1, <1>2, SetSeqStatesWindow
  <1>4. /\ Placed(flags, data, far, NextSeq)
        /\ PacketsIn(flags, data, far) = Held \cup {seq}
        /\ Oldest(seq, far) = NextSeq
    BY StoredPackets
  <1>5. far \in Nat /\ far > 0 /\ R \in Nat
    BY <1>1, SizeFacts
  <1>6. headPos' = head /\ lastSeq' = seq
    BY DEF Store
  <1>7. Buffer!Admit(seq, far)
    <2>1. CASE far - R > 0
      <3>0. LET force == forwardDistance(head, tailPos) - R
            IN  \/ /\ force > 0
                   /\ \E n \in 0 .. forwardDistance(head, tailPos) : takeRtps(flags, data, head, force, n)
                \/ force <= 0
        BY Zenon DEF Store
      <3> HIDE DEF flags, data, head, far
      <3>1. PICK n \in 0 .. far : takeRtps(flags, data, head, far - R, n)
        BY <1>3, <1>5, <2>1, <3>0
      <3>2. /\ TakesExactly(flags, data, head, far - R, n)
            /\ tailPos' = forward(tailPos, n) /\ seqArray' = flags /\ out' = Emitted(flags, data, n)
            /\ rtpDataArray' = [pos \in Slots |-> IF pos \in Taken(flags, n) THEN Empty ELSE data[pos]]
        BY <3>1 DEF takeRtps
      <3>3. n \in Nat /\ far - R \in Int
        BY <1>5
      <3>4. \A pos \in Slots : n <= forwardDistance(pos, tailPos) => rtpDataArray'[pos] = data[pos]
        BY <1>1, <3>2, <3>3, TakenData
      <3>5. QED  BY <1>1, <1>3, <1>4, <1>5, <1>6, <3>2, <3>3, <3>4, TakeStep
    <2>2. CASE far - R <= 0
      <3>1. /\ seqArray' = flags /\ rtpDataArray' = data /\ out' = <<>> /\ tailPos' = tailPos
        BY <1>3, <1>5, <2>2 DEF Store
      <3> HIDE DEF flags, data, head, far
      <3>2. forward(tailPos, 0) = tailPos
        BY <1>1, ForwardIs, SizeFacts
      <3>3. flags[tailPos] = 0
        <4>1. head # tailPos
          BY <1>1, <1>3, <1>5, DistanceType
        <4>2. headPos' # tailPos' => seqArray'[tailPos'] = 0
          BY <1>2 DEF WindowShape
        <4>3. QED  BY <1>6, <3>1, <4>1, <4>2
      <3>4. TakesExactly(flags, data, head, 0, 0)
        BY <3>2, <3>3 DEF TakesExactly, StopsAt
      <3>5. out' = Emitted(flags, data, 0)
        BY <3>1, NoneEmitted
      <3>6. 0 \in 0 .. far /\ far <= R /\ 0 \in Int
        BY <1>5, <2>2
      <3>6a. \A pos \in Slots : 0 <= forwardDistance(pos, tailPos) => rtpDataArray'[pos] = data[pos]
        BY <3>1
      <3>6b. tailPos' = forward(tailPos, 0) /\ lastSeq' \in SeqNums /\ Oldest(lastSeq', far) = NextSeq
        BY <1>4, <1>6, <3>1, <3>2
      <3>7. QED  BY <1>1, <1>3, <1>4, <1>5, <1>6, <3>1, <3>2, <3>4, <3>5, <3>6, <3>6a, <3>6b, TakeStep
    <2>3. QED  BY <1>5, <2>1, <2>2
  <1>8. Buffer!Ahead(seq) = diff
    BY <1>1, AheadIs
  <1>9. Buffer!None = -1 /\ lastSeq # -1
    BY DEF Buffer!None
  <1>10. Buffer!Admit(seq, Buffer!Width + Buffer!Ahead(seq))
    BY <1>1, <1>7, <1>8
  <1>11. QED  BY <1>6, <1>8, <1>9, <1>10 DEF Buffer!Extend

\* A late packet is Fill.
LEMMA LateFills ==
  ASSUME RingInv, NEW seq \in SeqNums, Late(seq)
  PROVE  Buffer!Fill(seq)
  <1> DEFINE slot  == getPos(Diff(seq))
             flags == [seqArray EXCEPT ![slot] = 1]
             data  == [rtpDataArray EXCEPT ![slot] = seq]
             far   == Pending
             dist(pos) == forwardDistance(pos, tailPos)
  <1>0. lastSeq >= 0
    BY DEF Late
  <1>1. /\ lastSeq \in SeqNums /\ headPos \in Slots /\ tailPos \in Slots
        /\ seqArray \in [Slots -> {0, 1}] /\ rtpDataArray \in [Slots -> SeqNums \cup {Empty}]
        /\ Pending \in 0 .. R /\ Pending \in Nat /\ Pending \in 0 .. SeqRange - 1
        /\ NextSeq = Oldest(lastSeq, Pending) /\ NextSeq \in SeqNums /\ Buffer!Width = Pending
        /\ Held = PacketsIn(seqArray, rtpDataArray, Pending)
        /\ Placed(seqArray, rtpDataArray, Pending, NextSeq)
    BY <1>0, RingNow, SizeFacts
  <1>2. RingTypeOK /\ WindowShape
    BY DEF RingInv
  <1>3. /\ Diff(seq) \in -R .. -1 /\ seqArray[slot] = 0 /\ -Diff(seq) <= TailDistance
        /\ headPos' = headPos /\ lastSeq' = lastSeq
        /\ \E n \in 0 .. far : takeRtps(flags, data, headPos, 0, n)
    BY DEF Late, Pending
  <1>4. PICK d \in 1 .. R : d = -Diff(seq) /\ Diff(seq) = -d
    BY <1>3, SizeFacts
  <1>5. /\ slot \in Slots /\ forwardDistance(headPos, slot) = d + 1 /\ dist(slot) < far
    BY <1>1, <1>2, <1>3, <1>4, LateSlot
  <1>6. dist(slot) \in Nat /\ dist(slot) = far - (d + 1)
    BY <1>1, <1>5, DistanceChain, DistanceType DEF Pending
  <1>7. OffsetOf(NextSeq, seq) = dist(slot)
    <2>0. d \in Nat /\ d <= Half - 1 /\ d > 0 /\ Half \in Nat
      BY <1>4, SizeFacts
    <2>1. getSeqDistance(lastSeq, seq) = d
      <3>1. getSeqDistance(seq, lastSeq) = -d
        BY <1>4 DEF Diff
      <3>2. getSeqDistance(seq, lastSeq) \in -(Half - 1) .. Half - 1
        BY <2>0, <3>1
      <3>3. getSeqDistance(lastSeq, seq) = -getSeqDistance(seq, lastSeq)
        BY <1>1, <3>2, SeqDistanceOpposite
      <3>4. QED  BY <2>0, <3>1, <3>3
    <2>2. d \in 0 .. Pending - 1
      <3>1. dist(slot) = Pending - (d + 1) /\ dist(slot) >= 0
        BY <1>6
      <3> HIDE DEF dist
      <3>2. QED  BY <1>1, <2>0, <3>1
    <2>3. OffsetOf(NextSeq, seq) = Pending - 1 - d
      BY <1>1, <2>1, <2>2, OldestIs
    <2>4. dist(slot) = Pending - (d + 1)
      BY <1>6
    <2> HIDE DEF dist
    <2>5. QED  BY <1>1, <2>0, <2>3, <2>4
  <1>8. flags \in [Slots -> {0, 1}] /\ \A pos \in Slots : pos # slot =>
           flags[pos] = seqArray[pos] /\ data[pos] = rtpDataArray[pos]
    BY <1>1
  <1>9. flags[slot] = 1 /\ data[slot] = seq
    BY <1>1, <1>5
  <1> HIDE DEF slot, flags, data
  <1>10. Placed(flags, data, far, NextSeq)
    <2>1. ASSUME NEW pos \in Slots, flags[pos] = 1, dist(pos) < far
          PROVE  data[pos] \in SeqNums /\ OffsetOf(NextSeq, data[pos]) = dist(pos)
      <3>1. CASE pos = slot
        BY <1>7, <1>9, <3>1
      <3>2. CASE pos # slot
        BY <1>1, <1>8, <2>1, <3>2 DEF Placed
      <3>3. QED  BY <3>1, <3>2
    <2>2. QED  BY <2>1 DEF Placed
  <1>11. PacketsIn(flags, data, far) = Held \cup {seq}
    <2>1. ASSUME NEW s \in PacketsIn(flags, data, far) PROVE s \in Held \cup {seq}
      <3>1. PICK pos \in Slots : flags[pos] = 1 /\ dist(pos) < far /\ s = data[pos]
        BY DEF PacketsIn
      <3>2. QED  BY <1>1, <1>8, <1>9, <3>1 DEF PacketsIn
    <2>2. ASSUME NEW s \in Held PROVE s \in PacketsIn(flags, data, far)
      <3>1. PICK pos \in Slots : seqArray[pos] = 1 /\ dist(pos) < far /\ s = rtpDataArray[pos]
        BY <1>1 DEF PacketsIn
      <3>2. pos # slot
        BY <1>3, <3>1
      <3>3. QED  BY <1>8, <3>1, <3>2 DEF PacketsIn
    <2>3. seq \in PacketsIn(flags, data, far)
      BY <1>5, <1>9 DEF PacketsIn
    <2>4. QED  BY <2>1, <2>2, <2>3
  <1>12. seq \notin Held
    <2>1. ASSUME seq \in Held PROVE FALSE
      <3>1. PICK pos \in Slots : seqArray[pos] = 1 /\ dist(pos) < far /\ seq = rtpDataArray[pos]
        BY <1>1, <2>1 DEF PacketsIn
      <3>2. dist(pos) = dist(slot)
        BY <1>1, <1>7, <3>1 DEF Placed
      <3>3. pos = slot
        BY <1>1, <1>5, <3>2, SlotAt
      <3>4. QED  BY <1>3, <3>1, <3>3
    <2>2. QED  BY <2>1
  <1>13. Buffer!Admit(seq, far)
    <2>1. PICK n \in 0 .. far : takeRtps(flags, data, headPos, 0, n)
      BY <1>3
    <2>2. /\ TakesExactly(flags, data, headPos, 0, n)
          /\ tailPos' = forward(tailPos, n) /\ seqArray' = flags /\ out' = Emitted(flags, data, n)
          /\ rtpDataArray' = [pos \in Slots |-> IF pos \in Taken(flags, n) THEN Empty ELSE data[pos]]
      BY <2>1 DEF takeRtps
    <2>3. n \in Nat /\ far <= R /\ 0 \in Int
      BY <1>1
    <2>4. \A pos \in Slots : n <= forwardDistance(pos, tailPos) => rtpDataArray'[pos] = data[pos]
      BY <1>1, <2>2, <2>3, TakenData
    <2>5. far = forwardDistance(headPos, tailPos) /\ Oldest(lastSeq', far) = NextSeq /\ lastSeq' \in SeqNums
      BY <1>1, <1>3 DEF Pending
    <2> HIDE DEF far
    <2>6. far \in Nat
      BY <1>1 DEF far
    <2>7. QED  BY <1>1, <1>3, <1>8, <1>10, <1>11, <2>2, <2>3, <2>4, <2>5, <2>6, TakeStep
  <1>14. Buffer!None = -1 /\ lastSeq # -1
    BY <1>0 DEF Buffer!None
  <1>15. Buffer!Offset(seq) < Buffer!Width
    BY <1>1, <1>5, <1>7, BufferNames
  <1>16. QED  BY <1>1, <1>3, <1>12, <1>13, <1>14, <1>15 DEF Buffer!Fill

\* No number further is the number itself.
LEMMA NumberZero ==
  ASSUME NEW next \in SeqNums
  PROVE  Number(next, 0) = next
  <1>1. next \in Int /\ 0 <= next /\ next < SeqRange /\ -SeqRange <= next /\ next < 2 * SeqRange
    BY SizeFacts DEF SeqNums
  <1>2. next % SeqRange = next
    BY <1>1, ModIs
  <1>3. next + 0 = next
    BY <1>1
  <1>4. QED  BY <1>2, <1>3 DEF Number

\* One packet in order is that packet.
LEMMA OneOrdered ==
  ASSUME NEW next \in SeqNums
  PROVE  Ordered(next, {next}, 1) = <<next>>
  <1> DEFINE f == [k \in 1 .. 1 |-> IF Number(next, k - 1) \in {next} THEN <<Number(next, k - 1)>> ELSE <<>>]
  <1>1. Number(next, 0) = next
    BY NumberZero
  <1>2. f[1] = <<next>> /\ f \in Seq(Seq(SeqNums)) /\ Len(f) = 1
    <2>1. f = [k \in 1 .. 1 |-> <<next>>]
      BY <1>1
    <2>2. <<next>> \in Seq(SeqNums)
      OBVIOUS
    <2> HIDE DEF f
    <2>3. f = << <<next>> >>
      BY <2>1
    <2>4. QED  BY <2>2, <2>3
  <1> HIDE DEF f
  <1>3. PICK g \in [0 .. 1 -> Seq(SeqNums)] :
           g[0] = <<>> /\ (\A i \in 1 .. 1 : g[i] = g[i - 1] \o f[i]) /\ FlattenSeq(f) = g[1]
    BY <1>2, FlattenIs
  <1>4. g[1] = <<>> \o <<next>>
    BY <1>2, <1>3
  <1>5. <<>> \o <<next>> = <<next>>
    OBVIOUS
  <1>6. QED  BY <1>3, <1>4, <1>5 DEF Ordered, f

\* With the cursors together nothing is held.
LEMMA NothingHeld ==
  RingInv /\ headPos = tailPos => Pending = 0 /\ Held = {} /\ (lastSeq \in SeqNums => NextSeq = (lastSeq + 1) % SeqRange)
  <1> SUFFICES ASSUME RingInv, headPos = tailPos
               PROVE  Pending = 0 /\ Held = {} /\ (lastSeq \in SeqNums => NextSeq = (lastSeq + 1) % SeqRange)
    OBVIOUS
  <1>1. headPos \in Slots /\ tailPos \in Slots
    BY DEF RingInv, RingTypeOK
  <1>2. Pending = 0
    BY <1>1, DistanceType DEF Pending
  <1>3. \A pos \in Slots : ~InWindow(pos)
    BY <1>1, <1>2, DistanceType DEF InWindow
  <1>4. HeldSlots = {}
    BY <1>3 DEF HeldSlots
  <1>5. Held = {}
    BY <1>4 DEF Held
  <1>6. ASSUME lastSeq \in SeqNums PROVE NextSeq = (lastSeq + 1) % SeqRange
    <2>1. lastSeq \in Int /\ ~(lastSeq < 0)
      BY <1>6, SizeFacts
    <2>2. lastSeq + 1 - Pending = lastSeq + 1
      BY <1>2, <2>1
    <2>3. QED  BY <2>1, <2>2 DEF NextSeq
  <1>7. QED  BY <1>2, <1>5, <1>6

\* The first packet is Start.
LEMMA FirstStarts ==
  ASSUME RingInv, RingInv', NEW seq \in SeqNums, First(seq), Held' = {}, NextSeq' = (seq + 1) % SeqRange
  PROVE  Buffer!Start(seq)
  <1>1. lastSeq < 0 /\ out' = <<seq>> /\ lastSeq' = seq
    BY DEF First
  <1>2. lastSeq \in SeqNums \cup {-1}
    BY DEF RingInv, RingTypeOK
  <1>3. lastSeq = Buffer!None
    BY <1>1, <1>2, SizeFacts DEF Buffer!None
  <1>4. QED  BY <1>1, <1>3, BufferNames DEF Buffer!Start

\* A packet in order while nothing waits is Extend: it is admitted and at once decided.
LEMMA InOrderExtends ==
  ASSUME RingInv, NEW seq \in SeqNums, InOrderNothingPending(seq),
         Held' = {}, NextSeq' = (seq + 1) % SeqRange
  PROVE  Buffer!Extend(seq)
  <1>1. lastSeq >= 0 /\ Diff(seq) = 1 /\ headPos = tailPos /\ out' = <<seq>> /\ lastSeq' = seq
    BY DEF InOrderNothingPending
  <1>2. lastSeq \in SeqNums /\ NextSeq \in SeqNums /\ Buffer!Width = 0 /\ Held = {} /\ NextSeq = Oldest(lastSeq, 0)
    BY <1>1, RingNow, NothingHeld
  <1>3. OffsetOf(NextSeq, seq) = 0
    <2>1. getSeqDistance(seq, lastSeq) = 1 /\ 0 \in 0 .. SeqRange - 1 /\ 0 + 1 <= SeqRange
      BY <1>1, SizeFacts DEF Diff
    <2>2. OffsetOf(Oldest(lastSeq, 0), seq) = 0 + getSeqDistance(seq, lastSeq) - 1
      BY <1>2, <2>1, OldestIs
    <2>3. QED  BY <1>2, <2>1, <2>2
  <1>4. seq = NextSeq /\ Number(NextSeq, 0) = seq
    <2>1. 0 \in 0 .. SeqRange - 1
      BY SizeFacts
    <2>2. Number(NextSeq, 0) = seq
      BY <1>2, <1>3, <2>1, Numbers
    <2>3. Number(NextSeq, 0) = NextSeq
      BY <1>2, NumberZero
    <2>4. QED  BY <2>2, <2>3
  <1>5. Buffer!Ahead(seq) = 1 /\ 1 \in 1 .. R /\ R \in Nat
    BY <1>1, <1>2, AheadIs, SizeFacts
  <1>6. Buffer!InOrder(Held \cup {seq}, 1) = <<seq>>
    <2>1. Held \cup {seq} = {NextSeq}
      BY <1>2, <1>4
    <2>2. Buffer!InOrder({NextSeq}, 1) = Ordered(NextSeq, {NextSeq}, 1)
      BY BufferNames
    <2>3. QED  BY <1>2, <1>4, <2>1, <2>2, OneOrdered
  <1>7. Buffer!Admit(seq, 1)
    <2>1. 1 \in 0 .. 1 /\ 1 >= 1 - R
      BY <1>5
    <2>2. Buffer!Nth(0) = seq /\ Buffer!Nth(1) = (seq + 1) % SeqRange /\ Buffer!Offset(seq) = 0
      BY <1>3, <1>4, BufferNames DEF Number
    <2>3. \A k \in 0 .. 1 - 1 : k = 0
      OBVIOUS
    <2>4. Held' = { t \in Held \cup {seq} : Buffer!Offset(t) >= 1 }
      BY <1>2, <2>2
    <2>5. \A k \in 0 .. 1 - 1 : ~(k >= 1 - R /\ (k = 1 \/ Buffer!Nth(k) \notin Held \cup {seq}))
      BY <2>2, <2>3
    <2>6. QED  BY <1>1, <1>6, <2>1, <2>2, <2>4, <2>5 DEF Buffer!Admit
  <1>8. QED
    <2>1. Buffer!Width + Buffer!Ahead(seq) = 1 /\ lastSeq # Buffer!None
      BY <1>1, <1>2, <1>5 DEF Buffer!None
    <2>2. QED  BY <1>1, <1>5, <1>7, <2>1 DEF Buffer!Extend

\* takeRtps on the ring as it is.
LEMMA TakeHere ==
  ASSUME NEW far \in Nat, NEW n \in 0 .. far, tailPos \in Slots, seqArray \in [Slots -> {0, 1}],
         NextSeq \in SeqNums, headPos \in Slots, R \in Int,
         far = forwardDistance(headPos, tailPos), Placed(seqArray, rtpDataArray, far, NextSeq)
  PROVE  /\ StopsAt(seqArray, rtpDataArray, headPos, R, n) <=>
              n = far \/ (n >= R /\ Number(NextSeq, n) \notin PacketsIn(seqArray, rtpDataArray, far))
         /\ Emitted(seqArray, rtpDataArray, n) = Ordered(NextSeq, PacketsIn(seqArray, rtpDataArray, far), n)
  BY TakeIs

\* A gap is Skip: the ring, never longer than R, is emptied.
LEMMA GapSkips ==
  ASSUME RingInv, NEW seq \in SeqNums, Gap(seq), Held' = {}, NextSeq' = (seq + 1) % SeqRange
  PROVE  Buffer!Skip(seq)
  <1>1. lastSeq >= 0 /\ Diff(seq) \in R + 1 .. MaxDiff - 1 /\ lastSeq' = seq
    BY DEF Gap
  <1>2. /\ lastSeq \in SeqNums /\ headPos \in Slots /\ tailPos \in Slots
        /\ seqArray \in [Slots -> {0, 1}] /\ Pending \in 0 .. R /\ Pending \in Nat
        /\ NextSeq \in SeqNums /\ Buffer!Width = Pending
        /\ Held = PacketsIn(seqArray, rtpDataArray, Pending)
        /\ Placed(seqArray, rtpDataArray, Pending, NextSeq)
    BY <1>1, RingNow, SizeFacts
  <1>3. R \in Nat /\ R \in Int /\ Pending = forwardDistance(headPos, tailPos)
    BY SizeFacts DEF Pending
  <1>4. PICK n \in 0 .. Pending :
           TakesExactly(seqArray, rtpDataArray, headPos, R, n)
           /\ out' = Append(Emitted(seqArray, rtpDataArray, n), seq)
    BY <1>3 DEF Gap
  <1>5. /\ StopsAt(seqArray, rtpDataArray, headPos, R, n) =>
             n = Pending \/ (n >= R /\ Number(NextSeq, n) \notin PacketsIn(seqArray, rtpDataArray, Pending))
        /\ Emitted(seqArray, rtpDataArray, n) = Ordered(NextSeq, PacketsIn(seqArray, rtpDataArray, Pending), n)
    <2>1. PICK far \in Nat : far = Pending
      BY <1>2
    <2>2. n \in 0 .. far /\ far = forwardDistance(headPos, tailPos) /\ Placed(seqArray, rtpDataArray, far, NextSeq)
      BY <1>2, <1>3, <2>1
    <2>3. /\ StopsAt(seqArray, rtpDataArray, headPos, R, n) <=>
               n = far \/ (n >= R /\ Number(NextSeq, n) \notin PacketsIn(seqArray, rtpDataArray, far))
          /\ Emitted(seqArray, rtpDataArray, n) = Ordered(NextSeq, PacketsIn(seqArray, rtpDataArray, far), n)
      <3>1. tailPos \in Slots /\ seqArray \in [Slots -> {0, 1}] /\ NextSeq \in SeqNums /\ headPos \in Slots
        BY <1>2
      <3>2. R \in Int /\ far \in Nat /\ n \in 0 .. far
        BY <1>3, <2>2
      <3>3. far = forwardDistance(headPos, tailPos) /\ Placed(seqArray, rtpDataArray, far, NextSeq)
        BY <2>2
      <3>4. QED  BY <3>1, <3>2, <3>3, TakeHere
    <2>4. QED  BY <2>1, <2>3
  <1>6. n = Pending
    <2>1. StopsAt(seqArray, rtpDataArray, headPos, R, n)
      BY <1>4 DEF TakesExactly
    <2>2. QED  BY <1>2, <1>3, <1>5, <2>1
  <1>7. out' = Append(Buffer!InOrder(Held, Buffer!Width), seq)
    BY <1>2, <1>4, <1>5, <1>6, BufferNames
  <1>8. lastSeq # Buffer!None /\ Buffer!Ahead(seq) \in R + 1 .. MaxDiff - 1
    BY <1>1, <1>2, AheadIs DEF Buffer!None
  <1>9. QED  BY <1>1, <1>7, <1>8, BufferNames DEF Buffer!Skip

\* What changes nothing the abstract buffer has, it ignores.
LEMMA UnchangedIgnores ==
  ASSUME UNCHANGED <<lastSeq, ring>>
  PROVE  UNCHANGED <<lastSeq, NextSeq, Held>>
  BY DEF ring, NextSeq, Held, HeldSlots, InWindow, Pending

\* Every branch of updateData is a step of the abstract buffer.
LEMMA UpdateRefines ==
  ASSUME RingInv, RingInv', NEW seq \in SeqNums, updateData(seq),
         headPos' = tailPos' => Held' = {} /\ (lastSeq' \in SeqNums => NextSeq' = (lastSeq' + 1) % SeqRange)
  PROVE  Buffer!Next
  <1>0. seq \in Buffer!SeqNums /\ RingTypeOK
    BY BufferNames DEF RingInv
  <1>1. ASSUME lastSeq' = seq, headPos' = tailPos'
        PROVE  Held' = {} /\ NextSeq' = (seq + 1) % SeqRange
    BY <1>1
  <1>2. CASE First(seq)
    <2>1. headPos = tailPos
      <3>1. WindowShape /\ lastSeq < 0
        BY <1>2 DEF RingInv, First
      <3>2. QED  BY <3>1 DEF WindowShape
    <2>2. lastSeq' = seq /\ headPos' = tailPos'
      BY <1>2, <2>1 DEF First
    <2>3. QED  BY <1>0, <1>1, <1>2, <2>2, FirstStarts DEF Buffer!Next
  <1>3. CASE InOrderNothingPending(seq)
    <2>1. lastSeq' = seq /\ headPos' = tailPos'
      BY <1>3 DEF InOrderNothingPending
    <2>2. QED  BY <1>0, <1>1, <1>3, <2>1, InOrderExtends DEF Buffer!Next
  <1>4. CASE InOrderBehindHole(seq)
    <2>1. lastSeq >= 0 /\ Diff(seq) = 1 /\ Store(seq, 1) /\ 1 \in 1 .. R
      BY <1>4, SizeFacts DEF InOrderBehindHole
    <2>2. QED  BY <1>0, <2>1, StoreExtends DEF Buffer!Next
  <1>5. CASE Jump(seq)
    <2>1. lastSeq >= 0 /\ Diff(seq) \in 1 .. R /\ Store(seq, Diff(seq))
      BY <1>5, SizeFacts DEF Jump
    <2>2. QED  BY <1>0, <2>1, StoreExtends DEF Buffer!Next
  <1>6. CASE Gap(seq)
    <2>1. lastSeq' = seq /\ headPos' = tailPos'
      BY <1>6 DEF Gap
    <2>2. QED  BY <1>0, <1>1, <1>6, <2>1, GapSkips DEF Buffer!Next
  <1>7. CASE Late(seq)
    BY <1>0, <1>7, LateFills DEF Buffer!Next
  <1>8. CASE Duplicated(seq) \/ Old(seq)
    <2>1. out' = <<>> /\ UNCHANGED <<lastSeq, ring>>
      BY <1>8 DEF Duplicated, Old, Reject
    <2>2. QED  BY <2>1, UnchangedIgnores DEF Buffer!Next, Buffer!Ignore
  <1>9. CASE Invalid(seq)
    <2>1. lastSeq' = -1 /\ headPos' = tailPos' /\ out' = <<>>
      BY <1>9 DEF Invalid, resetPos
    <2>2. NextSeq' = -1 /\ Held' = {}
      BY <2>1 DEF NextSeq
    <2>3. QED  BY <2>1, <2>2 DEF Buffer!Next, Buffer!Restart, Buffer!None
  <1>10. QED
    BY <1>2, <1>3, <1>4, <1>5, <1>6, <1>7, <1>8, <1>9 DEF updateData

\* Every step of the pipe is a step of the abstract buffer.
LEMMA StepRefines ==
  ASSUME IInv, RingInv', [Next]_vars,
         headPos' = tailPos' => Held' = {} /\ (lastSeq' \in SeqNums => NextSeq' = (lastSeq' + 1) % SeqRange)
  PROVE  [Buffer!Next]_(Buffer!vars)
  <1>0. RingInv /\ feeding \in Seq(SeqNums)
    BY DEF IInv, StreamTypeOK
  <1>1. ASSUME NoOutput PROVE Buffer!Next
    <2>1. out' = <<>> /\ UNCHANGED <<lastSeq, ring>>
      BY <1>1 DEF NoOutput
    <2>2. QED  BY <2>1, UnchangedIgnores DEF Buffer!Next, Buffer!Ignore
  <1>2. CASE PackageLengthError
    BY <1>1, <1>2 DEF PackageLengthError
  <1>3. ASSUME NEW src \in Sources, ForeignSource(src) PROVE Buffer!Next
    BY <1>1, <1>3 DEF ForeignSource
  <1>4. ASSUME NEW src \in Sources, NEW seq \in SeqNums, Lead(src, seq) PROVE Buffer!Next
    BY <1>1, <1>4 DEF Lead
  <1>5. ASSUME NEW src \in Sources, NEW seq \in SeqNums, Reorder(src, seq) PROVE Buffer!Next
    <2>1. updateData(seq)
      BY <1>5 DEF Reorder
    <2>2. QED  BY <1>0, <2>1, UpdateRefines
  <1>6. CASE FeedLeading
    <2>1. feeding # <<>> /\ updateData(Head(feeding))
      BY <1>6 DEF FeedLeading
    <2>2. Head(feeding) \in SeqNums
      BY <1>0, <2>1
    <2>3. QED  BY <1>0, <2>1, <2>2, UpdateRefines
  <1>7. CASE resetPipe
    <2>1. lastSeq' = -1 /\ headPos' = tailPos' /\ out' = <<>>
      BY <1>7 DEF resetPipe, resetPos
    <2>2. NextSeq' = -1 /\ Held' = {}
      BY <2>1 DEF NextSeq
    <2>3. QED  BY <2>1, <2>2 DEF Buffer!Next, Buffer!Restart, Buffer!None
  <1>8. CASE UNCHANGED vars
    <2>1. out' = out /\ UNCHANGED <<lastSeq, ring>>
      BY <1>8 DEF vars
    <2>2. UNCHANGED Buffer!vars
      BY <2>1, UnchangedIgnores DEF Buffer!vars
    <2>3. QED  BY <2>2
  <1>9. QED
    BY <1>2, <1>3, <1>4, <1>5, <1>6, <1>7, <1>8 DEF Next

\* The ring with its two cursors delivers what the abstract buffer delivers,
\* whatever the sizes: RtpPipe implements ReorderBuffer.
THEOREM Is_reorder_buffer == Spec => ImplementsReorderBuffer
  <1>1. Init => Buffer!Init
    <2> SUFFICES ASSUME Init PROVE Buffer!Init
      OBVIOUS
    <2>1. lastSeq = -1 /\ headPos = tailPos /\ out = <<>> /\ RingInv
      BY InitEstablishes DEF Init, IInv
    <2>2. Held = {} /\ NextSeq = -1
      BY <2>1, NothingHeld DEF NextSeq
    <2>3. QED  BY <2>1, <2>2 DEF Buffer!Init, Buffer!None
  <1>2. RingInv /\ headPos = tailPos => Held = {} /\ (lastSeq \in SeqNums => NextSeq = (lastSeq + 1) % SeqRange)
    BY NothingHeld
  <1>3. (RingInv /\ headPos = tailPos => Held = {} /\ (lastSeq \in SeqNums => NextSeq = (lastSeq + 1) % SeqRange))'
    BY <1>2, PTL
  <1>4. IInv /\ IInv' /\ [Next]_vars => [Buffer!Next]_(Buffer!vars)
    <2> SUFFICES ASSUME IInv, IInv', [Next]_vars PROVE [Buffer!Next]_(Buffer!vars)
      OBVIOUS
    <2>1. RingInv'
      BY DEF IInv
    <2>2. headPos' = tailPos' => Held' = {} /\ (lastSeq' \in SeqNums => NextSeq' = (lastSeq' + 1) % SeqRange)
      BY <1>3, <2>1
    <2>3. QED  BY <2>1, <2>2, StepRefines
  <1>5. QED
    BY <1>1, <1>4, Inductive, PTL DEF Spec, ImplementsReorderBuffer, Buffer!Spec

-----------------------------------------------------------------------------
(* What is handed out is in order. *)

\* The numbers of s lie below limit and rise, seen from next.
Rising(next, s, limit) ==
  /\ \A i \in DOMAIN s : OffsetOf(next, s[i]) < limit
  /\ \A i, j \in DOMAIN s : i < j => OffsetOf(next, s[i]) < OffsetOf(next, s[j])

\* An offset is a natural number.
LEMMA OffsetType ==
  ASSUME NEW next \in SeqNums, NEW s \in SeqNums
  PROVE  OffsetOf(next, s) \in Nat
  <1>1. 0 \in 0 .. SeqRange - 1 /\ SeqRange \in Nat
    BY SizeFacts
  <1>2. QED  BY <1>1, Numbers

\* One more number, beyond those of s.
LEMMA RisingAppend ==
  ASSUME NEW next \in SeqNums, NEW s \in Seq(SeqNums), NEW m \in Nat, Rising(next, s, m),
         NEW e \in SeqNums, NEW limit \in Nat, OffsetOf(next, e) < limit, m <= OffsetOf(next, e)
  PROVE  Rising(next, Append(s, e), limit)
  <1> DEFINE t == Append(s, e)
  <1>1. /\ t \in Seq(SeqNums) /\ Len(t) = Len(s) + 1 /\ Len(s) \in Nat
        /\ DOMAIN t = 1 .. Len(s) + 1 /\ DOMAIN s = 1 .. Len(s)
        /\ t[Len(s) + 1] = e /\ \A i \in 1 .. Len(s) : t[i] = s[i]
    OBVIOUS
  <1> HIDE DEF t
  <1>2. \A x \in SeqNums : OffsetOf(next, x) \in Nat
    BY OffsetType
  <1>3. ASSUME NEW i \in 1 .. Len(s)
        PROVE  OffsetOf(next, t[i]) = OffsetOf(next, s[i]) /\ OffsetOf(next, s[i]) < m /\ OffsetOf(next, s[i]) \in Nat
    <2>1. t[i] = s[i] /\ s[i] \in SeqNums /\ i \in DOMAIN s
      BY <1>1
    <2>2. OffsetOf(next, s[i]) < m
      BY <2>1 DEF Rising
    <2>3. QED  BY <1>2, <2>1, <2>2
  <1>4. OffsetOf(next, e) \in Nat
    BY <1>2
  <1>5. ASSUME NEW i \in DOMAIN t PROVE OffsetOf(next, t[i]) < limit
    <2>1. CASE i = Len(s) + 1
      BY <1>1, <2>1
    <2>2. CASE i \in 1 .. Len(s)
      BY <1>3, <1>4, <2>2
    <2>3. QED  BY <1>1, <2>1, <2>2
  <1>6. ASSUME NEW i \in DOMAIN t, NEW j \in DOMAIN t, i < j
        PROVE  OffsetOf(next, t[i]) < OffsetOf(next, t[j])
    <2>1. i \in 1 .. Len(s)
      BY <1>1, <1>6
    <2>2. CASE j = Len(s) + 1
      BY <1>1, <1>3, <1>4, <2>1, <2>2
    <2>3. CASE j \in 1 .. Len(s)
      <3>1. OffsetOf(next, s[i]) < OffsetOf(next, s[j])
        BY <1>1, <1>6, <2>1, <2>3 DEF Rising
      <3>2. QED  BY <1>3, <2>1, <2>3, <3>1
    <2>4. QED  BY <1>1, <2>2, <2>3
  <1>7. QED  BY <1>5, <1>6 DEF Rising, t

\* Ordered puts packets out in the order of their numbers.
LEMMA OrderedRises ==
  ASSUME NEW next \in SeqNums, NEW h, NEW n \in 0 .. SeqRange
  PROVE  /\ Ordered(next, h, n) \in Seq(SeqNums)
         /\ Rising(next, Ordered(next, h, n), n)
  <1> DEFINE f == [k \in 1 .. n |-> IF Number(next, k - 1) \in h THEN <<Number(next, k - 1)>> ELSE <<>>]
  <1>0. n \in Nat /\ SeqRange \in Nat
    BY SizeFacts
  <1>1. ASSUME NEW k \in 1 .. n
        PROVE  /\ Number(next, k - 1) \in SeqNums /\ OffsetOf(next, Number(next, k - 1)) = k - 1
               /\ f[k] = <<>> \/ f[k] = <<Number(next, k - 1)>>
    <2>1. k - 1 \in 0 .. SeqRange - 1 /\ next \in SeqNums
      BY <1>0
    <2>2. Number(next, k - 1) \in SeqNums
      BY <2>1, Numbers
    <2>3. QED  BY <2>1, <2>2, Numbers
  <1>2. f \in Seq(Seq(SeqNums)) /\ Len(f) = n
    <2>0. \A k \in 1 .. n : f[k] \in Seq(SeqNums)
      <3>1. \A e \in SeqNums : <<e>> \in Seq(SeqNums)
        OBVIOUS
      <3>2. <<>> \in Seq(SeqNums)
        OBVIOUS
      <3> HIDE DEF f
      <3>3. QED  BY <1>1, <3>1, <3>2
    <2>1. f \in [1 .. n -> Seq(SeqNums)]
      <3> DEFINE F(k) == IF Number(next, k - 1) \in h THEN <<Number(next, k - 1)>> ELSE <<>>
      <3>1. \A k \in 1 .. n : F(k) \in Seq(SeqNums)
        BY <2>0
      <3>2. f = [k \in 1 .. n |-> F(k)]
        OBVIOUS
      <3> HIDE DEF F, f
      <3>3. QED  BY <3>1, <3>2
    <2> HIDE DEF f
    <2>2. QED  BY <1>0, <2>1
  <1> HIDE DEF f
  <1>3. PICK g \in [0 .. n -> Seq(SeqNums)] :
           g[0] = <<>> /\ (\A i \in 1 .. n : g[i] = g[i - 1] \o f[i]) /\ FlattenSeq(f) = g[n]
    BY <1>2, FlattenIs
  <1> DEFINE T == { m \in Nat : m <= n => Rising(next, g[m], m) }
  <1>4. 0 \in T
    BY <1>0, <1>3 DEF Rising
  <1>5. ASSUME NEW m \in Nat, m \in T PROVE m + 1 \in T
    <2>1. SUFFICES ASSUME m + 1 <= n PROVE Rising(next, g[m + 1], m + 1)
      OBVIOUS
    <2>2. m \in 0 .. n /\ m + 1 \in 1 .. n /\ (m + 1) - 1 = m
      BY <1>0, <2>1
    <2>3. Rising(next, g[m], m) /\ g[m] \in Seq(SeqNums) /\ g[m + 1] = g[m] \o f[m + 1]
      <3>1. g[m + 1] = g[(m + 1) - 1] \o f[m + 1]
        BY <1>3, <2>2
      <3>2. Rising(next, g[m], m)
        BY <1>5, <2>2
      <3>3. QED  BY <1>3, <2>2, <3>1, <3>2
    <2> DEFINE e == Number(next, m)
    <2>4. e \in SeqNums /\ OffsetOf(next, e) = m /\ (f[m + 1] = <<>> \/ f[m + 1] = <<e>>)
      BY <1>1, <2>2
    <2> HIDE DEF e
    <2>5. CASE f[m + 1] = <<>>
      <3>1. g[m + 1] = g[m]
        BY <2>3, <2>5, ConcatEmptySeq
      <3>2. \A i \in DOMAIN g[m] : g[m][i] \in SeqNums
        BY <2>3
      <3>3. \A i \in DOMAIN g[m] : OffsetOf(next, g[m][i]) \in Nat
        BY <3>2, OffsetType
      <3>4. QED  BY <2>3, <3>1, <3>3 DEF Rising
    <2>6. CASE f[m + 1] = <<e>>
      <3>1. g[m + 1] = Append(g[m], e)
        <4>1. g[m] \o <<e>> = Append(g[m], e)
          BY <2>3, <2>4, AppendIsConcat
        <4>2. QED  BY <2>3, <2>6, <4>1
      <3>2. OffsetOf(next, e) < m + 1 /\ m <= OffsetOf(next, e) /\ m + 1 \in Nat
        BY <2>4
      <3>3. QED  BY <2>3, <2>4, <3>1, <3>2, RisingAppend
    <2>7. QED  BY <2>4, <2>5, <2>6
  <1> HIDE DEF T
  <1>6. Nat \subseteq T
    BY <1>4, <1>5, NatIsClosed
  <1>7. Rising(next, g[n], n) /\ g[n] \in Seq(SeqNums)
    <2>1. n \in T
      BY <1>0, <1>6
    <2>2. QED  BY <1>0, <1>3, <2>1 DEF T
  <1>8. Ordered(next, h, n) = g[n]
    BY <1>3 DEF Ordered, f
  <1>9. QED  BY <1>7, <1>8

\* What DeliveredInOrder says of one step.
InOrderNow ==
  (lastSeq >= 0 /\ lastSeq' >= 0) =>
     Rising(NextSeq, out', IF result' = "gap" /\ out' # <<>> THEN getSeqDistance(lastSeq', lastSeq) + Pending
                           ELSE (NextSeq' - NextSeq) % SeqRange)

\* What Admit hands out is in order and stays below the new oldest number.
LEMMA AdmitInOrder ==
  ASSUME NextSeq \in SeqNums, NEW seq, NEW far \in 0 .. SeqRange - 1, Buffer!Admit(seq, far),
         result' # "gap"
  PROVE  InOrderNow
  <1> DEFINE h == Held \cup {seq}
  <1>1. PICK n \in 0 .. far : NextSeq' = Number(NextSeq, n) /\ out' = Ordered(NextSeq, h, n)
    BY BufferNames DEF Buffer!Admit
  <1> HIDE DEF h
  <1>2. n \in 0 .. SeqRange - 1 /\ n \in 0 .. SeqRange
    BY SizeFacts
  <1>3. OffsetOf(NextSeq, NextSeq') = n
    BY <1>1, <1>2, Numbers
  <1>4. Rising(NextSeq, out', n)
    BY <1>1, <1>2, OrderedRises
  <1>5. (NextSeq' - NextSeq) % SeqRange = n
    BY <1>3 DEF OffsetOf
  <1>6. QED  BY <1>4, <1>5 DEF InOrderNow

\* A step that hands out nothing hands it out in order.
LEMMA SilentInOrder == out' = <<>> => InOrderNow
  BY DEF InOrderNow, Rising

\* A gap hands out the ring first and the new packet last.
LEMMA GapInOrder ==
  ASSUME RingInv, NEW seq \in SeqNums, Gap(seq), Buffer!Skip(seq)
  PROVE  InOrderNow
  <1>1. lastSeq >= 0 /\ Diff(seq) \in R + 1 .. MaxDiff - 1 /\ lastSeq' = seq /\ result' = "gap"
    BY DEF Gap
  <1>2. /\ lastSeq \in SeqNums /\ Pending \in 0 .. R /\ Pending \in Nat /\ Pending \in 0 .. SeqRange - 1
        /\ Pending \in 0 .. SeqRange /\ NextSeq = Oldest(lastSeq, Pending) /\ NextSeq \in SeqNums
        /\ Buffer!Width = Pending /\ R \in Nat
    BY <1>1, RingNow, SizeFacts
  <1> DEFINE o == Ordered(NextSeq, Held, Pending)
             limit == Diff(seq) + Pending
  <1>3. out' = Append(o, seq)
    BY <1>2, BufferNames DEF Buffer!Skip
  <1>4. o \in Seq(SeqNums) /\ Rising(NextSeq, o, Pending)
    BY <1>2, OrderedRises
  <1>5. Diff(seq) \in Nat /\ Diff(seq) > 0 /\ Diff(seq) <= Half
    BY <1>1, <1>2, SizeFacts DEF Diff, getSeqDistance
  <1>6. OffsetOf(NextSeq, seq) = Pending + Diff(seq) - 1
    <2>1. getSeqDistance(seq, lastSeq) > 0 /\ Pending + getSeqDistance(seq, lastSeq) <= SeqRange
      BY <1>2, <1>5, SizeFacts DEF Diff
    <2>2. OffsetOf(Oldest(lastSeq, Pending), seq) = Pending + getSeqDistance(seq, lastSeq) - 1
      BY <1>2, <2>1, OldestIs
    <2>3. QED  BY <1>2, <2>2 DEF Diff
  <1>7. limit \in Nat /\ OffsetOf(NextSeq, seq) < limit /\ Pending <= OffsetOf(NextSeq, seq)
    BY <1>2, <1>5, <1>6
  <1> HIDE DEF o, limit
  <1>8. Rising(NextSeq, Append(o, seq), limit)
    BY <1>2, <1>4, <1>7, RisingAppend
  <1>9. out' # <<>>
    BY <1>3, <1>4
  <1>10. getSeqDistance(lastSeq', lastSeq) + Pending = limit
    BY <1>1 DEF limit, Diff
  <1>11. QED  BY <1>1, <1>3, <1>8, <1>9, <1>10 DEF InOrderNow

\* Every branch of updateData delivers in order.
LEMMA UpdateInOrder ==
  ASSUME RingInv, RingInv', NEW seq \in SeqNums, updateData(seq),
         headPos' = tailPos' => Held' = {} /\ (lastSeq' \in SeqNums => NextSeq' = (lastSeq' + 1) % SeqRange)
  PROVE  InOrderNow
  <1>1. SUFFICES ASSUME lastSeq >= 0, lastSeq' >= 0 PROVE InOrderNow
    BY DEF InOrderNow
  <1>2. lastSeq \in SeqNums /\ Pending \in 0 .. R /\ NextSeq \in SeqNums /\ Buffer!Width = Pending /\ R \in Nat
    BY <1>1, RingNow, SizeFacts
  <1>3. ASSUME Diff(seq) \in 1 .. R, Buffer!Extend(seq), result' # "gap" PROVE InOrderNow
    <2>1. Buffer!Ahead(seq) = Diff(seq)
      BY <1>2, AheadIs
    <2>2. Buffer!Admit(seq, Pending + Diff(seq))
      BY <1>2, <1>3, <2>1 DEF Buffer!Extend
    <2>3. Pending + Diff(seq) \in 0 .. SeqRange - 1
      BY <1>2, <1>3, SizeFacts
    <2>4. QED  BY <1>2, <1>3, <2>2, <2>3, AdmitInOrder
  <1>4. ASSUME lastSeq' = seq, headPos' = tailPos'
        PROVE  Held' = {} /\ NextSeq' = (seq + 1) % SeqRange
    BY <1>4
  <1>5. CASE First(seq)
    <2>1. lastSeq < 0 /\ lastSeq \in Int
      BY <1>2, <1>5, SizeFacts DEF First
    <2>2. QED  BY <1>1, <2>1
  <1>6. CASE InOrderNothingPending(seq)
    <2>1. lastSeq' = seq /\ headPos' = tailPos' /\ Diff(seq) = 1 /\ result' = "ok" /\ 1 \in 1 .. R
      BY <1>6, SizeFacts DEF InOrderNothingPending
    <2>2. Buffer!Extend(seq)
      BY <1>4, <1>6, <2>1, InOrderExtends
    <2>3. QED  BY <1>3, <2>1, <2>2
  <1>7. CASE InOrderBehindHole(seq)
    <2>1. lastSeq >= 0 /\ Diff(seq) = 1 /\ Store(seq, 1) /\ 1 \in 1 .. R /\ result' = "ok"
      BY <1>7, SizeFacts DEF InOrderBehindHole
    <2>2. Buffer!Extend(seq)
      BY <2>1, StoreExtends
    <2>3. QED  BY <1>3, <2>1, <2>2
  <1>8. CASE Jump(seq)
    <2>1. lastSeq >= 0 /\ Diff(seq) \in 1 .. R /\ Store(seq, Diff(seq)) /\ result' = "jump"
      BY <1>8, SizeFacts DEF Jump
    <2>2. Buffer!Extend(seq)
      BY <2>1, StoreExtends
    <2>3. QED  BY <1>3, <2>1, <2>2
  <1>9. CASE Gap(seq)
    <2>1. lastSeq' = seq /\ headPos' = tailPos'
      BY <1>9 DEF Gap
    <2>2. Buffer!Skip(seq)
      BY <1>4, <1>9, <2>1, GapSkips
    <2>3. QED  BY <1>9, <2>2, GapInOrder
  <1>10. CASE Late(seq)
    <2>1. Buffer!Fill(seq) /\ result' = "late"
      BY <1>10, LateFills DEF Late
    <2>2. Buffer!Admit(seq, Pending) /\ Pending \in 0 .. SeqRange - 1
      BY <1>2, <2>1, SizeFacts DEF Buffer!Fill
    <2>3. QED  BY <1>2, <2>1, <2>2, AdmitInOrder
  <1>11. CASE Duplicated(seq) \/ Old(seq)
    <2>1. out' = <<>>
      BY <1>11 DEF Duplicated, Old, Reject
    <2>2. QED  BY <2>1, SilentInOrder
  <1>12. CASE Invalid(seq)
    <2>1. out' = <<>>
      BY <1>12 DEF Invalid
    <2>2. QED  BY <2>1, SilentInOrder
  <1>13. QED
    BY <1>5, <1>6, <1>7, <1>8, <1>9, <1>10, <1>11, <1>12 DEF updateData

\* Every step of the pipe delivers in order.
LEMMA StepInOrder ==
  ASSUME IInv, RingInv', Next,
         headPos' = tailPos' => Held' = {} /\ (lastSeq' \in SeqNums => NextSeq' = (lastSeq' + 1) % SeqRange)
  PROVE  InOrderNow
  <1>0. RingInv /\ feeding \in Seq(SeqNums)
    BY DEF IInv, StreamTypeOK
  <1>1. ASSUME out' = <<>> PROVE InOrderNow
    BY <1>1, SilentInOrder
  <1>2. CASE PackageLengthError
    BY <1>1, <1>2 DEF PackageLengthError, NoOutput
  <1>3. ASSUME NEW src \in Sources, ForeignSource(src) PROVE InOrderNow
    BY <1>1, <1>3 DEF ForeignSource, NoOutput
  <1>4. ASSUME NEW src \in Sources, NEW seq \in SeqNums, Lead(src, seq) PROVE InOrderNow
    BY <1>1, <1>4 DEF Lead, NoOutput
  <1>5. ASSUME NEW src \in Sources, NEW seq \in SeqNums, Reorder(src, seq) PROVE InOrderNow
    <2>1. updateData(seq)
      BY <1>5 DEF Reorder
    <2>2. QED  BY <1>0, <2>1, UpdateInOrder
  <1>6. CASE FeedLeading
    <2>1. feeding # <<>> /\ updateData(Head(feeding))
      BY <1>6 DEF FeedLeading
    <2>2. Head(feeding) \in SeqNums
      BY <1>0, <2>1
    <2>3. QED  BY <1>0, <2>1, <2>2, UpdateInOrder
  <1>7. CASE resetPipe
    BY <1>1, <1>7 DEF resetPipe
  <1>8. QED
    BY <1>2, <1>3, <1>4, <1>5, <1>6, <1>7 DEF Next

\* Whatever the sizes, a step hands packets out in sequence order, none before
\* the oldest undecided number and none after the new one.
THEOREM Delivers_in_order == Spec => DeliveredInOrder
  <1>1. (RingInv /\ headPos = tailPos => Held = {} /\ (lastSeq \in SeqNums => NextSeq = (lastSeq + 1) % SeqRange))'
    <2>1. RingInv /\ headPos = tailPos => Held = {} /\ (lastSeq \in SeqNums => NextSeq = (lastSeq + 1) % SeqRange)
      BY NothingHeld
    <2>2. QED  BY <2>1, PTL
  <1> DEFINE A == (lastSeq >= 0 /\ lastSeq' >= 0) =>
                    LET offset(s) == (s - NextSeq) % SeqRange
                        decided   == IF result' = "gap" /\ out' # <<>> THEN getSeqDistance(lastSeq', lastSeq) + Pending
                                     ELSE (NextSeq' - NextSeq) % SeqRange
                    IN  /\ \A i \in DOMAIN out' : offset(out'[i]) < decided
                        /\ \A i, j \in DOMAIN out' : i < j => offset(out'[i]) < offset(out'[j])
  <1>2. InOrderNow => A
    BY DEF InOrderNow, Rising, OffsetOf
  <1>3. IInv /\ IInv' /\ [Next]_vars => [A]_vars
    <2> SUFFICES ASSUME IInv, IInv', Next PROVE InOrderNow
      BY <1>2
    <2>1. RingInv'
      BY DEF IInv
    <2>2. headPos' = tailPos' => Held' = {} /\ (lastSeq' \in SeqNums => NextSeq' = (lastSeq' + 1) % SeqRange)
      BY <1>1, <2>1
    <2>3. QED  BY <2>1, <2>2, StepInOrder
  <1> HIDE DEF A
  <1>4. Spec => [][A]_vars
    BY <1>3, Inductive, PTL DEF Spec
  <1>5. QED  BY <1>4 DEF DeliveredInOrder, A

-----------------------------------------------------------------------------
(* The leading packets. *)

\* Two numbers less than SeqRange - LeadingWrap apart, whichever is the newer.
Near(a, b) ==
  /\ getSeqDistance(a, b) < SeqRange - LeadingWrap
  /\ getSeqDistance(b, a) < SeqRange - LeadingWrap

\* On such numbers the comparison of LeadingRtp is the order of the stream.
LEMMA LessIsBefore ==
  ASSUME NEW a \in SeqNums, NEW b \in SeqNums, Near(a, b)
  PROVE  LeadingLess(a, b) <=> getSeqDistance(b, a) > 0
  <1>1. PICK h \in Nat, w \in Nat : h = Half /\ w = LeadingWrap /\ h > 0 /\ 3 * w >= 4 * h
    BY PipeAssumption, LeadingAssumption DEF SeqRange
  <1>2. a \in 0 .. 2 * h - 1 /\ b \in 0 .. 2 * h - 1 /\ SeqRange = 2 * h
    BY <1>1 DEF SeqNums, SeqRange
  <1>3. w >= h
    BY <1>1
  <1>4. /\ getSeqDistance(a, b) = IF a - b > h - 1 THEN a - b - 2 * h
                                  ELSE IF a - b < -(h - 1) THEN a - b + 2 * h ELSE a - b
        /\ getSeqDistance(b, a) = IF b - a > h - 1 THEN b - a - 2 * h
                                  ELSE IF b - a < -(h - 1) THEN b - a + 2 * h ELSE b - a
    BY <1>1, <1>2 DEF getSeqDistance
  <1>5. getSeqDistance(a, b) < 2 * h - w /\ getSeqDistance(b, a) < 2 * h - w
    BY <1>1, <1>2 DEF Near
  <1>6. LeadingLess(a, b) <=> IF (IF a < b THEN b - a ELSE a - b) > w THEN b < a ELSE a < b
    BY <1>1 DEF LeadingLess
  <1>7. QED  BY <1>1, <1>2, <1>3, <1>4, <1>5, <1>6

\* So it has no cycle on them.
LEMMA NearIsOrdered ==
  ASSUME NEW S \in SUBSET SeqNums, \A a, b \in S : Near(a, b)
  PROVE  SortIsDefined(S)
  <1> SUFFICES ASSUME NEW a \in S, NEW b \in S, NEW c \in S, LeadingLess(a, b), LeadingLess(b, c)
               PROVE  LeadingLess(a, c)
    BY DEF SortIsDefined
  <1>1. a \in SeqNums /\ b \in SeqNums /\ c \in SeqNums /\ Near(a, b) /\ Near(b, c) /\ Near(a, c)
    OBVIOUS
  <1>2. getSeqDistance(b, a) > 0 /\ getSeqDistance(c, b) > 0
    BY <1>1, LessIsBefore
  <1>3. PICK h \in Nat, w \in Nat : h = Half /\ w = LeadingWrap /\ h > 0 /\ 3 * w >= 4 * h
    BY PipeAssumption, LeadingAssumption DEF SeqRange
  <1>4. PICK x \in Int, y \in Int, z \in Int :
          x = getSeqDistance(b, a) /\ y = getSeqDistance(c, b) /\ z = getSeqDistance(c, a)
    BY <1>1, SeqDistanceType
  <1>5. x > 0 /\ y > 0 /\ x < 2 * h - w /\ y < 2 * h - w /\ z < 2 * h - w
    BY <1>1, <1>2, <1>3, <1>4 DEF Near, SeqRange
  <1>6. getSeqDistance(a, c) < 2 * h - w
    BY <1>1, <1>3 DEF Near, SeqRange
  <1>7. a \in 0 .. 2 * h - 1 /\ b \in 0 .. 2 * h - 1 /\ c \in 0 .. 2 * h - 1
    BY <1>1, <1>3 DEF SeqNums, SeqRange
  <1>8. /\ x \in {b - a, b - a - 2 * h, b - a + 2 * h}
        /\ y \in {c - b, c - b - 2 * h, c - b + 2 * h}
        /\ z = IF c - a > h - 1 THEN c - a - 2 * h
               ELSE IF c - a < -(h - 1) THEN c - a + 2 * h ELSE c - a
        /\ getSeqDistance(a, c) = IF a - c > h - 1 THEN a - c - 2 * h
                                  ELSE IF a - c < -(h - 1) THEN a - c + 2 * h ELSE a - c
    BY <1>3, <1>4, <1>7 DEF getSeqDistance, SeqRange
  <1>9. z > 0
    BY <1>3, <1>5, <1>6, <1>7, <1>8
  <1>10. QED  BY <1>1, <1>4, <1>9, LessIsBefore

\* What std::sort makes of near numbers is in the order of the stream.
LEMMA SortedInOrder ==
  ASSUME NEW s \in Seq(SeqNums), NEW t \in SortOutcomes(s),
         \A i, j \in DOMAIN t : getSeqDistance(t[i], t[j]) < SeqRange - LeadingWrap
  PROVE  \A i, j \in DOMAIN t : i < j => getSeqDistance(t[j], t[i]) >= 0
  <1>1. PICK p \in Bijection(DOMAIN s, DOMAIN s) : t = [i \in DOMAIN s |-> s[p[i]]]
    BY DEF SortOutcomes
  <1>2. /\ p \in [DOMAIN s -> DOMAIN s]
        /\ \A k \in DOMAIN s : \E i \in DOMAIN s : p[i] = k
    BY DEF Bijection, Surjection
  <1>3. /\ DOMAIN t = DOMAIN s /\ \A i \in DOMAIN s : t[i] = s[p[i]] /\ t[i] \in SeqNums
    BY <1>1, <1>2
  <1>4. Range(s) \in SUBSET SeqNums /\ \A a \in Range(s) : \E i \in DOMAIN t : t[i] = a
    BY <1>1, <1>2, <1>3 DEF Range
  <1>5. \A a, b \in Range(s) : Near(a, b)
    BY <1>4 DEF Near
  <1>6. SortIsDefined(Range(s))
    BY <1>4, <1>5, NearIsOrdered
  <1>7. \A i, j \in DOMAIN s : i < j => ~LeadingLess(t[j], t[i])
    BY <1>6 DEF SortOutcomes
  <1> SUFFICES ASSUME NEW i \in DOMAIN t, NEW j \in DOMAIN t, i < j
               PROVE  getSeqDistance(t[j], t[i]) >= 0
    OBVIOUS
  <1>8. t[i] \in SeqNums /\ t[j] \in SeqNums /\ Near(t[i], t[j]) /\ Near(t[j], t[i]) /\ ~LeadingLess(t[j], t[i])
    BY <1>3, <1>7 DEF Near
  <1>9. PICK x \in Int, y \in Int : x = getSeqDistance(t[j], t[i]) /\ y = getSeqDistance(t[i], t[j])
    BY <1>8, SeqDistanceType
  <1>10. ~(y > 0)
    BY <1>8, <1>9, LessIsBefore
  <1>11. x < 0 => y > 0
    BY <1>8, <1>9, SizeFacts DEF getSeqDistance, Near
  <1>12. QED  BY <1>9, <1>10, <1>11

\* The leading packets, once they are sorted, are fed in the order of the stream,
\* across a wrap as well, if they lie close enough together for the comparison.
THEOREM Leading_in_order == Spec => LeadingFedInOrder
  <1> DEFINE A == LET t == feeding' IN
                  (/\ feeding = <<>>
                   /\ \A i, j \in DOMAIN t : getSeqDistance(t[i], t[j]) < SeqRange - LeadingWrap)
                    => \A i, j \in DOMAIN t : i < j => getSeqDistance(t[j], t[i]) >= 0
  <1>1. IInv /\ [Next]_vars => [A]_vars
    <2> SUFFICES ASSUME IInv, Next, feeding = <<>>,
                        \A i, j \in DOMAIN feeding' :
                          getSeqDistance(feeding'[i], feeding'[j]) < SeqRange - LeadingWrap
                 PROVE  \A i, j \in DOMAIN feeding' :
                          i < j => getSeqDistance(feeding'[j], feeding'[i]) >= 0
      OBVIOUS
    <2>1. leading \in Seq(SeqNums)
      BY DEF IInv, StreamTypeOK
    <2>2. CASE feeding' = <<>>
      BY <2>2
    <2>3. CASE \E src \in Sources, seq \in SeqNums : Lead(src, seq)
      <3>1. PICK src \in Sources, seq \in SeqNums : Lead(src, seq)
        BY <2>3
      <3>2. Append(leading, seq) \in Seq(SeqNums)
        BY <2>1
      <3>3. feeding' = <<>> \/ feeding' \in SortOutcomes(Append(leading, seq))
        BY <3>1 DEF Lead
      <3>4. QED  BY <2>2, <3>2, <3>3, SortedInOrder
    <2>4. CASE \/ PackageLengthError \/ resetPipe
               \/ \E src \in Sources : ForeignSource(src)
               \/ \E src \in Sources, seq \in SeqNums : Reorder(src, seq)
      <3>1. feeding' = feeding
        BY <2>4 DEF PackageLengthError, resetPipe, ForeignSource, Reorder
      <3>2. QED  BY <2>2, <3>1
    <2>5. CASE FeedLeading
      BY <2>5 DEF FeedLeading
    <2>6. QED  BY <2>3, <2>4, <2>5 DEF Next
  <1> HIDE DEF A
  <1>2. Spec => [][A]_vars
    BY <1>1, Inductive, PTL DEF Spec
  <1>3. QED  BY <1>2 DEF LeadingFedInOrder, A

=============================================================================

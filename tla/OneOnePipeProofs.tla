-------------------------- MODULE OneOnePipeProofs --------------------------
(***************************************************************************)
(* For every capacity: the ring of OneOnePipe is a queue without a lock.   *)
(* The invariant says where each side's copies of the positions lie        *)
(* between headPos and tailPos, and what the slots in between hold.        *)
(***************************************************************************)
EXTENDS MCOneOnePipe, SequenceTheorems, TLAPS

\* Slots and capacity, as the provers need them.
LEMMA Sizes ==
  Capacity \in Nat /\ Capacity > 1 /\ Slots = 0 .. Capacity - 1
  BY CapacityAssumption DEF Slots

\* One step round the ring.
LEMMA NextIs ==
  ASSUME NEW pos \in Slots
  PROVE  /\ nextPos(pos) = IF pos + 1 = Capacity THEN 0 ELSE pos + 1
         /\ nextPos(pos) \in Slots
  <1>1. Capacity \in Nat /\ Capacity > 1 /\ pos \in 0 .. Capacity - 1
    BY Sizes
  <1>2. (pos + 1) % Capacity = IF pos + 1 = Capacity THEN 0 ELSE pos + 1
    BY <1>1, SMT
  <1>3. QED  BY <1>1, <1>2, Sizes DEF nextPos

\* Distances along the ring, and what a step of either end does to them.
LEMMA Distances ==
  ASSUME NEW p \in Slots, NEW q \in Slots
  PROVE  /\ Distance(p, q) \in 0 .. Capacity - 1
         /\ Distance(p, q) = 0 <=> p = q
         /\ nextPos(p) # q => Distance(nextPos(p), q) = Distance(p, q) + 1
         /\ nextPos(p) = q <=> Distance(p, q) = Capacity - 1
         /\ p # q => Distance(p, nextPos(q)) = Distance(p, q) - 1
  <1>1. /\ nextPos(p) = IF p + 1 = Capacity THEN 0 ELSE p + 1
        /\ nextPos(q) = IF q + 1 = Capacity THEN 0 ELSE q + 1
    BY NextIs
  <1>2. QED  BY <1>1, Sizes DEF Distance

\* A position on the way from q to p divides the distance.
LEMMA Between ==
  ASSUME NEW p \in Slots, NEW q \in Slots, NEW r \in Slots, Distance(r, q) <= Distance(p, q)
  PROVE  Distance(p, r) = Distance(p, q) - Distance(r, q)
  BY Sizes DEF Distance

Types ==
  /\ headPos \in Slots /\ tailPos \in Slots /\ pHead \in Slots
  /\ pTail \in Slots /\ cHead \in Slots /\ cTail \in Slots
  /\ internalArray \in [Slots -> Nat]
  /\ enqueue \in {"idle", "loadTail", "write", "store"}
  /\ dequeue \in {"idle", "readTail", "take", "store"}
  /\ accepted \in Nat /\ taken \in Nat /\ last \in Nat

\* The producer's copies: its tail is the tail, its head at worst an old one.
ProducerInv ==
  /\ enqueue = "loadTail" => Distance(tailPos, headPos) <= Distance(tailPos, pHead)
  /\ enqueue \in {"write", "store"} =>
       pTail = tailPos /\ Distance(tailPos, headPos) < Capacity - 1
  /\ enqueue = "store" => internalArray[tailPos] = accepted + 1

\* The consumer's copies lie in the ring: headPos, cHead, cTail, tailPos.
ConsumerInv ==
  /\ Distance(cHead, headPos) <= Distance(tailPos, headPos)
  /\ dequeue \in {"idle", "readTail"} => cHead = headPos
  /\ dequeue = "take" => cHead # cTail /\ Distance(cTail, cHead) <= Distance(tailPos, cHead)

\* The slots from cHead to tailPos hold the elements accepted and not yet taken.
ContentsInv ==
  /\ accepted - taken = Distance(tailPos, cHead)
  /\ \A pos \in Slots :
       Distance(pos, cHead) < Distance(tailPos, cHead) =>
         internalArray[pos] = taken + 1 + Distance(pos, cHead)
  /\ last = taken

Inv == Types /\ all \in BOOLEAN /\ ProducerInv /\ ConsumerInv /\ ContentsInv

\* The constructor leaves an empty ring.
LEMMA InitInv == Init => Inv
  <1> SUFFICES ASSUME Init PROVE Inv
    OBVIOUS
  <1>1. Types
    BY Sizes DEF Init, Types, Moved
  <1>2. all \in BOOLEAN
    BY DEF Init
  <1>3. /\ Distance(tailPos, cHead) = 0
        /\ \A pos \in Slots : ~(Distance(pos, cHead) < 0)
    BY Sizes DEF Init, Distance
  <1>4. ProducerInv /\ ConsumerInv /\ ContentsInv
    BY <1>3, Sizes DEF Init, ProducerInv, ConsumerInv, ContentsInv, Distance
  <1>5. QED  BY <1>1, <1>2, <1>4 DEF Inv

\* enqueue keeps the invariant.
LEMMA EnqueueInv ==
  ASSUME Inv, Enqueue
  PROVE  Inv'
  <1>1. Types /\ all \in BOOLEAN /\ ProducerInv /\ ConsumerInv /\ ContentsInv
    BY DEF Inv
  <1>2. CASE LoadHead
    BY <1>1, <1>2, Distances DEF LoadHead, Inv, Types, ProducerInv, ConsumerInv, ContentsInv, consumer, Distance
  <1>3. CASE LoadTail
    <2>1. /\ enqueue = "loadTail" /\ pTail' = tailPos
          /\ enqueue' = IF nextPos(tailPos) = pHead THEN "idle" ELSE "write"
          /\ UNCHANGED <<headPos, tailPos, internalArray, pHead, dequeue, all, cHead, cTail, accepted, taken, last>>
      BY <1>3 DEF LoadTail, consumer
    <2>2. Types'
      BY <1>1, <2>1 DEF Types
    <2>3. ProducerInv'
      <3>1. nextPos(tailPos) # pHead => Distance(tailPos, headPos) < Capacity - 1
        <4>1. Distance(tailPos, pHead) \in 0 .. Capacity - 1 /\ Distance(tailPos, headPos) \in 0 .. Capacity - 1
          BY <1>1, Distances DEF Types
        <4>2. nextPos(tailPos) # pHead => Distance(tailPos, pHead) # Capacity - 1
          BY <1>1, Distances DEF Types
        <4>3. Distance(tailPos, headPos) <= Distance(tailPos, pHead)
          BY <1>1, <2>1 DEF ProducerInv
        <4>4. QED  BY <4>1, <4>2, <4>3, Sizes
      <3>2. QED  BY <1>1, <2>1, <3>1 DEF ProducerInv, Distance
    <2>4. ConsumerInv' /\ ContentsInv'
      BY <1>1, <2>1 DEF ConsumerInv, ContentsInv, Distance
    <2>5. QED  BY <1>1, <2>1, <2>2, <2>3, <2>4 DEF Inv
  <1>4. CASE Write
    <2>1. /\ enqueue = "write" /\ enqueue' = "store"
          /\ internalArray' = [internalArray EXCEPT ![tailPos] = accepted + 1]
          /\ UNCHANGED <<headPos, tailPos, pHead, pTail, dequeue, all, cHead, cTail, accepted, taken, last>>
      BY <1>1, <1>4 DEF Write, consumer, ProducerInv
    <2>2. Types'
      BY <1>1, <2>1 DEF Types
    <2>3. ProducerInv'
      BY <1>1, <2>1 DEF ProducerInv, Types, Distance
    <2>4. ConsumerInv'
      BY <1>1, <2>1 DEF ConsumerInv, Distance
    <2>5. ContentsInv'
      <3>1. ASSUME NEW pos \in Slots, Distance(pos, cHead) < Distance(tailPos, cHead)
            PROVE  internalArray'[pos] = taken + 1 + Distance(pos, cHead)
        <4>1. pos # tailPos
          <5>1. Distance(tailPos, cHead) \in 0 .. Capacity - 1
            BY <1>1, Distances DEF Types
          <5>2. QED  BY <3>1, <5>1
        <4>2. QED  BY <1>1, <2>1, <3>1, <4>1 DEF ContentsInv, Types
      <3>2. QED  BY <1>1, <2>1, <3>1 DEF ContentsInv, Distance
    <2>6. QED  BY <1>1, <2>1, <2>2, <2>3, <2>4, <2>5 DEF Inv
  <1>5. CASE StoreTail
    <2>1. /\ enqueue = "store" /\ enqueue' = "idle"
          /\ tailPos' = nextPos(tailPos) /\ accepted' = accepted + 1
          /\ UNCHANGED <<headPos, internalArray, pHead, pTail, dequeue, all, cHead, cTail, taken, last>>
      BY <1>1, <1>5 DEF StoreTail, consumer, ProducerInv
    <2>2. tailPos' \in Slots
      BY <1>1, <2>1, NextIs DEF Types
    <2>3. Types'
      BY <1>1, <2>1, <2>2 DEF Types
    <2>4. /\ headPos \in Slots /\ cHead \in Slots /\ tailPos \in Slots /\ cTail \in Slots
          /\ Distance(tailPos, headPos) < Capacity - 1 /\ internalArray[tailPos] = accepted + 1
          /\ Distance(cHead, headPos) <= Distance(tailPos, headPos)
      BY <1>1, <2>1 DEF Types, ProducerInv, ConsumerInv
    <2>5. Distance(tailPos, cHead) = Distance(tailPos, headPos) - Distance(cHead, headPos)
      BY <2>4, Between
    <2>6. /\ Distance(tailPos, headPos) \in 0 .. Capacity - 1
          /\ Distance(cHead, headPos) \in 0 .. Capacity - 1
          /\ Distance(tailPos, cHead) \in 0 .. Capacity - 1
          /\ Distance(cTail, cHead) \in 0 .. Capacity - 1
      BY <2>4, Distances
    <2>7. /\ Distance(tailPos', headPos) = Distance(tailPos, headPos) + 1
          /\ Distance(tailPos', cHead) = Distance(tailPos, cHead) + 1
      <3>1. Distance(tailPos, headPos) # Capacity - 1 /\ Distance(tailPos, cHead) # Capacity - 1
        BY <2>4, <2>5, <2>6, Sizes
      <3>2. nextPos(tailPos) # headPos /\ nextPos(tailPos) # cHead
        BY <2>4, <3>1, Distances
      <3>3. QED  BY <2>1, <2>4, <3>2, Distances
    <2>8. ProducerInv'
      BY <2>1 DEF ProducerInv
    <2>9. ConsumerInv'
      <3>1. /\ Distance(cHead, headPos)' = Distance(cHead, headPos)
            /\ Distance(tailPos, headPos)' = Distance(tailPos, headPos) + 1
            /\ Distance(cTail, cHead)' = Distance(cTail, cHead)
            /\ Distance(tailPos, cHead)' = Distance(tailPos, cHead) + 1
        BY <2>1, <2>7 DEF Distance
      <3>2. QED  BY <1>1, <2>1, <2>6, <3>1 DEF ConsumerInv
    <2>10. ContentsInv'
      <3>1. ASSUME NEW pos \in Slots, Distance(pos, cHead) < Distance(tailPos, cHead) + 1
            PROVE  internalArray[pos] = taken + 1 + Distance(pos, cHead)
        <4>1. Distance(pos, cHead) \in 0 .. Capacity - 1
          BY <2>4, Distances
        <4>2. CASE Distance(pos, cHead) = Distance(tailPos, cHead)
          <5>1. pos = tailPos
            BY <2>4, <4>2, Sizes DEF Distance
          <5>2. accepted = taken + Distance(tailPos, cHead)
            BY <1>1, <2>6 DEF ContentsInv, Types
          <5>3. QED  BY <1>1, <2>4, <4>2, <5>1, <5>2, <2>6 DEF Types
        <4>3. CASE Distance(pos, cHead) # Distance(tailPos, cHead)
          BY <1>1, <2>6, <3>1, <4>1, <4>3 DEF ContentsInv
        <4>4. QED  BY <4>2, <4>3
      <3>2. accepted' - taken' = Distance(tailPos', cHead)
        BY <1>1, <2>1, <2>6, <2>7 DEF ContentsInv, Types
      <3>3. QED  BY <1>1, <2>1, <2>7, <3>1, <3>2 DEF ContentsInv, Distance
    <2>11. QED  BY <1>1, <2>1, <2>3, <2>8, <2>9, <2>10 DEF Inv
  <1>6. QED  BY <1>2, <1>3, <1>4, <1>5 DEF Enqueue

\* dequeue and dequeueAll keep the invariant.
LEMMA DequeueInv ==
  ASSUME Inv, Dequeue
  PROVE  Inv'
  <1>1. Types /\ all \in BOOLEAN /\ ProducerInv /\ ConsumerInv /\ ContentsInv
    BY DEF Inv
  <1>2. CASE ReadHead
    <2>1. /\ cHead' = cHead /\ dequeue' = "readTail" /\ all' \in BOOLEAN
          /\ cHead = headPos
          /\ UNCHANGED <<headPos, tailPos, internalArray, enqueue, pHead, pTail, cTail, accepted, taken, last>>
      BY <1>1, <1>2 DEF ReadHead, producer, ConsumerInv
    <2>2. Types'
      BY <1>1, <2>1 DEF Types
    <2>3. ProducerInv' /\ ConsumerInv' /\ ContentsInv'
      BY <1>1, <2>1 DEF ProducerInv, ConsumerInv, ContentsInv, Distance
    <2>4. QED  BY <2>1, <2>2, <2>3 DEF Inv
  <1>3. CASE ReadTail
    <2>1. /\ cTail' = tailPos /\ dequeue' \in {"take", "store", "idle"}
          /\ dequeue' = "take" => cHead # tailPos
          /\ dequeue = "readTail"
          /\ UNCHANGED <<headPos, tailPos, internalArray, enqueue, pHead, pTail, all, cHead, accepted, taken, last>>
      BY <1>3 DEF ReadTail, producer
    <2>2. Types'
      BY <1>1, <2>1 DEF Types
    <2>3. ProducerInv' /\ ContentsInv'
      BY <1>1, <2>1 DEF ProducerInv, ContentsInv, Distance
    <2>4. ConsumerInv'
      <3>1. cHead = headPos /\ Distance(cHead, headPos) <= Distance(tailPos, headPos)
        BY <1>1, <2>1 DEF ConsumerInv
      <3>2. Distance(tailPos, cHead) \in Nat
        BY <1>1, Distances DEF Types
      <3>3. Distance(cTail, cHead)' = Distance(tailPos, cHead) /\ Distance(tailPos, cHead)' = Distance(tailPos, cHead)
        BY <2>1 DEF Distance
      <3>4. Distance(cHead, headPos)' <= Distance(tailPos, headPos)'
        BY <2>1, <3>1 DEF Distance
      <3>5. QED  BY <2>1, <3>1, <3>2, <3>3, <3>4 DEF ConsumerInv
    <2>5. all' \in BOOLEAN
      BY <1>1, <2>1
    <2>6. QED  BY <2>2, <2>3, <2>4, <2>5 DEF Inv
  <1>4. CASE Take
    <2>1. /\ dequeue = "take" /\ last' = internalArray[cHead]
          /\ internalArray' = [internalArray EXCEPT ![cHead] = 0]
          /\ taken' = taken + 1 /\ cHead' = nextPos(cHead)
          /\ dequeue' \in {"take", "store"}
          /\ dequeue' = "take" => nextPos(cHead) # cTail
          /\ UNCHANGED <<headPos, tailPos, enqueue, pHead, pTail, all, cTail, accepted>>
      BY <1>4 DEF Take, producer, Moved
    <2>2. /\ headPos \in Slots /\ cHead \in Slots /\ tailPos \in Slots /\ cTail \in Slots
          /\ nextPos(cHead) \in Slots /\ taken \in Nat /\ accepted \in Nat
          /\ internalArray \in [Slots -> Nat]
      BY <1>1, NextIs DEF Types
    <2>3. /\ cHead # cTail /\ Distance(cTail, cHead) <= Distance(tailPos, cHead)
          /\ Distance(cHead, headPos) <= Distance(tailPos, headPos)
      BY <1>1, <2>1 DEF ConsumerInv
    <2>4. /\ Distance(tailPos, cHead) \in 1 .. Capacity - 1
          /\ Distance(cTail, cHead) \in 1 .. Capacity - 1
          /\ Distance(cHead, headPos) \in 0 .. Capacity - 1
          /\ Distance(tailPos, headPos) \in 0 .. Capacity - 1
      <3>1. /\ Distance(tailPos, cHead) \in 0 .. Capacity - 1
            /\ Distance(cTail, cHead) \in 0 .. Capacity - 1 /\ Distance(cTail, cHead) # 0
            /\ Distance(cHead, headPos) \in 0 .. Capacity - 1
            /\ Distance(tailPos, headPos) \in 0 .. Capacity - 1
        BY <2>2, <2>3, Distances
      <3>2. QED  BY <2>3, <3>1, Sizes
    <2>5. tailPos # cHead
      BY <2>2, <2>4, Distances
    <2>6. /\ Distance(tailPos, nextPos(cHead)) = Distance(tailPos, cHead) - 1
          /\ Distance(cTail, nextPos(cHead)) = Distance(cTail, cHead) - 1
          /\ \A pos \in Slots : pos # cHead => Distance(pos, nextPos(cHead)) = Distance(pos, cHead) - 1
      BY <2>2, <2>3, <2>5, Distances
    <2>7. last' = taken + 1
      <3>1. Distance(cHead, cHead) = 0
        BY <2>2, Distances
      <3>2. QED  BY <1>1, <2>1, <2>2, <2>4, <3>1 DEF ContentsInv
    <2>8. Types'
      <3>1. internalArray' \in [Slots -> Nat] /\ last' \in Nat /\ taken' \in Nat /\ accepted' \in Nat
        BY <2>1, <2>2, <2>7
      <3>2. headPos' \in Slots /\ tailPos' \in Slots /\ cHead' \in Slots /\ cTail' \in Slots
        BY <2>1, <2>2
      <3>3. /\ pHead' \in Slots /\ pTail' \in Slots
            /\ enqueue' \in {"idle", "loadTail", "write", "store"}
        BY <1>1, <2>1 DEF Types
      <3>4. dequeue' \in {"idle", "readTail", "take", "store"}
        BY <2>1
      <3>5. QED  BY <3>1, <3>2, <3>3, <3>4 DEF Types
    <2>9. ProducerInv'
      <3>1. enqueue \in {"write", "store"} => internalArray'[tailPos] = internalArray[tailPos]
        BY <2>1, <2>2, <2>5
      <3>2. QED  BY <1>1, <2>1, <3>1 DEF ProducerInv, Distance
    <2>10. ConsumerInv'
      <3>1. Distance(tailPos, cHead) = Distance(tailPos, headPos) - Distance(cHead, headPos)
        BY <2>2, <2>3, Between
      <3>2. Distance(cHead, headPos) < Capacity - 1
        BY <2>4, <3>1, Sizes
      <3>3. nextPos(cHead) # headPos
        <4>1. Distance(cHead, headPos) # Capacity - 1
          BY <2>4, <3>2, Sizes
        <4>2. QED  BY <2>2, <4>1, Distances
      <3>4. Distance(nextPos(cHead), headPos) = Distance(cHead, headPos) + 1
        BY <2>2, <3>3, Distances
      <3>5. Distance(cHead, headPos)' <= Distance(tailPos, headPos)'
        <4>1. Distance(cHead, headPos) + 1 <= Distance(tailPos, headPos)
          BY <2>4, <3>1, Sizes
        <4>2. QED  BY <2>1, <3>4, <4>1 DEF Distance
      <3>6. dequeue' = "take" => /\ cHead' # cTail'
                                 /\ Distance(cTail, cHead)' <= Distance(tailPos, cHead)'
        <4>1. Distance(cTail, cHead) - 1 <= Distance(tailPos, cHead) - 1
          BY <2>3, <2>4, Sizes
        <4>2. /\ Distance(cTail, cHead)' = Distance(cTail, nextPos(cHead))
              /\ Distance(tailPos, cHead)' = Distance(tailPos, nextPos(cHead))
          BY <2>1 DEF Distance
        <4>3. dequeue' = "take" => cHead' # cTail'
          BY <2>1
        <4>4. Distance(cTail, cHead)' <= Distance(tailPos, cHead)'
          BY <2>6, <4>1, <4>2
        <4>5. QED  BY <4>3, <4>4
      <3>7. ~(dequeue' \in {"idle", "readTail"})
        BY <2>1
      <3>8. QED  BY <3>5, <3>6, <3>7 DEF ConsumerInv
    <2>11. ContentsInv'
      <3>1. accepted' - taken' = Distance(tailPos', cHead')
        BY <1>1, <2>1, <2>2, <2>4, <2>6 DEF ContentsInv
      <3>2. ASSUME NEW pos \in Slots, Distance(pos, nextPos(cHead)) < Distance(tailPos, nextPos(cHead))
            PROVE  internalArray'[pos] = taken + 1 + 1 + Distance(pos, nextPos(cHead))
        <4>1. Distance(pos, cHead) \in 0 .. Capacity - 1 /\ Distance(cHead, nextPos(cHead)) = Capacity - 1
          <5>1. nextPos(cHead) = IF cHead + 1 = Capacity THEN 0 ELSE cHead + 1
            BY <2>2, NextIs
          <5>2. Distance(cHead, nextPos(cHead)) = Capacity - 1
            BY <2>2, <5>1, Sizes DEF Distance
          <5>3. QED  BY <2>2, <5>2, Distances
        <4>2. pos # cHead
          BY <2>4, <2>6, <3>2, <4>1, Sizes
        <4>3. Distance(pos, cHead) < Distance(tailPos, cHead)
          BY <2>4, <2>6, <3>2, <4>1, <4>2
        <4>4. internalArray[pos] = taken + 1 + Distance(pos, cHead)
          BY <1>1, <4>3 DEF ContentsInv
        <4>5. internalArray'[pos] = internalArray[pos]
          BY <2>1, <2>2, <4>2
        <4>6. QED  BY <2>2, <2>6, <4>1, <4>2, <4>4, <4>5
      <3>3. QED  BY <2>1, <2>7, <3>1, <3>2 DEF ContentsInv, Distance
    <2>12. all' \in BOOLEAN
      BY <1>1, <2>1
    <2>13. QED  BY <2>8, <2>9, <2>10, <2>11, <2>12 DEF Inv
  <1>5. CASE StoreHead
    <2>1. /\ dequeue = "store" /\ headPos' = cHead /\ dequeue' = "idle"
          /\ UNCHANGED <<tailPos, internalArray, enqueue, pHead, pTail, all, cHead, cTail, accepted, taken, last>>
      BY <1>5 DEF StoreHead, producer
    <2>2. headPos \in Slots /\ cHead \in Slots /\ tailPos \in Slots /\ pHead \in Slots
      BY <1>1 DEF Types
    <2>3. Types'
      BY <1>1, <2>1, <2>2 DEF Types
    <2>4. Distance(tailPos, cHead) <= Distance(tailPos, headPos)
      <3>1. Distance(tailPos, cHead) = Distance(tailPos, headPos) - Distance(cHead, headPos)
        BY <1>1, <2>2, Between DEF ConsumerInv
      <3>2. Distance(cHead, headPos) \in Nat /\ Distance(tailPos, headPos) \in Nat
        BY <2>2, Distances
      <3>3. QED  BY <3>1, <3>2
    <2>5. ProducerInv'
      <3>1. /\ Distance(tailPos, headPos)' = Distance(tailPos, cHead)
            /\ Distance(tailPos, pHead)' = Distance(tailPos, pHead)
        BY <2>1 DEF Distance
      <3>2. /\ Distance(tailPos, cHead) \in Nat /\ Distance(tailPos, headPos) \in Nat
            /\ Distance(tailPos, pHead) \in Nat
        BY <2>2, Distances
      <3>3. QED  BY <1>1, <2>1, <2>4, <3>1, <3>2, Sizes DEF ProducerInv
    <2>6. ConsumerInv'
      <3>1. Distance(cHead, cHead) = 0 /\ Distance(tailPos, cHead) \in Nat
        BY <2>2, Distances
      <3>2. Distance(cHead, headPos)' = Distance(cHead, cHead) /\ Distance(tailPos, headPos)' = Distance(tailPos, cHead)
        BY <2>1 DEF Distance
      <3>3. QED  BY <2>1, <3>1, <3>2 DEF ConsumerInv
    <2>7. ContentsInv'
      BY <1>1, <2>1 DEF ContentsInv, Distance
    <2>8. all' \in BOOLEAN
      BY <1>1, <2>1
    <2>9. QED  BY <2>3, <2>5, <2>6, <2>7, <2>8 DEF Inv
  <1>6. QED  BY <1>2, <1>3, <1>4, <1>5 DEF Dequeue

\* The invariant holds of every behaviour.
LEMMA Inductive == Spec => []Inv
  <1>1. Inv /\ [Next]_vars => Inv'
    <2> SUFFICES ASSUME Inv, [Next]_vars PROVE Inv'
      OBVIOUS
    <2>1. CASE Enqueue \/ Dequeue
      BY <2>1, EnqueueInv, DequeueInv
    <2>2. CASE UNCHANGED vars
      BY <2>2 DEF vars, producer, consumer, Inv, Types, ProducerInv, ConsumerInv, ContentsInv, Distance
    <2>3. QED  BY <2>1, <2>2 DEF Next
  <1>2. QED  BY InitInv, <1>1, PTL DEF Spec

-----------------------------------------------------------------------------
(* The theorems. *)

\* Positions and local copies stay inside the ring.
THEOREM Typed == Spec => []TypeOK
  <1>1. Inv => TypeOK
    BY DEF Inv, Types, TypeOK
  <1>2. QED  BY <1>1, Inductive, PTL

\* Every element is handed out in its turn, exactly once.
THEOREM First_in_first_out == Spec => []Fifo
  <1>1. Inv => Fifo
    BY DEF Inv, ContentsInv, Fifo
  <1>2. QED  BY <1>1, Inductive, PTL

\* The two sides never touch the same slot at once.
THEOREM SlotsAreApart == Spec => []NoSlotConflict
  <1>1. Inv => NoSlotConflict
    <2> SUFFICES ASSUME Inv, enqueue = "write", dequeue = "take", pTail = cHead
                 PROVE  FALSE
      BY DEF NoSlotConflict
    <2>1. /\ cHead = tailPos /\ cHead # cTail /\ cHead \in Slots /\ cTail \in Slots
          /\ Distance(cTail, cHead) <= Distance(tailPos, cHead)
      BY DEF Inv, Types, ProducerInv, ConsumerInv
    <2>2. /\ Distance(tailPos, cHead) = 0 /\ Distance(cTail, cHead) # 0
          /\ Distance(cTail, cHead) \in Nat
      BY <2>1, Distances
    <2>3. QED  BY <2>1, <2>2
  <1>2. QED  BY <1>1, Inductive, PTL

\* The ring never holds more than Capacity - 1 elements.
THEOREM Bounded == Spec => []NeverOverfull
  <1>1. Inv => NeverOverfull
    <2> SUFFICES ASSUME Inv PROVE NeverOverfull
      OBVIOUS
    <2>1. /\ headPos \in Slots /\ cHead \in Slots /\ tailPos \in Slots
          /\ Distance(cHead, headPos) <= Distance(tailPos, headPos)
          /\ accepted - taken = Distance(tailPos, cHead)
      BY DEF Inv, Types, ConsumerInv, ContentsInv
    <2>2. Distance(tailPos, cHead) = Distance(tailPos, headPos) - Distance(cHead, headPos)
      BY <2>1, Between
    <2>3. /\ Distance(tailPos, headPos) \in 0 .. Capacity - 1
          /\ Distance(cHead, headPos) \in 0 .. Capacity - 1
      BY <2>1, Distances
    <2>4. QED  BY <2>1, <2>2, <2>3, Sizes DEF NeverOverfull
  <1>2. QED  BY <1>1, Inductive, PTL

-----------------------------------------------------------------------------
(* The ring is the bounded queue of BoundedFifo.                           *)

\* The place in the ring a distance behind pos.
At(pos, i) == (pos + i) % Capacity

\* At is the inverse of Distance.
LEMMA AtIs ==
  ASSUME NEW pos \in Slots, NEW i \in 0 .. Capacity - 1
  PROVE  At(pos, i) \in Slots /\ Distance(At(pos, i), pos) = i
  <1>1. Capacity \in Nat /\ Capacity > 1 /\ pos \in 0 .. Capacity - 1
    BY Sizes
  <1>2. (pos + i) % Capacity = IF pos + i >= Capacity THEN pos + i - Capacity ELSE pos + i
    BY <1>1, SMT
  <1>3. QED  BY <1>1, <1>2, Sizes DEF At, Distance

\* What is in the ring are the numbers of the elements accepted and not taken.
LEMMA ContentsIs ==
  ASSUME Inv
  PROVE  /\ Contents = [i \in 1 .. accepted - taken |-> taken + i]
         /\ accepted - taken \in 0 .. Capacity - 1
  <1>1. /\ cHead \in Slots /\ tailPos \in Slots /\ taken \in Nat /\ accepted \in Nat
        /\ accepted - taken = Distance(tailPos, cHead)
        /\ \A pos \in Slots :
             Distance(pos, cHead) < Distance(tailPos, cHead) =>
               internalArray[pos] = taken + 1 + Distance(pos, cHead)
    BY DEF Inv, Types, ContentsInv
  <1>2. Distance(tailPos, cHead) \in 0 .. Capacity - 1
    BY <1>1, Distances
  <1>3. ASSUME NEW i \in 1 .. Distance(tailPos, cHead)
        PROVE  internalArray[(cHead + i - 1) % Capacity] = taken + i
    <2>1. i - 1 \in 0 .. Capacity - 1 /\ i - 1 < Distance(tailPos, cHead)
      BY <1>2, Sizes
    <2>2. At(cHead, i - 1) = (cHead + i - 1) % Capacity
      <3>1. cHead + (i - 1) = cHead + i - 1
        BY <1>1, Sizes
      <3>2. QED  BY <3>1 DEF At
    <2>3. At(cHead, i - 1) \in Slots /\ Distance(At(cHead, i - 1), cHead) = i - 1
      BY <1>1, <2>1, AtIs
    <2>4. internalArray[At(cHead, i - 1)] = taken + 1 + (i - 1)
      BY <1>1, <2>1, <2>3
    <2>5. QED  BY <1>1, <2>2, <2>4
  <1>4. QED  BY <1>1, <1>2, <1>3 DEF Contents

\* The numbers behind a.
Run(a, n) == [i \in 1 .. n |-> a + i]

\* A run of numbers grows at the back and shrinks at the front.
LEMMA Runs ==
  ASSUME NEW a \in Nat, NEW n \in Nat
  PROVE  /\ Run(a, n) \in Seq(Nat) /\ Len(Run(a, n)) = n
         /\ Append(Run(a, n), a + n + 1) = Run(a, n + 1)
         /\ n > 0 => /\ Run(a, n) # <<>>
                      /\ Head(Run(a, n)) = a + 1
                      /\ Tail(Run(a, n)) = Run(a + 1, n - 1)
  <1>1. Run(a, n) \in Seq(Nat) /\ Len(Run(a, n)) = n
    BY DEF Run
  <1>2. Append(Run(a, n), a + n + 1) = Run(a, n + 1)
    BY DEF Run
  <1>3. ASSUME n > 0
        PROVE  Run(a, n) # <<>> /\ Head(Run(a, n)) = a + 1 /\ Tail(Run(a, n)) = Run(a + 1, n - 1)
    BY <1>1, <1>3 DEF Run
  <1>4. QED  BY <1>1, <1>2, <1>3

\* The contents of the ring in these terms, now and after a step.
LEMMA ContentsRun ==
  Inv => Contents = Run(taken, accepted - taken) /\ accepted - taken \in 0 .. Capacity - 1
  BY ContentsIs DEF Run

\* Every step of the code is a put, a get, or leaves the queue alone: the last
\* store of enqueue puts, each move out of a slot gets.
LEMMA StepOfQueue ==
  ASSUME Inv, Inv', [Next]_vars
  PROVE  [Queue!Next]_(Queue!vars)
  <1>1. /\ Contents = Run(taken, accepted - taken) /\ accepted - taken \in 0 .. Capacity - 1
        /\ Contents' = Run(taken', accepted' - taken') /\ accepted' - taken' \in 0 .. Capacity - 1
    <2>1. (Contents = Run(taken, accepted - taken) /\ accepted - taken \in 0 .. Capacity - 1)'
      BY ContentsRun, PTL
    <2>2. QED  BY ContentsRun, <2>1 DEF Run
  <1>2. taken \in Nat /\ accepted \in Nat /\ last = taken /\ last' = taken' /\ taken' \in Nat
    BY DEF Inv, Types, ContentsInv
  <1>3. CASE StoreTail
    <2>1. accepted' = accepted + 1 /\ taken' = taken /\ last' = last
      BY <1>3 DEF StoreTail
    <2>2. Len(Contents) = accepted - taken /\ Contents' = Append(Contents, accepted + 1)
      <3>1. taken + (accepted - taken) + 1 = accepted + 1 /\ accepted' - taken' = (accepted - taken) + 1
        BY <1>2, <2>1
      <3>2. DEFINE n == accepted - taken
      <3>3. n \in Nat /\ Contents = Run(taken, n) /\ Contents' = Run(taken, n + 1) /\ taken + n + 1 = accepted + 1
        BY <1>1, <1>2, <2>1, <3>1
      <3>4. Len(Run(taken, n)) = n /\ Append(Run(taken, n), taken + n + 1) = Run(taken, n + 1)
        BY <1>2, <3>3, Runs
      <3>5. QED  BY <3>3, <3>4
    <2>3. Len(Contents) < Capacity - 1
      BY <1>1, <1>2, <2>1, <2>2, Sizes
    <2>4. Queue!Put
      BY <2>1, <2>2, <2>3 DEF Queue!Put
    <2>5. QED  BY <2>4 DEF Queue!Next
  <1>4. CASE Take
    <2>1. accepted' = accepted /\ taken' = taken + 1
      BY <1>4 DEF Take
    <2>2. accepted - taken > 0 /\ accepted' - taken' = (accepted - taken) - 1
      BY <1>1, <1>2, <2>1
    <2>3. Contents # <<>> /\ Head(Contents) = taken + 1 /\ Contents' = Tail(Contents)
      <3>1. DEFINE n == accepted - taken
      <3>2. n \in Nat /\ n > 0 /\ Contents = Run(taken, n) /\ Contents' = Run(taken + 1, n - 1)
        BY <1>1, <1>2, <2>1, <2>2
      <3>3. /\ Run(taken, n) # <<>> /\ Head(Run(taken, n)) = taken + 1
            /\ Tail(Run(taken, n)) = Run(taken + 1, n - 1)
        BY <1>2, <3>2, Runs
      <3>4. QED  BY <3>2, <3>3
    <2>4. Queue!Get
      BY <1>2, <2>1, <2>3 DEF Queue!Get
    <2>5. QED  BY <2>4 DEF Queue!Next
  <1>5. CASE LoadHead \/ LoadTail \/ Write \/ ReadHead \/ ReadTail \/ StoreHead \/ UNCHANGED vars
    <2>1. accepted' = accepted /\ taken' = taken /\ last' = last
      BY <1>5 DEF LoadHead, LoadTail, Write, ReadHead, ReadTail, StoreHead, vars, producer
    <2>2. UNCHANGED Queue!vars
      BY <1>1, <2>1 DEF Queue!vars
    <2>3. QED  BY <2>2
  <1>6. QED  BY <1>3, <1>4, <1>5 DEF Next, Enqueue, Dequeue

\* The lock-free ring is a queue: whatever the interleaving of the loads and
\* stores of enqueue, dequeue and dequeueAll, its contents change only by one
\* put at the back of a queue that is not full, or one get at its front.
THEOREM Is_bounded_fifo == Spec => ImplementsBoundedFifo
  <1>1. Init => Queue!Init
    <2> SUFFICES ASSUME Init PROVE Queue!Init
      OBVIOUS
    <2>1. Contents = Run(taken, accepted - taken)
      BY InitInv, ContentsIs DEF Run
    <2>2. Contents = <<>>
      BY <2>1 DEF Init, Run
    <2>3. QED  BY <2>2 DEF Init, Queue!Init
  <1>2. Inv /\ Inv' /\ [Next]_vars => [Queue!Next]_(Queue!vars)
    BY StepOfQueue
  <1>3. QED  BY <1>1, <1>2, Inductive, PTL DEF Spec, ImplementsBoundedFifo, Queue!Spec

=============================================================================

----------------------------- MODULE OneOnePipe -----------------------------
(***************************************************************************)
(* The lock-free ring between the socket thread and the receive worker:    *)
(* OneOnePipe in include/rtpTrs/rtpTrs.hpp.                                *)
(*                                                                         *)
(* One producer calls enqueue, one consumer dequeue or dequeueAll, with no *)
(* lock: every load and store of the two atomics, and every access to a    *)
(* slot, is a step of its own.  The atomics are sequentially consistent    *)
(* (load() and store() without an argument), so interleaving is all there  *)
(* is.  The n-th element offered to enqueue and accepted is the number n;  *)
(* a slot moved from holds Moved.                                          *)
(***************************************************************************)
EXTENDS Integers

CONSTANTS
  Capacity,      \* capacity, 200 for the receive buffers
  MaxItems       \* bound: elements accepted

Slots == 0 .. Capacity - 1
Moved == 0

ASSUME CapacityAssumption ==
  /\ Capacity \in Nat \ {0, 1}    \* a capacity of 1 accepts nothing
  /\ MaxItems \in Nat

VARIABLES
  headPos, tailPos, internalArray,
  enqueue,               \* where the producer is in enqueue
  pHead, pTail,          \* head and tail of enqueue
  dequeue,               \* where the consumer is, in dequeue or dequeueAll
  all,                   \* it is in dequeueAll
  cHead, cTail,          \* head and tail of dequeue and dequeueAll
  accepted, taken, last  \* elements accepted, elements moved out, the last of these

producer == <<enqueue, pHead, pTail>>
consumer == <<dequeue, all, cHead, cTail>>
vars == <<headPos, tailPos, internalArray, producer, consumer, accepted, taken, last>>

\* Slip: the ring is walked one slot too far.
nextPosPastEnd(pos) == (pos + 1) % (Capacity + 1)

nextPos(pos) == (pos + 1) % Capacity

-----------------------------------------------------------------------------
(* enqueue(input), the producer. *)

LoadHead ==
  /\ enqueue = "idle"
  /\ accepted < MaxItems
  /\ pHead' = headPos
  /\ enqueue' = "loadTail"
  /\ UNCHANGED <<headPos, tailPos, internalArray, pTail, consumer, accepted, taken, last>>

\* Slip: the test for a full ring left out.
LoadTailUnchecked ==
  /\ enqueue = "loadTail"
  /\ pTail' = tailPos
  /\ enqueue' = "write"
  /\ UNCHANGED <<headPos, tailPos, internalArray, pHead, consumer, accepted, taken, last>>

LoadTail ==
  /\ enqueue = "loadTail"
  /\ pTail' = tailPos
  /\ enqueue' = IF nextPos(pTail') = pHead THEN "idle" ELSE "write"
  /\ UNCHANGED <<headPos, tailPos, internalArray, pHead, consumer, accepted, taken, last>>

\* Slip: the slot is published unwritten.
PublishUnwritten ==
  /\ enqueue = "write"
  /\ tailPos' = nextPos(pTail)
  /\ enqueue' = "store"
  /\ UNCHANGED <<headPos, internalArray, pHead, pTail, consumer, accepted, taken, last>>

Write ==
  /\ enqueue = "write"
  /\ internalArray' = [internalArray EXCEPT ![pTail] = accepted + 1]
  /\ enqueue' = "store"
  /\ UNCHANGED <<headPos, tailPos, pHead, pTail, consumer, accepted, taken, last>>

StoreTail ==
  /\ enqueue = "store"
  /\ tailPos' = nextPos(pTail)
  /\ accepted' = accepted + 1
  /\ enqueue' = "idle"
  /\ UNCHANGED <<headPos, internalArray, pHead, pTail, consumer, taken, last>>

-----------------------------------------------------------------------------
(* dequeue(output) and dequeueAll(outputs), the consumer. *)

ReadHead ==
  /\ dequeue = "idle"
  /\ all' \in BOOLEAN
  /\ cHead' = headPos
  /\ dequeue' = "readTail"
  /\ UNCHANGED <<headPos, tailPos, internalArray, producer, cTail, accepted, taken, last>>

\* Slip: the last element is taken for an empty ring.
ReadTailShort ==
  /\ dequeue = "readTail"
  /\ cTail' = tailPos
  /\ dequeue' = IF cTail' \notin {cHead, nextPos(cHead)} THEN "take" ELSE "idle"
  /\ UNCHANGED <<headPos, tailPos, internalArray, producer, all, cHead, accepted, taken, last>>

\* An empty ring: dequeue returns false, dequeueAll stores the head it loaded.
ReadTail ==
  /\ dequeue = "readTail"
  /\ cTail' = tailPos
  /\ dequeue' = IF cHead # cTail' THEN "take" ELSE IF all THEN "store" ELSE "idle"
  /\ UNCHANGED <<headPos, tailPos, internalArray, producer, all, cHead, accepted, taken, last>>

Take ==
  /\ dequeue = "take"
  /\ last' = internalArray[cHead]
  /\ internalArray' = [internalArray EXCEPT ![cHead] = Moved]
  /\ taken' = taken + 1
  /\ cHead' = nextPos(cHead)
  /\ dequeue' = IF all /\ cHead' # cTail THEN "take" ELSE "store"
  /\ UNCHANGED <<headPos, tailPos, producer, all, cTail, accepted>>

StoreHead ==
  /\ dequeue = "store"
  /\ headPos' = cHead
  /\ dequeue' = "idle"
  /\ UNCHANGED <<tailPos, internalArray, producer, all, cHead, cTail, accepted, taken, last>>

-----------------------------------------------------------------------------

Init ==
  /\ headPos = 0 /\ tailPos = 0
  /\ internalArray = [pos \in Slots |-> Moved]
  /\ enqueue = "idle" /\ pHead = 0 /\ pTail = 0
  /\ dequeue = "idle" /\ all = FALSE /\ cHead = 0 /\ cTail = 0
  /\ accepted = 0 /\ taken = 0 /\ last = 0

Enqueue == LoadHead \/ LoadTail \/ Write \/ StoreTail
Dequeue == ReadHead \/ ReadTail \/ Take \/ StoreHead

Next == Enqueue \/ Dequeue

Spec == Init /\ [][Next]_vars

\* recvWorker polls for ever, at least every 100 ms; nothing makes a producer go on.
FairSpec == Spec /\ WF_vars(Dequeue)

-----------------------------------------------------------------------------
(* The properties. *)

Distance(pos1, pos2) == IF pos1 >= pos2 THEN pos1 - pos2 ELSE pos1 - pos2 + Capacity

TypeOK ==
  /\ {headPos, tailPos, pHead, pTail, cHead, cTail} \subseteq Slots
  /\ internalArray \in [Slots -> Nat]
  /\ enqueue \in {"idle", "loadTail", "write", "store"}
  /\ dequeue \in {"idle", "readTail", "take", "store"}
  /\ all \in BOOLEAN
  /\ accepted \in Nat /\ taken \in Nat /\ last \in Nat

\* What the consumer has moved out last is the element whose turn it was: none
\* is lost, handed out twice, out of order, or read before it was written.
Fifo == last = taken

\* The producer never writes the slot the consumer is moving from, though
\* nothing but the two positions keeps them apart.
NoSlotConflict == ~(enqueue = "write" /\ dequeue = "take" /\ pTail = cHead)

\* The ring never holds more than Capacity - 1 elements, those included that
\* dequeueAll has moved out and whose slots it has not yet given back.
NeverOverfull == accepted - taken + Distance(cHead, headPos) <= Capacity - 1

\* Every accepted element is handed out, whatever the producer does next.
AllTaken == \A n \in 1 .. MaxItems : accepted >= n ~> taken >= n

=============================================================================

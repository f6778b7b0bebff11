-------------------------- MODULE RecvWorkerProofs --------------------------
(***************************************************************************)
(* For every setup, ring size and number of datagrams: what recvWorker     *)
(* hands on is in order where it should be, never twice, and announced     *)
(* unless a notifier is shared.                                            *)
(***************************************************************************)
EXTENDS RecvWorker, FiniteSetTheorems, TLAPS

-----------------------------------------------------------------------------
(* Sequences, reduced to their ranges. *)

\* The range of two sequences put together.
LEMMA JoinedRange ==
  ASSUME NEW m \in Nat, NEW a \in Seq(1 .. m), NEW b \in Seq(1 .. m)
  PROVE  Range(a \o b) = Range(a) \cup Range(b)
  <1>1. DOMAIN a = 1 .. Len(a) /\ DOMAIN b = 1 .. Len(b) /\ DOMAIN (a \o b) = 1 .. Len(a) + Len(b)
    OBVIOUS
  <1>2. /\ \A i \in DOMAIN a : i \in DOMAIN (a \o b) /\ (a \o b)[i] = a[i]
        /\ \A j \in DOMAIN b : j + Len(a) \in DOMAIN (a \o b) /\ (a \o b)[j + Len(a)] = b[j]
    BY <1>1
  <1>3. \A k \in DOMAIN (a \o b) :
          \/ k \in DOMAIN a /\ (a \o b)[k] = a[k]
          \/ k - Len(a) \in DOMAIN b /\ (a \o b)[k] = b[k - Len(a)]
    BY <1>1
  <1>4. ASSUME NEW y \in Range(a \o b) PROVE y \in Range(a) \cup Range(b)
    <2>1. PICK k \in DOMAIN (a \o b) : y = (a \o b)[k]
      BY DEF Range
    <2>2. QED  BY <2>1, <1>3 DEF Range
  <1>5. ASSUME NEW y \in Range(a) PROVE y \in Range(a \o b)
    <2>1. PICK i \in DOMAIN a : y = a[i]
      BY DEF Range
    <2>2. QED  BY <2>1, <1>2 DEF Range
  <1>6. ASSUME NEW y \in Range(b) PROVE y \in Range(a \o b)
    <2>1. PICK j \in DOMAIN b : y = b[j]
      BY DEF Range
    <2>2. QED  BY <2>1, <1>2 DEF Range
  <1>7. QED  BY <1>4, <1>5, <1>6

\* Two sequences put together increase if each does and all of the first is below the second.
LEMMA JoinedIncreasing ==
  ASSUME NEW m \in Nat, NEW a \in Seq(1 .. m), NEW b \in Seq(1 .. m)
  PROVE  Increasing(a \o b) <=>
           Increasing(a) /\ Increasing(b) /\ \A x \in Range(a), y \in Range(b) : x < y
  <1>1. DOMAIN a = 1 .. Len(a) /\ DOMAIN b = 1 .. Len(b) /\ DOMAIN (a \o b) = 1 .. Len(a) + Len(b)
    OBVIOUS
  <1>2. /\ \A i \in DOMAIN a : (a \o b)[i] = a[i]
        /\ \A j \in DOMAIN b : (a \o b)[j + Len(a)] = b[j]
        /\ Len(a) \in Nat /\ Len(b) \in Nat
    BY <1>1
  <1>3. ASSUME Increasing(a \o b)
        PROVE  Increasing(a) /\ Increasing(b) /\ \A x \in Range(a), y \in Range(b) : x < y
    <2>1. Increasing(a)
      <3> SUFFICES ASSUME NEW i \in DOMAIN a, NEW j \in DOMAIN a, i < j PROVE a[i] < a[j]
        BY DEF Increasing
      <3>1. i \in DOMAIN (a \o b) /\ j \in DOMAIN (a \o b)
        BY <1>1
      <3>2. QED  BY <1>2, <1>3, <3>1 DEF Increasing
    <2>2. Increasing(b)
      <3> SUFFICES ASSUME NEW i \in DOMAIN b, NEW j \in DOMAIN b, i < j PROVE b[i] < b[j]
        BY DEF Increasing
      <3>1. i + Len(a) \in DOMAIN (a \o b) /\ j + Len(a) \in DOMAIN (a \o b) /\ i + Len(a) < j + Len(a)
        BY <1>1
      <3>2. QED  BY <1>2, <1>3, <3>1 DEF Increasing
    <2>3. ASSUME NEW i \in DOMAIN a, NEW j \in DOMAIN b
          PROVE  a[i] < b[j]
      <3>1. i \in DOMAIN (a \o b) /\ j + Len(a) \in DOMAIN (a \o b) /\ i < j + Len(a)
        BY <1>1
      <3>2. QED  BY <1>2, <1>3, <3>1 DEF Increasing
    <2>4. QED  BY <2>1, <2>2, <2>3 DEF Range
  <1>4. ASSUME Increasing(a), Increasing(b), \A x \in Range(a), y \in Range(b) : x < y
        PROVE  Increasing(a \o b)
    <2> SUFFICES ASSUME NEW i \in DOMAIN (a \o b), NEW j \in DOMAIN (a \o b), i < j
                 PROVE  (a \o b)[i] < (a \o b)[j]
      BY DEF Increasing
    <2>1. CASE i \in DOMAIN a /\ j \in DOMAIN a
      BY <1>2, <1>4, <2>1 DEF Increasing
    <2>2. CASE i \in DOMAIN a /\ j \notin DOMAIN a
      <3>1. j - Len(a) \in DOMAIN b /\ (j - Len(a)) + Len(a) = j
        BY <1>1, <2>2
      <3>2. a[i] \in Range(a) /\ b[j - Len(a)] \in Range(b)
        BY <2>2, <3>1 DEF Range
      <3>3. QED  BY <1>2, <1>4, <2>2, <3>1, <3>2
    <2>3. CASE i \notin DOMAIN a
      <3> DEFINE n == Len(a)
                 k == Len(b)
      <3>0. n \in Nat /\ k \in Nat
        OBVIOUS
      <3>1. i \in 1 .. n + k /\ j \in 1 .. n + k /\ i \notin 1 .. n /\ i < j
        BY <1>1, <2>3
      <3> HIDE DEF n, k
      <3>2. /\ i - n \in 1 .. k /\ (i - n) + n = i
            /\ j - n \in 1 .. k /\ (j - n) + n = j
            /\ i - n < j - n
        BY <3>0, <3>1
      <3>3. i - n \in DOMAIN b /\ j - n \in DOMAIN b
        BY <3>2, <1>1 DEF k
      <3>4. b[i - n] < b[j - n]
        BY <1>4, <3>2, <3>3 DEF Increasing
      <3>5. (a \o b)[i] = b[i - n] /\ (a \o b)[j] = b[j - n]
        BY <1>2, <3>2, <3>3 DEF n
      <3>6. QED  BY <3>4, <3>5
    <2>4. QED  BY <2>1, <2>2, <2>3, <1>1
  <1>5. QED  BY <1>3, <1>4

\* Two sequences without a repetition and with nothing in common have none together.
LEMMA JoinedInjective ==
  ASSUME NEW S, NEW a \in Seq(S), NEW b \in Seq(S),
         IsInjective(a), IsInjective(b), Range(a) \cap Range(b) = {}
  PROVE  IsInjective(a \o b)
  <1>1. DOMAIN a = 1 .. Len(a) /\ DOMAIN b = 1 .. Len(b) /\ DOMAIN (a \o b) = 1 .. Len(a) + Len(b)
    OBVIOUS
  <1>2. \A k \in DOMAIN (a \o b) :
          \/ k \in DOMAIN a /\ (a \o b)[k] = a[k]
          \/ k - Len(a) \in DOMAIN b /\ (a \o b)[k] = b[k - Len(a)]
    BY <1>1
  <1> SUFFICES ASSUME NEW i \in DOMAIN (a \o b), NEW j \in DOMAIN (a \o b), (a \o b)[i] = (a \o b)[j]
               PROVE  i = j
    BY DEF IsInjective
  <1>3. i \in Nat /\ j \in Nat /\ Len(a) \in Nat
    BY <1>1
  <1>4. CASE i \in DOMAIN a /\ (a \o b)[i] = a[i]
    <2>1. CASE j \in DOMAIN a /\ (a \o b)[j] = a[j]
      BY <1>4, <2>1 DEF IsInjective
    <2>2. CASE j - Len(a) \in DOMAIN b /\ (a \o b)[j] = b[j - Len(a)]
      BY <1>4, <2>2 DEF Range
    <2>3. QED  BY <2>1, <2>2, <1>2
  <1>5. CASE i - Len(a) \in DOMAIN b /\ (a \o b)[i] = b[i - Len(a)]
    <2>1. CASE j \in DOMAIN a /\ (a \o b)[j] = a[j]
      BY <1>5, <2>1 DEF Range
    <2>2. CASE j - Len(a) \in DOMAIN b /\ (a \o b)[j] = b[j - Len(a)]
      <3>1. i - Len(a) = j - Len(a)
        BY <1>5, <2>2 DEF IsInjective
      <3>2. QED  BY <3>1, <1>3
    <2>3. QED  BY <2>1, <2>2, <1>2
  <1>6. QED  BY <1>4, <1>5, <1>2

\* What increases has no repetition.
LEMMA IncreasingInjective ==
  ASSUME NEW m \in Nat, NEW s \in Seq(1 .. m), Increasing(s)
  PROVE  IsInjective(s)
  <1>1. DOMAIN s = 1 .. Len(s) /\ \A i \in DOMAIN s : s[i] \in 1 .. m
    OBVIOUS
  <1>2. QED  BY <1>1 DEF Increasing, IsInjective

\* The sequences of no and of one element.
LEMMA Small ==
  ASSUME NEW m \in Nat, NEW x \in 1 .. m
  PROVE  /\ <<>> \in Seq(1 .. m) /\ Range(<<>>) = {} /\ Increasing(<<>>)
         /\ <<x>> \in Seq(1 .. m) /\ Range(<<x>>) = {x} /\ Increasing(<<x>>)
  <1>1. /\ <<>> \in Seq(1 .. m) /\ DOMAIN <<>> = {}
        /\ <<x>> \in Seq(1 .. m) /\ DOMAIN <<x>> = {1} /\ <<x>>[1] = x
    OBVIOUS
  <1>2. QED  BY <1>1 DEF Range, Increasing

\* A sequence is its head and its tail.
LEMMA HeadTail ==
  ASSUME NEW S, NEW s \in Seq(S), s # <<>>
  PROVE  Head(s) \in S /\ Tail(s) \in Seq(S) /\ <<Head(s)>> \in Seq(S) /\ s = <<Head(s)>> \o Tail(s)
  OBVIOUS

\* Putting together is associative, and the empty sequence adds nothing.
LEMMA Associative ==
  ASSUME NEW m \in Nat, NEW a \in Seq(1 .. m), NEW b \in Seq(1 .. m), NEW c \in Seq(1 .. m)
  PROVE  (a \o b) \o c = a \o (b \o c) /\ a \o <<>> = a /\ <<>> \o a = a
  OBVIOUS

\* The range of a sequence of numbers.
LEMMA RangeType ==
  ASSUME NEW m \in Nat, NEW s \in Seq(1 .. m)
  PROVE  Range(s) \subseteq 1 .. m
  BY DEF Range

\* More numbers, more sequences.
LEMMA Wider ==
  ASSUME NEW m \in Nat, NEW s \in Seq(1 .. m)
  PROVE  s \in Seq(1 .. m + 1)
  OBVIOUS

-----------------------------------------------------------------------------
(* The way of a datagram: line, working queue, ring. *)

Sorted(l, w, r) ==
  /\ Increasing(l) /\ Increasing(w) /\ Increasing(r)
  /\ \A x \in Range(l), y \in Range(w) \cup Range(r) : x < y
  /\ \A x \in Range(w), y \in Range(r) : x < y

\* The whole way increases if its parts do and each is below the next.
LEMMA SortedIs ==
  ASSUME NEW m \in Nat, NEW l \in Seq(1 .. m), NEW w \in Seq(1 .. m), NEW r \in Seq(1 .. m)
  PROVE  Increasing(l \o (w \o r)) <=> Sorted(l, w, r)
  <1>1. w \o r \in Seq(1 .. m)
    OBVIOUS
  <1>2. Range(w \o r) = Range(w) \cup Range(r)
    BY JoinedRange
  <1>3. Increasing(w \o r) <=> Increasing(w) /\ Increasing(r) /\ \A x \in Range(w), y \in Range(r) : x < y
    BY JoinedIncreasing
  <1>4. Increasing(l \o (w \o r)) <=>
          Increasing(l) /\ Increasing(w \o r) /\ \A x \in Range(l), y \in Range(w \o r) : x < y
    BY <1>1, JoinedIncreasing
  <1>5. QED  BY <1>2, <1>3, <1>4 DEF Sorted

\* A new datagram is the greatest.
LEMMA SortedPush ==
  ASSUME NEW m \in Nat, NEW l \in Seq(1 .. m), NEW w \in Seq(1 .. m), NEW r \in Seq(1 .. m), Sorted(l, w, r)
  PROVE  Sorted(l, w, Append(r, m + 1))
  <1>1. r \in Seq(1 .. m + 1) /\ <<m + 1>> \in Seq(1 .. m + 1) /\ m + 1 \in Nat /\ m + 1 \in 1 .. m + 1
    BY Wider
  <1>2. Append(r, m + 1) = r \o <<m + 1>>
    OBVIOUS
  <1>3. Range(l) \subseteq 1 .. m /\ Range(w) \subseteq 1 .. m /\ Range(r) \subseteq 1 .. m
    BY DEF Range
  <1>4. Range(<<m + 1>>) = {m + 1} /\ Increasing(<<m + 1>>)
    BY <1>1, Small
  <1>5. Range(Append(r, m + 1)) = Range(r) \cup {m + 1}
    <2> DEFINE n == m + 1
               one == <<m + 1>>
    <2>1. n \in Nat /\ r \in Seq(1 .. n) /\ one \in Seq(1 .. n) /\ Range(one) = {m + 1}
      BY <1>1, <1>4
    <2> HIDE DEF n, one
    <2>2. Range(r \o one) = Range(r) \cup Range(one)
      BY <2>1, JoinedRange
    <2>3. QED  BY <2>1, <2>2, <1>2 DEF one
  <1>6. Increasing(Append(r, m + 1))
    <2>1. ASSUME NEW x \in Range(r), NEW y \in Range(<<m + 1>>) PROVE x < y
      <3>1. x \in 1 .. m /\ y = m + 1
        BY <1>3, <1>4
      <3>2. QED  BY <3>1
    <2>2. QED  BY <2>1, <1>1, <1>2, <1>4, JoinedIncreasing DEF Sorted
  <1>7. QED  BY <1>3, <1>5, <1>6 DEF Sorted

\* The ring is moved behind what the working queue holds.
LEMMA SortedDequeue ==
  ASSUME NEW m \in Nat, NEW l \in Seq(1 .. m), NEW w \in Seq(1 .. m), NEW r \in Seq(1 .. m), Sorted(l, w, r)
  PROVE  Sorted(l, w \o r, <<>>)
  <1>1. Range(<<>>) = {} /\ Increasing(<<>>)
    BY DEF Range, Increasing
  <1>2. QED  BY <1>1, JoinedIncreasing, JoinedRange DEF Sorted

\* The working queue is delivered, or nothing of it is.
LEMMA SortedAll ==
  ASSUME NEW m \in Nat, NEW l \in Seq(1 .. m), NEW w \in Seq(1 .. m), NEW r \in Seq(1 .. m), Sorted(l, w, r)
  PROVE  Sorted(l \o w, <<>>, r) /\ Sorted(l, <<>>, r)
  <1>1. Range(<<>>) = {} /\ Increasing(<<>>)
    BY DEF Range, Increasing
  <1>2. Range(l \o w) = Range(l) \cup Range(w)
    BY JoinedRange
  <1>3. Increasing(l \o w)
    BY JoinedIncreasing DEF Sorted
  <1>4. QED  BY <1>1, <1>2, <1>3 DEF Sorted

\* The ranges and the order of a head and its tail.
LEMMA HeadTailSorted ==
  ASSUME NEW m \in Nat, NEW w \in Seq(1 .. m), w # <<>>
  PROVE  /\ Head(w) \in 1 .. m /\ Tail(w) \in Seq(1 .. m) /\ <<Head(w)>> \in Seq(1 .. m)
         /\ Range(w) = {Head(w)} \cup Range(Tail(w)) /\ Range(<<Head(w)>>) = {Head(w)}
         /\ Increasing(w) => /\ Increasing(<<Head(w)>>) /\ Increasing(Tail(w))
                             /\ \A y \in Range(Tail(w)) : Head(w) < y
  <1> DEFINE h == Head(w)
             t == Tail(w)
  <1>1. h \in 1 .. m /\ t \in Seq(1 .. m) /\ <<h>> \in Seq(1 .. m) /\ w = <<h>> \o t
    BY HeadTail
  <1>2. Range(<<h>>) = {h} /\ Increasing(<<h>>)
    BY <1>1, Small
  <1> HIDE DEF h, t
  <1>3. Range(w) = {h} \cup Range(t)
    BY <1>1, <1>2, JoinedRange
  <1>4. Increasing(w) => Increasing(t) /\ \A y \in Range(t) : h < y
    BY <1>1, <1>2, JoinedIncreasing
  <1>5. QED  BY <1>1, <1>2, <1>3, <1>4 DEF h, t

\* The first datagram of the working queue is delivered, or goes another way.
LEMMA SortedOne ==
  ASSUME NEW m \in Nat, NEW l \in Seq(1 .. m), NEW w \in Seq(1 .. m), NEW r \in Seq(1 .. m), Sorted(l, w, r),
         w # <<>>
  PROVE  Sorted(l \o <<Head(w)>>, Tail(w), r) /\ Sorted(l, Tail(w), r)
  <1> DEFINE h == Head(w)
             t == Tail(w)
             one == <<Head(w)>>
  <1>1. /\ h \in 1 .. m /\ t \in Seq(1 .. m) /\ one \in Seq(1 .. m)
        /\ Range(w) = {h} \cup Range(t) /\ Range(one) = {h}
        /\ Increasing(one) /\ Increasing(t) /\ \A y \in Range(t) : h < y
    BY HeadTailSorted DEF Sorted
  <1> HIDE DEF h, t, one
  <1>2. Range(l \o one) = Range(l) \cup {h}
    BY <1>1, JoinedRange
  <1>3. Increasing(l \o one)
    BY <1>1, JoinedIncreasing DEF Sorted
  <1>4. Sorted(l \o one, t, r) /\ Sorted(l, t, r)
    BY <1>1, <1>2, <1>3 DEF Sorted
  <1>5. QED  BY <1>4 DEF h, t, one

-----------------------------------------------------------------------------
(* Types. *)

\* What the pipes put out are datagrams they were given.
LEMMA OutputsAre ==
  ASSUME NEW m \in Nat, NEW S \in SUBSET (1 .. m), NEW s \in Outputs(S)
  PROVE  s \in Seq(1 .. m) /\ Range(s) \subseteq S /\ IsInjective(s)
  <1>1. PICK n \in 0 .. Cardinality(S) : s \in [1 .. n -> S]
    BY DEF Outputs
  <1>2. n \in Nat
    <2>1. CASE Cardinality(S) \in Nat
      BY <2>1
    <2>2. IsFiniteSet(1 .. m)
      BY FS_Interval
    <2>3. Cardinality(S) \in Nat
      BY <2>2, FS_Subset, FS_CardinalityType
    <2>4. QED  BY <2>3
  <1>3. IsInjective(s)
    BY DEF Outputs
  <1>4. Range(s) \subseteq S
    BY <1>1 DEF Range
  <1>5. s \in Seq(1 .. m)
    <2>1. s \in [1 .. n -> 1 .. m]
      BY <1>1
    <2>2. QED  BY <2>1, <1>2
  <1>6. QED  BY <1>3, <1>4, <1>5

\* What a delivery leaves is of the right type.
LEMMA DeliverTypes ==
  ASSUME TypeOK, NEW q \in Queues, NEW s \in Seq(1 .. arrived), Deliver(q, s), UNCHANGED arrived
  PROVE  /\ out' \in [Queues -> Seq(1 .. arrived')] /\ empty' \in [Queues -> BOOLEAN]
         /\ got' \subseteq Queues /\ unannounced' \subseteq Queues
  BY DEF TypeOK, Deliver

\* The worker's steps and all others keep the types.
LEMMA TypeStep == TypeOK /\ [Next]_vars => TypeOK'
  <1> SUFFICES ASSUME TypeOK, [Next]_vars PROVE TypeOK'
    OBVIOUS
  <1> USE ConfigAssumption
  <1>0. arrived \in Nat
    BY DEF TypeOK
  <1>1. ASSUME NEW s \in Sockets, Push(s) PROVE TypeOK'
    <2>1. arrived' = arrived + 1 /\ arrived' \in 0 .. MaxDatagrams
      BY <1>1, <1>0 DEF Push, TypeOK
    <2>2. /\ working \in [Sockets -> Seq(1 .. arrived')] /\ ring \in [Sockets -> Seq(1 .. arrived')]
          /\ out \in [Queues -> Seq(1 .. arrived')] /\ taken \in Seq(1 .. arrived')
          /\ pipe \subseteq 1 .. arrived'
      <3>1. Seq(1 .. arrived) \subseteq Seq(1 .. arrived + 1)
        BY <1>0, Wider
      <3>2. QED  BY <2>1, <3>1, <1>0 DEF TypeOK
    <2>3. ring' \in [Sockets -> Seq(1 .. arrived')] /\ \A t \in Sockets : Len(ring'[t]) <= RingSize
      <3>1. arrived + 1 \in 1 .. arrived'
        BY <2>1, <1>0
      <3>2. Append(ring[s], arrived + 1) \in Seq(1 .. arrived') /\ Len(Append(ring[s], arrived + 1)) = Len(ring[s]) + 1
        BY <2>2, <3>1, <1>1
      <3>3. Len(ring[s]) \in Nat
        BY <2>2, <1>1
      <3>4. QED  BY <1>1, <2>2, <3>2, <3>3 DEF Push, TypeOK
    <2>4. pc' \in Places
      BY <1>1 DEF Push, Woken, TypeOK, Places
    <2>5. QED  BY <1>1, <2>1, <2>2, <2>3, <2>4 DEF Push, TypeOK, worker, caller
  <1>2. CASE DequeueRtp
    <2>1. working["rtp"] \o ring["rtp"] \in Seq(1 .. arrived) /\ <<>> \in Seq(1 .. arrived) /\ Len(<<>>) = 0
      BY DEF TypeOK, Sockets
    <2>2. busy' \in BOOLEAN
      BY <1>2 DEF DequeueRtp
    <2>3. QED  BY <1>2, <2>1, <2>2 DEF DequeueRtp, Goto, TypeOK, Sockets, Places, caller
  <1>3. ASSUME NEW q \in Queues, DealAll(q) PROVE TypeOK'
    <2>1. working["rtp"] \in Seq(1 .. arrived) /\ <<>> \in Seq(1 .. arrived)
      BY DEF TypeOK, Sockets
    <2>2. QED  BY <1>3, <2>1, DeliverTypes DEF DealAll, TypeOK, Sockets, Places, caller
  <1>4. CASE DealOther
    <2>1. Head(working["rtp"]) \in 1 .. arrived /\ Tail(working["rtp"]) \in Seq(1 .. arrived)
          /\ <<Head(working["rtp"])>> \in Seq(1 .. arrived)
      BY <1>4, HeadTail DEF DealOther, TypeOK, Sockets
    <2>2. /\ out' \in [Queues -> Seq(1 .. arrived')] /\ empty' \in [Queues -> BOOLEAN]
          /\ got' \subseteq Queues /\ unannounced' \subseteq Queues
      <3>1. CASE notifier["udp"] # NoNotifier
        BY <1>4, <2>1, <3>1, DeliverTypes DEF DealOther, Queues
      <3>2. CASE notifier["udp"] = NoNotifier
        BY <1>4, <3>2 DEF DealOther, TypeOK
      <3>3. QED  BY <3>1, <3>2
    <2>3. QED  BY <1>4, <2>1, <2>2 DEF DealOther, TypeOK, Sockets, Places, caller
  <1>5. CASE DealRtp
    <2>1. Head(working["rtp"]) \in 1 .. arrived /\ Tail(working["rtp"]) \in Seq(1 .. arrived)
      BY <1>5, HeadTail DEF DealRtp, TypeOK, Sockets
    <2> DEFINE held == pipe \cup {Head(working["rtp"])}
    <2>2. held \in SUBSET (1 .. arrived)
      BY <2>1 DEF TypeOK
    <2>3. PICK s \in Outputs(held) :
            /\ pipe' \in SUBSET (held \ Range(s))
            /\ IF s # <<>>
               THEN Deliver("rtp", s)
               ELSE /\ empty' = [empty EXCEPT !["rtp"] = (out["rtp"] = <<>>)]
                    /\ UNCHANGED <<out, got, unannounced>>
      BY <1>5 DEF DealRtp
    <2> HIDE DEF held
    <2>4. s \in Seq(1 .. arrived)
      BY <2>2, <1>0, OutputsAre
    <2>5. UNCHANGED arrived
      BY <1>5 DEF DealRtp
    <2>6. /\ out' \in [Queues -> Seq(1 .. arrived')] /\ empty' \in [Queues -> BOOLEAN]
          /\ got' \subseteq Queues /\ unannounced' \subseteq Queues
      <3>1. CASE s # <<>>
        BY <2>3, <2>4, <2>5, <3>1, DeliverTypes DEF Queues
      <3>2. CASE s = <<>>
        <4>1. (out["rtp"] = <<>>) \in BOOLEAN
          OBVIOUS
        <4>2. QED  BY <2>3, <2>5, <3>2, <4>1 DEF TypeOK
      <3>3. QED  BY <3>1, <3>2
    <2>7. pipe' \subseteq 1 .. arrived'
      BY <2>2, <2>3, <2>5
    <2>8. QED  BY <1>5, <2>1, <2>6, <2>7 DEF DealRtp, TypeOK, Sockets, Places, caller
  <1>6. CASE DealNothing
    BY <1>6 DEF DealNothing, Goto, TypeOK, Places, worker, caller
  <1>7. CASE DequeueRtcp
    <2>1. working["rtcp"] \o ring["rtcp"] \in Seq(1 .. arrived) /\ <<>> \in Seq(1 .. arrived) /\ Len(<<>>) = 0
      BY DEF TypeOK, Sockets
    <2>2. busy' \in BOOLEAN
      BY <1>7 DEF DequeueRtcp, TypeOK
    <2>3. QED  BY <1>7, <2>1, <2>2 DEF DequeueRtcp, Goto, TypeOK, Sockets, Places, caller
  <1>8. CASE DealRtcp
    <2>1. Head(working["rtcp"]) \in 1 .. arrived /\ Tail(working["rtcp"]) \in Seq(1 .. arrived)
          /\ <<Head(working["rtcp"])>> \in Seq(1 .. arrived)
      BY <1>8, HeadTail DEF DealRtcp, TypeOK, Sockets
    <2>2. /\ out' \in [Queues -> Seq(1 .. arrived')] /\ empty' \in [Queues -> BOOLEAN]
          /\ got' \subseteq Queues /\ unannounced' \subseteq Queues
      <3>1. CASE notifier["rtcp"] # NoNotifier
        BY <1>8, <2>1, <3>1, DeliverTypes DEF DealRtcp, Queues
      <3>2. CASE notifier["rtcp"] = NoNotifier
        BY <1>8, <3>2 DEF DealRtcp, TypeOK
      <3>3. QED  BY <3>1, <3>2
    <2>3. QED  BY <1>8, <2>1, <2>2 DEF DealRtcp, TypeOK, Sockets, Places, caller
  <1>9. CASE DealtRtcp \/ Test \/ WorkerTimeout \/ WakeUp
    BY <1>9 DEF DealtRtcp, Test, WorkerTimeout, WakeUp, Goto, TypeOK, Places, worker, caller
  <1>10. CASE Notify
    <2>1. pc' = "test" /\ unannounced' \subseteq unannounced /\ call' \in {"receive", call}
      BY <1>10 DEF Notify, Goto
    <2>2. QED  BY <1>10, <2>1 DEF Notify, TypeOK, Places, worker
  <1>11. CASE Receive \/ WaitNotify \/ CallerTimeout
    BY <1>11 DEF Receive, WaitNotify, CallerTimeout, TypeOK, worker
  <1>12. CASE Swap
    <2>1. q0 \in Queues
      BY DEF q0, TypeOK
    <2>2. taken \o out[q0] \in Seq(1 .. arrived) /\ <<>> \in Seq(1 .. arrived)
      BY <2>1 DEF TypeOK
    <2>3. QED  BY <1>12, <2>2 DEF Swap, TypeOK, worker
  <1>13. CASE Stop
    BY <1>13 DEF Stop, Woken, TypeOK, Places, worker, caller
  <1>14. CASE UNCHANGED vars
    BY <1>14 DEF vars, TypeOK, worker, caller
  <1>15. QED
    BY <1>1, <1>2, <1>3, <1>4, <1>5, <1>6, <1>7, <1>8, <1>9, <1>10, <1>11, <1>12, <1>13, <1>14
       DEF Next, recvWorker, Deal, Taking, Queues

LEMMA TypeInit == Init => TypeOK
  <1> SUFFICES ASSUME Init PROVE TypeOK
    OBVIOUS
  <1>1. <<>> \in Seq(1 .. arrived) /\ Len(<<>>) = 0
    OBVIOUS
  <1>2. arrived \in 0 .. MaxDatagrams /\ \A s \in Sockets : Len(ring[s]) <= RingSize
    BY <1>1, ConfigAssumption DEF Init
  <1>3. /\ ring \in [Sockets -> Seq(1 .. arrived)] /\ working \in [Sockets -> Seq(1 .. arrived)]
        /\ out \in [Queues -> Seq(1 .. arrived)] /\ empty \in [Queues -> BOOLEAN]
    BY <1>1 DEF Init
  <1>4. QED  BY <1>1, <1>2, <1>3 DEF Init, TypeOK, Places

-----------------------------------------------------------------------------
(* The invariant. *)

\* The datagrams of the RTP socket that have not yet been dealt with.
Coming == Range(working["rtp"]) \cup Range(ring["rtp"])

Ordered ==
  /\ Sorted(Line("rtcp"), working["rtcp"], ring["rtcp"])
  /\ Sorted(Line("udp"), working["rtp"], ring["rtp"])
  /\ config.mode # "reorder" => Sorted(Line("rtp"), working["rtp"], ring["rtp"])

Apart ==
  /\ IsInjective(Line("rtp"))
  /\ pipe \cap (Range(Line("rtp")) \cup Coming) = {}
  /\ Range(Line("rtp")) \cap Coming = {}
  /\ Range(Line("udp")) \cap (Range(Line("rtp")) \cup pipe) = {}

Untold(q) == notifier[q] # NoNotifier /\ \A p \in Before(q) : notifier[p] # notifier[q]

\* Who has to be told and has not been is told in this turn of the loop.
Told ==
  \A q \in unannounced :
    Untold(q) => q \in got /\ pc \in {"deal", "rtcp", "dealRtcp", "notify"}

Inv == TypeOK /\ Ordered /\ Apart /\ Told

\* The lines are sequences of datagrams.
LEMMA LineType ==
  ASSUME TypeOK, NEW q \in Queues
  PROVE  Line(q) \in Seq(1 .. arrived)
  <1> DEFINE t == IF q = q0 THEN taken ELSE <<>>
  <1>0. taken \in Seq(1 .. arrived) /\ <<>> \in Seq(1 .. arrived) /\ arrived \in Nat
    BY DEF TypeOK
  <1>1. t \in Seq(1 .. arrived) /\ out[q] \in Seq(1 .. arrived)
    BY <1>0 DEF TypeOK
  <1>2. Line(q) = t \o out[q]
    BY DEF Line
  <1> HIDE DEF t
  <1>3. QED  BY <1>1, <1>2

\* A delivery makes one line longer.
LEMMA LineDelivered ==
  ASSUME TypeOK, NEW q \in Queues, NEW s \in Seq(1 .. arrived), Deliver(q, s), UNCHANGED <<config, taken>>
  PROVE  /\ Line(q)' = Line(q) \o s
         /\ \A p \in Queues \ {q} : Line(p)' = Line(p)
  <1>1. out'[q] = out[q] \o s /\ \A p \in Queues \ {q} : out'[p] = out[p]
    BY DEF Deliver, TypeOK
  <1>2. Line(q)' = Line(q) \o s
    <2> DEFINE t == IF q = q0 THEN taken ELSE <<>>
    <2>0. taken \in Seq(1 .. arrived) /\ <<>> \in Seq(1 .. arrived) /\ arrived \in Nat
      BY DEF TypeOK
    <2>1. t \in Seq(1 .. arrived) /\ out[q] \in Seq(1 .. arrived)
      BY <2>0 DEF TypeOK
    <2>2. Line(q) = t \o out[q] /\ Line(q)' = t \o (out[q] \o s)
      BY <1>1 DEF Line, q0
    <2> DEFINE o == out[q]
    <2>3. o \in Seq(1 .. arrived) /\ Line(q) = t \o o /\ Line(q)' = t \o (o \o s)
      BY <2>1, <2>2
    <2> HIDE DEF t, o
    <2>4. (t \o o) \o s = t \o (o \o s)
      BY <2>0, <2>1, <2>3, Associative
    <2>5. QED  BY <2>3, <2>4
  <1>3. QED  BY <1>1, <1>2 DEF Line, q0

\* Other steps do not touch the lines.
LEMMA LineSame ==
  ASSUME UNCHANGED <<config, taken, out>>
  PROVE  \A q \in Queues : Line(q)' = Line(q)
  BY DEF Line, q0

\* What is taken stays in its line.
LEMMA LineTaken ==
  ASSUME TypeOK, Swap
  PROVE  \A q \in Queues : Line(q)' = Line(q)
  <1> SUFFICES ASSUME NEW q \in Queues PROVE Line(q)' = Line(q)
    OBVIOUS
  <1>1. taken \in Seq(1 .. arrived) /\ out[q] \in Seq(1 .. arrived) /\ config' = config
    BY DEF TypeOK, Swap
  <1>2. CASE q = q0 /\ out[q0] # <<>>
    <2>1. taken' = taken \o out[q] /\ out'[q] = <<>>
      BY <1>2 DEF Swap, TypeOK
    <2>2. Line(q)' = (taken \o out[q]) \o <<>> /\ Line(q) = taken \o out[q]
      BY <1>1, <1>2, <2>1 DEF Line, q0
    <2>3. taken \o out[q] \in Seq(1 .. arrived)
      BY <1>1
    <2>4. QED  BY <2>2, <2>3, Associative
  <1>3. CASE q # q0 \/ out[q0] = <<>>
    BY <1>1, <1>3 DEF Swap, TypeOK, Line, q0
  <1>4. QED  BY <1>2, <1>3

\* Steps that move no datagram keep order and separation.
LEMMA Still ==
  ASSUME Ordered, Apart, UNCHANGED <<config, ring, working, pipe>>, \A q \in Queues : Line(q)' = Line(q)
  PROVE  Ordered' /\ Apart'
  <1>1. Line("rtp")' = Line("rtp") /\ Line("rtcp")' = Line("rtcp") /\ Line("udp")' = Line("udp")
    BY DEF Queues
  <1>2. QED  BY <1>1 DEF Ordered, Apart, Coming

\* A datagram arrives at the end of its ring, or is lost.
LEMMA PushKeeps ==
  ASSUME TypeOK, Ordered, Apart, NEW s \in Sockets, Push(s)
  PROVE  Ordered' /\ Apart'
  <1>1. /\ UNCHANGED <<config, working, pipe, out, taken>>
        /\ ring' = IF Len(ring[s]) < RingSize THEN [ring EXCEPT ![s] = Append(@, arrived + 1)] ELSE ring
    BY DEF Push, worker, caller
  <1>2. Line("rtp")' = Line("rtp") /\ Line("rtcp")' = Line("rtcp") /\ Line("udp")' = Line("udp")
    BY <1>1, LineSame DEF Queues
  <1>3. CASE ~(Len(ring[s]) < RingSize)
    BY <1>1, <1>2, <1>3 DEF Ordered, Apart, Coming
  <1>4. CASE Len(ring[s]) < RingSize
    <2>1. ring'[s] = Append(ring[s], arrived + 1) /\ \A t \in Sockets \ {s} : ring'[t] = ring[t]
      BY <1>1, <1>4 DEF TypeOK
    <2>2. /\ arrived \in Nat
          /\ \A t \in Sockets : ring[t] \in Seq(1 .. arrived) /\ working[t] \in Seq(1 .. arrived)
          /\ \A q \in Queues : Line(q) \in Seq(1 .. arrived)
      BY LineType DEF TypeOK
    <2>3. \A q \in Queues : Sorted(Line(q), working[s], ring[s]) => Sorted(Line(q), working[s], ring'[s])
      BY <2>1, <2>2, SortedPush
    <2>4. Ordered'
      BY <1>1, <1>2, <2>1, <2>3 DEF Ordered, Sockets, Queues
    <2>5. Apart'
      <3>1. CASE s = "rtcp"
        BY <1>1, <1>2, <2>1, <3>1 DEF Apart, Coming, Sockets
      <3>2. CASE s = "rtp"
        <4>1. Range(ring'[s]) \subseteq Range(ring[s]) \cup {arrived + 1}
          <5>1. /\ Len(ring'[s]) = Len(ring[s]) + 1 /\ Len(ring[s]) \in Nat
                /\ DOMAIN ring'[s] = 1 .. Len(ring'[s]) /\ DOMAIN ring[s] = 1 .. Len(ring[s])
                /\ \A i \in 1 .. Len(ring[s]) + 1 :
                     ring'[s][i] = IF i = Len(ring[s]) + 1 THEN arrived + 1 ELSE ring[s][i]
            BY <2>1, <2>2
          <5>2. QED  BY <5>1 DEF Range
        <4>2. Coming' \subseteq Coming \cup {arrived + 1}
          BY <1>1, <3>2, <4>1 DEF Coming
        <4>3. arrived + 1 \notin Range(Line("rtp")) \cup Range(Line("udp")) \cup pipe
          <5>1. Range(Line("rtp")) \subseteq 1 .. arrived /\ Range(Line("udp")) \subseteq 1 .. arrived
            <6>1. Line("rtp") \in Seq(1 .. arrived) /\ Line("udp") \in Seq(1 .. arrived)
              BY <2>2 DEF Queues
            <6>2. QED  BY <6>1, <2>2, RangeType
          <5>2. pipe \subseteq 1 .. arrived /\ arrived + 1 \notin 1 .. arrived
            BY <2>2 DEF TypeOK
          <5>3. QED  BY <5>1, <5>2
        <4>4. QED  BY <1>1, <1>2, <4>2, <4>3 DEF Apart
      <3>3. QED  BY <3>1, <3>2 DEF Sockets
    <2>6. QED  BY <2>4, <2>5
  <1>5. QED  BY <1>3, <1>4

\* The ring is moved to the working queue.
LEMMA DequeueKeeps ==
  ASSUME TypeOK, Ordered, Apart, DequeueRtp \/ DequeueRtcp
  PROVE  Ordered' /\ Apart'
  <1>1. Line("rtp")' = Line("rtp") /\ Line("rtcp")' = Line("rtcp") /\ Line("udp")' = Line("udp")
    BY LineSame DEF DequeueRtp, DequeueRtcp, caller, Queues
  <1>2. UNCHANGED <<config, pipe>>
    BY DEF DequeueRtp, DequeueRtcp
  <1>3. PICK s \in Sockets :
          /\ working'[s] = working[s] \o ring[s] /\ ring'[s] = <<>>
          /\ \A t \in Sockets \ {s} : working'[t] = working[t] /\ ring'[t] = ring[t]
    <2>1. CASE DequeueRtp
      <3>1. /\ working'["rtp"] = working["rtp"] \o ring["rtp"] /\ ring'["rtp"] = <<>>
            /\ \A t \in Sockets \ {"rtp"} : working'[t] = working[t] /\ ring'[t] = ring[t]
        BY <2>1 DEF DequeueRtp, TypeOK, Sockets
      <3>2. QED  BY <3>1 DEF Sockets
    <2>2. CASE DequeueRtcp
      <3>1. /\ working'["rtcp"] = working["rtcp"] \o ring["rtcp"] /\ ring'["rtcp"] = <<>>
            /\ \A t \in Sockets \ {"rtcp"} : working'[t] = working[t] /\ ring'[t] = ring[t]
        BY <2>2 DEF DequeueRtcp, TypeOK, Sockets
      <3>2. QED  BY <3>1 DEF Sockets
    <2>3. QED  BY <2>1, <2>2
  <1>4. /\ arrived \in Nat /\ ring[s] \in Seq(1 .. arrived) /\ working[s] \in Seq(1 .. arrived)
        /\ \A q \in Queues : Line(q) \in Seq(1 .. arrived)
    BY LineType DEF TypeOK
  <1>5. \A q \in Queues : Sorted(Line(q), working[s], ring[s]) => Sorted(Line(q), working'[s], ring'[s])
    BY <1>3, <1>4, SortedDequeue
  <1>6. Ordered'
    BY <1>1, <1>2, <1>3, <1>5 DEF Ordered, Sockets, Queues
  <1>7. Range(working'[s]) = Range(working[s]) \cup Range(ring[s]) /\ Range(ring'[s]) = {}
    <2>1. Range(<<>>) = {}
      BY DEF Range
    <2>2. Range(working[s] \o ring[s]) = Range(working[s]) \cup Range(ring[s])
      BY <1>4, JoinedRange
    <2>3. QED  BY <1>3, <2>1, <2>2
  <1>8. Coming' = Coming
    BY <1>3, <1>7 DEF Coming, Sockets
  <1>9. QED  BY <1>1, <1>2, <1>6, <1>8 DEF Apart

\* All datagrams go to one queue.
LEMMA DealAllKeeps ==
  ASSUME TypeOK, Ordered, Apart, NEW q \in {"rtp", "udp"}, DealAll(q), config.mode # "reorder"
  PROVE  Ordered' /\ Apart'
  <1> DEFINE w == working["rtp"]
             r == ring["rtp"]
  <1>1. /\ arrived \in Nat /\ r \in Seq(1 .. arrived) /\ w \in Seq(1 .. arrived)
        /\ \A p \in Queues : Line(p) \in Seq(1 .. arrived)
    BY LineType DEF TypeOK, Sockets
  <1>2. UNCHANGED <<config, pipe, ring, taken, arrived>> /\ Deliver(q, w) /\ q \in Queues
    BY DEF DealAll, caller, Queues
  <1>3. /\ working'["rtp"] = <<>> /\ working'["rtcp"] = working["rtcp"]
        /\ ring'["rtp"] = r /\ ring'["rtcp"] = ring["rtcp"]
    BY <1>2 DEF DealAll, TypeOK, Sockets
  <1>4. /\ Line(q)' = Line(q) \o w
        /\ \A p \in Queues \ {q} : Line(p)' = Line(p)
    BY <1>1, <1>2, LineDelivered
  <1>5. Range(Line(q)') = Range(Line(q)) \cup Range(w) /\ Coming = Range(w) \cup Range(r) /\ Coming' = Range(r)
    <2>1. Range(<<>>) = {}
      BY DEF Range
    <2>2. Range(Line(q) \o w) = Range(Line(q)) \cup Range(w)
      BY <1>1, <1>2, JoinedRange
    <2>3. QED  BY <1>3, <1>4, <2>1, <2>2 DEF Coming
  <1>6. Sorted(Line("udp"), w, r) /\ Sorted(Line("rtp"), w, r)
    BY DEF Ordered
  <1>7. \A p \in {"rtp", "udp"} : Sorted(Line(p) \o w, <<>>, r) /\ Sorted(Line(p), <<>>, r)
    <2>1. "rtp" \in Queues /\ "udp" \in Queues
      BY DEF Queues
    <2>2. QED  BY <1>1, <1>6, <2>1, SortedAll
  <1>8. IsInjective(w) /\ \A x \in Range(w) : x \notin Range(r) /\ x \notin Range(Line("udp")) /\ x \notin Range(Line("rtp"))
    <2>1. IsInjective(w)
      BY <1>1, <1>6, IncreasingInjective DEF Sorted
    <2>2. Range(w) \subseteq 1 .. arrived
      BY <1>1, RangeType
    <2>3. QED  BY <1>6, <2>1, <2>2 DEF Sorted
  <1> HIDE DEF w, r
  <1>9. Ordered'
    <2>1. Line("rtcp")' = Line("rtcp")
      BY <1>4 DEF Queues
    <2>2. \A p \in {"rtp", "udp"} : Line(p)' = Line(p) \/ Line(p)' = Line(p) \o w
      BY <1>4 DEF Queues
    <2>3. Sorted(Line("udp")', working'["rtp"], ring'["rtp"]) /\ Sorted(Line("rtp")', working'["rtp"], ring'["rtp"])
      BY <2>2, <1>3, <1>7
    <2>4. QED  BY <1>2, <1>3, <2>1, <2>3 DEF Ordered
  <1>10. Apart'
    <2>1. CASE q = "rtp"
      <3>1. IsInjective(Line("rtp")')
        <4>1. Line("rtp") \in Seq(1 .. arrived) /\ IsInjective(Line("rtp")) /\ Range(Line("rtp")) \cap Range(w) = {}
          BY <1>1, <1>8 DEF Apart, Queues
        <4>2. IsInjective(Line("rtp") \o w)
          BY <1>1, <1>8, <4>1, JoinedInjective DEF w
        <4>3. QED  BY <1>4, <2>1, <4>2
      <3>2. Line("udp")' = Line("udp")
        BY <1>4, <2>1 DEF Queues
      <3>3. QED  BY <1>2, <1>5, <1>8, <2>1, <3>1, <3>2 DEF Apart
    <2>2. CASE q = "udp"
      <3>1. Line("rtp")' = Line("rtp")
        BY <1>4, <2>2 DEF Queues
      <3>2. QED  BY <1>2, <1>5, <1>8, <2>2, <3>1 DEF Apart
    <2>3. QED  BY <2>1, <2>2
  <1>11. QED  BY <1>9, <1>10

\* A datagram that is not RTP goes to the UDP queue or is dropped.
LEMMA DealOtherKeeps ==
  ASSUME TypeOK, Ordered, Apart, DealOther, config.mode = "reorder"
  PROVE  Ordered' /\ Apart'
  <1> DEFINE w == working["rtp"]
             r == ring["rtp"]
             h == Head(working["rtp"])
             t == Tail(working["rtp"])
             one == <<Head(working["rtp"])>>
  <1>1. /\ arrived \in Nat /\ r \in Seq(1 .. arrived) /\ w \in Seq(1 .. arrived) /\ w # <<>>
        /\ \A p \in Queues : Line(p) \in Seq(1 .. arrived)
    BY LineType DEF TypeOK, Sockets, DealOther
  <1>2. UNCHANGED <<config, pipe, ring, taken, arrived>>
    BY DEF DealOther, caller
  <1>3. /\ working'["rtp"] = t /\ working'["rtcp"] = working["rtcp"]
        /\ ring'["rtp"] = r /\ ring'["rtcp"] = ring["rtcp"]
    BY <1>2 DEF DealOther, TypeOK, Sockets
  <1>4. Sorted(Line("udp"), w, r)
    BY DEF Ordered
  <1>5. /\ h \in 1 .. arrived /\ one \in Seq(1 .. arrived) /\ Range(w) = {h} \cup Range(t) /\ Range(one) = {h}
        /\ \A y \in Range(t) : h < y
    BY <1>1, <1>4, HeadTailSorted DEF Sorted
  <1>6. Sorted(Line("udp") \o one, t, r) /\ Sorted(Line("udp"), t, r)
    <2>1. "udp" \in Queues
      BY DEF Queues
    <2>2. QED  BY <1>1, <1>4, <2>1, SortedOne
  <1>7. \/ Line("udp")' = Line("udp")
        \/ Line("udp")' = Line("udp") \o one
    <2>1. CASE notifier["udp"] # NoNotifier
      <3>1. Deliver("udp", one) /\ "udp" \in Queues
        BY <2>1 DEF DealOther, Queues
      <3>2. QED  BY <1>2, <1>5, <3>1, LineDelivered
    <2>2. CASE notifier["udp"] = NoNotifier
      BY <1>2, <2>2, LineSame DEF DealOther, Queues
    <2>3. QED  BY <2>1, <2>2
  <1>8. Line("rtp")' = Line("rtp") /\ Line("rtcp")' = Line("rtcp")
    <2>1. CASE notifier["udp"] # NoNotifier
      <3>1. Deliver("udp", one) /\ "udp" \in Queues
        BY <2>1 DEF DealOther, Queues
      <3>2. \A p \in Queues \ {"udp"} : Line(p)' = Line(p)
        BY <1>2, <1>5, <3>1, LineDelivered
      <3>3. QED  BY <3>2 DEF Queues
    <2>2. CASE notifier["udp"] = NoNotifier
      BY <1>2, <2>2, LineSame DEF DealOther, Queues
    <2>3. QED  BY <2>1, <2>2
  <1>9. Range(Line("udp") \o one) = Range(Line("udp")) \cup {h}
    <2>1. Line("udp") \in Seq(1 .. arrived)
      BY <1>1 DEF Queues
    <2> HIDE DEF one
    <2>2. Range(Line("udp") \o one) = Range(Line("udp")) \cup Range(one)
      BY <1>1, <1>5, <2>1, JoinedRange
    <2>3. QED  BY <1>5, <2>2
  <1>10. Coming = Range(w) \cup Range(r) /\ Coming' = Range(t) \cup Range(r)
    BY <1>3 DEF Coming
  <1> HIDE DEF w, r, h, t, one
  <1>11. Ordered'
    BY <1>2, <1>3, <1>6, <1>7, <1>8 DEF Ordered
  <1>12. Apart'
    BY <1>2, <1>5, <1>7, <1>8, <1>9, <1>10 DEF Apart
  <1>13. QED  BY <1>11, <1>12

\* A datagram goes through the pipes, which put out some of what they hold.
LEMMA DealRtpKeeps ==
  ASSUME TypeOK, Ordered, Apart, DealRtp, config.mode = "reorder"
  PROVE  Ordered' /\ Apart'
  <1> DEFINE w == working["rtp"]
             r == ring["rtp"]
             h == Head(working["rtp"])
             t == Tail(working["rtp"])
             held == pipe \cup {Head(working["rtp"])}
  <1>1. /\ arrived \in Nat /\ r \in Seq(1 .. arrived) /\ w \in Seq(1 .. arrived) /\ w # <<>>
        /\ \A p \in Queues : Line(p) \in Seq(1 .. arrived)
    BY LineType DEF TypeOK, Sockets, DealRtp
  <1>2. UNCHANGED <<config, ring, taken, arrived>>
    BY DEF DealRtp, caller
  <1>3. /\ working'["rtp"] = t /\ working'["rtcp"] = working["rtcp"]
        /\ ring'["rtp"] = r /\ ring'["rtcp"] = ring["rtcp"]
    BY <1>2 DEF DealRtp, TypeOK, Sockets
  <1>4. Sorted(Line("udp"), w, r)
    BY DEF Ordered
  <1>5. /\ h \in 1 .. arrived /\ Range(w) = {h} \cup Range(t)
        /\ \A y \in Range(t) : h < y
    BY <1>1, <1>4, HeadTailSorted DEF Sorted
  <1>6. Sorted(Line("udp"), t, r)
    <2>1. "udp" \in Queues
      BY DEF Queues
    <2>2. QED  BY <1>1, <1>4, <2>1, SortedOne
  <1>7. PICK s \in Outputs(held) :
          /\ pipe' \in SUBSET (held \ Range(s))
          /\ IF s # <<>>
             THEN Deliver("rtp", s)
             ELSE /\ empty' = [empty EXCEPT !["rtp"] = (out["rtp"] = <<>>)]
                  /\ UNCHANGED <<out, got, unannounced>>
    BY DEF DealRtp
  <1>8. held = pipe \cup {h} /\ held \in SUBSET (1 .. arrived)
    BY <1>5 DEF TypeOK
  <1>9. Coming = Range(w) \cup Range(r) /\ Coming' = Range(t) \cup Range(r)
    BY <1>3 DEF Coming
  <1> HIDE DEF w, r, h, t, held
  <1>10. s \in Seq(1 .. arrived) /\ Range(s) \subseteq held /\ IsInjective(s)
    BY <1>1, <1>8, OutputsAre
  <1>11. Line("udp")' = Line("udp") /\ Line("rtcp")' = Line("rtcp") /\ Line("rtp")' = Line("rtp") \o s
    <2>1. CASE s # <<>>
      <3>1. Deliver("rtp", s) /\ "rtp" \in Queues
        BY <1>7, <2>1 DEF Queues
      <3>2. Line("rtp")' = Line("rtp") \o s /\ \A p \in Queues \ {"rtp"} : Line(p)' = Line(p)
        BY <1>2, <1>10, <3>1, LineDelivered
      <3>3. QED  BY <3>2 DEF Queues
    <2>2. CASE s = <<>>
      <3>1. \A p \in Queues : Line(p)' = Line(p)
        BY <1>2, <1>7, <2>2, LineSame
      <3>2. Line("rtp") \in Seq(1 .. arrived)
        BY <1>1 DEF Queues
      <3>3. Line("rtp") \o s = Line("rtp")
        BY <1>1, <2>2, <3>2, Associative
      <3>4. QED  BY <3>1, <3>3 DEF Queues
    <2>3. QED  BY <2>1, <2>2
  <1>12. Ordered'
    BY <1>2, <1>3, <1>6, <1>11 DEF Ordered
  <1>13. h \notin Range(t) /\ h \notin Range(r) /\ h \notin Range(Line("udp"))
    BY <1>4, <1>5 DEF Sorted
  <1>14. Range(Line("rtp")') = Range(Line("rtp")) \cup Range(s) /\ IsInjective(Line("rtp")')
    <2>1. Line("rtp") \in Seq(1 .. arrived)
      BY <1>1 DEF Queues
    <2>2. Range(Line("rtp") \o s) = Range(Line("rtp")) \cup Range(s)
      BY <1>1, <1>10, <2>1, JoinedRange
    <2>3. Range(Line("rtp")) \cap Range(s) = {}
      BY <1>5, <1>8, <1>9, <1>10 DEF Apart
    <2>4. IsInjective(Line("rtp") \o s)
      BY <1>10, <2>1, <2>3, JoinedInjective DEF Apart
    <2>5. QED  BY <1>11, <2>2, <2>4
  <1>15. Apart'
    <2>1. pipe' \subseteq held /\ pipe' \cap Range(s) = {}
      BY <1>7
    <2>2. Range(Line("udp")') = Range(Line("udp")) /\ Coming' \subseteq Coming /\ h \in Coming /\ h \notin Coming'
      BY <1>5, <1>9, <1>11, <1>13
    <2>3. h \notin Range(Line("rtp"))
      BY <2>2 DEF Apart
    <2>4. pipe' \cap (Range(Line("rtp")') \cup Coming') = {}
      BY <1>8, <1>14, <2>1, <2>2, <2>3 DEF Apart
    <2>5. Range(Line("rtp")') \cap Coming' = {}
      BY <1>8, <1>10, <1>14, <2>2 DEF Apart
    <2>6. Range(Line("udp")') \cap (Range(Line("rtp")') \cup pipe') = {}
      BY <1>8, <1>10, <1>13, <1>14, <2>1, <2>2 DEF Apart
    <2>7. IsInjective(Line("rtp")')
      BY <1>14
    <2> DEFINE lr == Line("rtp")
               lu == Line("udp")
    <2>8. /\ IsInjective(lr') /\ pipe' \cap (Range(lr') \cup Coming') = {}
          /\ Range(lr') \cap Coming' = {} /\ Range(lu') \cap (Range(lr') \cup pipe') = {}
      BY <2>4, <2>5, <2>6, <2>7
    <2>9. QED  BY <2>8 DEF Apart
  <1>16. QED  BY <1>12, <1>15

\* An RTCP packet is delivered, or dropped.
LEMMA DealRtcpKeeps ==
  ASSUME TypeOK, Ordered, Apart, DealRtcp
  PROVE  Ordered' /\ Apart'
  <1> DEFINE w == working["rtcp"]
             r == ring["rtcp"]
             t == Tail(working["rtcp"])
             one == <<Head(working["rtcp"])>>
  <1>1. /\ arrived \in Nat /\ r \in Seq(1 .. arrived) /\ w \in Seq(1 .. arrived) /\ w # <<>>
        /\ \A p \in Queues : Line(p) \in Seq(1 .. arrived)
    BY LineType DEF TypeOK, Sockets, DealRtcp
  <1>2. UNCHANGED <<config, pipe, ring, taken, arrived>>
    BY DEF DealRtcp, caller
  <1>3. /\ working'["rtcp"] = t /\ working'["rtp"] = working["rtp"]
        /\ ring'["rtp"] = ring["rtp"] /\ ring'["rtcp"] = r
    BY <1>2 DEF DealRtcp, TypeOK, Sockets
  <1>4. one \in Seq(1 .. arrived)
    BY <1>1, HeadTailSorted
  <1>5. Sorted(Line("rtcp") \o one, t, r) /\ Sorted(Line("rtcp"), t, r)
    <2>1. "rtcp" \in Queues /\ Sorted(Line("rtcp"), w, r)
      BY DEF Queues, Ordered
    <2>2. QED  BY <1>1, <2>1, SortedOne
  <1>6. /\ Line("rtcp")' = Line("rtcp") \/ Line("rtcp")' = Line("rtcp") \o one
        /\ Line("rtp")' = Line("rtp") /\ Line("udp")' = Line("udp")
    <2>1. CASE notifier["rtcp"] # NoNotifier
      <3>1. Deliver("rtcp", one) /\ "rtcp" \in Queues
        BY <2>1 DEF DealRtcp, Queues
      <3>2. Line("rtcp")' = Line("rtcp") \o one /\ \A p \in Queues \ {"rtcp"} : Line(p)' = Line(p)
        BY <1>2, <1>4, <3>1, LineDelivered
      <3>3. QED  BY <3>2 DEF Queues
    <2>2. CASE notifier["rtcp"] = NoNotifier
      BY <1>2, <2>2, LineSame DEF DealRtcp, Queues
    <2>3. QED  BY <2>1, <2>2
  <1> HIDE DEF w, r, t, one
  <1>7. Ordered'
    BY <1>2, <1>3, <1>5, <1>6 DEF Ordered
  <1>8. Apart'
    BY <1>2, <1>3, <1>6 DEF Apart, Coming
  <1>9. QED  BY <1>7, <1>8

\* Every step keeps order and separation.
LEMMA OrderStep ==
  ASSUME TypeOK, Ordered, Apart, [Next]_vars
  PROVE  Ordered' /\ Apart'
  <1>1. CASE \E s \in Sockets : Push(s)
    BY <1>1, PushKeeps
  <1>2. CASE DequeueRtp \/ DequeueRtcp
    BY <1>2, DequeueKeeps
  <1>3. CASE Deal
    BY <1>3, DealAllKeeps, DealOtherKeeps, DealRtpKeeps, Still, LineSame
       DEF Deal, DealNothing, worker, caller
  <1>4. CASE DealRtcp
    BY <1>4, DealRtcpKeeps
  <1>5. CASE Swap
    <2>1. UNCHANGED <<config, ring, working, pipe>>
      BY <1>5 DEF Swap, worker
    <2>2. QED  BY <1>5, <2>1, LineTaken, Still
  <1>6. CASE DealtRtcp \/ Notify \/ Test \/ WorkerTimeout \/ WakeUp \/ Receive \/ WaitNotify \/ CallerTimeout
             \/ Stop \/ UNCHANGED vars
    <2>1. UNCHANGED <<config, ring, working, pipe, taken, out>>
      BY <1>6 DEF DealtRtcp, Notify, Test, WorkerTimeout, WakeUp, Receive, WaitNotify, CallerTimeout, Stop,
                  vars, worker, caller
    <2>2. QED  BY <2>1, LineSame, Still
  <1>7. QED  BY <1>1, <1>2, <1>3, <1>4, <1>5, <1>6 DEF Next, recvWorker, Taking

\* Who has to be told is told before the worker looks for more.
LEMMA ToldStep ==
  ASSUME TypeOK, Told, [Next]_vars
  PROVE  Told'
  <1>1. CASE \E s \in Sockets : Push(s)
    BY <1>1 DEF Push, Woken, Told, Untold, notifier, worker
  <1>2. CASE DequeueRtp
    BY <1>2 DEF DequeueRtp, Goto, Told, Untold, notifier
  <1>3. ASSUME NEW q \in Queues, NEW s, Deliver(q, s), UNCHANGED config, pc = "deal" \/ pc = "dealRtcp",
               pc' \in {"deal", "rtcp", "dealRtcp", "notify"}
        PROVE  Told'
    BY <1>3 DEF Deliver, Told, Untold, notifier
  <1>4. CASE Deal
    BY <1>3, <1>4 DEF Deal, DealAll, DealOther, DealRtp, DealNothing, Goto, Queues, Told, Untold, notifier, worker
  <1>5. CASE DealRtcp
    BY <1>3, <1>5 DEF DealRtcp, Queues, Told, Untold, notifier
  <1>6. CASE DequeueRtcp \/ DealtRtcp
    BY <1>6 DEF DequeueRtcp, DealtRtcp, Goto, Told, Untold, notifier, worker
  <1>7. CASE Notify
    <2>1. \A q \in unannounced' : q \in unannounced /\ ~(Untold(q) /\ q \in got)
      <3>1. \A q \in Queues : Untold(q) /\ q \in got => Notifies(q)
        BY DEF Untold, Notifies
      <3>2. QED  BY <1>7, <3>1 DEF Notify, TypeOK
    <2>2. UNCHANGED config
      BY <1>7 DEF Notify
    <2>3. QED  BY <2>1, <2>2 DEF Told, Untold, notifier
  <1>8. CASE Test \/ WorkerTimeout \/ WakeUp \/ Stop
    BY <1>8 DEF Test, WorkerTimeout, WakeUp, Stop, Woken, Goto, Told, Untold, notifier, worker
  <1>9. CASE Taking \/ UNCHANGED vars
    BY <1>9 DEF Taking, Receive, Swap, WaitNotify, CallerTimeout, vars, Told, Untold, notifier, worker
  <1>10. QED  BY <1>1, <1>2, <1>4, <1>5, <1>6, <1>7, <1>8, <1>9 DEF Next, recvWorker

-----------------------------------------------------------------------------
(* The theorems. *)

\* A transceiver that has just been opened has received nothing.
LEMMA InvInit == Init => Inv
  <1> SUFFICES ASSUME Init PROVE Inv
    OBVIOUS
  <1>1. \A q \in Queues : Line(q) = <<>>
    BY Associative DEF Init, Line
  <1>2. Range(<<>>) = {} /\ Increasing(<<>>) /\ IsInjective(<<>>)
    BY DEF Range, Increasing, IsInjective
  <1>3. Ordered
    BY <1>1, <1>2 DEF Init, Ordered, Sorted, Sockets, Queues
  <1>4. Apart
    BY <1>1, <1>2 DEF Init, Apart, Coming, Sockets, Queues
  <1>5. QED  BY <1>3, <1>4, TypeInit DEF Init, Inv, Told

LEMMA InvStep == Inv /\ [Next]_vars => Inv'
  BY TypeStep, OrderStep, ToldStep DEF Inv

LEMMA Invariance == Spec => []Inv
  BY InvInit, InvStep, PTL DEF Spec

\* Every variable keeps its type, and no ring holds more than fits.
THEOREM Typed == Spec => []TypeOK
  <1>1. Inv => TypeOK
    BY DEF Inv
  <1>2. QED  BY <1>1, Invariance, PTL

\* What is not reordered is received in the order of arrival, and no datagram twice.
THEOREM Received_once_in_order == Spec => []ReceivedOnceInOrder
  <1>1. Inv => ReceivedOnceInOrder
    <2> SUFFICES ASSUME Inv PROVE ReceivedOnceInOrder
      OBVIOUS
    <2>1. /\ arrived \in Nat
          /\ \A s \in Sockets : ring[s] \in Seq(1 .. arrived) /\ working[s] \in Seq(1 .. arrived)
          /\ \A q \in Queues : Line(q) \in Seq(1 .. arrived)
      BY LineType DEF Inv, TypeOK
    <2>2. \A q \in Queues, s \in Sockets :
            Sorted(Line(q), working[s], ring[s]) => Increasing(Line(q) \o Behind(s))
      BY <2>1, SortedIs DEF Behind
    <2>3. InOrder
      BY <2>2 DEF Inv, Ordered, InOrder, Queues, Sockets
    <2>4. Range(Behind("rtp")) = Coming
      BY <2>1, JoinedRange DEF Behind, Coming, Sockets
    <2>5. Once
      BY <2>4 DEF Inv, Apart, Once
    <2>6. QED  BY <2>3, <2>5 DEF ReceivedOnceInOrder
  <1>2. QED  BY <1>1, Invariance, PTL

\* Whoever has a notifier of its own, or the first one, is told before the worker waits.
THEOREM Announced == Spec => []AnnouncedUnlessShared
  <1>1. Inv => AnnouncedUnlessShared
    BY DEF Inv, Told, Untold, AnnouncedUnlessShared
  <1>2. QED  BY <1>1, Invariance, PTL

=============================================================================

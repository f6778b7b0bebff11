------------------------- MODULE BytesCounterProofs -------------------------
(***************************************************************************)
(* For any ring, interval, units and packets, and a clock that may be set  *)
(* back: count is exact, no window holds more than the limit, and update   *)
(* throws only when time has gone back.                                    *)
(*                                                                         *)
(* The argument is RingInv: each counter that lies less than countRange    *)
(* units before currIndex holds the bytes of its own unit, and no unit     *)
(* after the last packet has any.  A step along the ring clears the units  *)
(* it passes, a restart what count reads behind index 0, so what an older  *)
(* turn of the ring has left is never read.  The sums are recursive        *)
(* functions, which exist by induction on their length.                    *)
(***************************************************************************)
EXTENDS BytesCounter, WellFoundedInduction, TLAPS

-----------------------------------------------------------------------------
(* Sums. *)

\* Induction on the naturals, with the property as a set.
LEMMA NatIsClosed ==
  ASSUME NEW T, 0 \in T, \A m \in Nat : m \in T => m + 1 \in T
  PROVE  Nat \subseteq T
  <1> DEFINE Bad == { m \in Nat : m \notin T }
  <1>1. SUFFICES ASSUME Bad # {} PROVE FALSE
    OBVIOUS
  <1>2. \E m \in Bad : \A j \in Bad : ~(<<j, m>> \in OpToRel(<, Nat))
    <2>1. Bad \subseteq Nat
      OBVIOUS
    <2>2. QED  BY <1>1, <2>1, NatLessThanWellFounded, WFMin, Zenon
  <1>3. PICK m \in Bad : \A j \in Bad : ~(j < m)
    BY <1>2 DEF OpToRel
  <1>4. m \in Nat /\ m \notin T
    OBVIOUS
  <1>5. m - 1 \in Nat /\ m - 1 < m
    BY <1>4
  <1>6. m - 1 \in T
    BY <1>3, <1>5
  <1>7. (m - 1) + 1 \in T
    BY <1>5, <1>6
  <1>8. QED  BY <1>4, <1>7

\* g has the sums of the first values of f.
Sums(g, f, n) ==
  /\ g \in [0 .. n -> Nat]
  /\ \A i \in 0 .. n : g[i] = IF i = 0 THEN 0 ELSE g[i - 1] + f[i]

\* Any number of values has sums.
LEMMA SumsExist ==
  ASSUME NEW f, NEW n \in Nat, \A i \in 1 .. n : f[i] \in Nat
  PROVE  \E g : Sums(g, f, n)
  <1> DEFINE T == { m \in Nat : m <= n => \E g : Sums(g, f, m) }
  <1>1. 0 \in T
    <2>1. Sums([i \in 0 .. 0 |-> 0], f, 0)
      BY DEF Sums
    <2>2. QED  BY <2>1
  <1>2. ASSUME NEW m \in Nat, m \in T PROVE m + 1 \in T
    <2>1. SUFFICES ASSUME m + 1 <= n PROVE \E g : Sums(g, f, m + 1)
      OBVIOUS
    <2>2. m <= n /\ f[m + 1] \in Nat
      BY <2>1
    <2>3. PICK g : Sums(g, f, m)
      BY <1>2, <2>2
    <2> DEFINE h == [i \in 0 .. m + 1 |-> IF i = m + 1 THEN g[m] + f[m + 1] ELSE g[i]]
    <2>4. \A i \in 0 .. m : g[i] \in Nat /\ g[i] = IF i = 0 THEN 0 ELSE g[i - 1] + f[i]
      BY <2>3 DEF Sums
    <2>5. h \in [0 .. m + 1 -> Nat] /\ h[m + 1] = g[m] + f[m + 1] /\ \A i \in 0 .. m : h[i] = g[i]
      <3>1. g[m] + f[m + 1] \in Nat
        BY <2>2, <2>4
      <3>2. QED  BY <2>4, <3>1
    <2> HIDE DEF h
    <2>6. ASSUME NEW i \in 0 .. m + 1 PROVE h[i] = IF i = 0 THEN 0 ELSE h[i - 1] + f[i]
      <3>1. CASE i = m + 1
        <4>1. i # 0 /\ i - 1 = m /\ m \in 0 .. m
          BY <3>1
        <4>2. QED  BY <2>5, <3>1, <4>1
      <3>2. CASE i \in 0 .. m
        <4>1. i # 0 => i - 1 \in 0 .. m
          BY <3>2
        <4>2. QED  BY <2>4, <2>5, <3>2, <4>1
      <3>3. QED  BY <3>1, <3>2
    <2>7. QED  BY <2>5, <2>6 DEF Sums
  <1> HIDE DEF T
  <1>3. Nat \subseteq T
    BY <1>1, <1>2, NatIsClosed
  <1>4. QED  BY <1>3 DEF T

\* What Total computes: the last of the sums.
LEMMA TotalIs ==
  ASSUME NEW f, NEW n \in Nat, \A i \in 1 .. n : f[i] \in Nat
  PROVE  \E g \in [0 .. n -> Nat] :
            /\ g[0] = 0
            /\ \A i \in 1 .. n : g[i] = g[i - 1] + f[i]
            /\ Total(f, n) = g[n]
  <1> DEFINE IsTotal(h) == h = [i \in 0 .. n |-> IF i = 0 THEN 0 ELSE h[i - 1] + f[i]]
             F == CHOOSE h : IsTotal(h)
  <1>1. Total(f, n) = F[n]
    BY DEF Total
  <1>2. IsTotal(F)
    <2>1. PICK h : Sums(h, f, n)
      BY SumsExist
    <2>2. IsTotal(h)
      BY <2>1 DEF Sums
    <2>3. QED  BY <2>2
  <1>3. \A i \in 0 .. n : F[i] = IF i = 0 THEN 0 ELSE F[i - 1] + f[i]
    BY <1>2
  <1>4. DOMAIN F = 0 .. n /\ F = [i \in 0 .. n |-> F[i]]
    BY <1>2
  <1> HIDE DEF F
  <1> DEFINE T == { m \in Nat : m <= n => F[m] \in Nat }
  <1>5. 0 \in T
    BY <1>3
  <1>6. ASSUME NEW m \in Nat, m \in T PROVE m + 1 \in T
    <2>1. SUFFICES ASSUME m + 1 <= n PROVE F[m + 1] \in Nat
      OBVIOUS
    <2>2. m + 1 \in 0 .. n /\ m + 1 # 0 /\ (m + 1) - 1 = m /\ F[m] \in Nat /\ f[m + 1] \in Nat
      BY <1>6, <2>1
    <2>3. F[m + 1] = F[(m + 1) - 1] + f[m + 1]
      BY <1>3, <2>2
    <2>4. QED  BY <2>2, <2>3
  <1> HIDE DEF T
  <1>7. Nat \subseteq T
    BY <1>5, <1>6, NatIsClosed
  <1>8. \A i \in 0 .. n : F[i] \in Nat
    BY <1>7 DEF T
  <1>9. F \in [0 .. n -> Nat]
    BY <1>4, <1>8
  <1>10. F[0] = 0 /\ \A i \in 1 .. n : F[i] = F[i - 1] + f[i]
    BY <1>3
  <1>11. QED  BY <1>1, <1>9, <1>10

\* A total is a natural number.
LEMMA TotalType ==
  ASSUME NEW f, NEW n \in Nat, \A i \in 1 .. n : f[i] \in Nat
  PROVE  Total(f, n) \in Nat
  BY TotalIs

\* If the values do not grow but one, by size at most, neither does the total.
LEMMA TotalGrows ==
  ASSUME NEW f, NEW h, NEW n \in Nat, NEW j \in Int, NEW size \in Nat,
         \A i \in 1 .. n : /\ f[i] \in Nat /\ h[i] \in Nat
                           /\ h[i] <= f[i] + (IF i = j THEN size ELSE 0)
  PROVE  /\ Total(h, n) <= Total(f, n) + size
         /\ j \notin 1 .. n => Total(h, n) <= Total(f, n)
  <1>1. PICK a \in [0 .. n -> Nat] : a[0] = 0 /\ (\A i \in 1 .. n : a[i] = a[i - 1] + f[i]) /\ Total(f, n) = a[n]
    BY TotalIs
  <1>2. PICK b \in [0 .. n -> Nat] : b[0] = 0 /\ (\A i \in 1 .. n : b[i] = b[i - 1] + h[i]) /\ Total(h, n) = b[n]
    BY TotalIs
  <1> DEFINE Extra(m) == IF j \in 1 .. m THEN size ELSE 0
             T == { m \in Nat : m <= n => b[m] <= a[m] + Extra(m) }
  <1>3. 0 \in T
    BY <1>1, <1>2
  <1>4. ASSUME NEW m \in Nat, m \in T PROVE m + 1 \in T
    <2>1. SUFFICES ASSUME m + 1 <= n PROVE b[m + 1] <= a[m + 1] + Extra(m + 1)
      OBVIOUS
    <2>2. m + 1 \in 1 .. n /\ (m + 1) - 1 = m /\ m \in 0 .. n /\ b[m] <= a[m] + Extra(m)
      BY <1>4, <2>1
    <2>3. a[m + 1] = a[(m + 1) - 1] + f[m + 1] /\ b[m + 1] = b[(m + 1) - 1] + h[m + 1]
      BY <1>1, <1>2, <2>2
    <2> DEFINE more == IF m + 1 = j THEN size ELSE 0
    <2>4. a[m] \in Nat /\ b[m] \in Nat /\ f[m + 1] \in Nat /\ h[m + 1] \in Nat
          /\ h[m + 1] <= f[m + 1] + more
      BY <1>1, <1>2, <2>2
    <2>5. Extra(m + 1) = Extra(m) + more /\ Extra(m) \in Nat /\ more \in Nat
      BY <2>2
    <2> HIDE DEF more
    <2> HIDE DEF Extra
    <2>6. a[m + 1] = a[m] + f[m + 1] /\ b[m + 1] = b[m] + h[m + 1]
      BY <2>2, <2>3
    <2>7. PICK e \in Nat : e = Extra(m)
      BY <2>5
    <2>8. b[m] + h[m + 1] <= (a[m] + f[m + 1]) + (e + more)
      <3>1. b[m] <= a[m] + e
        BY <2>2, <2>7
      <3>2. h[m + 1] <= f[m + 1] + more
        BY <2>4
      <3>3. PICK x1 \in Nat, x2 \in Nat, x3 \in Nat, x4 \in Nat, x5 \in Nat :
              x1 = b[m] /\ x2 = a[m] /\ x3 = h[m + 1] /\ x4 = f[m + 1] /\ x5 = more
        BY <2>4, <2>5
      <3>4. x1 <= x2 + e
        BY <3>1, <3>3
      <3>5. x3 <= x4 + x5
        BY <3>2, <3>3
      <3>6. x1 + x3 <= (x2 + x4) + (e + x5)
        BY <3>4, <3>5
      <3>7. QED  BY <3>3, <3>6
    <2>9. Extra(m + 1) = e + more
      BY <2>5, <2>7
    <2>10. QED  BY <2>6, <2>8, <2>9
  <1> HIDE DEF T
  <1>5. Nat \subseteq T
    BY <1>3, <1>4, NatIsClosed
  <1>6. b[n] <= a[n] + Extra(n) /\ a[n] \in Nat /\ b[n] \in Nat
    BY <1>5 DEF T
  <1>7. QED  BY <1>1, <1>2, <1>6

\* Equal values have equal totals.
LEMMA TotalAgrees ==
  ASSUME NEW f, NEW h, NEW n \in Nat, \A i \in 1 .. n : f[i] \in Nat /\ h[i] = f[i]
  PROVE  Total(h, n) = Total(f, n)
  <1>1. 0 \in Int /\ 0 \in Nat /\ 0 \notin 1 .. n
    OBVIOUS
  <1>2. \A i \in 1 .. n : f[i] \in Nat /\ h[i] \in Nat /\ h[i] <= f[i] + (IF i = 0 THEN 0 ELSE 0)
                          /\ f[i] <= h[i] + (IF i = 0 THEN 0 ELSE 0)
    OBVIOUS
  <1>3. Total(h, n) <= Total(f, n)
    BY <1>1, <1>2, TotalGrows
  <1>4. Total(f, n) <= Total(h, n)
    BY <1>1, <1>2, TotalGrows
  <1>5. Total(h, n) \in Nat /\ Total(f, n) \in Nat
    BY <1>2, TotalType
  <1>6. QED  BY <1>3, <1>4, <1>5

\* A total in two parts.
LEMMA TotalSplits ==
  ASSUME NEW f, NEW s \in Nat, NEW m \in Nat, \A i \in 1 .. s + m : f[i] \in Nat
  PROVE  Total(f, s + m) = Total(f, s) + Total([i \in 1 .. m |-> f[s + i]], m)
  <1> DEFINE n == s + m
             t == [i \in 1 .. m |-> f[s + i]]
  <1>0. n \in Nat /\ n >= s
    OBVIOUS
  <1>1. PICK a \in [0 .. n -> Nat] : a[0] = 0 /\ (\A i \in 1 .. n : a[i] = a[i - 1] + f[i]) /\ Total(f, n) = a[n]
    <2> HIDE DEF n
    <2>1. QED  BY <1>0, TotalIs DEF n
  <1>2. PICK b \in [0 .. s -> Nat] : b[0] = 0 /\ (\A i \in 1 .. s : b[i] = b[i - 1] + f[i]) /\ Total(f, s) = b[s]
    <2>1. \A i \in 1 .. s : f[i] \in Nat
      OBVIOUS
    <2>2. QED  BY <2>1, TotalIs
  <1>3. \A i \in 1 .. m : t[i] = f[s + i] /\ t[i] \in Nat
    <2>1. \A i \in 1 .. m : s + i \in 1 .. s + m
      OBVIOUS
    <2>2. QED  BY <2>1
  <1> HIDE DEF t
  <1>4. PICK c \in [0 .. m -> Nat] : c[0] = 0 /\ (\A i \in 1 .. m : c[i] = c[i - 1] + t[i]) /\ Total(t, m) = c[m]
    BY <1>3, TotalIs
  <1> HIDE DEF n
  <1> DEFINE T == { k \in Nat : k <= s => a[k] = b[k] }
             U == { k \in Nat : k <= m => a[s + k] = b[s] + c[k] }
  <1>5. \A k \in 0 .. s : a[k] = b[k]
    <2>1. 0 \in T
      BY <1>1, <1>2
    <2>2. ASSUME NEW k \in Nat, k \in T PROVE k + 1 \in T
      <3>1. SUFFICES ASSUME k + 1 <= s PROVE a[k + 1] = b[k + 1]
        OBVIOUS
      <3>2. k + 1 \in 1 .. s /\ k + 1 \in 1 .. n /\ (k + 1) - 1 = k /\ a[k] = b[k]
        BY <1>0, <2>2, <3>1
      <3>3. a[k + 1] = a[(k + 1) - 1] + f[k + 1] /\ b[k + 1] = b[(k + 1) - 1] + f[k + 1]
        BY <1>1, <1>2, <3>2
      <3>4. QED  BY <3>2, <3>3
    <2> HIDE DEF T
    <2>3. Nat \subseteq T
      BY <2>1, <2>2, NatIsClosed
    <2>4. QED  BY <2>3 DEF T
  <1>6. a[s + m] = b[s] + c[m]
    <2>1. 0 \in U
      <3>1. a[s] = b[s] /\ s + 0 = s /\ b[s] \in Nat
        BY <1>2, <1>5
      <3>2. QED  BY <1>4, <3>1
    <2>2. ASSUME NEW k \in Nat, k \in U PROVE k + 1 \in U
      <3>1. SUFFICES ASSUME k + 1 <= m PROVE a[s + (k + 1)] = b[s] + c[k + 1]
        OBVIOUS
      <3>2. /\ k + 1 \in 1 .. m /\ (k + 1) - 1 = k /\ a[s + k] = b[s] + c[k]
            /\ s + (k + 1) \in 1 .. n /\ (s + (k + 1)) - 1 = s + k
        BY <2>2, <3>1 DEF n
      <3>3. a[s + (k + 1)] = a[(s + (k + 1)) - 1] + f[s + (k + 1)]
        BY <1>1, <3>2
      <3>4. c[k + 1] = c[(k + 1) - 1] + t[k + 1] /\ t[k + 1] = f[s + (k + 1)] /\ t[k + 1] \in Nat
        BY <1>3, <1>4, <3>2
      <3>5. b[s] \in Nat /\ c[k] \in Nat
        BY <1>2, <1>4, <3>2
      <3>6. a[s + (k + 1)] = (b[s] + c[k]) + t[k + 1] /\ c[k + 1] = c[k] + t[k + 1]
        BY <3>2, <3>3, <3>4
      <3>7. QED  BY <3>4, <3>5, <3>6
    <2> HIDE DEF U
    <2>3. Nat \subseteq U
      BY <2>1, <2>2, NatIsClosed
    <2>4. QED  BY <2>3 DEF U
  <1>7. QED  BY <1>1, <1>2, <1>4, <1>6 DEF n, t

\* Nothing adds up to nothing.
LEMMA TotalZero ==
  ASSUME NEW f, NEW n \in Nat, \A i \in 1 .. n : f[i] = 0
  PROVE  Total(f, n) = 0
  <1>1. PICK a \in [0 .. n -> Nat] : a[0] = 0 /\ (\A i \in 1 .. n : a[i] = a[i - 1] + f[i]) /\ Total(f, n) = a[n]
    <2>1. \A i \in 1 .. n : f[i] \in Nat
      OBVIOUS
    <2>2. QED  BY <2>1, TotalIs
  <1> DEFINE T == { m \in Nat : m <= n => a[m] = 0 }
  <1>2. 0 \in T
    BY <1>1
  <1>3. ASSUME NEW m \in Nat, m \in T PROVE m + 1 \in T
    <2>1. SUFFICES ASSUME m + 1 <= n PROVE a[m + 1] = 0
      OBVIOUS
    <2>2. m + 1 \in 1 .. n /\ (m + 1) - 1 = m /\ a[m] = 0
      BY <1>3, <2>1
    <2>3. a[m + 1] = a[(m + 1) - 1] + f[m + 1]
      BY <1>1, <2>2
    <2>4. QED  BY <2>2, <2>3
  <1> HIDE DEF T
  <1>4. Nat \subseteq T
    BY <1>2, <1>3, NatIsClosed
  <1>5. QED  BY <1>1, <1>4 DEF T

-----------------------------------------------------------------------------
(* Division. *)

\* The quotient, as a number between two products.
LEMMA QuotientIs ==
  ASSUME NEW a \in Nat, NEW u \in Nat \ {0}
  PROVE  /\ a \div u \in Nat /\ u * (a \div u) <= a /\ a < u * (a \div u) + u
  BY SMT

\* A factor only makes a product larger.
LEMMA ProductGrows ==
  ASSUME NEW u \in Nat, NEW v \in Nat, NEW p \in Nat, NEW q \in Nat, u <= v, p <= q
  PROVE  u * p <= v * q /\ u * p \in Nat
  BY SMT

\* More time or a shorter unit give no fewer units.
LEMMA QuotientGrows ==
  ASSUME NEW a \in Nat, NEW b \in Nat, NEW u \in Nat \ {0}, NEW v \in Nat \ {0}, a <= b, v <= u
  PROVE  a \div u <= b \div v /\ a \div u <= a
  <1>1. PICK p \in Nat : p = a \div u
    BY QuotientIs
  <1>2. PICK q \in Nat : q = b \div v
    BY QuotientIs
  <1>3. u * p <= a /\ a < u * p + u
    BY <1>1, QuotientIs
  <1>4. v * q <= b /\ b < v * q + v
    BY <1>2, QuotientIs
  <1>5. p <= q
    <2>1. SUFFICES ASSUME q + 1 <= p PROVE FALSE
      BY <1>1, <1>2
    <2>2. v * (q + 1) <= u * p
      BY <2>1, ProductGrows
    <2>3. v * (q + 1) = v * q + v /\ v * q \in Nat
      OBVIOUS
    <2>4. u * p \in Nat
      OBVIOUS
    <2>5. QED  BY <1>3, <1>4, <2>2, <2>3, <2>4
  <1>6. p <= a
    <2>1. 1 * p <= u * p
      BY ProductGrows
    <2>2. 1 * p = p /\ u * p \in Nat
      OBVIOUS
    <2>3. QED  BY <1>3, <2>1, <2>2
  <1>7. QED  BY <1>1, <1>2, <1>5, <1>6

-----------------------------------------------------------------------------
(* The ring. *)

\* The unit of the last packet, while the counter is not restarted.
Newest == baseTimestamp + currIndex

\* What makes the counters of the window, and only those, right.
RingInv ==
  /\ Newest \in Times
  /\ \A t \in Times : history[t] # 0 => t <= Newest
  /\ \A k \in 0 .. countRange - 1 : counterVector[sub(currIndex, k)] = SentAt(Newest - k)

\* Time has not gone back unless the unit grew or the clock was set back.
ClockInv == ~longer /\ ~setBack => Newest <= bandwidthTime

\* A unit counts at least one interval, at most one for each millisecond, and less than the ring has.
LEMMA RangeFacts ==
  ASSUME NEW u \in Units
  PROVE  /\ u \in Nat \ {0} /\ RangeOf(u) \in Nat
         /\ 1 <= RangeOf(u) /\ RangeOf(u) <= Interval /\ RangeOf(u) < MaxRange
         /\ MaxRange \in Nat /\ MaxRange > 0 /\ Interval \in Nat /\ Interval > 0
         /\ MaxBytes \in Nat /\ MaxNow \in Nat /\ Times = 0 .. MaxNow /\ Indices = 0 .. MaxRange - 1
  <1>1. /\ u \in Nat \ {0} /\ RangeOf(u) < MaxRange /\ Interval \in Nat \ {0} /\ MaxRange \in Nat \ {0}
        /\ MaxBytes \in Nat /\ MaxNow \in Nat
    BY CounterAssumption
  <1>2. PICK a \in Nat : a = Interval + u - 1
    BY <1>1
  <1>3. PICK q \in Nat : q = a \div u /\ u * q <= a /\ a < u * q + u
    BY <1>1, QuotientIs
  <1>4. RangeOf(u) = q
    BY <1>2, <1>3 DEF RangeOf
  <1>5. q >= 1
    <2>1. SUFFICES ASSUME q = 0 PROVE FALSE
      OBVIOUS
    <2>2. u * q = 0
      BY <1>1, <2>1
    <2>3. QED  BY <1>1, <1>2, <1>3, <2>2
  <1>6. q <= Interval
    <2>1. SUFFICES ASSUME Interval + 1 <= q PROVE FALSE
      BY <1>1
    <2>2. PICK r \in Nat : q = Interval + 1 + r
      <3>1. q - (Interval + 1) \in Nat /\ q = Interval + 1 + (q - (Interval + 1))
        BY <1>1, <2>1
      <3>2. QED  BY <3>1
    <2>3. PICK v \in Nat : u = 1 + v
      <3>1. u - 1 \in Nat /\ u = 1 + (u - 1)
        BY <1>1
      <3>2. QED  BY <3>1
    <2>4. 1 * q <= u * q /\ u * (1 + Interval) <= u * q
      <3>1. 1 <= u /\ 1 + Interval <= q /\ 1 + Interval \in Nat /\ 1 \in Nat
        BY <1>1, <2>1
      <3>2. QED  BY <1>1, <3>1, ProductGrows
    <2>5. u * (1 + Interval) = u + u * Interval
      BY <1>1
    <2>6. 1 * Interval <= u * Interval /\ u * Interval \in Nat
      <3>1. 1 <= u /\ 1 \in Nat /\ Interval <= Interval
        BY <1>1
      <3>2. QED  BY <1>1, <3>1, ProductGrows
    <2>7. u * q \in Nat
      BY <1>1
    <2>8. QED  BY <1>1, <1>2, <1>3, <2>4, <2>5, <2>6, <2>7
  <1>7. QED  BY <1>1, <1>4, <1>5, <1>6 DEF Times, Indices

\* What TypeOK says of the sizes in use.
LEMMA SizesNow ==
  ASSUME TypeOK
  PROVE  /\ countRange \in Nat /\ 1 <= countRange /\ countRange <= Interval /\ countRange < MaxRange
         /\ MaxRange \in Nat /\ MaxRange > 0 /\ Interval \in Nat /\ MaxBytes \in Nat
         /\ MaxNow \in Nat /\ Times = 0 .. MaxNow /\ Indices = 0 .. MaxRange - 1
         /\ currIndex \in 0 .. MaxRange - 1 /\ baseTimestamp \in Nat
         /\ bandwidthTime \in Nat /\ bandwidthTime <= now /\ bandwidthTime \in Times
         /\ \A t \in Int : SentAt(t) \in Nat
  <1>1. unit \in Units /\ now \in Times /\ currIndex \in Indices /\ baseTimestamp \in Times
        /\ history \in [Times -> Nat]
    BY DEF TypeOK
  <1>2. now \in Nat /\ now <= MaxNow /\ unit \in Nat \ {0}
    BY <1>1, RangeFacts
  <1>3. bandwidthTime \in Nat /\ bandwidthTime <= now
    BY <1>2, QuotientIs, QuotientGrows DEF bandwidthTime
  <1>4. \A t \in Int : SentAt(t) \in Nat
    BY <1>1 DEF SentAt
  <1>5. /\ countRange \in Nat /\ 1 <= countRange /\ countRange <= Interval /\ countRange < MaxRange
        /\ MaxRange \in Nat /\ MaxRange > 0 /\ Interval \in Nat /\ MaxBytes \in Nat
        /\ MaxNow \in Nat /\ Times = 0 .. MaxNow /\ Indices = 0 .. MaxRange - 1
    BY <1>1, RangeFacts DEF countRange
  <1>6. bandwidthTime \in Times /\ currIndex \in 0 .. MaxRange - 1 /\ baseTimestamp \in Nat
    BY <1>1, <1>2, <1>3, <1>5
  <1>7. QED  BY <1>3, <1>4, <1>5, <1>6

\* The remainder of a number less than one turn away from the ring.
LEMMA RemainderIs ==
  ASSUME MaxRange \in Nat, MaxRange > 0, NEW x \in Int, -MaxRange <= x, x < 2 * MaxRange
  PROVE  x % MaxRange = IF x < 0 THEN x + MaxRange ELSE IF x < MaxRange THEN x ELSE x - MaxRange
  BY SMT

\* sub and add on positions of the ring.
LEMMA StepsOnRing ==
  ASSUME MaxRange \in Nat, MaxRange > 0, NEW a \in 0 .. MaxRange - 1, NEW b \in 0 .. MaxRange
  PROVE  /\ sub(a, b) = IF a < b THEN a - b + MaxRange ELSE a - b
         /\ add(a, b) = IF a + b < MaxRange THEN a + b ELSE a + b - MaxRange
  <1>1. PICK x \in Int : x = a - b
    OBVIOUS
  <1>2. -MaxRange <= x /\ x < 2 * MaxRange
    BY <1>1
  <1>3. x % MaxRange = IF x < 0 THEN x + MaxRange ELSE IF x < MaxRange THEN x ELSE x - MaxRange
    BY <1>2, RemainderIs
  <1>4. PICK y \in Int : y = a + b
    OBVIOUS
  <1>5. -MaxRange <= y /\ y < 2 * MaxRange
    BY <1>4
  <1>6. y % MaxRange = IF y < 0 THEN y + MaxRange ELSE IF y < MaxRange THEN y ELSE y - MaxRange
    BY <1>5, RemainderIs
  <1>7. QED  BY <1>1, <1>3, <1>4, <1>6 DEF sub, add

\* Nothing is in the history after the last packet.
LEMMA NothingLater ==
  ASSUME TypeOK, RingInv, NEW t \in Int, t > Newest
  PROVE  SentAt(t) = 0
  <1>1. Newest \in Int
    BY SizesNow DEF RingInv
  <1>2. t \in Times => history[t] = 0
    BY <1>1 DEF RingInv
  <1>3. QED  BY <1>2 DEF SentAt

\* The loop of count passes the last m counters, and nothing else.
LEMMA LoopIs ==
  ASSUME TypeOK, NEW m \in 1 .. MaxRange - 1, NEW k \in 1 .. m
  PROVE  /\ sub(add(currIndex, 1), sub(currIndex, m - 1)) = m
         /\ add(sub(currIndex, m - 1), k - 1) = sub(currIndex, m - k)
  <1>1. MaxRange \in Nat /\ MaxRange > 0 /\ currIndex \in 0 .. MaxRange - 1
    BY SizesNow
  <1>2. /\ m - 1 \in 0 .. MaxRange /\ 1 \in 0 .. MaxRange /\ m - k \in 0 .. MaxRange /\ k - 1 \in 0 .. MaxRange
    BY <1>1
  <1>3. PICK b \in 0 .. MaxRange - 1 : b = sub(currIndex, m - 1)
             /\ b = IF currIndex < m - 1 THEN currIndex - (m - 1) + MaxRange ELSE currIndex - (m - 1)
    <2>1. sub(currIndex, m - 1) = IF currIndex < m - 1 THEN currIndex - (m - 1) + MaxRange ELSE currIndex - (m - 1)
      BY <1>1, <1>2, StepsOnRing
    <2>2. QED  BY <1>1, <2>1
  <1>4. PICK e \in 0 .. MaxRange - 1 : e = add(currIndex, 1)
             /\ e = IF currIndex + 1 < MaxRange THEN currIndex + 1 ELSE currIndex + 1 - MaxRange
    <2>1. add(currIndex, 1) = IF currIndex + 1 < MaxRange THEN currIndex + 1 ELSE currIndex + 1 - MaxRange
      BY <1>1, <1>2, StepsOnRing
    <2>2. QED  BY <1>1, <2>1
  <1>5. sub(e, b) = IF e < b THEN e - b + MaxRange ELSE e - b
    BY <1>1, StepsOnRing
  <1>6. sub(e, b) = m
    BY <1>1, <1>3, <1>4, <1>5
  <1>7. add(b, k - 1) = IF b + (k - 1) < MaxRange THEN b + (k - 1) ELSE b + (k - 1) - MaxRange
    BY <1>1, <1>2, StepsOnRing
  <1>8. sub(currIndex, m - k) = IF currIndex < m - k THEN currIndex - (m - k) + MaxRange ELSE currIndex - (m - k)
    BY <1>1, <1>2, StepsOnRing
  <1>9. add(b, k - 1) = sub(currIndex, m - k)
    BY <1>1, <1>3, <1>7, <1>8
  <1>10. QED  BY <1>3, <1>4, <1>6, <1>9

\* count gives what was sent in the window, at any time from the last packet on.
LEMMA CountsWindow ==
  ASSUME TypeOK, RingInv, NEW ts \in Int, ts >= Newest
  PROVE  count(ts) = SentBefore(ts)
  <1> DEFINE diff == ts - Newest
             f == [k \in 1 .. countRange |-> SentAt(ts - countRange + k)]
  <1>1. /\ countRange \in Nat /\ 1 <= countRange /\ countRange < MaxRange /\ MaxRange \in Nat
        /\ Newest \in Nat /\ diff \in Nat /\ (\A t \in Int : SentAt(t) \in Nat)
    <2>1. Newest \in Nat
      BY SizesNow DEF RingInv
    <2>2. QED  BY <2>1, SizesNow
  <1>2. \A k \in 1 .. countRange : ts - countRange + k \in Int /\ f[k] = SentAt(ts - countRange + k) /\ f[k] \in Nat
    BY <1>1
  <1>3. SentBefore(ts) = Total(f, countRange)
    BY DEF SentBefore
  <1>4. count(ts) = IF diff >= countRange THEN 0
                    ELSE Sum(sub(currIndex, countRange - diff - 1), add(currIndex, 1))
    BY <1>1 DEF count, Newest
  <1> HIDE DEF f
  <1>5. CASE diff >= countRange
    <2>1. \A k \in 1 .. countRange : ts - countRange + k > Newest
      BY <1>1, <1>5
    <2>2. \A k \in 1 .. countRange : f[k] = 0
      BY <1>2, <2>1, NothingLater
    <2>3. QED  BY <1>1, <1>3, <1>4, <1>5, <2>2, TotalZero
  <1>6. CASE diff < countRange
    <2> DEFINE m == countRange - diff
               c == [k \in 1 .. m |-> counterVector[add(sub(currIndex, m - 1), k - 1)]]
               rest == [i \in 1 .. diff |-> f[m + i]]
    <2>1. m \in 1 .. MaxRange - 1 /\ m \in Nat /\ m <= countRange /\ countRange = m + diff
          /\ m - 1 = countRange - diff - 1 /\ 1 \in 1 .. m
      BY <1>1, <1>6
    <2>2. count(ts) = Total(c, m)
      <3>1. sub(add(currIndex, 1), sub(currIndex, m - 1)) = m
        <4> HIDE DEF m
        <4>1. QED  BY <2>1, LoopIs
      <3>2. Sum(sub(currIndex, m - 1), add(currIndex, 1)) = Total(c, m)
        BY <3>1 DEF Sum
      <3>3. QED  BY <1>1, <1>4, <1>6, <2>1, <3>2
    <2>3. ASSUME NEW k \in 1 .. m PROVE c[k] = f[k] /\ f[k] \in Nat
      <3>1. c[k] = counterVector[sub(currIndex, m - k)]
        <4>1. add(sub(currIndex, m - 1), k - 1) = sub(currIndex, m - k)
          <5> HIDE DEF m
          <5>1. QED  BY <2>1, LoopIs
        <4>2. QED  BY <4>1
      <3>2. m - k \in 0 .. countRange - 1 /\ Newest - (m - k) = ts - countRange + k /\ k \in 1 .. countRange
        BY <1>1, <2>1
      <3>3. counterVector[sub(currIndex, m - k)] = SentAt(Newest - (m - k))
        BY <3>2 DEF RingInv
      <3>4. QED  BY <1>2, <3>1, <3>2, <3>3
    <2> HIDE DEF c
    <2>4. \A i \in 1 .. diff : rest[i] = 0
      <3>1. ASSUME NEW i \in 1 .. diff PROVE f[m + i] = 0
        <4>1. m + i \in 1 .. countRange /\ ts - countRange + (m + i) > Newest
          BY <1>1, <1>6
        <4>2. f[m + i] = SentAt(ts - countRange + (m + i)) /\ ts - countRange + (m + i) \in Int
          BY <1>2, <4>1
        <4>3. QED  BY <4>1, <4>2, NothingLater
      <3>2. QED  BY <3>1
    <2>5. Total(f, m + diff) = Total(f, m) + Total(rest, diff)
      <3>1. \A i \in 1 .. m + diff : f[i] \in Nat
        BY <1>2, <2>1
      <3> HIDE DEF m, diff
      <3>2. QED  BY <1>1, <2>1, <3>1, TotalSplits
    <2>6. Total(rest, diff) = 0
      <3> HIDE DEF rest, diff, m
      <3>1. QED  BY <1>1, <2>4, TotalZero
    <2>7. Total(c, m) = Total(f, m) /\ Total(f, m) \in Nat
      <3> HIDE DEF m
      <3>1. QED  BY <2>1, <2>3, TotalAgrees, TotalType
    <2> HIDE DEF rest, m
    <2>8. QED  BY <1>3, <2>1, <2>2, <2>5, <2>6, <2>7
  <1>7. QED  BY <1>1, <1>5, <1>6

\* updateCounter on one position: passed over or not, written or not.
LEMMA PassedIs ==
  ASSUME TypeOK, NEW d \in 0 .. MaxRange - 1, NEW k \in 0 .. MaxRange - 1
  PROVE  LET n == currIndex + d
             passed == { i % MaxRange : i \in currIndex + 1 .. n }
         IN  /\ n % MaxRange \in Indices
             /\ n % MaxRange = IF n < MaxRange THEN n ELSE n - MaxRange
             /\ sub(n % MaxRange, k) \in Indices
             /\ sub(n % MaxRange, k) = n % MaxRange <=> k = 0
             /\ k < d => sub(n % MaxRange, k) \in passed
             /\ d <= k => sub(n % MaxRange, k) = sub(currIndex, k - d) /\ sub(n % MaxRange, k) \notin passed
  <1> DEFINE n == currIndex + d
             passed == { i % MaxRange : i \in currIndex + 1 .. n }
  <1>1. MaxRange \in Nat /\ MaxRange > 0 /\ currIndex \in 0 .. MaxRange - 1 /\ Indices = 0 .. MaxRange - 1
    BY SizesNow
  <1>2. \A i \in 0 .. 2 * MaxRange - 1 : i % MaxRange = IF i < MaxRange THEN i ELSE i - MaxRange
    <2>1. ASSUME NEW i \in 0 .. 2 * MaxRange - 1
          PROVE  i % MaxRange = IF i < MaxRange THEN i ELSE i - MaxRange
      <3>1. i \in Int /\ -MaxRange <= i /\ i < 2 * MaxRange /\ i >= 0
        BY <1>1
      <3>2. i % MaxRange = IF i < 0 THEN i + MaxRange ELSE IF i < MaxRange THEN i ELSE i - MaxRange
        BY <1>1, <3>1, RemainderIs
      <3>3. QED  BY <3>1, <3>2
    <2>2. QED  BY <2>1
  <1>3. n \in 0 .. 2 * MaxRange - 1
    BY <1>1
  <1>4. PICK p \in 0 .. MaxRange - 1 : p = n % MaxRange /\ p = IF n < MaxRange THEN n ELSE n - MaxRange
    <2>1. n % MaxRange = IF n < MaxRange THEN n ELSE n - MaxRange
      BY <1>2, <1>3
    <2>2. QED  BY <1>1, <1>3, <2>1
  <1>5. sub(p, k) = IF p < k THEN p - k + MaxRange ELSE p - k
    BY <1>1, StepsOnRing
  <1>6. sub(p, k) \in 0 .. MaxRange - 1 /\ (sub(p, k) = p <=> k = 0)
    BY <1>1, <1>5
  <1>7. ASSUME k < d PROVE sub(p, k) \in passed
    <2>1. n - k \in currIndex + 1 .. n /\ n - k \in 0 .. 2 * MaxRange - 1
      BY <1>1, <1>3, <1>7
    <2>2. (n - k) % MaxRange = IF n - k < MaxRange THEN n - k ELSE n - k - MaxRange
      BY <1>2, <2>1
    <2>3. (n - k) % MaxRange = sub(p, k)
      BY <1>1, <1>3, <1>4, <1>5, <1>7, <2>1, <2>2
    <2>4. QED  BY <2>1, <2>3
  <1>8. ASSUME d <= k PROVE sub(p, k) = sub(currIndex, k - d)
    <2>1. k - d \in 0 .. MaxRange
      BY <1>1, <1>8
    <2>2. sub(currIndex, k - d) = IF currIndex < k - d THEN currIndex - (k - d) + MaxRange ELSE currIndex - (k - d)
      BY <1>1, <2>1, StepsOnRing
    <2>3. QED  BY <1>1, <1>3, <1>4, <1>5, <1>8, <2>2
  <1>9. ASSUME d <= k PROVE sub(p, k) \notin passed
    <2>1. SUFFICES ASSUME NEW i \in currIndex + 1 .. n, i % MaxRange = sub(p, k) PROVE FALSE
      OBVIOUS
    <2>2. i \in 0 .. 2 * MaxRange - 1 /\ i \in Nat
      BY <1>1, <1>3
    <2>3. i % MaxRange = IF i < MaxRange THEN i ELSE i - MaxRange
      BY <1>2, <2>2
    <2>4. QED  BY <1>1, <1>3, <1>4, <1>5, <1>9, <2>1, <2>2, <2>3
  <1> HIDE DEF n, passed
  <1>10. QED  BY <1>1, <1>4, <1>6, <1>7, <1>8, <1>9 DEF n, passed

\* What update does to the history, as SentAt sees it.
HistoryAfter(ts, size) ==
  /\ \A t \in Int : t > ts - Interval => SentAt(t)' = SentAt(t) + IF t = ts THEN size ELSE 0
  /\ \A t \in Int : t <= ts - Interval => SentAt(t)' = 0

\* What update leaves of history, unit by unit.
LEMMA HistoryIs ==
  ASSUME TypeOK, NEW ts \in Times, NEW size \in Nat,
         history' = [t \in Times |-> IF t = ts THEN history[t] + size
                                    ELSE IF t <= ts - Interval THEN 0 ELSE history[t]]
  PROVE  /\ history' \in [Times -> Nat] /\ HistoryAfter(ts, size)
         /\ \A t \in Times : history'[t] # 0 => history[t] # 0 \/ t = ts
  <1>1. history \in [Times -> Nat] /\ Times = 0 .. MaxNow /\ MaxNow \in Nat /\ Interval \in Nat /\ Interval > 0
        /\ ts \in Int
    <2>1. history \in [Times -> Nat] /\ Interval > 0
      BY CounterAssumption DEF TypeOK
    <2>2. QED  BY <2>1, SizesNow
  <1>2. \A t \in Times : history[t] \in Nat /\ t \in Int
    BY <1>1
  <1>3. history' \in [Times -> Nat]
    <2>1. \A t \in Times : (IF t = ts THEN history[t] + size ELSE IF t <= ts - Interval THEN 0 ELSE history[t]) \in Nat
      BY <1>2
    <2>2. QED  BY <2>1
  <1>4. \A t \in Times : history'[t] = IF t = ts THEN history[t] + size ELSE IF t <= ts - Interval THEN 0 ELSE history[t]
    OBVIOUS
  <1>5. ASSUME NEW t \in Int, t > ts - Interval
        PROVE  SentAt(t)' = SentAt(t) + IF t = ts THEN size ELSE 0
    <2>1. CASE t \in Times
      BY <1>1, <1>2, <1>4, <1>5, <2>1 DEF SentAt
    <2>2. CASE t \notin Times
      BY <2>2 DEF SentAt
    <2>3. QED  BY <2>1, <2>2
  <1>6. ASSUME NEW t \in Int, t <= ts - Interval PROVE SentAt(t)' = 0
    <2>1. t # ts
      BY <1>1, <1>6
    <2>2. QED  BY <1>4, <1>6, <2>1 DEF SentAt
  <1>7. QED  BY <1>3, <1>4, <1>5, <1>6 DEF HistoryAfter

\* The ring slides with the unit of the packet.
LEMMA SlidePreserves ==
  ASSUME TypeOK, RingInv, NEW ts \in Times, NEW size \in Nat, ts >= Newest, ts - Newest < MaxRange,
         updateCounter(ts - baseTimestamp, size), HistoryAfter(ts, size), unit' = unit,
         \A t \in Times : history'[t] # 0 => history[t] # 0 \/ t = ts
  PROVE  /\ RingInv' /\ Newest' = ts
         /\ counterVector' \in [Indices -> Nat] /\ currIndex' \in Indices /\ baseTimestamp' \in Times
  <1>1. /\ MaxRange \in Nat /\ MaxRange > 0 /\ currIndex \in 0 .. MaxRange - 1 /\ Indices = 0 .. MaxRange - 1
        /\ countRange \in Nat /\ countRange < MaxRange /\ countRange <= Interval /\ Interval \in Nat
        /\ Times = 0 .. MaxNow /\ MaxNow \in Nat /\ baseTimestamp \in Nat
        /\ (\A t \in Int : SentAt(t) \in Nat)
    BY SizesNow
  <1>2. counterVector \in [Indices -> Nat] /\ Newest = baseTimestamp + currIndex /\ Newest \in Nat /\ ts \in Nat
    <2>1. counterVector \in [Indices -> Nat]
      BY DEF TypeOK
    <2>2. Newest = baseTimestamp + currIndex
      BY DEF Newest
    <2>3. Newest \in Nat
      BY <1>1, <2>2
    <2>4. ts \in Nat
      BY <1>1
    <2>5. QED  BY <2>1, <2>2, <2>3, <2>4
  <1>3. PICK d \in 0 .. MaxRange - 1 : d = ts - Newest
    BY <1>1, <1>2
  <1> DEFINE n == currIndex + d
             passed == { i % MaxRange : i \in currIndex + 1 .. n }
             p == n % MaxRange
  <1>4. ts - baseTimestamp = n /\ ts = Newest + d
    BY <1>1, <1>2, <1>3
  <1>5. /\ counterVector' = [ [i \in Indices |-> IF i \in passed THEN 0 ELSE counterVector[i]] EXCEPT ![p] = @ + size ]
        /\ currIndex' = p
        /\ baseTimestamp' = IF n >= MaxRange THEN baseTimestamp + MaxRange ELSE baseTimestamp
    BY <1>4 DEF updateCounter
  <1>6. ASSUME NEW k \in 0 .. MaxRange - 1
        PROVE  /\ p \in Indices /\ p = (IF n < MaxRange THEN n ELSE n - MaxRange)
               /\ sub(p, k) \in Indices /\ (sub(p, k) = p <=> k = 0)
               /\ k < d => sub(p, k) \in passed
               /\ d <= k => sub(p, k) = sub(currIndex, k - d) /\ sub(p, k) \notin passed
    BY PassedIs
  <1>7. 0 \in 0 .. MaxRange - 1
    BY <1>1
  <1> HIDE DEF n, passed, p
  <1>8. p \in Indices /\ p = IF n < MaxRange THEN n ELSE n - MaxRange
    BY <1>6, <1>7
  <1>9. \A i \in Indices :
           counterVector'[i] = (IF i \in passed THEN 0 ELSE counterVector[i]) + (IF i = p THEN size ELSE 0)
    BY <1>2, <1>5, <1>8
  <1>10. counterVector' \in [Indices -> Nat]
    <2> DEFINE base == [i \in Indices |-> IF i \in passed THEN 0 ELSE counterVector[i]]
    <2>1. base \in [Indices -> Nat]
      BY <1>2
    <2>2. counterVector' = [base EXCEPT ![p] = base[p] + size]
      BY <1>5
    <2> HIDE DEF base
    <2>3. base[p] + size \in Nat
      BY <1>8, <2>1
    <2>4. QED  BY <2>1, <2>2, <2>3
  <1>11. Newest' = ts /\ baseTimestamp' \in Times
    <2>1. n = currIndex + d
      BY DEF n
    <2>2. Newest' = baseTimestamp' + currIndex'
      BY DEF Newest
    <2>3. baseTimestamp + n = ts /\ ts <= MaxNow /\ n \in Nat
      BY <1>1, <1>2, <1>3, <2>1
    <2>4. baseTimestamp' + currIndex' = ts /\ baseTimestamp' \in Nat /\ baseTimestamp' <= ts
      <3>1. CASE n < MaxRange
        <4>1. baseTimestamp' = baseTimestamp /\ currIndex' = n
          BY <1>1, <1>5, <1>8, <2>3, <3>1
        <4>2. QED  BY <1>1, <2>3, <4>1
      <3>2. CASE n >= MaxRange
        <4>1. baseTimestamp' = baseTimestamp + MaxRange /\ currIndex' = n - MaxRange
          BY <1>1, <1>5, <1>8, <2>3, <3>2
        <4>2. QED  BY <1>1, <2>3, <3>2, <4>1
      <3>3. QED  BY <1>1, <2>3, <3>1, <3>2
    <2>5. baseTimestamp' \in Times
      BY <1>1, <1>2, <2>3, <2>4
    <2>6. QED  BY <2>2, <2>4, <2>5
  <1>12. ASSUME NEW k \in 0 .. countRange - 1
         PROVE  counterVector'[sub(p, k)] = SentAt(ts - k)'
    <2>1. k \in 0 .. MaxRange - 1 /\ ts - k \in Int /\ ts - k > ts - Interval /\ (ts - k = ts <=> k = 0)
      BY <1>1, <1>2
    <2>2. SentAt(ts - k)' = SentAt(ts - k) + IF k = 0 THEN size ELSE 0
      BY <2>1 DEF HistoryAfter
    <2>3. counterVector'[sub(p, k)] =
             (IF sub(p, k) \in passed THEN 0 ELSE counterVector[sub(p, k)]) + (IF k = 0 THEN size ELSE 0)
      BY <1>6, <1>9, <2>1
    <2>4. (IF sub(p, k) \in passed THEN 0 ELSE counterVector[sub(p, k)]) = SentAt(ts - k)
      <3>1. CASE k < d
        <4>1. ts - k > Newest
          BY <1>2, <1>3, <1>4, <3>1
        <4>2. QED  BY <1>6, <2>1, <3>1, <4>1, NothingLater
      <3>2. CASE d <= k
        <4>1. k - d \in 0 .. countRange - 1 /\ Newest - (k - d) = ts - k
          BY <1>1, <1>2, <1>3, <1>4, <3>2
        <4>2. counterVector[sub(currIndex, k - d)] = SentAt(Newest - (k - d))
          BY <4>1 DEF RingInv
        <4>3. QED  BY <1>6, <2>1, <3>2, <4>1, <4>2
      <3>3. QED  BY <1>1, <1>3, <3>1, <3>2
    <2>5. QED  BY <2>2, <2>3, <2>4
  <1>13. ASSUME NEW t \in Times, history'[t] # 0 PROVE t <= ts
    <2>1. history[t] # 0 => t <= Newest
      BY DEF RingInv
    <2>2. Newest \in Nat /\ ts \in Nat /\ Newest <= ts /\ t \in Nat
      BY <1>1, <1>2
    <2>3. QED  BY <1>13, <2>1, <2>2
  <1>14. countRange' = countRange
    BY DEF countRange
  <1>15. RingInv'
    <2>1. \A k \in 0 .. countRange - 1 : counterVector'[sub(currIndex, k)'] = SentAt(Newest - k)'
      <3>1. ASSUME NEW k \in 0 .. countRange - 1
            PROVE  sub(currIndex, k)' = sub(p, k) /\ SentAt(Newest - k)' = SentAt(ts - k)'
        BY <1>5, <1>11 DEF sub, SentAt
      <3>2. QED  BY <1>12, <3>1
    <2>2. QED  BY <1>11, <1>13, <1>14, <2>1 DEF RingInv
  <1>16. QED  BY <1>5, <1>8, <1>10, <1>11, <1>15

\* After a pause of MAX_RANGE the ring starts anew: only what count reads is cleared.
LEMMA RestartPreserves ==
  ASSUME TypeOK, RingInv, NEW ts \in Times, NEW size \in Nat, ts - Newest >= MaxRange,
         Restart(ts, size), HistoryAfter(ts, size), unit' = unit,
         \A t \in Times : history'[t] # 0 => history[t] # 0 \/ t = ts
  PROVE  /\ RingInv' /\ Newest' = ts
         /\ counterVector' \in [Indices -> Nat] /\ currIndex' \in Indices /\ baseTimestamp' \in Times
  <1>1. /\ MaxRange \in Nat /\ MaxRange > 0 /\ Indices = 0 .. MaxRange - 1
        /\ countRange \in Nat /\ countRange >= 1 /\ countRange < MaxRange /\ countRange <= Interval /\ Interval \in Nat
        /\ Times = 0 .. MaxNow /\ MaxNow \in Nat
    BY SizesNow
  <1>2. counterVector \in [Indices -> Nat] /\ Newest \in Nat /\ ts \in Nat /\ 0 \in Indices
    <2>1. counterVector \in [Indices -> Nat] /\ Newest \in Times
      BY DEF TypeOK, RingInv
    <2>2. QED  BY <1>1, <2>1
  <1>3. /\ baseTimestamp' = ts /\ currIndex' = 0
        /\ counterVector' =
             [ [i \in Indices |-> IF i >= sub(0, countRange) THEN 0 ELSE counterVector[i]] EXCEPT ![0] = size ]
    BY DEF Restart
  <1>4. sub(0, countRange) = MaxRange - countRange
    <2>1. 0 \in 0 .. MaxRange - 1 /\ countRange \in 0 .. MaxRange /\ 0 < countRange
      BY <1>1
    <2>2. sub(0, countRange) = 0 - countRange + MaxRange
      BY <1>1, <2>1, StepsOnRing
    <2>3. QED  BY <1>1, <2>2
  <1>5. \A i \in Indices : counterVector'[i] = IF i = 0 THEN size ELSE IF i >= MaxRange - countRange THEN 0 ELSE counterVector[i]
    BY <1>2, <1>3, <1>4
  <1>6. counterVector' \in [Indices -> Nat]
    <2>1. [i \in Indices |-> IF i >= sub(0, countRange) THEN 0 ELSE counterVector[i]] \in [Indices -> Nat]
      BY <1>2
    <2>2. QED  BY <1>2, <1>3, <2>1
  <1>7. Newest' = ts
    BY <1>2, <1>3 DEF Newest
  <1>8. ASSUME NEW k \in 0 .. countRange - 1
        PROVE  counterVector'[sub(0, k)] = SentAt(ts - k)'
    <2>1. ts - k \in Int /\ ts - k > ts - Interval /\ ts - k > Newest /\ (ts - k = ts <=> k = 0)
      BY <1>1, <1>2
    <2>2. SentAt(ts - k)' = IF k = 0 THEN size ELSE 0
      <3>1. SentAt(ts - k)' = SentAt(ts - k) + IF k = 0 THEN size ELSE 0
        BY <2>1 DEF HistoryAfter
      <3>2. SentAt(ts - k) = 0
        BY <2>1, NothingLater
      <3>3. QED  BY <3>1, <3>2
    <2>3. sub(0, k) = IF 0 < k THEN 0 - k + MaxRange ELSE 0 - k
      <3>1. 0 \in 0 .. MaxRange - 1 /\ k \in 0 .. MaxRange
        BY <1>1
      <3>2. QED  BY <1>1, <3>1, StepsOnRing
    <2>4. QED  BY <1>1, <1>5, <2>2, <2>3
  <1>9. ASSUME NEW t \in Times, history'[t] # 0 PROVE t <= ts
    <2>1. history[t] # 0 => t <= Newest
      BY DEF RingInv
    <2>2. QED  BY <1>1, <1>2, <1>9, <2>1
  <1>10. countRange' = countRange
    BY DEF countRange
  <1>11. RingInv'
    <2>1. \A k \in 0 .. countRange - 1 : counterVector'[sub(currIndex, k)'] = SentAt(Newest - k)'
      <3>1. ASSUME NEW k \in 0 .. countRange - 1
            PROVE  sub(currIndex, k)' = sub(0, k) /\ SentAt(Newest - k)' = SentAt(ts - k)'
        BY <1>3, <1>7 DEF sub, SentAt
      <3>2. QED  BY <1>8, <3>1
    <2>2. QED  BY <1>7, <1>9, <1>10, <2>1 DEF RingInv
  <1>12. QED  BY <1>2, <1>3, <1>6, <1>7, <1>11

-----------------------------------------------------------------------------
(* The limit. *)

\* A window that ends after the last packet has no more than one that ends with it.
LEMMA WindowShrinks ==
  ASSUME TypeOK, RingInv, NEW ts \in Int, ts >= Newest, NEW x \in Int, ts <= x, x < ts + countRange
  PROVE  SentBefore(x) <= SentBefore(ts)
  <1> DEFINE s == x - ts
             m == countRange - s
             f == [k \in 1 .. countRange |-> SentAt(x - countRange + k)]
             g == [k \in 1 .. countRange |-> SentAt(ts - countRange + k)]
             fs == [i \in 1 .. s |-> f[m + i]]
             gs == [i \in 1 .. m |-> g[s + i]]
  <1>1. /\ countRange \in Nat /\ s \in Nat /\ m \in Nat /\ s + m = countRange /\ m + s = countRange
        /\ Newest \in Nat /\ (\A t \in Int : SentAt(t) \in Nat)
    <2>1. Newest \in Nat
      BY SizesNow DEF RingInv
    <2>2. countRange \in Nat /\ (\A t \in Int : SentAt(t) \in Nat)
      BY SizesNow
    <2>3. s \in Nat /\ s < countRange
      BY <2>2
    <2> HIDE DEF s
    <2>4. m \in Nat /\ s + m = countRange /\ m + s = countRange
      BY <2>2, <2>3
    <2>5. QED  BY <2>1, <2>2, <2>3, <2>4
  <1>2. \A k \in 1 .. countRange : /\ x - countRange + k \in Int /\ ts - countRange + k \in Int
                                   /\ f[k] = SentAt(x - countRange + k) /\ f[k] \in Nat
                                   /\ g[k] = SentAt(ts - countRange + k) /\ g[k] \in Nat
    BY <1>1
  <1>3. \A i \in 1 .. s : fs[i] = 0
    <2>1. ASSUME NEW i \in 1 .. s PROVE f[m + i] = 0
      <3>1. m + i \in 1 .. countRange /\ x - countRange + (m + i) > Newest
        BY <1>1
      <3>2. QED  BY <1>2, <3>1, NothingLater
    <2>2. QED  BY <2>1
  <1>4. \A k \in 1 .. m : gs[k] = f[k] /\ f[k] \in Nat
    <2>1. ASSUME NEW k \in 1 .. m PROVE g[s + k] = f[k] /\ f[k] \in Nat
      <3>1. s + k \in 1 .. countRange /\ k \in 1 .. countRange /\ ts - countRange + (s + k) = x - countRange + k
        BY <1>1
      <3>2. QED  BY <1>2, <3>1
    <2>2. QED  BY <2>1
  <1>5. Total(f, m + s) = Total(f, m) + Total(fs, s)
    <2> HIDE DEF m, s, f
    <2>1. \A i \in 1 .. m + s : f[i] \in Nat
      BY <1>1, <1>2
    <2>2. QED  BY <1>1, <2>1, TotalSplits DEF fs
  <1>6. Total(g, s + m) = Total(g, s) + Total(gs, m)
    <2> HIDE DEF m, s, g
    <2>1. \A i \in 1 .. s + m : g[i] \in Nat
      BY <1>1, <1>2
    <2>2. QED  BY <1>1, <2>1, TotalSplits DEF gs
  <1>7. SentBefore(x) = Total(f, countRange) /\ SentBefore(ts) = Total(g, countRange)
    BY DEF SentBefore
  <1> HIDE DEF f, g, fs, gs, m, s
  <1>8. Total(fs, s) = 0
    BY <1>1, <1>3, TotalZero
  <1>9. Total(gs, m) = Total(f, m) /\ Total(f, m) \in Nat
    BY <1>1, <1>4, TotalAgrees, TotalType
  <1>10. Total(g, s) \in Nat
    <2>1. \A i \in 1 .. s : i \in 1 .. countRange
      BY <1>1
    <2>2. QED  BY <1>1, <1>2, <2>1, TotalType
  <1>11. QED  BY <1>1, <1>5, <1>6, <1>7, <1>8, <1>9, <1>10

\* What Fits lets through keeps every window within the limit.
LEMMA LimitStep ==
  ASSUME TypeOK, RingInv, LimitKept, NEW ts \in Times, ts >= Newest, NEW size \in Nat,
         SentBefore(ts) + size <= MaxBytes, HistoryAfter(ts, size), unit' = unit
  PROVE  LimitKept'
  <1>1. /\ countRange \in Nat /\ MaxBytes \in Nat /\ Times = 0 .. MaxNow /\ MaxNow \in Nat /\ ts \in Int
        /\ (\A t \in Int : SentAt(t) \in Nat)
    BY SizesNow
  <1>2. ASSUME NEW x \in Times PROVE SentBefore(x)' <= MaxBytes
    <2> DEFINE f == [k \in 1 .. countRange |-> SentAt(x - countRange + k)]
               h == [k \in 1 .. countRange |-> SentAt(x - countRange + k)']
               j == ts - x + countRange
    <2>1. x \in Int /\ j \in Int
      BY <1>1
    <2>2. SentBefore(x)' = Total(h, countRange) /\ SentBefore(x) = Total(f, countRange)
      <3>1. countRange' = countRange
        BY DEF countRange
      <3>2. SentBefore(x)' = Total([k \in 1 .. countRange' |-> SentAt(x - countRange + k)'], countRange')
        BY DEF SentBefore
      <3>3. SentBefore(x) = Total(f, countRange)
        BY DEF SentBefore
      <3>4. QED  BY <3>1, <3>2, <3>3
    <2>3. ASSUME NEW k \in 1 .. countRange
          PROVE  /\ f[k] \in Nat /\ h[k] \in Nat
                 /\ h[k] <= f[k] + (IF k = j THEN size ELSE 0)
      <3>1. x - countRange + k \in Int /\ (x - countRange + k = ts <=> k = j)
        BY <1>1, <2>1
      <3>2. PICK t \in Int : t = x - countRange + k
        BY <3>1
      <3>3. f[k] = SentAt(t) /\ h[k] = SentAt(t)' /\ (t = ts <=> k = j) /\ SentAt(t) \in Nat
        <4>1. h[k] = SentAt(x - countRange + k)'
          OBVIOUS
        <4>2. countRange' = countRange
          BY DEF countRange
        <4>3. SentAt(x - countRange + k)' = SentAt(t)'
          BY <3>2, <4>2 DEF SentAt
        <4>4. QED  BY <1>1, <3>1, <3>2, <4>1, <4>3
      <3> HIDE DEF f, h, j
      <3>4. CASE t > ts - Interval
        <4>1. SentAt(t)' = SentAt(t) + IF t = ts THEN size ELSE 0
          BY <3>4 DEF HistoryAfter
        <4>2. QED  BY <3>3, <4>1
      <3>5. CASE t <= ts - Interval
        <4>1. SentAt(t)' = 0
          BY <3>5 DEF HistoryAfter
        <4>2. QED  BY <3>3, <4>1
      <3>6. ts - Interval \in Int
        BY <1>1, SizesNow
      <3>7. QED  BY <3>4, <3>5, <3>6
    <2> HIDE DEF f, h
    <2>4. Total(h, countRange) <= Total(f, countRange) + size
          /\ (j \notin 1 .. countRange => Total(h, countRange) <= Total(f, countRange))
      <3> HIDE DEF j
      <3>1. QED  BY <1>1, <2>1, <2>3, TotalGrows
    <2>5. Total(h, countRange) \in Nat /\ Total(f, countRange) \in Nat
      BY <1>1, <2>3, TotalType
    <2>6. CASE j \notin 1 .. countRange
      <3>1. SentBefore(x) <= MaxBytes
        BY DEF LimitKept
      <3>2. QED  BY <1>1, <2>2, <2>4, <2>5, <2>6, <3>1
    <2>7. CASE j \in 1 .. countRange
      <3>1. ts <= x /\ x < ts + countRange
        BY <1>1, <2>1, <2>7
      <3>2. SentBefore(x) <= SentBefore(ts)
        BY <1>1, <2>1, <3>1, WindowShrinks
      <3>3. SentBefore(ts) \in Nat
        <4> DEFINE g == [k \in 1 .. countRange |-> SentAt(ts - countRange + k)]
        <4>1. \A k \in 1 .. countRange : g[k] \in Nat
          <5>1. \A k \in 1 .. countRange : ts - countRange + k \in Int
            BY <1>1
          <5>2. QED  BY <1>1, <5>1
        <4> HIDE DEF g
        <4>2. QED  BY <1>1, <4>1, TotalType DEF SentBefore, g
      <3>4. Total(f, countRange) <= SentBefore(ts) /\ Total(h, countRange) <= Total(f, countRange) + size
        BY <2>2, <2>4, <3>2
      <3>5. Total(h, countRange) <= MaxBytes
        BY <1>1, <2>5, <3>3, <3>4
      <3>6. QED  BY <2>2, <3>5
    <2>8. QED  BY <2>6, <2>7
  <1>3. QED  BY <1>2 DEF LimitKept

-----------------------------------------------------------------------------
(* The inductive invariant. *)

IInv == TypeOK /\ RingInv /\ ClockInv /\ ThrowsOnlyForTimeGoingBack /\ LimitKept

\* With nothing sent, nothing is in any window.
LEMMA EmptyHistory ==
  ASSUME NEW r \in Nat, MaxBytes \in Nat
  PROVE  Total([k \in 1 .. r |-> 0], r) <= MaxBytes
  <1>1. \A k \in 1 .. r : [i \in 1 .. r |-> 0][k] = 0
    OBVIOUS
  <1>2. Total([k \in 1 .. r |-> 0], r) = 0
    BY <1>1, TotalZero
  <1>3. QED  BY <1>2

\* Nothing has been counted at the start.
LEMMA InitEstablishes == Init => IInv
  <1> SUFFICES ASSUME Init PROVE IInv
    OBVIOUS
  <1>1. Start \in Nat /\ MaxNow \in Nat /\ Start <= MaxNow /\ MaxRange \in Nat \ {0}
    BY CounterAssumption
  <1>2. /\ baseTimestamp = 0 /\ currIndex = 0 /\ counterVector = [i \in Indices |-> 0] /\ unit \in Units
        /\ now = Start /\ history = [t \in Times |-> 0] /\ threw = FALSE /\ longer = FALSE /\ setBack = FALSE
    BY DEF Init
  <1>3. TypeOK
    <2>1. baseTimestamp \in Times /\ now \in Times /\ currIndex \in Indices
      BY <1>1, <1>2 DEF Times, Indices
    <2>2. counterVector \in [Indices -> Nat] /\ history \in [Times -> Nat]
      BY <1>2
    <2>3. threw \in BOOLEAN /\ longer \in BOOLEAN /\ setBack \in BOOLEAN
      BY <1>2
    <2>4. QED  BY <1>2, <2>1, <2>2, <2>3 DEF TypeOK
  <1>4. /\ countRange \in Nat /\ countRange < MaxRange /\ MaxBytes \in Nat /\ bandwidthTime \in Nat
        /\ MaxRange \in Nat /\ MaxRange > 0 /\ Indices = 0 .. MaxRange - 1
    BY <1>3, SizesNow
  <1>5. Newest = 0 /\ Newest \in Times
    BY <1>1, <1>2 DEF Newest, Times
  <1>6. \A t \in Int : SentAt(t) = 0
    BY <1>2 DEF SentAt
  <1>7. \A k \in 0 .. countRange - 1 : counterVector[sub(currIndex, k)] = SentAt(Newest - k)
    <2>1. ASSUME NEW k \in 0 .. countRange - 1
          PROVE  counterVector[sub(currIndex, k)] = 0 /\ SentAt(Newest - k) = 0
      <3>1. 0 \in 0 .. MaxRange - 1 /\ k \in 0 .. MaxRange /\ k < MaxRange
        BY <1>4
      <3>2. sub(0, k) = IF 0 < k THEN 0 - k + MaxRange ELSE 0 - k
        BY <1>4, <3>1, StepsOnRing
      <3>3. sub(currIndex, k) \in Indices /\ Newest - k \in Int
        BY <1>2, <1>4, <1>5, <3>1, <3>2
      <3>4. QED  BY <1>2, <1>6, <3>3
    <2>2. QED  BY <2>1
  <1>8. RingInv
    BY <1>2, <1>5, <1>7 DEF RingInv
  <1>9. LimitKept
    <2>1. ASSUME NEW ts \in Times PROVE SentBefore(ts) <= MaxBytes
      <3>1. [k \in 1 .. countRange |-> SentAt(ts - countRange + k)] = [k \in 1 .. countRange |-> 0]
        BY <1>2 DEF SentAt
      <3>2. QED  BY <1>4, <3>1, EmptyHistory DEF SentBefore
    <2>2. QED  BY <2>1 DEF LimitKept
  <1>10. ClockInv /\ ThrowsOnlyForTimeGoingBack
    BY <1>2, <1>4, <1>5 DEF ClockInv, ThrowsOnlyForTimeGoingBack
  <1>11. QED  BY <1>3, <1>8, <1>9, <1>10 DEF IInv

\* A step that leaves counter, unit and history alone leaves the ring and the limit alone.
LEMMA CounterUnchanged ==
  ASSUME RingInv, LimitKept, UNCHANGED <<baseTimestamp, currIndex, counterVector, unit, history>>
  PROVE  RingInv' /\ LimitKept' /\ Newest' = Newest
  <1>1. countRange' = countRange /\ Newest' = Newest /\ \A t : SentAt(t)' = SentAt(t)
    BY DEF countRange, Newest, SentAt
  <1>2. RingInv'
    BY <1>1 DEF RingInv, SentAt, sub, Newest, countRange
  <1>3. \A ts : SentBefore(ts)' = SentBefore(ts)
    BY DEF SentBefore, SentAt, countRange
  <1>4. QED  BY <1>1, <1>2, <1>3 DEF LimitKept

\* doSend sends only what fits, and update records it.
LEMMA SendPreserves ==
  ASSUME IInv, Send
  PROVE  IInv'
  <1>1. TypeOK /\ RingInv /\ ClockInv /\ ThrowsOnlyForTimeGoingBack /\ LimitKept
    BY DEF IInv
  <1>2. PICK size \in Sizes : Fits(size) /\ update(bandwidthTime, size)
    BY DEF Send
  <1>3. UNCHANGED <<unit, now, longer, setBack>> /\ size \in Nat /\ ~threw
    BY CounterAssumption DEF Send
  <1>4. /\ bandwidthTime \in Times /\ bandwidthTime \in Nat /\ Times = 0 .. MaxNow /\ MaxNow \in Nat
        /\ baseTimestamp \in Nat /\ currIndex \in 0 .. MaxRange - 1 /\ MaxRange \in Nat
        /\ Newest = baseTimestamp + currIndex
    BY <1>1, SizesNow DEF Newest
  <1>5. Newest \in Nat /\ bandwidthTime' = bandwidthTime
    BY <1>3, <1>4 DEF bandwidthTime
  <1>6. CASE bandwidthTime - baseTimestamp < currIndex
    <2>1. threw' = TRUE /\ UNCHANGED <<baseTimestamp, currIndex, counterVector, history>>
      BY <1>2, <1>6 DEF update
    <2>2. RingInv' /\ LimitKept' /\ Newest' = Newest
      BY <1>1, <1>3, <2>1, CounterUnchanged
    <2>3. ~(Newest <= bandwidthTime)
      BY <1>4, <1>6
    <2>4. longer \/ setBack
      BY <1>1, <2>3 DEF ClockInv
    <2>5. TypeOK'
      BY <1>1, <1>3, <2>1 DEF TypeOK
    <2>6. ClockInv' /\ ThrowsOnlyForTimeGoingBack'
      BY <1>3, <2>4 DEF ClockInv, ThrowsOnlyForTimeGoingBack
    <2>7. QED  BY <2>2, <2>5, <2>6 DEF IInv
  <1>7. CASE ~(bandwidthTime - baseTimestamp < currIndex)
    <2>1. bandwidthTime >= Newest
      BY <1>4, <1>7
    <2>2. /\ IF bandwidthTime - baseTimestamp - currIndex >= MaxRange THEN Restart(bandwidthTime, size)
             ELSE updateCounter(bandwidthTime - baseTimestamp, size)
          /\ history' = [t \in Times |-> IF t = bandwidthTime THEN history[t] + size
                                        ELSE IF t <= bandwidthTime - Interval THEN 0 ELSE history[t]]
          /\ threw' = threw
      BY <1>2, <1>7 DEF update
    <2>3. /\ history' \in [Times -> Nat] /\ HistoryAfter(bandwidthTime, size)
          /\ \A t \in Times : history'[t] # 0 => history[t] # 0 \/ t = bandwidthTime
      <3>1. PICK ts \in Times : ts = bandwidthTime
        BY <1>4
      <3>2. history' = [t \in Times |-> IF t = ts THEN history[t] + size
                                       ELSE IF t <= ts - Interval THEN 0 ELSE history[t]]
        BY <2>2, <3>1
      <3>3. /\ history' \in [Times -> Nat] /\ HistoryAfter(ts, size)
            /\ \A t \in Times : history'[t] # 0 => history[t] # 0 \/ t = ts
        BY <1>1, <1>3, <3>2, HistoryIs
      <3>4. QED  BY <3>1, <3>3
    <2>4. /\ RingInv' /\ Newest' = bandwidthTime
          /\ counterVector' \in [Indices -> Nat] /\ currIndex' \in Indices /\ baseTimestamp' \in Times
      <3>1. CASE bandwidthTime - baseTimestamp - currIndex >= MaxRange
        <4>1. bandwidthTime - Newest >= MaxRange /\ Restart(bandwidthTime, size)
          BY <1>4, <2>2, <3>1
        <4>2. QED  BY <1>1, <1>3, <1>4, <2>3, <4>1, RestartPreserves
      <3>2. CASE ~(bandwidthTime - baseTimestamp - currIndex >= MaxRange)
        <4>1. bandwidthTime - Newest < MaxRange /\ updateCounter(bandwidthTime - baseTimestamp, size)
          BY <1>4, <2>2, <3>2
        <4>2. QED  BY <1>1, <1>3, <1>4, <2>1, <2>3, <4>1, SlidePreserves
      <3>3. QED  BY <3>1, <3>2
    <2>5. SentBefore(bandwidthTime) + size <= MaxBytes
      BY <1>1, <1>2, <1>4, <2>1, CountsWindow DEF Fits
    <2>6. LimitKept'
      BY <1>1, <1>3, <1>4, <2>1, <2>3, <2>5, LimitStep
    <2>7. TypeOK'
      BY <1>1, <1>3, <2>2, <2>3, <2>4 DEF TypeOK
    <2>8. ClockInv' /\ ThrowsOnlyForTimeGoingBack'
      BY <1>1, <1>3, <1>4, <1>5, <2>2, <2>4 DEF ClockInv, ThrowsOnlyForTimeGoingBack
    <2>9. QED  BY <2>4, <2>6, <2>7, <2>8 DEF IInv
  <1>8. QED  BY <1>6, <1>7

\* reset clears every counter, and with it everything any window holds.
LEMMA SetBandwidthPreserves ==
  ASSUME IInv, SetBandwidth
  PROVE  IInv'
  <1>1. TypeOK /\ RingInv /\ ClockInv /\ ThrowsOnlyForTimeGoingBack /\ LimitKept
    BY DEF IInv
  <1>2. /\ unit' \in Units /\ counterVector' = [i \in Indices |-> 0] /\ history' = [t \in Times |-> 0]
        /\ longer' = (longer \/ unit' > unit)
        /\ UNCHANGED <<baseTimestamp, currIndex, now, threw, setBack>>
    BY DEF SetBandwidth
  <1>3. TypeOK'
    BY <1>1, <1>2 DEF TypeOK
  <1>4. PICK r \in Nat : r = countRange' /\ r < MaxRange
    BY <1>2, RangeFacts DEF countRange
  <1>5. /\ MaxRange \in Nat /\ MaxRange > 0 /\ Indices = 0 .. MaxRange - 1 /\ MaxBytes \in Nat
        /\ currIndex \in 0 .. MaxRange - 1
    BY <1>1, SizesNow
  <1>6. Newest' = Newest /\ Newest \in Times
    BY <1>1, <1>2 DEF Newest, RingInv
  <1>7. \A t : SentAt(t)' = 0
    BY <1>2 DEF SentAt
  <1>8. RingInv'
    <2>1. ASSUME NEW k \in 0 .. r - 1
          PROVE  counterVector'[sub(currIndex, k)'] = 0
      <3>1. k \in 0 .. MaxRange /\ k < MaxRange
        <4>1. r \in Nat /\ r < MaxRange /\ MaxRange \in Nat
          BY <1>4, <1>5
        <4>2. QED  BY <4>1
      <3>2. sub(currIndex, k) = IF currIndex < k THEN currIndex - k + MaxRange ELSE currIndex - k
        BY <1>5, <3>1, StepsOnRing
      <3>3. sub(currIndex, k) \in Indices /\ sub(currIndex, k)' = sub(currIndex, k)
        BY <1>2, <1>5, <3>1, <3>2 DEF sub
      <3>4. QED  BY <1>2, <3>3
    <2>2. \A k \in 0 .. r - 1 : SentAt(Newest - k)' = 0
      BY <1>2 DEF SentAt
    <2>3. \A t \in Times : history'[t] = 0
      BY <1>2
    <2>4. QED  BY <1>4, <1>6, <2>1, <2>2, <2>3 DEF RingInv
  <1>9. LimitKept'
    <2>1. ASSUME NEW ts \in Times PROVE SentBefore(ts)' <= MaxBytes
      <3>1. [k \in 1 .. countRange |-> SentAt(ts - countRange + k)]' = [k \in 1 .. r |-> 0]
        BY <1>2, <1>4 DEF SentAt
      <3>2. SentBefore(ts)' = Total([k \in 1 .. r |-> 0], r)
        BY <1>4, <3>1 DEF SentBefore
      <3>3. QED  BY <1>5, <3>2, EmptyHistory
    <2>2. QED  BY <2>1 DEF LimitKept
  <1>10. ClockInv'
    <2>1. SUFFICES ASSUME ~longer', ~setBack' PROVE Newest' <= bandwidthTime'
      BY DEF ClockInv
    <2>2. ~longer /\ ~setBack /\ unit' <= unit /\ unit \in Nat \ {0} /\ unit' \in Nat \ {0} /\ now \in Nat
      <3>1. unit \in Units /\ now \in Times
        BY <1>1 DEF TypeOK
      <3>2. unit \in Nat \ {0} /\ unit' \in Nat \ {0} /\ now \in Nat
        BY <1>2, <3>1, RangeFacts
      <3>3. longer' = (longer \/ unit' > unit) /\ setBack' = setBack
        BY <1>2
      <3>4. ~longer /\ ~(unit' > unit) /\ ~setBack
        BY <2>1, <3>3, Zenon
      <3>5. unit' <= unit
        BY <3>2, <3>4
      <3>6. QED  BY <3>2, <3>4, <3>5
    <2>3. now \div unit <= now \div unit'
      <3>1. PICK a \in Nat, u \in Nat \ {0}, v \in Nat \ {0} : a = now /\ u = unit /\ v = unit' /\ v <= u /\ a <= a
        BY <2>2
      <3>2. a \div u <= a \div v
        BY <3>1, QuotientGrows
      <3>3. QED  BY <3>1, <3>2
    <2>4. Newest <= now \div unit
      BY <1>1, <2>2 DEF ClockInv, bandwidthTime
    <2>5. bandwidthTime' = now \div unit' /\ now \div unit \in Nat /\ now \div unit' \in Nat /\ Newest \in Nat
      <3>1. bandwidthTime' = now \div unit'
        BY <1>2 DEF bandwidthTime
      <3>2. now \div unit \in Nat
        BY <2>2, QuotientIs
      <3>3. PICK v \in Nat \ {0} : v = unit'
        BY <2>2
      <3>4. now \div v \in Nat
        BY <2>2, QuotientIs
      <3>5. Newest \in Nat
        BY <1>1, <1>6, SizesNow
      <3>6. QED  BY <3>1, <3>2, <3>3, <3>4, <3>5
    <2>6. QED  BY <1>6, <2>3, <2>4, <2>5
  <1>11. QED  BY <1>1, <1>2, <1>3, <1>8, <1>9, <1>10 DEF IInv, ThrowsOnlyForTimeGoingBack

\* Every step keeps the invariant.
LEMMA StepPreserves == IInv /\ [Next]_vars => IInv'
  <1> SUFFICES ASSUME IInv, [Next]_vars PROVE IInv'
    OBVIOUS
  <1>1. TypeOK /\ RingInv /\ ClockInv /\ ThrowsOnlyForTimeGoingBack /\ LimitKept
    BY DEF IInv
  <1>2. CASE Tick
    <2>1. PICK step \in Steps : now' = now + step
      BY <1>2 DEF Tick
    <2>2. now' <= MaxNow /\ UNCHANGED <<baseTimestamp, currIndex, counterVector, unit, history, threw, longer, setBack>>
      BY <1>2 DEF Tick
    <2>3. now \in Nat /\ step \in Nat /\ unit \in Nat \ {0} /\ Times = 0 .. MaxNow /\ MaxNow \in Nat /\ Newest \in Nat
      <3>1. unit \in Units /\ now \in Times /\ Newest \in Times
        BY <1>1 DEF TypeOK, RingInv
      <3>2. step \in Nat
        BY CounterAssumption
      <3>3. QED  BY <1>1, <3>1, <3>2, RangeFacts, SizesNow
    <2>4. now' \in Times /\ now' \in Nat /\ now <= now'
      BY <2>1, <2>2, <2>3
    <2>5. TypeOK'
      BY <1>1, <2>2, <2>4 DEF TypeOK
    <2>6. RingInv' /\ LimitKept' /\ Newest' = Newest
      BY <1>1, <2>2, CounterUnchanged
    <2>7. bandwidthTime <= bandwidthTime' /\ bandwidthTime \in Nat /\ bandwidthTime' \in Nat
      <3>1. PICK a \in Nat, b \in Nat : a = now /\ b = now' /\ a <= b
        BY <2>3, <2>4
      <3>2. a \div unit <= b \div unit /\ a \div unit \in Nat /\ b \div unit \in Nat
        <4>1. unit <= unit /\ unit \in Nat \ {0}
          BY <2>3
        <4>2. QED  BY <3>1, <4>1, QuotientGrows, QuotientIs
      <3>3. bandwidthTime = a \div unit /\ bandwidthTime' = b \div unit
        BY <2>2, <3>1 DEF bandwidthTime
      <3>4. QED  BY <3>2, <3>3
    <2>8. ClockInv'
      BY <1>1, <2>2, <2>3, <2>6, <2>7 DEF ClockInv
    <2>9. QED  BY <1>1, <2>2, <2>5, <2>6, <2>8 DEF IInv, ThrowsOnlyForTimeGoingBack
  <1>3. CASE SetBack
    <2>1. PICK back \in Backs : now' = now - back
      BY <1>3 DEF SetBack
    <2>2. now' >= 0 /\ setBack' = TRUE /\ UNCHANGED <<baseTimestamp, currIndex, counterVector, unit, history, threw, longer>>
      BY <1>3 DEF SetBack
    <2>3. now' \in Times
      <3>1. now \in Times /\ back \in Nat
        BY <1>1, CounterAssumption DEF TypeOK
      <3>2. Times = 0 .. MaxNow /\ MaxNow \in Nat
        BY <1>1, SizesNow
      <3>3. QED  BY <2>1, <2>2, <3>1, <3>2
    <2>4. TypeOK'
      BY <1>1, <2>2, <2>3 DEF TypeOK
    <2>5. RingInv' /\ LimitKept'
      BY <1>1, <2>2, CounterUnchanged
    <2>6. ClockInv' /\ ThrowsOnlyForTimeGoingBack'
      BY <2>2 DEF ClockInv, ThrowsOnlyForTimeGoingBack
    <2>7. QED  BY <2>4, <2>5, <2>6 DEF IInv
  <1>4. CASE UNCHANGED vars
    <2>1. UNCHANGED <<baseTimestamp, currIndex, counterVector, unit, now, history, threw, longer, setBack>>
      BY <1>4 DEF vars
    <2>2. RingInv' /\ LimitKept' /\ Newest' = Newest
      BY <1>1, <2>1, CounterUnchanged
    <2>3. TypeOK'
      BY <1>1, <2>1 DEF TypeOK
    <2>4. bandwidthTime' = bandwidthTime
      BY <2>1 DEF bandwidthTime
    <2>5. ClockInv' /\ ThrowsOnlyForTimeGoingBack'
      BY <1>1, <2>1, <2>2, <2>4 DEF ClockInv, ThrowsOnlyForTimeGoingBack
    <2>6. QED  BY <2>2, <2>3, <2>5 DEF IInv
  <1>5. QED
    BY <1>2, <1>3, <1>4, SendPreserves, SetBandwidthPreserves DEF Next

\* IInv holds in every state the specification can reach.
LEMMA Inductive == Spec => []IInv
  BY InitEstablishes, StepPreserves, PTL DEF Spec

-----------------------------------------------------------------------------
(* The theorems. *)

\* Times, positions and counts keep to their types.
THEOREM Types == Spec => []TypeOK
  <1>1. IInv => TypeOK
    BY DEF IInv
  <1>2. QED  BY <1>1, Inductive, PTL

\* Whatever the size of the ring, the interval and the units: count says what was
\* sent in the window, now and at every later time.
THEOREM CountIsExact == Spec => []CountIsWindow
  <1>1. IInv => CountIsWindow
    <2> SUFFICES ASSUME IInv, bandwidthTime >= baseTimestamp + currIndex,
                        NEW ts \in bandwidthTime .. bandwidthTime + MaxRange
                 PROVE  count(ts) = SentBefore(ts)
      BY DEF CountIsWindow
    <2>1. TypeOK /\ RingInv
      BY DEF IInv
    <2>2. /\ bandwidthTime \in Nat /\ MaxRange \in Nat /\ baseTimestamp + currIndex \in Nat
          /\ Newest = baseTimestamp + currIndex
      <3>1. bandwidthTime \in Nat /\ MaxRange \in Nat /\ baseTimestamp \in Nat /\ currIndex \in 0 .. MaxRange - 1
        BY <2>1, SizesNow
      <3>2. QED  BY <3>1 DEF Newest
    <2>3. ts \in Int /\ ts >= Newest
      BY <2>2
    <2>4. QED  BY <2>1, <2>3, CountsWindow
  <1>2. QED  BY <1>1, Inductive, PTL

\* No window of the range of the counter ever holds more than the limit.
THEOREM LimitHolds == Spec => []LimitKept
  <1>1. IInv => LimitKept
    BY DEF IInv
  <1>2. QED  BY <1>1, Inductive, PTL

\* update throws only after the unit grew or the clock was set back.
THEOREM ThrowsAreTimeGoingBack == Spec => []ThrowsOnlyForTimeGoingBack
  <1>1. IInv => ThrowsOnlyForTimeGoingBack
    BY DEF IInv
  <1>2. QED  BY <1>1, Inductive, PTL

=============================================================================

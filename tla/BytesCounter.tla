---------------------------- MODULE BytesCounter ----------------------------
(***************************************************************************)
(* The bandwidth limit of UdpSender: BytesCounter and the use doSend makes *)
(* of it, in include/rtpTrs/UdpSender.hpp.                                 *)
(*                                                                         *)
(* The bytes sent in the last countRange_ units of time are kept in a ring *)
(* of one counter per unit.  The ring slides with the unit of the last     *)
(* packet; a pause longer than the ring starts it anew without clearing    *)
(* all of it.  history has the bytes of the last units, since the last     *)
(* reset.                                                                  *)
(***************************************************************************)
EXTENDS Integers

CONSTANTS
  MaxRange,      \* MAX_RANGE: 1024
  Interval,      \* bandwidthControlInterverInMs: 1000
  Units,         \* the lengths of a unit setBandwidth is given, in ms
  MaxBytes,      \* maxBytesPerInterval
  Sizes,         \* sizes of packets
  Steps,         \* how far the clock moves between two calls, in ms
  Backs,         \* how far the system clock may be set back, in ms
  Start,         \* the clock at the start; far above 0
  MaxNow         \* bound: the clock

Indices == 0 .. MaxRange - 1
Times   == 0 .. MaxNow

\* std::ceil(bandwidthControlInterverInMs * 1.0f / bandwidthCalcUnitInMs)
RangeOf(unit) == (Interval + unit - 1) \div unit

ASSUME CounterAssumption ==
  /\ MaxRange \in Nat \ {0} /\ Interval \in Nat \ {0} /\ MaxBytes \in Nat
  /\ Start \in Nat /\ MaxNow \in Nat /\ Start <= MaxNow
  /\ Sizes \subseteq Nat /\ Steps \subseteq Nat /\ Backs \subseteq Nat
  /\ Units \subseteq Nat \ {0} /\ Units # {}
  /\ \A unit \in Units : RangeOf(unit) < MaxRange

VARIABLES
  baseTimestamp, currIndex, counterVector,
  unit,          \* bandwidthCalcUnitInMs
  now,           \* seeker::time::currentTime()
  history,       \* bytes sent in each of the last Interval units, since the counter was reset
  threw,         \* update has thrown; isSending stays set, so nothing more is sent
  longer,        \* the unit has been made longer at some time
  setBack        \* the clock has been set back at some time

vars == <<baseTimestamp, currIndex, counterVector, unit, now, history, threw, longer, setBack>>

countRange    == RangeOf(unit)
bandwidthTime == now \div unit

add(a, b) == (a + b) % MaxRange
sub(a, b) == (a - b) % MaxRange

\* f[1] + ... + f[n], added up one by one.
Total(f, n) ==
  LET total[i \in 0 .. n] == IF i = 0 THEN 0 ELSE total[i - 1] + f[i]
  IN  total[n]

\* The counters from begin up to end, end left out; none when the two are equal.
Sum(begin, end) ==
  Total([k \in 1 .. sub(end, begin) |-> counterVector[add(begin, k - 1)]], sub(end, begin))

\* The last two cases are for a time before the last packet.
count(ts) ==
  LET diff == ts - (baseTimestamp + currIndex)
      end  == add(sub(currIndex, -diff), 1)
  IN  IF diff >= countRange THEN 0
      ELSE IF diff >= 0 THEN Sum(sub(currIndex, countRange - diff - 1), add(currIndex, 1))
      ELSE IF -diff < MaxRange - countRange THEN Sum(sub(end, countRange), end)
      ELSE -1

-----------------------------------------------------------------------------
(* update(ts, byteSize). *)

\* Slip: the position in the ring is kept when it starts anew.
RestartKeepsIndex(ts, size) ==
  /\ baseTimestamp' = ts
  /\ currIndex' = currIndex
  /\ counterVector' =
       [ [i \in Indices |-> IF i >= sub(0, countRange) THEN 0 ELSE counterVector[i]] EXCEPT ![0] = size ]

\* After a pause of MAX_RANGE: only what count reads from index 0 backwards is cleared.
Restart(ts, size) ==
  /\ baseTimestamp' = ts
  /\ currIndex' = 0
  /\ counterVector' =
       [ [i \in Indices |-> IF i >= sub(0, countRange) THEN 0 ELSE counterVector[i]] EXCEPT ![0] = size ]

\* Slip: the units passed over keep what they counted a turn of the ring ago.
updateCounterStale(newIndex, size) ==
  /\ counterVector' = [counterVector EXCEPT ![newIndex % MaxRange] = IF newIndex = currIndex THEN @ + size ELSE size]
  /\ currIndex' = newIndex % MaxRange
  /\ baseTimestamp' = IF newIndex >= MaxRange THEN baseTimestamp + MaxRange ELSE baseTimestamp

\* Slip: the ring has a turn more than the index says.
updateCounterNoTurn(newIndex, size) ==
  /\ counterVector' = [counterVector EXCEPT ![newIndex % MaxRange] = IF newIndex = currIndex THEN @ + size ELSE size]
  /\ currIndex' = newIndex
  /\ baseTimestamp' = baseTimestamp

updateCounter(newIndex, size) ==
  LET passed == { i % MaxRange : i \in currIndex + 1 .. newIndex }
  IN  /\ counterVector' = [ [i \in Indices |-> IF i \in passed THEN 0 ELSE counterVector[i]]
                            EXCEPT ![newIndex % MaxRange] = @ + size ]
      /\ currIndex' = newIndex % MaxRange
      /\ baseTimestamp' = IF newIndex >= MaxRange THEN baseTimestamp + MaxRange ELSE baseTimestamp

\* newIndex fits 16 bits: it is below currIndex + MAX_RANGE.
update(ts, size) ==
  LET idx == ts - baseTimestamp
  IN  IF idx < currIndex
      THEN threw' = TRUE /\ UNCHANGED <<baseTimestamp, currIndex, counterVector, history>>
      ELSE /\ IF idx - currIndex >= MaxRange THEN Restart(ts, size) ELSE updateCounter(idx, size)
           /\ history' = [t \in Times |-> IF t = ts THEN history[t] + size
                                        ELSE IF t <= ts - Interval THEN 0 ELSE history[t]]
           /\ UNCHANGED threw

-----------------------------------------------------------------------------

\* Slip: the packet to be sent is not counted.
FitsWithout(size) == count(bandwidthTime) <= MaxBytes

\* byteSentInInterval is unsigned: the -1 of count wraps round when the size is added.
Fits(size) == count(bandwidthTime) + size <= MaxBytes

\* doSend with a packet: it is sent, and counted, unless the limit is reached.
Send ==
  /\ ~threw
  /\ \E size \in Sizes : Fits(size) /\ update(bandwidthTime, size)
  /\ UNCHANGED <<unit, now, longer, setBack>>

\* setBandwidth(maxBytesPerSecond, bandwidthControlUnitInMs): reset leaves the
\* base and the index of the ring as they are.
SetBandwidth ==
  /\ ~threw
  /\ unit' \in Units
  /\ counterVector' = [i \in Indices |-> 0]
  /\ history' = [t \in Times |-> 0]
  /\ longer' = (longer \/ unit' > unit)
  /\ UNCHANGED <<baseTimestamp, currIndex, now, threw, setBack>>

Tick ==
  /\ \E step \in Steps : now' = now + step
  /\ now' <= MaxNow
  /\ UNCHANGED <<baseTimestamp, currIndex, counterVector, unit, history, threw, longer, setBack>>

\* currentTime is the system clock, which can be set back; once, here.
SetBack ==
  /\ ~setBack /\ setBack' = TRUE
  /\ \E back \in Backs : now' = now - back
  /\ now' >= 0
  /\ UNCHANGED <<baseTimestamp, currIndex, counterVector, unit, history, threw, longer>>

Init ==
  /\ baseTimestamp = 0 /\ currIndex = 0
  /\ counterVector = [i \in Indices |-> 0]
  /\ unit \in Units
  /\ now = Start
  /\ history = [t \in Times |-> 0]
  /\ threw = FALSE /\ longer = FALSE /\ setBack = FALSE

Next == Send \/ SetBandwidth \/ Tick \/ SetBack

Spec == Init /\ [][Next]_vars

-----------------------------------------------------------------------------
(* The properties. *)

SentAt(t) == IF t \in Times THEN history[t] ELSE 0

\* The bytes sent in the countRange_ units that end with ts.
SentBefore(ts) == Total([k \in 1 .. countRange |-> SentAt(ts - countRange + k)], countRange)

TypeOK ==
  /\ baseTimestamp \in Times /\ currIndex \in Indices
  /\ counterVector \in [Indices -> Nat]
  /\ unit \in Units /\ now \in Times
  /\ history \in [Times -> Nat]
  /\ threw \in BOOLEAN /\ longer \in BOOLEAN /\ setBack \in BOOLEAN

\* Where the counter has not been left behind by the clock's unit: count says what
\* was sent in the window, for now and for every later time, after any pauses.
CountIsWindow ==
  bandwidthTime >= baseTimestamp + currIndex =>
    \A ts \in bandwidthTime .. bandwidthTime + MaxRange : count(ts) = SentBefore(ts)

\* In no countRange_ units in a row are more than maxBytesPerInterval bytes sent, by
\* the clock that counts, whether it is set back or not.
LimitKept == \A ts \in Times : SentBefore(ts) <= MaxBytes

\* The exceptions of update, "it should never happen", need a time that goes back: a
\* unit made longer, or the clock set back.
ThrowsOnlyForTimeGoingBack == threw => longer \/ setBack

\* They never happen.
NeverThrows == ~threw

=============================================================================

--------------------------- MODULE ReorderBuffer ---------------------------
(***************************************************************************)
(* What a RtpPipe promises, without its ring: a set of held packets and a  *)
(* window of sequence numbers that are still undecided.                    *)
(*                                                                         *)
(* newest is the highest sequence number accepted, next the oldest number  *)
(* that is neither delivered nor given up.  A packet is delivered when     *)
(* everything before it is, or when it is R or more behind newest + 1.     *)
(* RtpPipe is shown to implement this module (MCRtpPipe).                  *)
(***************************************************************************)
EXTENDS Integers, Sequences, SequencesExt

CONSTANTS Half, R, MaxDiff

SeqRange  == 2 * Half
SeqNums == 0 .. SeqRange - 1
None    == -1

VARIABLES newest, next, held, out

vars == <<newest, next, held, out>>

\* The distance from newest to s, the shorter way round.
Ahead(s) ==
  LET up == (s - newest) % SeqRange
  IN  IF up <= Half - 1 \/ (up = Half /\ s < newest) THEN up ELSE up - SeqRange

Nth(k)   == (next + k) % SeqRange            \* the k-th undecided sequence number
Offset(s) == (s - next) % SeqRange
Width    == (newest + 1 - next) % SeqRange   \* how many numbers are undecided

InOrder(h, n) == FlattenSeq([k \in 1 .. n |-> IF Nth(k - 1) \in h THEN <<Nth(k - 1)>> ELSE <<>>])

Start(s) ==
  /\ newest = None
  /\ newest' = s
  /\ next' = (s + 1) % SeqRange
  /\ held' = {}
  /\ out' = <<s>>

\* Hold s, then deliver in order what is no longer worth waiting for.
Admit(s, width) ==
  LET h == held \cup {s}
      Decided(n) == n >= width - R /\ (n = width \/ Nth(n) \notin h)
  IN  \E n \in 0 .. width :
        /\ Decided(n) /\ \A k \in 0 .. n - 1 : ~Decided(k)
        /\ next' = Nth(n)
        /\ out' = InOrder(h, n)
        /\ held' = { t \in h : Offset(t) >= n }

Extend(s) ==
  /\ newest # None /\ Ahead(s) \in 1 .. R
  /\ Admit(s, Width + Ahead(s))
  /\ newest' = s

Fill(s) ==
  /\ newest # None /\ s \notin held /\ Offset(s) < Width
  /\ Admit(s, Width)
  /\ UNCHANGED newest

\* Too far ahead to wait: everything held goes out first.
Skip(s) ==
  /\ newest # None /\ Ahead(s) \in R + 1 .. MaxDiff - 1
  /\ out' = Append(InOrder(held, Width), s)
  /\ newest' = s
  /\ next' = (s + 1) % SeqRange
  /\ held' = {}

\* A number already decided, already held, or an arrival that is no packet of the stream.
Ignore == out' = <<>> /\ UNCHANGED <<newest, next, held>>

\* A packet from nowhere near the window, or a reset.
Restart ==
  /\ newest' = None
  /\ next' = None
  /\ held' = {}
  /\ out' = <<>>

Init == newest = None /\ next = None /\ held = {} /\ out = <<>>

Next ==
  \/ \E s \in SeqNums : Start(s) \/ Extend(s) \/ Fill(s) \/ Skip(s)
  \/ Ignore
  \/ Restart

Spec == Init /\ [][Next]_vars

=============================================================================

----------------------------- MODULE CodecProofs -----------------------------
(***************************************************************************)
(* For any codecs, number of channels, capacity and number of openings:    *)
(* the channel ids are shared out and given back as ChannelIdsSound says,  *)
(* and an encoder leaves no thread behind but as GoneEncoderIsQuiet says.  *)
(***************************************************************************)
EXTENDS Codec, SequenceTheorems, WellFoundedInduction, TLAPS

States == {"started", "looping", "ended"}

\* Who has an id: an open decoder, or one that is still to be closed.
Holder(d) == channel[d] \/ (opened[d] /\ needClose[d])

IdsInv ==
  /\ \A d \in Decoders : channel[d] => opened[d]
  /\ \A d \in Decoders : at[d] \in {"stop", "destroy"} => needClose[d] /\ ~gone[d]
  /\ stray \/ \A d \in Decoders :
       Holder(d) => channelId_[d] \in IF channel[d] THEN idsUsed ELSE idsUsed \cup {INVALID_CHANNEL_ID}
  /\ stray \/ \A c, d \in Decoders :
       c # d /\ Holder(c) /\ Holder(d) /\ channelId_[c] = channelId_[d] => channelId_[c] = INVALID_CHANNEL_ID
  /\ reopened \/ \A i \in idsUsed :
       \E d \in Decoders : ~gone[d] /\ needClose[d] /\ opened[d] /\ channelId_[d] = i

\* An encoder whose opens succeeded and whose closes came late enough.
Ended(e, m) == \A i \in DOMAIN threads[e] : i <= m => threads[e][i] = "ended"

Orderly(e) ==
  /\ Ended(e, Len(threads[e]) - 1)
  /\ at[e] \in {"idle", "take"} /\ ~needClose[e] => ~channel[e] /\ Ended(e, Len(threads[e]))
  /\ at[e] = "join" => ~channel[e]
  /\ at[e] # "destroy"
  /\ gone[e] => at[e] = "idle" /\ ~needClose[e]

EncodersInv == \A e \in Encoders : ~hasty[e] /\ ~failed[e] => Orderly(e)

Inv == TypeOK /\ IdsInv /\ EncodersInv

-----------------------------------------------------------------------------

\* There is a first free id when there is a free one.
LEMMA GeneratedIsFree == Free # {} => Generated \in Free
  <1> SUFFICES ASSUME Free # {} PROVE \E i \in Free : \A j \in Free : i <= j
    BY DEF Generated
  <1>1. Free \subseteq Nat
    BY CodecAssumption DEF Free, Ids
  <1>2. PICK i \in Free : \A j \in Free : ~(<<j, i>> \in OpToRel(<, Nat))
    BY <1>1, NatLessThanWellFounded, WFMin, Zenon
  <1>3. \A j \in Free : ~(j < i)
    BY <1>1, <1>2 DEF OpToRel
  <1>4. QED  BY <1>1, <1>3

\* What GenerateChannelId returns.
LEMMA GeneratedType ==
  \/ Generated \in Free
  \/ Generated = INVALID_CHANNEL_ID
  BY GeneratedIsFree DEF Generated

\* A thread more.
LEMMA ThreadAppended ==
  ASSUME NEW s \in Seq(States), NEW n \in {0, 1}
  PROVE  LET t == IF n = 1 THEN Append(s, "started") ELSE s
         IN  /\ t \in Seq(States) /\ Len(t) = Len(s) + n
             /\ \A i \in 1 .. Len(s) : t[i] = s[i]
  BY AppendProperties DEF States

\* A thread's step.
LEMMA ThreadStepped ==
  ASSUME NEW s \in Seq(States), NEW i \in DOMAIN s, NEW v \in States
  PROVE  LET t == [s EXCEPT ![i] = v]
         IN  t \in Seq(States) /\ Len(t) = Len(s) /\ t[i] = v /\ \A j \in DOMAIN s \ {i} : t[j] = s[j]
  BY ExceptSeq

\* What an open does to the threads.
LEMMA OpenThreads ==
  ASSUME TypeOK, NEW c \in Codecs, NEW n \in {0, 1}, NEW created \in BOOLEAN, NEW ok \in BOOLEAN,
         Open(c, n, created, ok)
  PROVE  /\ threads' \in [Codecs -> Seq(States)]
         /\ Len(threads'[c]) = Len(threads[c]) + n
         /\ \A i \in 1 .. Len(threads[c]) : threads'[c][i] = threads[c][i]
         /\ \A d \in Codecs \ {c} : threads'[d] = threads[d]
  <1>1. threads \in [Codecs -> Seq(States)]
    BY DEF TypeOK, States
  <1> DEFINE t == IF n = 1 THEN Append(threads[c], "started") ELSE threads[c]
  <1>2. threads' = [threads EXCEPT ![c] = t]
    BY DEF Open
  <1>3. /\ t \in Seq(States) /\ Len(t) = Len(threads[c]) + n
        /\ \A i \in 1 .. Len(threads[c]) : t[i] = threads[c][i]
    BY <1>1, ThreadAppended
  <1> HIDE DEF t
  <1>4. QED  BY <1>1, <1>2, <1>3, Zenon

\* What a step of a thread does to the threads.
LEMMA StepThreads ==
  ASSUME TypeOK, NEW c \in Codecs, NEW i, NEW from \in States, NEW to \in States,
         Becomes(c, i, from, to)
  PROVE  /\ threads' \in [Codecs -> Seq(States)]
         /\ i \in DOMAIN threads[c] /\ threads[c][i] = from /\ threads'[c][i] = to
         /\ Len(threads'[c]) = Len(threads[c])
         /\ \A j \in DOMAIN threads[c] \ {i} : threads'[c][j] = threads[c][j]
         /\ \A d \in Codecs \ {c} : threads'[d] = threads[d]
  <1>1. threads \in [Codecs -> Seq(States)]
    BY DEF TypeOK, States
  <1>2. i \in DOMAIN threads[c] /\ threads[c][i] = from
    BY DEF Becomes, State, States
  <1> DEFINE t == [threads[c] EXCEPT ![i] = to]
  <1>3. threads' = [threads EXCEPT ![c] = t]
    BY DEF Becomes
  <1>4. t \in Seq(States) /\ Len(t) = Len(threads[c]) /\ t[i] = to /\ \A j \in DOMAIN threads[c] \ {i} : t[j] = threads[c][j]
    BY <1>1, <1>2, ThreadStepped
  <1> HIDE DEF t
  <1>5. QED  BY <1>1, <1>2, <1>3, <1>4, Zenon

\* Every step keeps the types.
LEMMA TypeStep == TypeOK /\ [Next]_vars => TypeOK'
  <1> SUFFICES ASSUME TypeOK, [Next]_vars PROVE TypeOK'
    OBVIOUS
  <1> USE CodecAssumption
  <1>0. CASE UNCHANGED vars
    BY <1>0 DEF TypeOK, vars, ids, data, notes
  <1>1. ASSUME NEW d \in Decoders, OpenDecoder(d) PROVE TypeOK'
    <2>1. PICK n \in {0, 1}, ok \in BOOLEAN :
            /\ Open(d, n, ok, ok)
            /\ idsUsed' = idsUsed \cup ({Generated} \cap Ids)
            /\ channelId_' = [channelId_ EXCEPT ![d] = Generated]
            /\ reopened' = (reopened \/ opened[d] \/ ~needClose[d])
            /\ UNCHANGED <<needClose, stray>>
      BY <1>1 DEF OpenDecoder
    <2>2. threads' \in [Codecs -> Seq(States)]
      BY <2>1, OpenThreads DEF Codecs
    <2>3. Generated \in Ids \cup {INVALID_CHANNEL_ID}
      BY GeneratedType DEF Free
    <2>4. idsUsed' \subseteq Ids /\ channelId_' \in [Decoders -> Ids \cup {INVALID_CHANNEL_ID, 0}]
      BY <2>1, <2>3 DEF TypeOK
    <2>5. QED  BY <2>1, <2>2, <2>4 DEF TypeOK, Open, States, Codecs, data
  <1>2. ASSUME NEW e \in Encoders, OpenEncoder(e) PROVE TypeOK'
    <2>1. PICK n \in {0, 1}, created \in BOOLEAN, ok \in BOOLEAN :
            /\ Open(e, n, created, ok)
            /\ needClose' = [needClose EXCEPT ![e] = ok]
            /\ UNCHANGED ids
      BY <1>2 DEF OpenEncoder
    <2>2. threads' \in [Codecs -> Seq(States)]
      BY <2>1, OpenThreads DEF Codecs
    <2>3. QED  BY <2>1, <2>2 DEF TypeOK, Open, States, Codecs, data, ids
  <1>3. ASSUME NEW c \in Codecs, NEW i, SetIsWork(c, i) \/ LoopEnds(c, i) \/ (c \in Encoders /\ ThreadFails(c, i))
        PROVE  TypeOK'
    <2>1. threads' \in [Codecs -> Seq(States)]
      BY <1>3, StepThreads DEF SetIsWork, LoopEnds, ThreadFails, States
    <2>2. QED  BY <1>3, <2>1 DEF TypeOK, SetIsWork, LoopEnds, ThreadFails, States, ids, data, notes
  <1>4. ASSUME NEW c \in Codecs, Callback(c) \/ Send(c) \/ Take(c) PROVE TypeOK'
    <2>1. queue' \in [Codecs -> 0 .. Capacity]
      BY <1>4 DEF TypeOK, Callback, Send, Take
    <2>2. frames' \in [Codecs -> Nat]
      <3>1. frames \in [Codecs -> Nat]
        BY DEF TypeOK
      <3>2. CASE Callback(c)
        BY <3>1, <3>2 DEF Callback
      <3>3. CASE Send(c)
        BY <3>1, <3>3 DEF Send
      <3>4. CASE Take(c)
        BY <3>1, <3>4 DEF Take
      <3>5. QED  BY <1>4, <3>2, <3>3, <3>4
    <2>3. QED  BY <1>4, <2>1, <2>2 DEF TypeOK, Callback, Send, Take, ids, data, notes
  <1>5. ASSUME NEW c \in Codecs, SendEos(c) \/ Stop(c) \/ Destruct(c) PROVE TypeOK'
    <2>1. frames' \in [Codecs -> Nat]
      BY <1>5 DEF TypeOK, SendEos, Stop, Destruct, data
    <2>2. CASE SendEos(c)
      BY <2>1, <2>2 DEF TypeOK, SendEos, ids, notes
    <2>3. CASE Stop(c)
      BY <2>3 DEF TypeOK, Stop, ids, data
    <2>4. CASE Destruct(c)
      BY <2>4 DEF TypeOK, Destruct, ids, data, notes
    <2>5. QED  BY <1>5, <2>2, <2>3, <2>4
  <1>6. ASSUME NEW d \in Decoders, CloseDecoder(d) PROVE TypeOK'
    <2>1. idsUsed' \subseteq Ids
      BY <1>6 DEF TypeOK, CloseDecoder
    <2>2. frames' \in [Codecs -> Nat] /\ queue' \in [Codecs -> 0 .. Capacity]
      BY <1>6 DEF TypeOK, CloseDecoder, DestroyChannel, Codecs
    <2>3. QED  BY <1>6, <2>1, <2>2 DEF TypeOK, CloseDecoder, DestroyChannel, Codecs, notes
  <1>7. ASSUME NEW e \in Encoders, CloseEncoder(e) \/ Join(e) PROVE TypeOK'
    <2>1. CASE CloseEncoder(e)
      BY <2>1 DEF TypeOK, CloseEncoder, DestroyChannel, Codecs, ids, notes
    <2>2. CASE Join(e)
      BY <2>2 DEF TypeOK, Join, Codecs, ids, data, notes
    <2>3. QED  BY <1>7, <2>1, <2>2
  <1>8. QED
    BY <1>0, <1>1, <1>2, <1>3, <1>4, <1>5, <1>6, <1>7 DEF Next, User, Thread


-----------------------------------------------------------------------------
(* The ids. *)

\* Most steps change nothing of a decoder that the ids depend on.
LEMMA IdsKept ==
  ASSUME IdsInv, UNCHANGED ids,
         \A d \in Decoders :
           /\ channel'[d] = channel[d] /\ opened'[d] = opened[d] /\ needClose'[d] = needClose[d]
           /\ gone'[d] => gone[d] \/ ~needClose[d]
           /\ at'[d] \in {"stop", "destroy"} => needClose[d] /\ ~gone'[d]
  PROVE  IdsInv'
  <1>1. /\ \A d \in Decoders : channel'[d] => opened'[d]
        /\ \A d \in Decoders : at'[d] \in {"stop", "destroy"} => needClose'[d] /\ ~gone'[d]
    BY DEF IdsInv
  <1>2. \A d \in Decoders : Holder(d)' <=> Holder(d)
    BY DEF Holder
  <1>3. idsUsed' = idsUsed /\ channelId_' = channelId_ /\ stray' = stray /\ reopened' = reopened
    BY DEF ids
  <1>4. reopened' \/ \A i \in idsUsed' :
          \E d \in Decoders : ~gone'[d] /\ needClose'[d] /\ opened'[d] /\ channelId_'[d] = i
    BY <1>3 DEF IdsInv
  <1>5. stray' \/ \A d \in Decoders :
          Holder(d)' => channelId_'[d] \in IF channel'[d] THEN idsUsed' ELSE idsUsed' \cup {INVALID_CHANNEL_ID}
    BY <1>2, <1>3 DEF IdsInv
  <1>6. stray' \/ \A c, d \in Decoders :
          c # d /\ Holder(c)' /\ Holder(d)' /\ channelId_'[c] = channelId_'[d] => channelId_'[c] = INVALID_CHANNEL_ID
    BY <1>2, <1>3 DEF IdsInv
  <1>7. QED  BY <1>1, <1>4, <1>5, <1>6 DEF IdsInv

\* An open takes an id that nobody has.
LEMMA IdsOpen ==
  ASSUME TypeOK, IdsInv, NEW d \in Decoders, OpenDecoder(d)
  PROVE  IdsInv'
  <1> USE CodecAssumption DEF Codecs
  <1>1. PICK n \in {0, 1}, ok \in BOOLEAN :
          /\ ~channel[d] /\ Open(d, n, ok, ok)
          /\ Generated = INVALID_CHANNEL_ID => n = 0
          /\ idsUsed' = idsUsed \cup ({Generated} \cap Ids)
          /\ channelId_' = [channelId_ EXCEPT ![d] = Generated]
          /\ reopened' = (reopened \/ opened[d] \/ ~needClose[d])
          /\ UNCHANGED <<needClose, stray>>
    BY DEF OpenDecoder
  <1>2. /\ channel'[d] = ok /\ opened'[d] /\ at'[d] = "idle" /\ gone' = gone /\ at' = at
        /\ ok => n = 1
        /\ ~gone[d]
    BY <1>1 DEF Open, Idle, TypeOK
  <1>3. \A c \in Decoders \ {d} :
          channel'[c] = channel[c] /\ opened'[c] = opened[c] /\ channelId_'[c] = channelId_[c] /\ (Holder(c)' <=> Holder(c))
    BY <1>1 DEF Open, TypeOK, Holder
  <1>4. channelId_'[d] = Generated
    BY <1>1 DEF TypeOK
  <1>5. \/ Generated \in Ids /\ Generated \notin idsUsed /\ Generated # INVALID_CHANNEL_ID
        \/ Generated = INVALID_CHANNEL_ID /\ ~ok /\ Generated \notin Ids
    BY <1>1, <1>2, GeneratedType DEF Free, Ids, INVALID_CHANNEL_ID
  <1>6. /\ \A c \in Decoders : channel'[c] => opened'[c]
        /\ \A c \in Decoders : at'[c] \in {"stop", "destroy"} => needClose'[c] /\ ~gone'[c]
    BY <1>1, <1>2, <1>3 DEF IdsInv
  <1>7. stray' \/ \A c \in Decoders :
          Holder(c)' => channelId_'[c] \in IF channel'[c] THEN idsUsed' ELSE idsUsed' \cup {INVALID_CHANNEL_ID}
    BY <1>1, <1>2, <1>3, <1>4, <1>5 DEF IdsInv
  <1>8. stray' \/ \A b, c \in Decoders :
          b # c /\ Holder(b)' /\ Holder(c)' /\ channelId_'[b] = channelId_'[c] => channelId_'[b] = INVALID_CHANNEL_ID
    <2>1. ~stray => \A c \in Decoders \ {d} : Holder(c) => channelId_[c] \in idsUsed \cup {INVALID_CHANNEL_ID}
      BY DEF IdsInv
    <2>2. ~stray => \A c \in Decoders \ {d} : Holder(c) /\ channelId_[c] = Generated => Generated = INVALID_CHANNEL_ID
      BY <1>5, <2>1
    <2>3. QED  BY <1>1, <1>3, <1>4, <2>2 DEF IdsInv
  <1>9. reopened' \/ \A i \in idsUsed' :
          \E c \in Decoders : ~gone'[c] /\ needClose'[c] /\ opened'[c] /\ channelId_'[c] = i
    <2> SUFFICES ASSUME ~reopened', NEW i \in idsUsed'
                 PROVE  \E c \in Decoders : ~gone'[c] /\ needClose'[c] /\ opened'[c] /\ channelId_'[c] = i
      OBVIOUS
    <2>1. CASE i \in idsUsed
      <3>1. PICK c \in Decoders : ~gone[c] /\ needClose[c] /\ opened[c] /\ channelId_[c] = i
        BY <1>1, <2>1 DEF IdsInv
      <3>2. c # d
        BY <1>1, <3>1
      <3>3. QED  BY <1>1, <1>2, <1>3, <3>1, <3>2
    <2>2. CASE i = Generated
      BY <1>1, <1>2, <1>4, <2>2
    <2>3. QED  BY <1>1, <2>1, <2>2
  <1>10. QED  BY <1>6, <1>7, <1>8, <1>9 DEF IdsInv

\* A close gives back the id of that decoder and no other.
LEMMA IdsClose ==
  ASSUME TypeOK, IdsInv, NEW d \in Decoders, CloseDecoder(d)
  PROVE  IdsInv'
  <1> USE CodecAssumption DEF Codecs
  <1>1. /\ ~channel'[d] /\ ~needClose'[d] /\ at'[d] = "idle" /\ gone' = gone /\ opened' = opened
        /\ channelId_' = channelId_ /\ reopened' = reopened /\ stray' = (stray \/ ~opened[d])
        /\ idsUsed' = idsUsed \ {channelId_[d]}
    BY DEF CloseDecoder, DestroyChannel, TypeOK, notes
  <1>2. \A c \in Decoders \ {d} :
          channel'[c] = channel[c] /\ needClose'[c] = needClose[c] /\ at'[c] = at[c] /\ (Holder(c)' <=> Holder(c))
    BY <1>1 DEF CloseDecoder, DestroyChannel, TypeOK, Holder
  <1>3. needClose[d] /\ ~Holder(d)'
    BY <1>1 DEF IdsInv, CloseDecoder, Holder
  <1>4. /\ \A c \in Decoders : channel'[c] => opened'[c]
        /\ \A c \in Decoders : at'[c] \in {"stop", "destroy"} => needClose'[c] /\ ~gone'[c]
    BY <1>1, <1>2 DEF IdsInv
  <1>5. stray' \/ \A c \in Decoders \ {d} : Holder(c) /\ channelId_[c] = channelId_[d] => channelId_[c] = INVALID_CHANNEL_ID
    BY <1>1, <1>3 DEF IdsInv, Holder
  <1>6. INVALID_CHANNEL_ID \notin idsUsed
    BY DEF TypeOK, Ids, INVALID_CHANNEL_ID
  <1>7. stray' \/ \A c \in Decoders :
          Holder(c)' => channelId_'[c] \in IF channel'[c] THEN idsUsed' ELSE idsUsed' \cup {INVALID_CHANNEL_ID}
    <2> SUFFICES ASSUME ~stray', NEW c \in Decoders \ {d}, Holder(c)
                 PROVE  channelId_[c] \in IF channel[c] THEN idsUsed' ELSE idsUsed' \cup {INVALID_CHANNEL_ID}
      BY <1>1, <1>2, <1>3
    <2>1. channelId_[c] \in IF channel[c] THEN idsUsed ELSE idsUsed \cup {INVALID_CHANNEL_ID}
      BY <1>1 DEF IdsInv
    <2>2. QED  BY <1>1, <1>5, <1>6, <2>1
  <1>8. stray' \/ \A b, c \in Decoders :
          b # c /\ Holder(b)' /\ Holder(c)' /\ channelId_'[b] = channelId_'[c] => channelId_'[b] = INVALID_CHANNEL_ID
    BY <1>1, <1>2, <1>3 DEF IdsInv
  <1>9. reopened' \/ \A i \in idsUsed' :
          \E c \in Decoders : ~gone'[c] /\ needClose'[c] /\ opened'[c] /\ channelId_'[c] = i
    <2> SUFFICES ASSUME ~reopened, NEW i \in idsUsed'
                 PROVE  \E c \in Decoders : ~gone'[c] /\ needClose'[c] /\ opened'[c] /\ channelId_'[c] = i
      BY <1>1
    <2>1. PICK c \in Decoders : ~gone[c] /\ needClose[c] /\ opened[c] /\ channelId_[c] = i
      BY <1>1 DEF IdsInv
    <2>2. c # d
      BY <1>1, <2>1
    <2>3. QED  BY <1>1, <1>2, <2>1, <2>2
  <1>10. QED  BY <1>4, <1>7, <1>8, <1>9 DEF IdsInv

\* Every step keeps the ids sound.
LEMMA IdsStep == TypeOK /\ IdsInv /\ [Next]_vars => IdsInv'
  <1> SUFFICES ASSUME TypeOK, IdsInv, [Next]_vars PROVE IdsInv'
    OBVIOUS
  <1> USE CodecAssumption DEF Codecs
  <1>a. \A d \in Decoders : at[d] \in {"stop", "destroy"} => needClose[d] /\ ~gone[d]
    BY DEF IdsInv
  <1>0. CASE UNCHANGED vars
    BY <1>0, <1>a, IdsKept DEF vars, ids, data, notes
  <1>1. ASSUME NEW e \in Encoders, OpenEncoder(e) PROVE IdsInv'
    <2>1. PICK n \in {0, 1}, created \in BOOLEAN, ok \in BOOLEAN :
            /\ Open(e, n, created, ok)
            /\ needClose' = [needClose EXCEPT ![e] = ok]
            /\ UNCHANGED ids
      BY <1>1 DEF OpenEncoder
    <2>2. \A d \in Decoders :
            channel'[d] = channel[d] /\ opened'[d] = opened[d] /\ needClose'[d] = needClose[d]
      BY <2>1 DEF Open, TypeOK
    <2>3. at' = at /\ gone' = gone
      BY <2>1 DEF Open
    <2>4. QED  BY <1>a, <2>1, <2>2, <2>3, IdsKept
  <1>2. ASSUME NEW c \in Codecs, NEW i, SetIsWork(c, i) \/ LoopEnds(c, i) \/ ThreadFails(c, i) PROVE IdsInv'
    BY <1>2, <1>a, IdsKept DEF SetIsWork, LoopEnds, ThreadFails, data, notes
  <1>3. ASSUME NEW c \in Codecs, Callback(c) \/ Send(c) \/ Take(c) PROVE IdsInv'
    <2>1. UNCHANGED <<ids, channel, opened, needClose, gone>>
      BY <1>3 DEF Callback, Send, Take, notes
    <2>2. \A d \in Decoders : at'[d] \in {"stop", "destroy"} => at[d] \in {"stop", "destroy"}
      BY <1>3 DEF TypeOK, Callback, Send, Take
    <2>3. QED  BY <1>a, <2>1, <2>2, IdsKept
  <1>4. ASSUME NEW c \in Codecs, SendEos(c) \/ Stop(c) PROVE IdsInv'
    <2>1. UNCHANGED <<ids, channel, opened, gone>>
      BY <1>4 DEF SendEos, Stop, notes
    <2>2. \A d \in Decoders : needClose'[d] = needClose[d]
      BY <1>4 DEF TypeOK, SendEos, Stop
    <2>3. \A d \in Decoders : at'[d] \in {"stop", "destroy"} => needClose[d] /\ ~gone[d]
      BY <1>4, <1>a DEF TypeOK, SendEos, Stop, Idle
    <2>4. QED  BY <2>1, <2>2, <2>3, IdsKept
  <1>5. ASSUME NEW c \in Codecs, Destruct(c) PROVE IdsInv'
    <2>1. UNCHANGED <<ids, channel, opened, needClose, at>>
      BY <1>5 DEF Destruct, notes
    <2>2. \A d \in Decoders : gone'[d] => gone[d] \/ (d = c /\ ~needClose[d])
      BY <1>5 DEF TypeOK, Destruct
    <2>3. \A d \in Decoders : at[d] \in {"stop", "destroy"} => needClose[d] /\ ~gone'[d]
      BY <1>a, <2>2
    <2>4. QED  BY <2>1, <2>2, <2>3, IdsKept
  <1>6. ASSUME NEW e \in Encoders, CloseEncoder(e) \/ Join(e) PROVE IdsInv'
    <2>1. UNCHANGED <<ids, opened, needClose, gone>>
      BY <1>6 DEF CloseEncoder, Join, notes
    <2>2. \A d \in Decoders : channel'[d] = channel[d] /\ at'[d] = at[d]
      BY <1>6 DEF TypeOK, CloseEncoder, Join, DestroyChannel
    <2>3. QED  BY <1>a, <2>1, <2>2, IdsKept
  <1>7. QED
    BY <1>0, <1>1, <1>2, <1>3, <1>4, <1>5, <1>6, IdsOpen, IdsClose DEF Next, User, Thread


-----------------------------------------------------------------------------
(* The encoders' threads. *)

\* Orderly looks at these five only.
LEMMA OrderlyKept ==
  ASSUME NEW e \in Encoders, Orderly(e),
         threads'[e] = threads[e], at'[e] = at[e], needClose'[e] = needClose[e],
         channel'[e] = channel[e], gone'[e] = gone[e]
  PROVE  Orderly(e)'
  BY DEF Orderly, Ended

\* A step of another codec.
LEMMA OthersStep ==
  ASSUME TypeOK, NEW e \in Encoders, Orderly(e), NEW c \in Codecs \ {e}, User(c) \/ Thread(c)
  PROVE  Orderly(e)'
  <1> USE CodecAssumption DEF Codecs
  <1>1. ASSUME c \in Decoders, OpenDecoder(c) PROVE Orderly(e)'
    <2>1. PICK n \in {0, 1}, ok \in BOOLEAN : Open(c, n, ok, ok) /\ UNCHANGED needClose
      BY <1>1 DEF OpenDecoder
    <2>2. threads'[e] = threads[e]
      BY <2>1, OpenThreads
    <2>3. QED  BY <2>1, <2>2, OrderlyKept DEF Open, TypeOK
  <1>2. ASSUME c \in Encoders, OpenEncoder(c) PROVE Orderly(e)'
    <2>1. PICK n \in {0, 1}, created \in BOOLEAN, ok \in BOOLEAN :
            Open(c, n, created, ok) /\ needClose' = [needClose EXCEPT ![c] = ok]
      BY <1>2 DEF OpenEncoder
    <2>2. threads'[e] = threads[e]
      BY <2>1, OpenThreads
    <2>3. QED  BY <2>1, <2>2, OrderlyKept DEF Open, TypeOK
  <1>3. ASSUME NEW i, SetIsWork(c, i) \/ LoopEnds(c, i) \/ ThreadFails(c, i) PROVE Orderly(e)'
    <2>1. threads'[e] = threads[e]
      BY <1>3, StepThreads DEF SetIsWork, LoopEnds, ThreadFails, States
    <2>2. QED  BY <1>3, <2>1, OrderlyKept DEF SetIsWork, LoopEnds, ThreadFails
  <1>4. ASSUME Callback(c) \/ Send(c) \/ Take(c) PROVE Orderly(e)'
    BY <1>4, OrderlyKept DEF Callback, Send, Take, TypeOK
  <1>5. ASSUME SendEos(c) \/ Stop(c) \/ Destruct(c) PROVE Orderly(e)'
    BY <1>5, OrderlyKept DEF SendEos, Stop, Destruct, TypeOK
  <1>6. ASSUME c \in Decoders, CloseDecoder(c) PROVE Orderly(e)'
    BY <1>6, OrderlyKept DEF CloseDecoder, DestroyChannel, TypeOK
  <1>7. ASSUME c \in Encoders, CloseEncoder(c) \/ Join(c) PROVE Orderly(e)'
    <2>1. CASE CloseEncoder(c)
      BY <2>1, OrderlyKept DEF CloseEncoder, DestroyChannel, TypeOK
    <2>2. CASE Join(c)
      BY <2>2, OrderlyKept DEF Join, TypeOK
    <2>3. QED  BY <1>7, <2>1, <2>2
  <1>8. QED
    BY <1>1, <1>2, <1>3, <1>4, <1>5, <1>6, <1>7 DEF User, Thread

\* A step of the encoder itself.
LEMMA OwnStep ==
  ASSUME TypeOK, TypeOK', NEW e \in Encoders, Orderly(e), User(e) \/ Thread(e), ~hasty'[e], ~failed'[e]
  PROVE  Orderly(e)'
  <1> USE CodecAssumption DEF Codecs
  <1>a. /\ Len(threads[e]) \in Nat /\ DOMAIN threads[e] = 1 .. Len(threads[e])
        /\ Len(threads'[e]) \in Nat /\ DOMAIN threads'[e] = 1 .. Len(threads'[e])
    BY LenProperties DEF TypeOK
  <1>1. ASSUME OpenEncoder(e) PROVE Orderly(e)'
    <2>1. PICK n \in {0, 1}, created \in BOOLEAN, ok \in BOOLEAN :
            /\ ~needClose[e] /\ Open(e, n, created, ok)
            /\ needClose' = [needClose EXCEPT ![e] = ok]
      BY <1>1 DEF OpenEncoder
    <2>2. /\ ok /\ n = 1 /\ needClose'[e]
          /\ at[e] = "idle" /\ at' = at /\ gone' = gone /\ ~gone[e]
      BY <2>1 DEF Open, Idle, TypeOK
    <2>3. Ended(e, Len(threads[e]))
      BY <2>1, <2>2 DEF Orderly
    <2>4. /\ Len(threads'[e]) = Len(threads[e]) + 1
          /\ \A i \in 1 .. Len(threads[e]) : threads'[e][i] = threads[e][i]
      <3>1. /\ Len(threads'[e]) = Len(threads[e]) + n
            /\ \A i \in 1 .. Len(threads[e]) : threads'[e][i] = threads[e][i]
        BY <2>1, OpenThreads
      <3>2. QED  BY <2>2, <3>1
    <2>5. Ended(e, Len(threads[e]) - 1)'
      BY <1>a, <2>3, <2>4 DEF Ended
    <2>6. QED  BY <2>2, <2>5 DEF Orderly
  <1>2. ASSUME NEW i \in DOMAIN threads[e], SetIsWork(e, i) \/ LoopEnds(e, i) \/ ThreadFails(e, i)
        PROVE  Orderly(e)'
    <2>1. PICK from \in {"started", "looping"}, to \in {"looping", "ended"} : Becomes(e, i, from, to)
      BY <1>2 DEF SetIsWork, LoopEnds, ThreadFails
    <2>2. /\ threads[e][i] # "ended"
          /\ Len(threads'[e]) = Len(threads[e])
          /\ \A j \in DOMAIN threads[e] \ {i} : threads'[e][j] = threads[e][j]
      BY <2>1, StepThreads DEF States
    <2>3. ~(i <= Len(threads[e]) - 1) /\ ~Ended(e, Len(threads[e]))
      BY <1>a, <2>2 DEF Orderly, Ended
    <2>4. Ended(e, Len(threads[e]) - 1)'
      BY <1>a, <2>2, <2>3 DEF Orderly, Ended
    <2>5. UNCHANGED <<channel, needClose, at, gone>>
      BY <1>2 DEF SetIsWork, LoopEnds, ThreadFails
    <2>6. QED  BY <2>3, <2>4, <2>5 DEF Orderly
  <1>3. ASSUME Callback(e) \/ Send(e) \/ Take(e) PROVE Orderly(e)'
    <2>1. UNCHANGED <<threads, channel, needClose, gone>>
      BY <1>3 DEF Callback, Send, Take
    <2>2. Ended(e, Len(threads[e]) - 1)' /\ (Ended(e, Len(threads[e]))' <=> Ended(e, Len(threads[e])))
      BY <2>1 DEF Ended, Orderly
    <2>3. \/ at'[e] = at[e]
          \/ at[e] \in {"idle", "take"} /\ at'[e] \in {"idle", "take"} /\ ~gone[e]
      BY <1>3 DEF Callback, Send, Take, Idle, TypeOK, Orderly
    <2>4. QED  BY <2>1, <2>2, <2>3 DEF Orderly
  <1>4. ASSUME SendEos(e) PROVE Orderly(e)'
    <2>1. at'[e] = "stop" /\ ~gone[e] /\ UNCHANGED <<threads, channel, gone>>
      BY <1>4 DEF SendEos, Idle, TypeOK
    <2>2. QED  BY <2>1 DEF Orderly, Ended
  <1>5. ASSUME Stop(e) PROVE Orderly(e)'
    <2>1. isWork[e]
      BY <1>5 DEF Stop, TypeOK
    <2>2. at[e] = "stop" /\ at'[e] = "destroyAndJoin" /\ UNCHANGED <<threads, channel, gone>>
      BY <1>5, <2>1 DEF Stop, TypeOK
    <2>3. QED  BY <2>2 DEF Orderly, Ended
  <1>6. ASSUME Destruct(e) PROVE Orderly(e)'
    <2>1. at[e] = "idle" /\ ~needClose[e] /\ UNCHANGED <<threads, channel, needClose, at>>
      BY <1>6 DEF Destruct, Idle
    <2>2. QED  BY <2>1 DEF Orderly, Ended
  <1>7. ASSUME CloseEncoder(e) PROVE Orderly(e)'
    <2>1. at[e] = "destroyAndJoin" /\ at'[e] = "join" /\ ~channel'[e] /\ UNCHANGED <<threads, gone>>
      BY <1>7 DEF CloseEncoder, DestroyChannel, Orderly, TypeOK
    <2>2. QED  BY <2>1 DEF Orderly, Ended
  <1>8. ASSUME Join(e) PROVE Orderly(e)'
    <2>1. /\ at[e] = "join" /\ at'[e] = "idle" /\ UNCHANGED <<threads, channel, needClose, gone>>
          /\ threads[e][Len(threads[e])] = "ended"
      BY <1>8 DEF Join, TypeOK
    <2>2. Ended(e, Len(threads[e]))
      BY <1>a, <2>1 DEF Orderly, Ended
    <2>3. Ended(e, Len(threads[e]))' /\ Ended(e, Len(threads[e]) - 1)'
      BY <2>1, <2>2 DEF Orderly, Ended
    <2>4. QED  BY <2>1, <2>3 DEF Orderly
  <1>9. QED
    BY <1>1, <1>2, <1>3, <1>4, <1>5, <1>6, <1>7, <1>8 DEF User, Thread

\* What has failed or was hasty stays so.
LEMMA Excused == TypeOK /\ [Next]_vars => \A e \in Encoders : (hasty[e] => hasty'[e]) /\ (failed[e] => failed'[e])
  <1> SUFFICES ASSUME TypeOK, [Next]_vars, NEW e \in Encoders
               PROVE  (hasty[e] => hasty'[e]) /\ (failed[e] => failed'[e])
    OBVIOUS
  <1> USE DEF TypeOK, Codecs
  <1>0. CASE UNCHANGED vars
    BY <1>0 DEF vars, notes
  <1>1. ASSUME NEW c \in Codecs, NEW n, NEW created, NEW ok, Open(c, n, created, ok)
        PROVE  (hasty[e] => hasty'[e]) /\ (failed[e] => failed'[e])
    BY <1>1 DEF Open
  <1>2. ASSUME NEW c \in Codecs, Stop(c) PROVE (hasty[e] => hasty'[e]) /\ (failed[e] => failed'[e])
    BY <1>2 DEF Stop
  <1>3. ASSUME NEW c \in Codecs,
               \/ Callback(c) \/ Send(c) \/ Take(c) \/ SendEos(c) \/ Destruct(c)
               \/ CloseDecoder(c) \/ CloseEncoder(c) \/ Join(c)
               \/ \E i \in DOMAIN threads[c] : SetIsWork(c, i) \/ LoopEnds(c, i) \/ ThreadFails(c, i)
        PROVE  UNCHANGED notes
    BY <1>3 DEF Callback, Send, Take, SendEos, Destruct, CloseDecoder, CloseEncoder, Join, SetIsWork, LoopEnds, ThreadFails
  <1>4. QED
    BY <1>0, <1>1, <1>2, <1>3 DEF Next, User, Thread, OpenDecoder, OpenEncoder, notes

\* Every step keeps the encoders in order.
LEMMA EncodersStep == TypeOK /\ TypeOK' /\ EncodersInv /\ [Next]_vars => EncodersInv'
  <1> SUFFICES ASSUME TypeOK, TypeOK', EncodersInv, [Next]_vars, NEW e \in Encoders, ~hasty'[e], ~failed'[e]
               PROVE  Orderly(e)'
    BY DEF EncodersInv
  <1>1. Orderly(e)
    BY Excused DEF EncodersInv
  <1>2. CASE UNCHANGED vars
    BY <1>1, <1>2, OrderlyKept DEF vars, ids
  <1>3. CASE Next
    BY <1>1, <1>3, OwnStep, OthersStep DEF Next
  <1>4. QED  BY <1>2, <1>3

-----------------------------------------------------------------------------

\* New codecs satisfy the invariant.
LEMMA InvInit == Init => Inv
  <1> SUFFICES ASSUME Init PROVE Inv
    OBVIOUS
  <1> USE CodecAssumption
  <1>1. threads \in [Codecs -> Seq(States)]
    BY EmptySeq DEF Init
  <1>2. TypeOK
    <2>1. channelId_ \in [Decoders -> Ids \cup {INVALID_CHANNEL_ID, 0}]
      BY DEF Init
    <2>2. idsUsed \subseteq Ids /\ gone \in [Codecs -> BOOLEAN] /\ queue \in [Codecs -> 0 .. Capacity]
      BY DEF Init
    <2>3. /\ channel \in [Codecs -> BOOLEAN] /\ needClose \in [Codecs -> BOOLEAN] /\ isWork \in [Codecs -> BOOLEAN]
          /\ hasty \in [Codecs -> BOOLEAN] /\ failed \in [Codecs -> BOOLEAN] /\ opened \in [Codecs -> BOOLEAN]
      BY DEF Init
    <2>4. frames \in [Codecs -> Nat] /\ at \in [Codecs -> {"idle", "take", "stop", "destroy", "destroyAndJoin", "join"}]
      BY DEF Init
    <2>5. reopened \in BOOLEAN /\ stray \in BOOLEAN
      BY DEF Init
    <2>6. QED  BY <1>1, <2>1, <2>2, <2>3, <2>4, <2>5 DEF TypeOK, States
  <1>3. IdsInv
    BY DEF Init, IdsInv, Holder, Codecs
  <1>4. EncodersInv
    <2> SUFFICES ASSUME NEW e \in Encoders PROVE Orderly(e)
      BY DEF EncodersInv
    <2>1. threads[e] = <<>> /\ at[e] = "idle" /\ ~channel[e] /\ ~needClose[e]
      BY DEF Init, Codecs
    <2>2. DOMAIN threads[e] = {}
      BY <2>1
    <2>3. QED  BY <2>1, <2>2 DEF Orderly, Ended
  <1>5. QED  BY <1>2, <1>3, <1>4 DEF Inv

\* Inv is an invariant.
LEMMA InvAlways == Spec => []Inv
  <1>1. Inv /\ [Next]_vars => Inv'
    BY TypeStep, IdsStep, EncodersStep DEF Inv
  <1>2. QED  BY <1>1, InvInit, PTL DEF Spec

\* The types, the ids and the capacity of the queue.
THEOREM Typed == Spec => []TypeOK
  BY InvAlways, PTL DEF Inv

\* The ids of open decoders differ and ids in use are given back, but for the two
\* misuses that ChannelIdsSound names.
THEOREM Ids_sound == Spec => []ChannelIdsSound
  <1>1. Inv => ChannelIdsSound
    <2> SUFFICES ASSUME Inv PROVE ChannelIdsSound
      OBVIOUS
    <2>1. INVALID_CHANNEL_ID \notin idsUsed
      BY CodecAssumption DEF Inv, TypeOK, Ids, INVALID_CHANNEL_ID
    <2>2. stray \/ IdsApart
      BY <2>1 DEF Inv, IdsInv, IdsApart, Holder
    <2>3. reopened \/ IdsOwned
      BY DEF Inv, IdsInv, IdsOwned
    <2>4. QED  BY <2>2, <2>3 DEF ChannelIdsSound
  <1>2. QED  BY <1>1, InvAlways, PTL

\* No thread uses an encoder that is gone, but after an open that failed or a hasty close.
THEOREM Encoder_quiet == Spec => []GoneEncoderIsQuiet
  <1>1. Inv => GoneEncoderIsQuiet
    <2> SUFFICES ASSUME Inv, NEW e \in Encoders, gone[e], ~hasty[e], ~failed[e]
                 PROVE  ~channel[e] /\ \A i \in DOMAIN threads[e] : threads[e][i] = "ended"
      BY DEF GoneEncoderIsQuiet
    <2>1. Orderly(e)
      BY DEF Inv, EncodersInv
    <2>2. \A i \in DOMAIN threads[e] : i <= Len(threads[e])
      BY CodecAssumption, LenProperties DEF Inv, TypeOK, Codecs
    <2>3. QED  BY <2>1, <2>2 DEF Orderly, Ended
  <1>2. QED  BY <1>1, InvAlways, PTL
=============================================================================

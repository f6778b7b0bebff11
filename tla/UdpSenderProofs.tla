-------------------------- MODULE UdpSenderProofs --------------------------
(***************************************************************************)
(* For any number of callers and of threads of the io_context, any queue   *)
(* limit, any entries and any bandwidth: a UdpSender runs one operation at *)
(* a time, counts its tasks exactly, is quiet once isStopped holds, and is *)
(* an outbox: it sends in the order in which it was given the datagrams.   *)
(*                                                                         *)
(* isSending belongs to an owner: the thread in doSend that has set it,    *)
(* then the operation it starts, then the handler of that operation up to  *)
(* doSendFinish.  There is one owner, and it alone clears isSending.       *)
(* wqMutex belongs to the thread between DoSend and Unlock, and the queue  *)
(* has only entries with datagrams: what that thread found in the queue is *)
(* still there when it takes the first of it.                              *)
(***************************************************************************)
EXTENDS MCUdpSender, FiniteSetTheorems, SequenceTheorems, WellFoundedInduction, TLAPS

Places ==
  {"idle", "called", "push", "pushed", "refused", "doSend", "decide", "giveUp", "clear",
   "release", "unlock", "done", "error", "added", "addedError", "again", "leave", "finish",
   "ended"}
TwoPlaces == {"added", "addedError", "again", "leave", "doSend", "decide", "giveUp", "release"}

Types ==
  /\ sendTasks \in Int /\ sends \in Nat /\ timers \in Nat /\ leaked \in Nat
  /\ pc \in [Threads -> Places]

\* The threads between a set of isSending and the end of what it was set for.
OwnerPlaces == {"decide", "giveUp", "clear", "done", "error", "added", "addedError"}
Owners == { t \in Threads : pc[t] \in OwnerPlaces }

OneOwner ==
  /\ sends + timers <= 1
  /\ \A t, u \in Owners : t = u
  /\ Owners # {} => sends + timers = 0
  /\ Owners # {} \/ sends + timers > 0 => isSending
  /\ leaked > 0 => Owners = {} /\ sends + timers = 0 /\ isSending
  /\ leaked <= 2

\* Once isStopped holds, a caller may at most be on its way out of doSend.
Quiet ==
  poll = "stopped" =>
    /\ sends = 0 /\ timers = 0 /\ leaked = 0
    /\ \A t \in Workers : pc[t] = "idle"
    /\ \A t \in Callers : pc[t] \in {"idle", "clear", "unlock"}

\* Only an exception takes a thread out of io_context::run.
NoneEnded == leaked = 0 => \A t \in Threads : pc[t] # "ended"

Inv == Types /\ OneOwner /\ TasksCountActivity /\ NoneEnded /\ Quiet

-----------------------------------------------------------------------------
(* What a step does to the counts. *)

\* How often a thread counts in sendTasks.
Weight(t, place) ==
  (IF \/ place = "idle"
      \/ t \in Callers /\ place \in {"clear", "unlock"}
      \/ t \in Workers /\ place = "ended" THEN 0 ELSE 1)
    + (IF t \in Workers /\ place \in TwoPlaces THEN 1 ELSE 0)

\* The sets that are counted are finite.
LEMMA Finite ==
  /\ IsFiniteSet(Holding) /\ Cardinality(Holding) \in Nat
  /\ IsFiniteSet(HoldingTwo) /\ Cardinality(HoldingTwo) \in Nat
  <1>1. Holding \in SUBSET Threads /\ HoldingTwo \in SUBSET Threads
    BY DEF Holding, HoldingTwo, Threads
  <1>2. IsFiniteSet(Holding) /\ IsFiniteSet(HoldingTwo)
    BY <1>1, SenderAssumption, FS_Subset
  <1>3. QED  BY <1>2, FS_CardinalityType

\* An element put in or taken out of a finite set.
LEMMA OneMoreOrLess ==
  ASSUME NEW S, IsFiniteSet(S), NEW x
  PROVE  /\ Cardinality(S) \in Nat
         /\ Cardinality(S \cup {x}) = Cardinality(S) + (IF x \in S THEN 0 ELSE 1)
         /\ Cardinality(S \ {x}) = Cardinality(S) - (IF x \in S THEN 1 ELSE 0)
  <1>1. Cardinality(S) \in Nat
    BY FS_CardinalityType
  <1>2. Cardinality(S \cup {x}) = IF x \in S THEN Cardinality(S) ELSE Cardinality(S) + 1
    BY FS_AddElement
  <1>3. Cardinality(S \ {x}) = IF x \in S THEN Cardinality(S) - 1 ELSE Cardinality(S)
    BY FS_RemoveElement
  <1>4. QED  BY <1>1, <1>2, <1>3

\* A thread that goes from one place to another changes the counts by its weight.
LEMMA Counts ==
  ASSUME Types, NEW t \in Threads, NEW from, NEW to \in Places, Goto(t, from, to)
  PROVE  Cardinality(Holding)' + Cardinality(HoldingTwo)' =
           Cardinality(Holding) + Cardinality(HoldingTwo) + Weight(t, to) - Weight(t, from)
  <1>1. pc[t] = from /\ pc' = [pc EXCEPT ![t] = to] /\ pc \in [Threads -> Places]
    BY DEF Goto, Types
  <1>2. pc'[t] = to /\ \A u \in Threads : u # t => pc'[u] = pc[u]
    BY <1>1
  <1>3. t \in Callers <=> t \notin Workers
    BY SenderAssumption DEF Threads
  <1> DEFINE In(place)  == /\ place # "idle"
                           /\ ~(t \in Callers /\ place \in {"clear", "unlock"})
                           /\ ~(t \in Workers /\ place = "ended")
             Two(place) == t \in Workers /\ place \in TwoPlaces
  <1>4. (t \in Holding <=> In(from)) /\ (t \in HoldingTwo <=> Two(from))
    BY <1>1, <1>3 DEF Holding, HoldingTwo, TwoPlaces
  <1>5. Holding' = IF In(to) THEN Holding \cup {t} ELSE Holding \ {t}
    BY <1>2, <1>3 DEF Holding, Threads
  <1>6. HoldingTwo' = IF Two(to) THEN HoldingTwo \cup {t} ELSE HoldingTwo \ {t}
    BY <1>2 DEF HoldingTwo, Threads, TwoPlaces
  <1>7. /\ Cardinality(Holding) \in Nat
        /\ Cardinality(Holding \cup {t}) = Cardinality(Holding) + (IF t \in Holding THEN 0 ELSE 1)
        /\ Cardinality(Holding \ {t}) = Cardinality(Holding) - (IF t \in Holding THEN 1 ELSE 0)
    BY Finite, OneMoreOrLess
  <1>8. /\ Cardinality(HoldingTwo) \in Nat
        /\ Cardinality(HoldingTwo \cup {t}) =
             Cardinality(HoldingTwo) + (IF t \in HoldingTwo THEN 0 ELSE 1)
        /\ Cardinality(HoldingTwo \ {t}) =
             Cardinality(HoldingTwo) - (IF t \in HoldingTwo THEN 1 ELSE 0)
    BY Finite, OneMoreOrLess
  <1>9. Cardinality(Holding)' = Cardinality(Holding) + (IF In(to) THEN 1 ELSE 0)
                                                     - (IF In(from) THEN 1 ELSE 0)
    BY <1>4, <1>5, <1>7
  <1>10. Cardinality(HoldingTwo)' = Cardinality(HoldingTwo) + (IF Two(to) THEN 1 ELSE 0)
                                                            - (IF Two(from) THEN 1 ELSE 0)
    BY <1>4, <1>6, <1>8
  <1>11. \A place : Weight(t, place) = (IF In(place) THEN 1 ELSE 0) + (IF Two(place) THEN 1 ELSE 0)
    BY DEF Weight
  <1>12. Weight(t, to) = (IF In(to) THEN 1 ELSE 0) + (IF Two(to) THEN 1 ELSE 0)
    BY <1>11
  <1>13. Weight(t, from) = (IF In(from) THEN 1 ELSE 0) + (IF Two(from) THEN 1 ELSE 0)
    BY <1>11
  <1> HIDE DEF In, Two
  <1>14. QED  BY <1>7, <1>8, <1>9, <1>10, <1>12, <1>13

\* A thread moves and accounts for it in sendTasks, sends, timers and leaked.
Accounted(t, from, to) ==
  /\ Goto(t, from, to)
  /\ IF to = "ended" THEN leaked' > leaked ELSE leaked' >= leaked
  /\ sendTasks' - sends' - timers' - leaked' =
       sendTasks - sends - timers - leaked + Weight(t, to) - Weight(t, from)

\* The whole of doSend is accounted for, whoever calls it.
LEMMA DoSendAccounted ==
  ASSUME Types, NEW t \in Threads, InDoSend(t)
  PROVE  /\ \E from, to \in Places : Accounted(t, from, to)
         /\ sendTasks' \in Int /\ sends' \in Nat /\ timers' \in Nat /\ leaked' \in Nat
  <1>1. sendTasks \in Int /\ sends \in Nat /\ timers \in Nat /\ leaked \in Nat
    BY DEF Types
  <1>2. t \in Callers <=> t \notin Workers
    BY SenderAssumption DEF Threads
  <1>3. CASE DoSend(t)
    <2>1. Goto(t, "doSend", "decide") \/ Goto(t, "doSend", "release")
      BY <1>3 DEF DoSend
    <2>2. sendTasks' = sendTasks /\ sends' = sends /\ timers' = timers /\ leaked' = leaked
      BY <1>3 DEF DoSend
    <2>3. /\ Weight(t, "decide") = Weight(t, "doSend")
          /\ Weight(t, "release") = Weight(t, "doSend")
          /\ Weight(t, "doSend") \in Int
      BY <1>2 DEF Weight, TwoPlaces
    <2>4. QED  BY <1>1, <2>1, <2>2, <2>3 DEF Accounted, Places
  <1>4. CASE Decide(t)
    <2>1. /\ Weight(t, "release") = Weight(t, "decide")
          /\ Weight(t, "giveUp") = Weight(t, "decide")
          /\ Weight(t, "unlock") = Weight(t, "decide") - 1
          /\ Weight(t, "decide") \in Int
      BY <1>2 DEF Weight, TwoPlaces
    <2>2. CASE Broken \/ ThrowAll(t) \/ Skip(t)
      <3>1. /\ \E to \in {"release", "giveUp"} : Goto(t, "decide", to)
            /\ sendTasks' = sendTasks /\ sends' = sends /\ timers' = timers /\ leaked' = leaked
        BY <1>4, <2>2 DEF Decide, ThrowAll, Skip
      <3>2. QED  BY <1>1, <2>1, <3>1 DEF Accounted, Places
    <2>3. CASE Wait(t)
      BY <1>1, <2>1, <2>3 DEF Wait, Accounted, Places
    <2>4. CASE Transmit(t)
      BY <1>1, <2>1, <2>4 DEF Transmit, Accounted, Places
    <2>5. CASE Throw(t)
      <3>1. CASE t \in Callers
        <4>1. Weight(t, "idle") = 0 /\ Weight(t, "decide") = 1
          BY <1>2, <3>1 DEF Weight
        <4>2. QED  BY <1>1, <2>5, <3>1, <4>1 DEF Throw, Accounted, Places
      <3>2. CASE t \notin Callers
        <4>1. Weight(t, "ended") = 0 /\ Weight(t, "decide") = 2
          BY <1>2, <3>2 DEF Weight, TwoPlaces
        <4>2. QED  BY <1>1, <2>5, <3>2, <4>1 DEF Throw, Accounted, Places
      <3>3. QED  BY <3>1, <3>2
    <2>6. QED  BY <1>4, <2>2, <2>3, <2>4, <2>5 DEF Decide
  <1>5. CASE GiveUp(t)
    <2>1. Weight(t, "clear") = Weight(t, "giveUp") - 1 /\ Weight(t, "giveUp") \in Int
      BY <1>2 DEF Weight, TwoPlaces
    <2>2. QED  BY <1>1, <1>5, <2>1 DEF GiveUp, Accounted, Places
  <1>6. CASE Clear(t)
    <2>1. Weight(t, "unlock") = Weight(t, "clear") /\ Weight(t, "clear") \in Int
      BY <1>2 DEF Weight, TwoPlaces
    <2>2. QED  BY <1>1, <1>6, <2>1 DEF Clear, Accounted, Places
  <1>7. CASE Release(t)
    <2>1. Weight(t, "unlock") = Weight(t, "release") - 1 /\ Weight(t, "release") \in Int
      BY <1>2 DEF Weight, TwoPlaces
    <2>2. QED  BY <1>1, <1>7, <2>1 DEF Release, Accounted, Places
  <1>8. CASE Unlock(t)
    <2>1. Weight(t, Return(t)) = Weight(t, "unlock") /\ Weight(t, "unlock") \in Int
      BY <1>2 DEF Weight, TwoPlaces, Return
    <2>2. Return(t) \in Places /\ Return(t) # "ended"
      BY DEF Return, Places
    <2>3. QED  BY <1>1, <1>8, <2>1, <2>2 DEF Unlock, Accounted, Places
  <1>9. QED  BY <1>3, <1>4, <1>5, <1>6, <1>7, <1>8 DEF InDoSend

\* So is send.
LEMMA SendAccounted ==
  ASSUME Types, NEW t \in Callers, Call(t) \/ InSend(t)
  PROVE  /\ \E from, to \in Places : Accounted(t, from, to)
         /\ sendTasks' \in Int /\ sends' = sends /\ timers' = timers /\ leaked' = leaked
  <1>1. sendTasks \in Int /\ sends \in Nat /\ timers \in Nat /\ leaked \in Nat /\ t \notin Workers
    BY SenderAssumption DEF Types
  <1>2. /\ Weight(t, "idle") = 0
        /\ \A place \in {"called", "push", "pushed", "refused", "doSend"} : Weight(t, place) = 1
    BY <1>1 DEF Weight
  <1>3. CASE Call(t)
    BY <1>1, <1>2, <1>3 DEF Call, Accounted, Places
  <1>4. CASE TestClosed(t) \/ TestSending(t)
    <2>1. \E from, to \in {"called", "push", "pushed", "refused", "doSend"} : Goto(t, from, to)
      BY <1>4 DEF TestClosed, TestSending
    <2>2. sendTasks' = sendTasks /\ sends' = sends /\ timers' = timers /\ leaked' = leaked
      BY <1>4 DEF TestClosed, TestSending
    <2>3. QED  BY <1>1, <1>2, <2>1, <2>2 DEF Accounted, Places
  <1>5. CASE Push(t)
    <2>1. /\ Goto(t, "push", "pushed")
          /\ sendTasks' = sendTasks /\ sends' = sends /\ timers' = timers /\ leaked' = leaked
      BY <1>5 DEF Push
    <2>2. QED  BY <1>1, <1>2, <2>1 DEF Accounted, Places
  <1>6. CASE Refuse(t)
    BY <1>1, <1>2, <1>6 DEF Refuse, Accounted, Places
  <1>7. QED  BY <1>3, <1>4, <1>5, <1>6 DEF InSend

\* And the handlers.
LEMMA HandlerAccounted ==
  ASSUME Types, NEW t \in Workers, Expire(t) \/ Complete(t) \/ InHandler(t)
  PROVE  /\ \E from, to \in Places : Accounted(t, from, to)
         /\ sendTasks' \in Int /\ sends' \in Nat /\ timers' \in Nat /\ leaked' \in Nat
  <1>1. sendTasks \in Int /\ sends \in Nat /\ timers \in Nat /\ leaked \in Nat /\ t \notin Callers
    BY SenderAssumption DEF Types
  <1>2. /\ Weight(t, "idle") = 0
        /\ \A place \in {"done", "error", "finish"} : Weight(t, place) = 1
        /\ \A place \in {"added", "addedError", "again", "leave", "doSend"} : Weight(t, place) = 2
    BY <1>1 DEF Weight, TwoPlaces
  <1>3. CASE Expire(t)
    BY <1>1, <1>2, <1>3 DEF Expire, Accounted, Places
  <1>4. CASE Complete(t)
    <2>1. \E to \in {"done", "error"} : Goto(t, "idle", to)
      BY <1>4 DEF Complete
    <2>2. sends > 0 /\ sends' = sends - 1 /\ sendTasks' = sendTasks /\ timers' = timers /\ leaked' = leaked
      BY <1>4 DEF Complete
    <2>3. QED  BY <1>1, <1>2, <2>1, <2>2 DEF Accounted, Places
  <1>5. CASE Enter(t)
    BY <1>1, <1>2, <1>5 DEF Enter, Accounted, Places
  <1>6. CASE Sent(t)
    BY <1>1, <1>2, <1>6 DEF Sent, Accounted, Places
  <1>7. CASE SentError(t)
    BY <1>1, <1>2, <1>7 DEF SentError, Accounted, Places
  <1>8. CASE Again(t)
    <2>1. \E to \in {"leave", "doSend"} : Goto(t, "again", to)
      BY <1>8 DEF Again
    <2>2. sendTasks' = sendTasks /\ sends' = sends /\ timers' = timers /\ leaked' = leaked
      BY <1>8 DEF Again
    <2>3. QED  BY <1>1, <1>2, <2>1, <2>2 DEF Accounted, Places
  <1>9. CASE Leave(t)
    BY <1>1, <1>2, <1>9 DEF Leave, Accounted, Places
  <1>10. CASE Finish(t)
    BY <1>1, <1>2, <1>10 DEF Finish, Accounted, Places
  <1>11. QED  BY <1>3, <1>4, <1>5, <1>6, <1>7, <1>8, <1>9, <1>10 DEF InHandler

-----------------------------------------------------------------------------
(* The steps. *)

\* Nothing is queued, set or running in a new sender.
LEMMA InitInv == Init => Inv
  <1> SUFFICES ASSUME Init PROVE Inv
    OBVIOUS
  <1>1. pc = [t \in Threads |-> "idle"]
    BY DEF Init
  <1>2. \A t \in Threads : pc[t] = "idle"
    BY <1>1
  <1>3. Types
    BY <1>1 DEF Init, Types, Places
  <1>4. Owners = {} /\ Holding = {} /\ HoldingTwo = {}
    BY <1>2 DEF Owners, OwnerPlaces, Holding, HoldingTwo, Threads
  <1>5. OneOwner
    BY <1>4 DEF Init, OneOwner
  <1>6. TasksCountActivity
    BY <1>4, FS_EmptySet DEF Init, TasksCountActivity
  <1>7. QED  BY <1>2, <1>3, <1>5, <1>6 DEF Init, Inv, NoneEnded, Quiet

\* The steps of close and of its poll leave the threads alone.
LEMMA PollSteps ==
  ASSUME Close \/ PollSending \/ PollTasks
  PROVE  /\ pc' = pc /\ sendTasks' = sendTasks /\ sends' = sends /\ timers' = timers /\ leaked' = leaked
         /\ isSending' = isSending
  BY DEF Close, PollSending, PollTasks, shared

\* Every step keeps the types, and accounts for the thread that moves.
LEMMA StepTasks ==
  ASSUME Types, TasksCountActivity, NoneEnded, Next
  PROVE  Types' /\ TasksCountActivity' /\ NoneEnded'
  <1>1. CASE \E t \in Threads, from, to \in Places : Accounted(t, from, to)
    <2>1. PICK t \in Threads, from \in Places, to \in Places : Accounted(t, from, to)
      BY <1>1
    <2>2. sendTasks' \in Int /\ sends' \in Nat /\ timers' \in Nat /\ leaked' \in Nat
      <3>1. CASE \E u \in Callers : Call(u) \/ InSend(u)
        BY <3>1, SendAccounted DEF Types
      <3>2. CASE \E u \in Threads : InDoSend(u)
        BY <3>2, DoSendAccounted
      <3>3. CASE \E u \in Workers : Expire(u) \/ Complete(u) \/ InHandler(u)
        BY <3>3, HandlerAccounted
      <3>4. CASE Close \/ PollSending \/ PollTasks
        BY <3>4, PollSteps DEF Types
      <3>5. QED  BY <3>1, <3>2, <3>3, <3>4 DEF Next
    <2>3. Types'
      BY <2>1, <2>2 DEF Types, Accounted, Goto
    <2>4. Cardinality(Holding)' + Cardinality(HoldingTwo)' =
            Cardinality(Holding) + Cardinality(HoldingTwo) + Weight(t, to) - Weight(t, from)
      BY <2>1, Counts DEF Accounted
    <2>5. /\ Cardinality(Holding)' = Cardinality(Holding')
          /\ Cardinality(HoldingTwo)' = Cardinality(HoldingTwo')
          /\ IsFiniteSet(Holding') /\ IsFiniteSet(HoldingTwo')
      <3>1. Holding' \in SUBSET Threads /\ HoldingTwo' \in SUBSET Threads
        BY DEF Holding, HoldingTwo, Threads
      <3>2. QED  BY <3>1, SenderAssumption, FS_Subset
    <2>6. Cardinality(Holding)' \in Nat /\ Cardinality(HoldingTwo)' \in Nat
      BY <2>5, FS_CardinalityType
    <2>7. Weight(t, to) \in Int /\ Weight(t, from) \in Int
      BY DEF Weight
    <2>8. sendTasks' = Cardinality(Holding)' + Cardinality(HoldingTwo)' + sends' + timers' + leaked'
      BY <2>1, <2>2, <2>4, <2>6, <2>7, Finite DEF Types, TasksCountActivity, Accounted
    <2>9. NoneEnded'
      <3>1. SUFFICES ASSUME leaked' = 0, NEW u \in Threads PROVE pc'[u] # "ended"
        BY DEF NoneEnded
      <3>2. leaked = 0 /\ to # "ended"
        BY <2>1, <2>2, <3>1 DEF Accounted, Types
      <3>3. pc[u] # "ended" /\ (pc'[u] = pc[u] \/ pc'[u] = to)
        BY <2>1, <3>2 DEF Accounted, Goto, NoneEnded, Types
      <3>4. QED  BY <3>2, <3>3
    <2>10. QED  BY <2>3, <2>8, <2>9 DEF TasksCountActivity
  <1>2. CASE Close \/ PollSending \/ PollTasks
    <2>1. /\ pc' = pc /\ sendTasks' = sendTasks /\ sends' = sends /\ timers' = timers /\ leaked' = leaked
      BY <1>2, PollSteps
    <2>2. Holding' = Holding /\ HoldingTwo' = HoldingTwo
      BY <2>1 DEF Holding, HoldingTwo
    <2>3. QED  BY <2>1, <2>2 DEF Types, TasksCountActivity, NoneEnded
  <1>3. QED
    BY <1>1, <1>2, SendAccounted, DoSendAccounted, HandlerAccounted DEF Next, Threads

\* A thread that moves becomes an owner, stays one, or is none any more.
LEMMA OwnersMove ==
  ASSUME Types, NEW t \in Threads, NEW from, NEW to \in Places, Goto(t, from, to)
  PROVE  /\ t \in Owners <=> from \in OwnerPlaces
         /\ Owners' = IF to \in OwnerPlaces THEN Owners \cup {t} ELSE Owners \ {t}
  <1>1. pc[t] = from /\ pc' = [pc EXCEPT ![t] = to] /\ pc \in [Threads -> Places]
    BY DEF Goto, Types
  <1>2. pc'[t] = to /\ \A u \in Threads : u # t => pc'[u] = pc[u]
    BY <1>1
  <1>3. QED  BY <1>1, <1>2 DEF Owners

\* A thread that is no owner and becomes none, and sets nothing, changes nothing.
LEMMA Bystander ==
  ASSUME Types, OneOwner, NEW t \in Threads, NEW from \in Places \ OwnerPlaces,
         NEW to \in Places \ OwnerPlaces, Goto(t, from, to),
         isSending' = isSending, sends' = sends, timers' = timers, leaked' = leaked
  PROVE  OneOwner'
  <1>1. Owners' = Owners
    BY OwnersMove
  <1>2. QED  BY <1>1 DEF OneOwner

\* An owner is alone: while it moves on without clearing isSending it stays so.
LEMMA OwnerMoves ==
  ASSUME Types, OneOwner, NEW t \in Threads, NEW from \in OwnerPlaces, NEW to \in OwnerPlaces,
         Goto(t, from, to), isSending' = isSending, sends' = sends, timers' = timers, leaked' = leaked
  PROVE  OneOwner'
  <1>1. OwnerPlaces \subseteq Places
    BY DEF OwnerPlaces, Places
  <1>2. t \in Owners /\ Owners' = Owners \cup {t}
    BY <1>1, OwnersMove
  <1>3. Owners' = Owners
    BY <1>2
  <1>4. QED  BY <1>3 DEF OneOwner

\* An owner that is done leaves none.
LEMMA OwnerLeaves ==
  ASSUME Types, OneOwner, NEW t \in Threads, NEW from \in OwnerPlaces,
         NEW to \in Places \ OwnerPlaces, Goto(t, from, to)
  PROVE  Owners' = {} /\ sends + timers = 0 /\ isSending /\ leaked = 0
  <1>1. t \in Owners /\ Owners' = Owners \ {t}
    BY OwnersMove
  <1>2. Owners = {t} /\ leaked \in Nat
    BY <1>1 DEF OneOwner, Types
  <1>3. QED  BY <1>1, <1>2 DEF OneOwner

\* doSend takes isSending only when it is free, and gives it on to one operation
\* or back.
LEMMA DoSendOneOwner ==
  ASSUME Types, OneOwner, NEW t \in Threads, InDoSend(t)
  PROVE  OneOwner'
  <1>1. sends \in Nat /\ timers \in Nat /\ leaked \in Nat
    BY DEF Types
  <1>2. CASE DoSend(t)
    <2>1. CASE Goto(t, "doSend", "release") /\ isSending' = isSending
      BY <1>2, <2>1, Bystander DEF DoSend, Places, OwnerPlaces
    <2>2. CASE Goto(t, "doSend", "decide") /\ ~isSending /\ isSending' = TRUE
      <3>1. Owners = {} /\ sends + timers = 0 /\ leaked = 0
        BY <1>1, <2>2 DEF OneOwner
      <3>2. Owners' = {t}
        BY <2>2, <3>1, OwnersMove DEF Places, OwnerPlaces
      <3>3. sends' = sends /\ timers' = timers /\ leaked' = leaked
        BY <1>2 DEF DoSend
      <3>4. QED  BY <2>2, <3>1, <3>2, <3>3 DEF OneOwner
    <2>3. QED  BY <1>2, <2>1, <2>2 DEF DoSend
  <1>3. CASE Decide(t)
    <2>1. CASE Broken
      <3>1. Goto(t, "decide", "release") /\ sends' = sends /\ timers' = timers /\ leaked' = leaked
        BY <1>3, <2>1 DEF Decide
      <3>2. Owners' = {} /\ sends + timers = 0 /\ leaked = 0
        BY <3>1, OwnerLeaves DEF Places, OwnerPlaces
      <3>3. QED  BY <3>1, <3>2 DEF OneOwner
    <2>2. CASE ThrowAll(t) \/ Skip(t)
      <3>1. /\ Goto(t, "decide", "giveUp")
            /\ isSending' = isSending /\ sends' = sends /\ timers' = timers /\ leaked' = leaked
        BY <2>2 DEF ThrowAll, Skip, shared
      <3>2. QED  BY <3>1, OwnerMoves DEF OwnerPlaces
    <2>3. CASE Wait(t) \/ Transmit(t)
      <3>1. Goto(t, "decide", "unlock") /\ isSending' = isSending /\ leaked' = leaked
        BY <2>3 DEF Wait, Transmit
      <3>2. Owners' = {} /\ sends + timers = 0 /\ isSending /\ leaked = 0
        BY <3>1, OwnerLeaves DEF Places, OwnerPlaces
      <3>3. sends = 0 /\ timers = 0
        BY <1>1, <3>2
      <3>4. (sends' = 0 /\ timers' = 1) \/ (sends' = 1 /\ timers' = 0)
        BY <2>3, <3>3 DEF Wait, Transmit
      <3>5. QED  BY <3>1, <3>2, <3>4 DEF OneOwner
    <2>4. CASE Throw(t)
      <3>1. /\ Goto(t, "decide", "idle") \/ Goto(t, "decide", "ended")
            /\ isSending' = isSending /\ sends' = sends /\ timers' = timers
            /\ leaked' \in {leaked + 1, leaked + 2}
        BY <2>4 DEF Throw
      <3>2. Owners' = {} /\ sends + timers = 0 /\ isSending /\ leaked = 0
        BY <3>1, OwnerLeaves DEF Places, OwnerPlaces
      <3>3. leaked' \in {1, 2}
        BY <3>1, <3>2
      <3>4. QED  BY <3>1, <3>2, <3>3 DEF OneOwner
    <2>5. QED  BY <1>3, <2>1, <2>2, <2>3, <2>4 DEF Decide
  <1>4. CASE GiveUp(t)
    BY <1>4, OwnerMoves DEF GiveUp, OwnerPlaces, shared
  <1>5. CASE Clear(t)
    <2>1. Goto(t, "clear", "unlock") /\ sends' = sends /\ timers' = timers /\ leaked' = leaked
      BY <1>5 DEF Clear
    <2>2. Owners' = {} /\ sends + timers = 0 /\ leaked = 0
      BY <2>1, OwnerLeaves DEF Places, OwnerPlaces
    <2>3. QED  BY <2>1, <2>2 DEF OneOwner
  <1>6. CASE Release(t)
    BY <1>6, Bystander DEF Release, Places, OwnerPlaces
  <1>7. CASE Unlock(t)
    <2>1. Return(t) \in Places \ OwnerPlaces
      BY DEF Return, Places, OwnerPlaces
    <2>2. QED  BY <1>7, <2>1, Bystander DEF Unlock, Places, OwnerPlaces
  <1>8. QED  BY <1>2, <1>3, <1>4, <1>5, <1>6, <1>7 DEF InDoSend

\* A handler inherits isSending from the operation that ends, and clears it before
\* it calls doSend.
LEMMA HandlerOneOwner ==
  ASSUME Types, OneOwner, NEW t \in Threads, Expire(t) \/ Complete(t) \/ InHandler(t)
  PROVE  OneOwner'
  <1>1. sends \in Nat /\ timers \in Nat /\ leaked \in Nat
    BY DEF Types
  <1>2. CASE Expire(t) \/ Complete(t)
    <2>1. PICK to \in {"done", "error"} : Goto(t, "idle", to)
      BY <1>2 DEF Expire, Complete
    <2>2. /\ sends + timers > 0 /\ sends' + timers' = sends + timers - 1
          /\ isSending' = isSending /\ leaked' = leaked
      BY <1>1, <1>2 DEF Expire, Complete, shared
    <2>3. Owners = {} /\ sends' + timers' = 0 /\ isSending /\ leaked = 0
      BY <1>1, <2>2 DEF OneOwner
    <2>4. Owners' = {t}
      BY <2>1, <2>3, OwnersMove DEF Places, OwnerPlaces
    <2>5. QED  BY <2>2, <2>3, <2>4 DEF OneOwner
  <1>3. CASE Enter(t)
    <2>1. \/ Goto(t, "done", "added")
          \/ Goto(t, "error", "addedError")
      BY <1>3 DEF Enter
    <2>2. isSending' = isSending /\ sends' = sends /\ timers' = timers /\ leaked' = leaked
      BY <1>3 DEF Enter
    <2>3. QED  BY <2>1, <2>2, OwnerMoves DEF OwnerPlaces
  <1>4. CASE Sent(t) \/ SentError(t)
    <2>1. /\ Goto(t, "added", "again") \/ Goto(t, "addedError", "leave")
          /\ sends' = sends /\ timers' = timers /\ leaked' = leaked
      BY <1>4 DEF Sent, SentError
    <2>2. Owners' = {} /\ sends + timers = 0 /\ leaked = 0
      BY <2>1, OwnerLeaves DEF Places, OwnerPlaces
    <2>3. QED  BY <2>1, <2>2 DEF OneOwner
  <1>5. CASE Again(t)
    <2>1. Goto(t, "again", "leave") \/ Goto(t, "again", "doSend")
      BY <1>5 DEF Again
    <2>2. isSending' = isSending /\ sends' = sends /\ timers' = timers /\ leaked' = leaked
      BY <1>5 DEF Again
    <2>3. QED  BY <2>1, <2>2, Bystander DEF Places, OwnerPlaces
  <1>6. CASE Leave(t)
    BY <1>6, Bystander DEF Leave, Places, OwnerPlaces
  <1>7. CASE Finish(t)
    BY <1>7, Bystander DEF Finish, Places, OwnerPlaces
  <1>8. QED  BY <1>2, <1>3, <1>4, <1>5, <1>6, <1>7 DEF InHandler

\* Every step leaves at most one owner.
LEMMA StepOneOwner ==
  ASSUME Types, OneOwner, Next
  PROVE  OneOwner'
  <1>1. CASE \E t \in Callers : Call(t) \/ InSend(t)
    <2>1. PICK t \in Callers : Call(t) \/ InSend(t)
      BY <1>1
    <2>2. t \in Threads
      BY DEF Threads
    <2>3. isSending' = isSending /\ sends' = sends /\ timers' = timers /\ leaked' = leaked
      BY <2>1 DEF Call, InSend, TestClosed, Push, TestSending, Refuse
    <2>4. PICK from \in {"idle", "called", "push", "pushed", "refused"},
               to \in {"idle", "called", "push", "pushed", "refused", "doSend"} :
            Goto(t, from, to)
      BY <2>1 DEF Call, InSend, TestClosed, Push, TestSending, Refuse
    <2>5. from \in Places \ OwnerPlaces /\ to \in Places \ OwnerPlaces
      BY DEF Places, OwnerPlaces
    <2>6. QED  BY <2>2, <2>3, <2>4, <2>5, Bystander
  <1>2. CASE \E t \in Threads : InDoSend(t)
    BY <1>2, DoSendOneOwner
  <1>3. CASE \E t \in Workers : Expire(t) \/ Complete(t) \/ InHandler(t)
    BY <1>3, HandlerOneOwner DEF Threads
  <1>4. CASE Close \/ PollSending \/ PollTasks
    <2>1. Owners' = Owners
      BY <1>4, PollSteps DEF Owners
    <2>2. QED  BY <1>4, <2>1, PollSteps DEF OneOwner
  <1>5. QED  BY <1>1, <1>2, <1>3, <1>4 DEF Next

\* When the count is 0 nothing holds the sender; and what may still move then, a
\* caller on its way out, starts nothing.
LEMMA StepQuiet ==
  ASSUME Inv, Next
  PROVE  Quiet'
  <1>1. Types /\ TasksCountActivity /\ NoneEnded /\ Quiet
    BY DEF Inv
  <1>2. CASE poll = "stopped"
    <2>1. /\ sends = 0 /\ timers = 0 /\ leaked = 0
          /\ \A t \in Workers : pc[t] = "idle"
          /\ \A t \in Callers : pc[t] \in {"idle", "clear", "unlock"}
      BY <1>1, <1>2 DEF Quiet
    <2>2. \E t \in Callers : Clear(t) \/ Unlock(t)
      <3>1. ~(\E t \in Callers : Call(t) /\ poll # "stopped") /\ ~(Close \/ PollSending \/ PollTasks)
        BY <1>2 DEF Close, PollSending, PollTasks
      <3>2. \A t \in Callers : ~InSend(t)
        BY <2>1 DEF InSend, TestClosed, Push, TestSending, Refuse, Goto
      <3>3. \A t \in Workers : ~InDoSend(t)
        BY <2>1 DEF InDoSend, DoSend, Decide, GiveUp, Clear, Release, Unlock, Goto
      <3>4. \A t \in Workers : ~(Expire(t) \/ Complete(t))
        BY <2>1 DEF Expire, Complete
      <3>5. \A t \in Workers : ~InHandler(t)
        BY <2>1 DEF InHandler, Enter, Sent, SentError, Again, Leave, Finish, Goto
      <3>6. \A t \in Callers : InDoSend(t) => Clear(t) \/ Unlock(t)
        BY <2>1 DEF InDoSend, DoSend, Decide, GiveUp, Release, Goto
      <3>7. QED  BY <3>1, <3>2, <3>3, <3>4, <3>5, <3>6 DEF Next, Threads
    <2>3. PICK t \in Callers : Clear(t) \/ Unlock(t)
      BY <2>2
    <2>4. \E to \in {"idle", "unlock"} : pc' = [pc EXCEPT ![t] = to]
      BY <2>3 DEF Clear, Unlock, Goto, Return
    <2>5. t \in Threads /\ t \notin Workers
      BY SenderAssumption DEF Threads
    <2>6. \A u \in Workers : pc'[u] = "idle"
      BY <1>1, <2>1, <2>4, <2>5 DEF Types, Threads
    <2>7. \A u \in Callers : pc'[u] \in {"idle", "clear", "unlock"}
      BY <1>1, <2>1, <2>4, <2>5 DEF Types, Threads
    <2>8. sends' = 0 /\ timers' = 0 /\ leaked' = 0
      BY <2>1, <2>3 DEF Clear, Unlock
    <2>9. QED  BY <2>6, <2>7, <2>8 DEF Quiet
  <1>3. CASE poll # "stopped" /\ poll' = "stopped"
    <2>1. PollTasks
      BY <1>3 DEF Next, Call, InSend, TestClosed, Push, TestSending, Refuse, InDoSend, DoSend,
           Decide, Broken, ThrowAll, Wait, Skip, Transmit, Throw, GiveUp, Release, Clear, Unlock,
           Expire, Complete, InHandler, Enter, Sent, SentError, Again, Leave, Finish, Close,
           PollSending
    <2>2. sendTasks = 0 /\ pc' = pc /\ sends' = sends /\ timers' = timers /\ leaked' = leaked
      BY <1>3, <2>1 DEF PollTasks
    <2>3. Cardinality(Holding) = 0 /\ sends = 0 /\ timers = 0 /\ leaked = 0
      <3>1. 0 = Cardinality(Holding) + Cardinality(HoldingTwo) + sends + timers + leaked
        BY <1>1, <2>2 DEF TasksCountActivity
      <3>2. sends \in Nat /\ timers \in Nat /\ leaked \in Nat
        BY <1>1 DEF Types
      <3>3. Cardinality(Holding) \in Nat /\ Cardinality(HoldingTwo) \in Nat
        BY Finite
      <3>4. PICK a \in Nat, b \in Nat : a = Cardinality(Holding) /\ b = Cardinality(HoldingTwo)
        BY <3>3
      <3>5. PICK c \in Nat, d \in Nat, e \in Nat : c = sends /\ d = timers /\ e = leaked
        BY <3>2
      <3>6. 0 = a + b + c + d + e
        BY <3>1, <3>4, <3>5
      <3>7. a = 0 /\ c = 0 /\ d = 0 /\ e = 0
        BY <3>6
      <3>8. QED  BY <3>4, <3>5, <3>7
    <2>4. Holding = {}
      BY <2>3, Finite, FS_EmptySet
    <2>5. /\ \A t \in Workers : pc[t] = "idle"
          /\ \A t \in Callers : pc[t] \in {"idle", "clear", "unlock"}
      BY <1>1, <2>3, <2>4 DEF Holding, NoneEnded, Threads
    <2>6. QED  BY <2>2, <2>3, <2>5 DEF Quiet
  <1>4. CASE poll' # "stopped"
    BY <1>4 DEF Quiet
  <1>5. QED  BY <1>2, <1>3, <1>4

\* The invariant is inductive.
LEMMA Inductive == Spec => []Inv
  <1>1. Inv /\ [Next]_vars => Inv'
    <2> SUFFICES ASSUME Inv, [Next]_vars PROVE Inv'
      OBVIOUS
    <2>1. CASE Next
      BY <2>1, StepTasks, StepOneOwner, StepQuiet DEF Inv
    <2>2. CASE UNCHANGED vars
      BY <2>2 DEF vars, Inv, Types, OneOwner, Owners, TasksCountActivity, Holding, HoldingTwo, NoneEnded, Quiet
    <2>3. QED  BY <2>1, <2>2
  <1>2. QED  BY InitInv, <1>1, PTL DEF Spec

-----------------------------------------------------------------------------
(* Induction, and the sequences that FlattenSeq joins. *)

\* Induction on the naturals, with the property as a set.
LEMMA NatIsClosed ==
  ASSUME NEW T, 0 \in T, \A m \in Nat : m \in T => m + 1 \in T
  PROVE  Nat \subseteq T
  <1> DEFINE Bad == { m \in Nat : m \notin T }
  <1>1. SUFFICES ASSUME Bad # {} PROVE FALSE
    OBVIOUS
  <1>2. \E m \in Bad : \A j \in Bad : ~(<<j, m>> \in OpToRel(<, Nat))
    <2>1. Bad \subseteq Nat
      OBVIOUS
    <2>2. QED BY <1>1, <2>1, NatLessThanWellFounded, WFMin, Zenon
  <1>3. PICK m \in Bad : \A j \in Bad : ~(j < m)
    BY <1>2 DEF OpToRel
  <1>4. m \in Nat /\ m \notin T
    OBVIOUS
  <1>5. m - 1 \in Nat /\ m - 1 < m
    BY <1>4
  <1>6. m - 1 \in T
    BY <1>3, <1>5
  <1>7. (m - 1) + 1 \in T
    BY <1>5, <1>6
  <1>8. QED  BY <1>4, <1>7

\* The sequences joined so far, one more at a time.
Joins(g, f, S, m) ==
  /\ g \in [1 .. m -> Seq(S)]
  /\ \A i \in 1 .. m : g[i] = IF i = 1 THEN f[i] ELSE g[i - 1] \o f[i]

\* One more sequence joins the others.
LEMMA JoinExtends ==
  ASSUME NEW S, NEW f, NEW m \in Nat, f[m + 1] \in Seq(S), NEW g, Joins(g, f, S, m)
  PROVE  \E h : Joins(h, f, S, m + 1)
  <1> DEFINE new == IF m = 0 THEN f[m + 1] ELSE g[m] \o f[m + 1]
             h == [i \in 1 .. m + 1 |-> IF i = m + 1 THEN new ELSE g[i]]
  <1>1. new \in Seq(S)
    BY DEF Joins
  <1>2. \A i \in 1 .. m : g[i] \in Seq(S) /\ g[i] = IF i = 1 THEN f[i] ELSE g[i - 1] \o f[i]
    BY DEF Joins
  <1> HIDE DEF new
  <1>3. h \in [1 .. m + 1 -> Seq(S)]
    BY <1>1, <1>2
  <1>4. h[m + 1] = new /\ \A i \in 1 .. m : h[i] = g[i]
    OBVIOUS
  <1> HIDE DEF h
  <1>5. ASSUME NEW i \in 1 .. m + 1
        PROVE  h[i] = IF i = 1 THEN f[i] ELSE h[i - 1] \o f[i]
    <2>1. CASE i = m + 1
      <3>1. i # 1 => i - 1 \in 1 .. m /\ i - 1 = m
        BY <2>1
      <3>2. QED  BY <1>4, <2>1, <3>1 DEF new
    <2>2. CASE i \in 1 .. m
      <3>1. i # 1 => i - 1 \in 1 .. m
        BY <2>2
      <3>2. QED  BY <1>2, <1>4, <2>2, <3>1
    <2>3. QED  BY <2>1, <2>2
  <1>6. QED  BY <1>3, <1>5 DEF Joins

\* Any number of sequences can be joined.
LEMMA JoinExists ==
  ASSUME NEW S, NEW f, NEW n \in Nat, \A i \in 1 .. n : f[i] \in Seq(S)
  PROVE  \E g : Joins(g, f, S, n)
  <1> DEFINE T == { m \in Nat : m <= n => \E g : Joins(g, f, S, m) }
  <1>1. 0 \in T
    <2>1. Joins([i \in 1 .. 0 |-> <<>>], f, S, 0)
      BY DEF Joins
    <2>2. QED  BY <2>1
  <1>2. ASSUME NEW m \in Nat, m \in T PROVE m + 1 \in T
    <2>1. SUFFICES ASSUME m + 1 <= n PROVE \E g : Joins(g, f, S, m + 1)
      OBVIOUS
    <2>2. m <= n /\ f[m + 1] \in Seq(S)
      BY <2>1
    <2>3. \E g : Joins(g, f, S, m)
      BY <1>2, <2>2
    <2>4. QED  BY <2>2, <2>3, JoinExtends
  <1> HIDE DEF T
  <1>3. Nat \subseteq T
    BY <1>1, <1>2, NatIsClosed
  <1>4. n \in T
    BY <1>3
  <1>5. QED  BY <1>4 DEF T

\* What FlattenSeq computes: the sequences joined one after the other.
LEMMA FlattenIs ==
  ASSUME NEW S, NEW f \in Seq(Seq(S))
  PROVE  \E g \in [0 .. Len(f) -> Seq(S)] :
            /\ g[0] = <<>>
            /\ \A i \in 1 .. Len(f) : g[i] = g[i - 1] \o f[i]
            /\ FlattenSeq(f) = g[Len(f)]
  <1> DEFINE N == Len(f)
             IsJoin(h) == h = [i \in 1 .. N |-> IF i = 1 THEN f[i] ELSE h[i - 1] \o f[i]]
             F == CHOOSE h : IsJoin(h)
  <1>1. N \in Nat /\ \A i \in 1 .. N : f[i] \in Seq(S)
    OBVIOUS
  <1>2. FlattenSeq(f) = IF N = 0 THEN f ELSE F[N]
    BY DEF FlattenSeq
  <1>3. IsJoin(F)
    <2>1. PICK h : Joins(h, f, S, N)
      BY <1>1, JoinExists
    <2>2. IsJoin(h)
      BY <2>1 DEF Joins
    <2>3. QED  BY <2>2
  <1>4. \A i \in 1 .. N : F[i] = IF i = 1 THEN f[i] ELSE F[i - 1] \o f[i]
    BY <1>3
  <1> HIDE DEF F
  <1>5. \A i \in 1 .. N : F[i] \in Seq(S)
    <2> DEFINE U == { m \in Nat : m \in 1 .. N => F[m] \in Seq(S) }
    <2>1. 0 \in U
      OBVIOUS
    <2>2. ASSUME NEW m \in Nat, m \in U PROVE m + 1 \in U
      <3>1. SUFFICES ASSUME m + 1 \in 1 .. N PROVE F[m + 1] \in Seq(S)
        OBVIOUS
      <3>2. f[m + 1] \in Seq(S)
        BY <1>1, <3>1
      <3>3. CASE m = 0
        BY <1>4, <3>1, <3>2, <3>3
      <3>4. CASE m # 0
        <4>1. F[m] \in Seq(S) /\ m + 1 # 1
          BY <1>1, <2>2, <3>1, <3>4
        <4>2. F[m + 1] = F[(m + 1) - 1] \o f[m + 1]
          BY <1>4, <3>1, <4>1
        <4>3. (m + 1) - 1 = m
          OBVIOUS
        <4>4. F[m + 1] = F[m] \o f[m + 1]
          BY <4>2, <4>3
        <4>5. QED  BY <3>2, <4>1, <4>4
      <3>5. QED  BY <3>3, <3>4
    <2> HIDE DEF U
    <2>3. Nat \subseteq U
      BY <2>1, <2>2, NatIsClosed
    <2>4. QED  BY <2>3 DEF U
  <1> DEFINE g == [i \in 0 .. N |-> IF i = 0 THEN <<>> ELSE F[i]]
  <1>6. g \in [0 .. N -> Seq(S)] /\ g[0] = <<>> /\ \A i \in 1 .. N : g[i] = F[i]
    BY <1>1, <1>5
  <1> HIDE DEF g
  <1>7. ASSUME NEW i \in 1 .. N PROVE g[i] = g[i - 1] \o f[i]
    <2>1. CASE i = 1
      BY <1>1, <1>4, <1>6, <2>1, ConcatEmptySeq
    <2>2. CASE i # 1
      <3>1. i - 1 \in 1 .. N
        BY <2>2
      <3>2. QED  BY <1>4, <1>6, <2>2, <3>1
    <2>3. QED  BY <2>1, <2>2
  <1>8. FlattenSeq(f) = g[N]
    BY <1>1, <1>2, <1>6
  <1>9. QED  BY <1>6, <1>7, <1>8


\* The sequences of two are joined as those of the one and those of the other.
LEMMA FlattenConcat ==
  ASSUME NEW S, NEW s \in Seq(Seq(S)), NEW t \in Seq(Seq(S))
  PROVE  FlattenSeq(s \o t) = FlattenSeq(s) \o FlattenSeq(t)
  <1> DEFINE M == Len(s)
             N == Len(t)
             st == s \o t
  <1>1. /\ M \in Nat /\ N \in Nat /\ st \in Seq(Seq(S)) /\ Len(st) = M + N
        /\ \A i \in 1 .. M : st[i] = s[i]
        /\ \A i \in 1 .. N : st[M + i] = t[i] /\ t[i] \in Seq(S)
    OBVIOUS
  <1> HIDE DEF st
  <1>2. M = Len(s) /\ N = Len(t) /\ st = s \o t
    BY DEF st
  <1> HIDE DEF M, N
  <1>3. PICK g \in [0 .. M -> Seq(S)] :
          g[0] = <<>> /\ (\A i \in 1 .. M : g[i] = g[i - 1] \o s[i]) /\ FlattenSeq(s) = g[M]
    BY <1>2, FlattenIs
  <1>4. PICK h \in [0 .. N -> Seq(S)] :
          h[0] = <<>> /\ (\A i \in 1 .. N : h[i] = h[i - 1] \o t[i]) /\ FlattenSeq(t) = h[N]
    BY <1>2, FlattenIs
  <1>5. PICK k \in [0 .. M + N -> Seq(S)] :
          k[0] = <<>> /\ (\A i \in 1 .. M + N : k[i] = k[i - 1] \o st[i]) /\ FlattenSeq(st) = k[M + N]
    <2>1. \E k \in [0 .. Len(st) -> Seq(S)] :
            k[0] = <<>> /\ (\A i \in 1 .. Len(st) : k[i] = k[i - 1] \o st[i]) /\ FlattenSeq(st) = k[Len(st)]
      BY <1>2, <1>1, FlattenIs
    <2>2. QED  BY <1>1, <2>1
  <1>6. \A x, y, z \in Seq(S) : (x \o y) \o z = x \o (y \o z)
    BY ConcatAssociative
  <1>7. k[M] = g[M]
    <2> DEFINE U == { m \in Nat : m <= M => k[m] = g[m] }
    <2>1. 0 \in U
      BY <1>3, <1>5
    <2>2. ASSUME NEW m \in Nat, m \in U PROVE m + 1 \in U
      <3>1. SUFFICES ASSUME m + 1 <= M PROVE k[m + 1] = g[m + 1]
        OBVIOUS
      <3>2. /\ m + 1 \in 1 .. M /\ m + 1 \in 1 .. M + N /\ (m + 1) - 1 = m /\ m <= M
        BY <1>1, <3>1
      <3>3. k[m + 1] = k[(m + 1) - 1] \o st[m + 1]
        BY <1>5, <3>2, Zenon
      <3>4. g[m + 1] = g[(m + 1) - 1] \o s[m + 1]
        BY <1>3, <3>2, Zenon
      <3>5. st[m + 1] = s[m + 1]
        BY <1>1, <3>2, Zenon
      <3>6. k[m] = g[m]
        BY <2>2, <3>2, Zenon
      <3>7. QED  BY <3>2, <3>3, <3>4, <3>5, <3>6, Zenon
    <2> HIDE DEF U
    <2>3. Nat \subseteq U
      BY <2>1, <2>2, NatIsClosed
    <2>4. M \in U
      BY <1>1, <2>3
    <2>5. QED  BY <1>1, <2>4 DEF U
  <1> DEFINE T == { m \in Nat : m <= N => k[M + m] = g[M] \o h[m] }
  <1>8. 0 \in T
    <2>1. g[M] \in Seq(S) /\ M + 0 = M
      BY <1>1, <1>3
    <2>2. QED  BY <1>4, <1>7, <2>1, ConcatEmptySeq
  <1>9. ASSUME NEW m \in Nat, m \in T PROVE m + 1 \in T
    <2>1. m + 1 \in Nat
      OBVIOUS
    <2>2. ASSUME m + 1 <= N PROVE k[M + (m + 1)] = g[M] \o h[m + 1]
      <3>1. /\ m + 1 \in 1 .. N /\ (m + 1) - 1 = m /\ m \in 0 .. N /\ M \in 0 .. M
            /\ M + (m + 1) \in 1 .. M + N /\ (M + (m + 1)) - 1 = M + m /\ m <= N
        BY <1>1, <2>2
      <3>2. k[M + m] = g[M] \o h[m]
        BY <1>9, <3>1, Zenon
      <3>3. k[M + (m + 1)] = k[(M + (m + 1)) - 1] \o st[M + (m + 1)]
        BY <1>5, <3>1, Zenon
      <3>4. st[M + (m + 1)] = t[m + 1]
        BY <1>1, <3>1, Zenon
      <3>5. k[M + (m + 1)] = (g[M] \o h[m]) \o t[m + 1]
        BY <3>1, <3>2, <3>3, <3>4, Zenon
      <3>6. g[M] \in Seq(S) /\ h[m] \in Seq(S) /\ t[m + 1] \in Seq(S)
        BY <1>1, <1>3, <1>4, <3>1
      <3>7. (g[M] \o h[m]) \o t[m + 1] = g[M] \o (h[m] \o t[m + 1])
        BY <1>6, <3>6
      <3>8. h[m + 1] = h[(m + 1) - 1] \o t[m + 1]
        BY <1>4, <3>1, Zenon
      <3>9. QED  BY <3>1, <3>5, <3>7, <3>8, Zenon
    <2>3. QED  BY <2>1, <2>2, Zenon
  <1> HIDE DEF T
  <1>10. Nat \subseteq T
    BY <1>8, <1>9, NatIsClosed
  <1>11. N \in T
    BY <1>1, <1>10
  <1>12. k[M + N] = g[M] \o h[N]
    BY <1>1, <1>11 DEF T
  <1>13. QED  BY <1>2, <1>3, <1>4, <1>5, <1>12

\* Nothing, and a single sequence.
LEMMA FlattenOne ==
  ASSUME NEW S, NEW s \in Seq(S)
  PROVE  FlattenSeq(<<>>) = <<>> /\ FlattenSeq(<<s>>) = s
  <1>1. FlattenSeq(<<>>) = <<>>
    BY DEF FlattenSeq
  <1>2. <<s>> \in Seq(Seq(S)) /\ Len(<<s>>) = 1 /\ <<s>>[1] = s
    OBVIOUS
  <1>3. PICK g \in [0 .. Len(<<s>>) -> Seq(S)] :
          /\ g[0] = <<>> /\ (\A i \in 1 .. Len(<<s>>) : g[i] = g[i - 1] \o <<s>>[i])
          /\ FlattenSeq(<<s>>) = g[Len(<<s>>)]
    BY <1>2, FlattenIs
  <1>4. 1 \in 1 .. Len(<<s>>) /\ 1 - 1 = 0
    BY <1>2
  <1>5. g[1] = <<>> \o s
    BY <1>2, <1>3, <1>4
  <1>6. QED  BY <1>1, <1>2, <1>3, <1>5, ConcatEmptySeq

\* The type of what is joined.
LEMMA FlattenType ==
  ASSUME NEW S, NEW s \in Seq(Seq(S))
  PROVE  FlattenSeq(s) \in Seq(S)
  <1>1. PICK g \in [0 .. Len(s) -> Seq(S)] : FlattenSeq(s) = g[Len(s)]
    BY FlattenIs
  <1>2. Len(s) \in 0 .. Len(s)
    OBVIOUS
  <1>3. QED  BY <1>1, <1>2

-----------------------------------------------------------------------------
(* The entries of a call. *)

\* g counts on from q, by the first values of f.
CountsOn(g, f, q, n) ==
  /\ g \in [0 .. n -> Nat]
  /\ \A i \in 0 .. n : g[i] = IF i = 0 THEN q ELSE g[i - 1] + f[i]

\* Any number of entries can be counted.
LEMMA CountsExist ==
  ASSUME NEW q \in Nat, NEW f, NEW n \in Nat, \A i \in 1 .. n : f[i] \in Nat
  PROVE  \E g : CountsOn(g, f, q, n)
  <1> DEFINE T == { m \in Nat : m <= n => \E g : CountsOn(g, f, q, m) }
  <1>1. 0 \in T
    <2>1. CountsOn([i \in 0 .. 0 |-> q], f, q, 0)
      BY DEF CountsOn
    <2>2. QED  BY <2>1
  <1>2. ASSUME NEW m \in Nat, m \in T PROVE m + 1 \in T
    <2>1. SUFFICES ASSUME m + 1 <= n PROVE \E g : CountsOn(g, f, q, m + 1)
      OBVIOUS
    <2>2. m <= n /\ f[m + 1] \in Nat
      BY <2>1
    <2>3. PICK g : CountsOn(g, f, q, m)
      BY <1>2, <2>2
    <2> DEFINE h == [i \in 0 .. m + 1 |-> IF i = m + 1 THEN g[m] + f[m + 1] ELSE g[i]]
    <2>4. \A i \in 0 .. m : g[i] \in Nat /\ g[i] = IF i = 0 THEN q ELSE g[i - 1] + f[i]
      BY <2>3 DEF CountsOn
    <2>5. h \in [0 .. m + 1 -> Nat] /\ h[m + 1] = g[m] + f[m + 1] /\ \A i \in 0 .. m : h[i] = g[i]
      <3>1. g[m] + f[m + 1] \in Nat
        BY <2>2, <2>4
      <3>2. QED  BY <2>4, <3>1
    <2> HIDE DEF h
    <2>6. ASSUME NEW i \in 0 .. m + 1 PROVE h[i] = IF i = 0 THEN q ELSE h[i - 1] + f[i]
      <3>1. CASE i = m + 1
        <4>1. i # 0 /\ i - 1 = m /\ m \in 0 .. m
          BY <3>1
        <4>2. QED  BY <2>5, <3>1, <4>1
      <3>2. CASE i \in 0 .. m
        <4>1. i # 0 => i - 1 \in 0 .. m
          BY <3>2
        <4>2. QED  BY <2>4, <2>5, <3>2, <4>1
      <3>3. QED  BY <3>1, <3>2
    <2>7. QED  BY <2>5, <2>6 DEF CountsOn
  <1> HIDE DEF T
  <1>3. Nat \subseteq T
    BY <1>1, <1>2, NatIsClosed
  <1>4. QED  BY <1>3 DEF T

\* The last datagrams of the entries, each as many after the one before as the entry has.
LEMMA LastOfIs ==
  ASSUME queued \in Nat, NEW call \in Seq(Nat \ {0})
  PROVE  /\ LastOf(call) \in [0 .. Len(call) -> Nat]
         /\ LastOf(call)[0] = queued
         /\ \A i \in 1 .. Len(call) : LastOf(call)[i] = LastOf(call)[i - 1] + call[i]
  <1> DEFINE n == Len(call)
             IsCount(h) == h = [i \in 0 .. n |-> IF i = 0 THEN queued ELSE h[i - 1] + call[i]]
             F == CHOOSE h : IsCount(h)
  <1>1. LastOf(call) = F
    BY DEF LastOf
  <1>2. n \in Nat /\ \A i \in 1 .. n : call[i] \in Nat
    OBVIOUS
  <1>3. IsCount(F)
    <2>1. PICK h : CountsOn(h, call, queued, n)
      BY <1>2, CountsExist
    <2>2. IsCount(h)
      BY <2>1 DEF CountsOn
    <2>3. QED  BY <2>2
  <1>4. \A i \in 0 .. n : F[i] = IF i = 0 THEN queued ELSE F[i - 1] + call[i]
    BY <1>3
  <1>5. F = [i \in 0 .. n |-> F[i]]
    BY <1>3
  <1> HIDE DEF F, n
  <1> DEFINE T == { m \in Nat : m <= n => F[m] \in Nat }
  <1>6. 0 \in T
    BY <1>2, <1>4
  <1>7. ASSUME NEW m \in Nat, m \in T PROVE m + 1 \in T
    <2>1. SUFFICES ASSUME m + 1 <= n PROVE F[m + 1] \in Nat
      OBVIOUS
    <2>2. m + 1 \in 0 .. n /\ m + 1 # 0 /\ (m + 1) - 1 = m /\ F[m] \in Nat /\ call[m + 1] \in Nat
      BY <1>2, <1>7, <2>1
    <2>3. F[m + 1] = F[(m + 1) - 1] + call[m + 1]
      BY <1>4, <2>2
    <2>4. QED  BY <2>2, <2>3
  <1> HIDE DEF T
  <1>8. Nat \subseteq T
    BY <1>6, <1>7, NatIsClosed
  <1>9. \A i \in 0 .. n : F[i] \in Nat
    BY <1>2, <1>8 DEF T
  <1>10. F \in [0 .. n -> Nat]
    BY <1>5, <1>9
  <1>11. F[0] = queued /\ \A i \in 1 .. n : F[i] = F[i - 1] + call[i]
    BY <1>2, <1>4
  <1>12. QED  BY <1>1, <1>10, <1>11 DEF n

\* They do not fall.
LEMMA LastOfGrows ==
  ASSUME queued \in Nat, NEW call \in Seq(Nat \ {0})
  PROVE  \A i \in 0 .. Len(call) : queued <= LastOf(call)[i] /\ LastOf(call)[i] <= LastOf(call)[Len(call)]
  <1> DEFINE n == Len(call)
             F == LastOf(call)
  <1>1. n \in Nat /\ \A i \in 1 .. n : call[i] \in Nat
    OBVIOUS
  <1>2. /\ F \in [0 .. n -> Nat] /\ F[0] = queued
        /\ \A i \in 1 .. n : F[i] = F[i - 1] + call[i]
    BY LastOfIs
  <1> HIDE DEF F, n
  <1> DEFINE T == { m \in Nat : m <= n => \A i \in 0 .. m : F[i] <= F[m] }
  <1>3. 0 \in T
    BY <1>1, <1>2
  <1>4. ASSUME NEW m \in Nat, m \in T PROVE m + 1 \in T
    <2>1. SUFFICES ASSUME m + 1 <= n PROVE \A i \in 0 .. m + 1 : F[i] <= F[m + 1]
      OBVIOUS
    <2>2. /\ m + 1 \in 1 .. n /\ (m + 1) - 1 = m /\ m \in 0 .. n /\ m + 1 \in 0 .. n
          /\ call[m + 1] \in Nat /\ F[m] \in Nat /\ F[m + 1] \in Nat
          /\ \A i \in 0 .. m : F[i] <= F[m] /\ F[i] \in Nat
      BY <1>1, <1>2, <1>4, <2>1
    <2>3. F[m + 1] = F[m] + call[m + 1]
      BY <1>2, <2>2
    <2>4. QED  BY <2>2, <2>3
  <1> HIDE DEF T
  <1>5. Nat \subseteq T
    BY <1>3, <1>4, NatIsClosed
  <1>6. ASSUME NEW i \in 0 .. n PROVE queued <= F[i] /\ F[i] <= F[n]
    <2>1. i \in T /\ n \in T /\ 0 \in 0 .. i /\ i \in Nat
      BY <1>1, <1>5
    <2>2. QED  BY <1>1, <1>2, <2>1 DEF T
  <1>7. QED  BY <1>6 DEF F, n

\* What a call queues: its entries are not empty, and, joined, they count on from the
\* last datagram queued.
LEMMA EntriesAre ==
  ASSUME queued \in Nat, NEW call \in Seq(Nat \ {0}), NEW new, new = LastOf(call)[Len(call)]
  PROVE  /\ new \in Nat /\ queued <= new
         /\ Entries(call) \in Seq(Seq(1 .. new) \ {<<>>})
         /\ FlattenSeq(Entries(call)) = [k \in 1 .. new - queued |-> queued + k]
  <1> DEFINE n == Len(call)
             F == LastOf(call)
             E == Entries(call)
             S == 1 .. new
  <1>1. n \in Nat /\ (\A i \in 1 .. n : call[i] \in Nat /\ call[i] # 0) /\ DOMAIN call = 1 .. n
    OBVIOUS
  <1>2. /\ F \in [0 .. n -> Nat] /\ F[0] = queued
        /\ \A i \in 1 .. n : F[i] = F[i - 1] + call[i]
    BY LastOfIs
  <1>3. \A i \in 0 .. n : queued <= F[i] /\ F[i] <= F[n]
    BY LastOfGrows
  <1>4. E = [i \in 1 .. n |-> [j \in 1 .. call[i] |-> F[i - 1] + j]]
    BY <1>1 DEF Entries
  <1>5. new = F[n]
    OBVIOUS
  <1> HIDE DEF F, n, E, S
  <1>6. new \in Nat /\ queued <= new
    BY <1>1, <1>2, <1>3, <1>5
  <1>7. \A c \in Nat : \A e \in [1 .. c -> S] : e \in Seq(S) /\ Len(e) = c
    OBVIOUS
  <1>8. ASSUME NEW i \in 1 .. n
        PROVE  E[i] = [j \in 1 .. call[i] |-> F[i - 1] + j] /\ E[i] \in Seq(S) \ {<<>>}
               /\ Len(E[i]) = call[i]
    <2>1. i - 1 \in 0 .. n /\ i \in 0 .. n /\ call[i] \in Nat /\ call[i] # 0
      BY <1>1
    <2>2. F[i - 1] \in Nat /\ F[i] = F[i - 1] + call[i] /\ F[i] <= new
      BY <1>2, <1>3, <1>5, <2>1
    <2>3. E[i] = [j \in 1 .. call[i] |-> F[i - 1] + j]
      BY <1>4
    <2>4. \A j \in 1 .. call[i] : F[i - 1] + j \in S
      BY <1>6, <2>1, <2>2 DEF S
    <2>5. [j \in 1 .. call[i] |-> F[i - 1] + j] \in [1 .. call[i] -> S]
      BY <2>4
    <2>6. E[i] \in Seq(S) /\ Len(E[i]) = call[i]
      <3>1. PICK c \in Nat : c = call[i]
        BY <2>1
      <3>2. E[i] \in [1 .. c -> S]
        BY <2>3, <2>5, <3>1
      <3>3. QED  BY <1>7, <3>1, <3>2
    <2>7. E[i] # <<>>
      BY <2>1, <2>6
    <2>8. QED  BY <2>3, <2>6, <2>7
  <1>9. E \in Seq(Seq(S) \ {<<>>}) /\ Len(E) = n /\ E \in Seq(Seq(S))
    <2>1. E \in [1 .. n -> Seq(S) \ {<<>>}]
      BY <1>4, <1>8
    <2>2. QED  BY <1>1, <2>1
  <1>10. PICK g \in [0 .. n -> Seq(S)] :
          g[0] = <<>> /\ (\A i \in 1 .. n : g[i] = g[i - 1] \o E[i]) /\ FlattenSeq(E) = g[n]
    <2>1. \E g \in [0 .. Len(E) -> Seq(S)] :
            g[0] = <<>> /\ (\A i \in 1 .. Len(E) : g[i] = g[i - 1] \o E[i]) /\ FlattenSeq(E) = g[Len(E)]
      BY <1>9, FlattenIs
    <2>2. QED  BY <1>9, <2>1
  <1>11. \A x, y \in Seq(S) :
           /\ Len(x \o y) = Len(x) + Len(y)
           /\ \A k \in 1 .. Len(x) + Len(y) :
                (x \o y)[k] = IF k <= Len(x) THEN x[k] ELSE y[k - Len(x)]
    BY ConcatProperties
  <1> DEFINE T == { m \in Nat : m <= n => /\ Len(g[m]) = F[m] - queued
                                          /\ \A k \in 1 .. F[m] - queued : g[m][k] = queued + k }
  <1>12. 0 \in T
    <2>1. Len(g[0]) = 0 /\ F[0] - queued = 0
      BY <1>2, <1>10
    <2>2. QED  BY <2>1
  <1>13. ASSUME NEW m \in Nat, m \in T PROVE m + 1 \in T
    <2>1. SUFFICES ASSUME m + 1 <= n
                   PROVE  /\ Len(g[m + 1]) = F[m + 1] - queued
                          /\ \A k \in 1 .. F[m + 1] - queued : g[m + 1][k] = queued + k
      OBVIOUS
    <2>2. /\ m + 1 \in 1 .. n /\ (m + 1) - 1 = m /\ m \in 0 .. n /\ m <= n
          /\ call[m + 1] \in Nat /\ F[m] \in Nat /\ F[m + 1] \in Nat /\ queued <= F[m]
      BY <1>1, <1>2, <1>3, <2>1
    <2>3. /\ Len(g[m]) = F[m] - queued
          /\ \A k \in 1 .. F[m] - queued : g[m][k] = queued + k
      BY <1>13, <2>2
    <2>4. F[m + 1] = F[m] + call[m + 1]
      BY <1>2, <2>2
    <2>5. g[m + 1] = g[m] \o E[m + 1] /\ g[m] \in Seq(S) /\ E[m + 1] \in Seq(S)
          /\ Len(E[m + 1]) = call[m + 1] /\ \A j \in 1 .. call[m + 1] : E[m + 1][j] = F[m] + j
      <3>1. g[m + 1] = g[(m + 1) - 1] \o E[m + 1]
        BY <1>10, <2>2, Zenon
      <3>2. g[m + 1] = g[m] \o E[m + 1]
        BY <2>2, <3>1, Zenon
      <3>3. g[m] \in Seq(S)
        BY <1>10, <2>2
      <3>4. /\ E[m + 1] = [j \in 1 .. call[m + 1] |-> F[(m + 1) - 1] + j]
            /\ E[m + 1] \in Seq(S) /\ Len(E[m + 1]) = call[m + 1]
        BY <1>8, <2>2
      <3>5. \A j \in 1 .. call[m + 1] : E[m + 1][j] = F[m] + j
        BY <2>2, <3>4
      <3>6. QED  BY <3>2, <3>3, <3>4, <3>5
    <2>6. /\ Len(g[m + 1]) = Len(g[m]) + Len(E[m + 1])
          /\ \A k \in 1 .. Len(g[m]) + Len(E[m + 1]) :
               g[m + 1][k] = IF k <= Len(g[m]) THEN g[m][k] ELSE E[m + 1][k - Len(g[m])]
      <3>1. /\ Len(g[m] \o E[m + 1]) = Len(g[m]) + Len(E[m + 1])
            /\ \A k \in 1 .. Len(g[m]) + Len(E[m + 1]) :
                 (g[m] \o E[m + 1])[k] = IF k <= Len(g[m]) THEN g[m][k] ELSE E[m + 1][k - Len(g[m])]
        BY <1>11, <2>5, Zenon
      <3>2. QED  BY <2>5, <3>1, Zenon
    <2>7. Len(g[m + 1]) = F[m + 1] - queued
      <3>1. PICK a \in Nat, c \in Nat : a = F[m] /\ c = call[m + 1]
        BY <2>2
      <3>2. Len(g[m]) = a - queued /\ Len(E[m + 1]) = c /\ F[m + 1] = a + c
        BY <2>3, <2>4, <2>5, <3>1
      <3>3. Len(g[m + 1]) = (a - queued) + c
        BY <2>6, <3>2
      <3>4. QED  BY <3>2, <3>3
    <2>8. ASSUME NEW k \in 1 .. F[m + 1] - queued PROVE g[m + 1][k] = queued + k
      <3>1. k \in 1 .. Len(g[m]) + Len(E[m + 1])
        BY <2>2, <2>3, <2>4, <2>5
      <3>2. g[m + 1][k] = IF k <= Len(g[m]) THEN g[m][k] ELSE E[m + 1][k - Len(g[m])]
        BY <2>6, <3>1
      <3>3. CASE k <= Len(g[m])
        BY <2>2, <2>3, <3>2, <3>3
      <3>4. CASE ~(k <= Len(g[m]))
        <4>1. k - Len(g[m]) \in 1 .. call[m + 1] /\ F[m] + (k - Len(g[m])) = queued + k
          <5>1. PICK a \in Nat, c \in Nat, l \in Nat : a = F[m] /\ c = call[m + 1] /\ l = Len(g[m])
            BY <2>2, <2>3
          <5>2. l = a - queued /\ F[m + 1] = a + c
            BY <2>3, <2>4, <5>1
          <5>3. k \in 1 .. (a + c) - queued /\ k > l
            BY <3>4, <5>1, <5>2
          <5>4. k - l \in 1 .. c /\ a + (k - l) = queued + k
            BY <5>2, <5>3
          <5>5. QED  BY <5>1, <5>4
        <4>2. QED  BY <2>5, <3>2, <3>4, <4>1
      <3>5. QED  BY <3>3, <3>4
    <2>9. QED  BY <2>7, <2>8
  <1> HIDE DEF T
  <1>14. Nat \subseteq T
    BY <1>12, <1>13, NatIsClosed
  <1>15. /\ Len(g[n]) = new - queued /\ g[n] \in Seq(S)
         /\ \A k \in 1 .. new - queued : g[n][k] = queued + k
    <2>1. n \in T /\ n \in 0 .. n
      BY <1>1, <1>14
    <2>2. QED  BY <1>1, <1>5, <1>10, <2>1 DEF T
  <1>16. g[n] = [k \in 1 .. new - queued |-> queued + k]
    BY <1>15, LenProperties
  <1>17. QED  BY <1>6, <1>9, <1>10, <1>16 DEF E, S

-----------------------------------------------------------------------------
(* The datagram that is taken from the queue. *)

\* What comes first in a sequence that goes on, and what remains of it.
LEMMA FirstOfConcat ==
  ASSUME NEW S, NEW h \in Seq(S), h # <<>>, NEW r \in Seq(S)
  PROVE  /\ h \o r # <<>> /\ Head(h \o r) = Head(h)
         /\ Tail(h \o r) = Tail(h) \o r
         /\ Tail(h) \in Seq(S) /\ (Len(h) = 1 => Tail(h) = <<>>) /\ (Len(h) # 1 => Tail(h) # <<>>)
  <1>1. /\ h \o r \in Seq(S) /\ Len(h \o r) = Len(h) + Len(r)
        /\ \A i \in 1 .. Len(h) + Len(r) : (h \o r)[i] = IF i <= Len(h) THEN h[i] ELSE r[i - Len(h)]
    BY ConcatProperties
  <1>2. Len(h) \in Nat /\ Len(h) > 0 /\ Len(r) \in Nat
    BY EmptySeq
  <1>3. h \o r # <<>> /\ Head(h \o r) = Head(h)
    BY <1>1, <1>2
  <1>4. /\ Tail(h) \in Seq(S) /\ Len(Tail(h)) = Len(h) - 1
        /\ \A i \in 1 .. Len(Tail(h)) : Tail(h)[i] = h[i + 1]
    BY HeadTailProperties
  <1>5. /\ Tail(h \o r) \in Seq(S) /\ Len(Tail(h \o r)) = Len(h \o r) - 1
        /\ \A i \in 1 .. Len(Tail(h \o r)) : Tail(h \o r)[i] = (h \o r)[i + 1]
    BY <1>1, <1>3, HeadTailProperties
  <1>6. /\ Tail(h) \o r \in Seq(S) /\ Len(Tail(h) \o r) = Len(Tail(h)) + Len(r)
        /\ \A i \in 1 .. Len(Tail(h)) + Len(r) :
             (Tail(h) \o r)[i] = IF i <= Len(Tail(h)) THEN Tail(h)[i] ELSE r[i - Len(Tail(h))]
    BY <1>4, ConcatProperties
  <1>7. Len(Tail(h \o r)) = Len(Tail(h) \o r)
    BY <1>1, <1>2, <1>4, <1>5, <1>6
  <1>8. ASSUME NEW i \in 1 .. Len(Tail(h \o r)) PROVE Tail(h \o r)[i] = (Tail(h) \o r)[i]
    <2>1. PICK l \in Nat, k \in Nat : l = Len(h) /\ k = Len(r) /\ l > 0
      BY <1>2
    <2>2. Len(Tail(h)) = l - 1 /\ Len(Tail(h \o r)) = l + k - 1
      BY <1>1, <1>4, <1>5, <2>1
    <2>3. i \in 1 .. l + k - 1 /\ i + 1 \in 1 .. l + k /\ i \in 1 .. (l - 1) + k
      BY <2>1, <2>2
    <2>4. Tail(h \o r)[i] = (h \o r)[i + 1]
      BY <1>5
    <2>5. (h \o r)[i + 1] = IF i + 1 <= l THEN h[i + 1] ELSE r[(i + 1) - l]
      BY <1>1, <2>1, <2>3
    <2>6. (Tail(h) \o r)[i] = IF i <= l - 1 THEN Tail(h)[i] ELSE r[i - (l - 1)]
      BY <1>6, <2>1, <2>2, <2>3
    <2>7. i <= l - 1 => Tail(h)[i] = h[i + 1]
      BY <1>4, <2>1, <2>2, <2>3
    <2>8. (i + 1) - l = i - (l - 1) /\ (i + 1 <= l <=> i <= l - 1)
      BY <2>1, <2>3
    <2>9. QED  BY <2>4, <2>5, <2>6, <2>7, <2>8
  <1>9. Tail(h \o r) = Tail(h) \o r
    BY <1>5, <1>6, <1>7, <1>8, SeqEqual
  <1>10. (Len(h) = 1 => Tail(h) = <<>>) /\ (Len(h) # 1 => Tail(h) # <<>>)
    <2>1. Len(<<>>) = 0 /\ (Tail(h) # <<>> => Len(Tail(h)) # 0)
      BY <1>4, EmptySeq
    <2>2. Len(h) = 1 <=> Len(Tail(h)) = 0
      BY <1>2, <1>4
    <2>3. QED  BY <2>1, <2>2, Zenon
  <1>11. QED  BY <1>3, <1>4, <1>9, <1>10

\* A queue is its front entry and the others.
LEMMA FrontOfQueue ==
  ASSUME NEW T, NEW s \in Seq(T), s # <<>>
  PROVE  /\ Head(s) \in T /\ Tail(s) \in Seq(T)
         /\ s = <<Head(s)>> \o Tail(s)
  <1>1. /\ Head(s) \in T /\ Tail(s) \in Seq(T) /\ Len(Tail(s)) = Len(s) - 1
        /\ \A i \in 1 .. Len(Tail(s)) : Tail(s)[i] = s[i + 1]
    BY HeadTailProperties
  <1>2. Len(s) \in Nat /\ Len(s) > 0 /\ Head(s) = s[1]
    BY EmptySeq
  <1>3. <<Head(s)>> \in Seq(T) /\ Len(<<Head(s)>>) = 1 /\ <<Head(s)>>[1] = Head(s)
    BY <1>1
  <1>4. /\ <<Head(s)>> \o Tail(s) \in Seq(T) /\ Len(<<Head(s)>> \o Tail(s)) = 1 + Len(Tail(s))
        /\ \A i \in 1 .. 1 + Len(Tail(s)) :
             (<<Head(s)>> \o Tail(s))[i] = IF i <= 1 THEN <<Head(s)>>[i] ELSE Tail(s)[i - 1]
    BY <1>1, <1>3, ConcatProperties
  <1>5. Len(<<Head(s)>> \o Tail(s)) = Len(s)
    BY <1>1, <1>2, <1>4
  <1>6. ASSUME NEW i \in 1 .. Len(s) PROVE s[i] = (<<Head(s)>> \o Tail(s))[i]
    <2>1. i \in 1 .. 1 + Len(Tail(s))
      BY <1>1, <1>2
    <2>2. (<<Head(s)>> \o Tail(s))[i] = IF i <= 1 THEN <<Head(s)>>[i] ELSE Tail(s)[i - 1]
      BY <1>4, <2>1
    <2>3. CASE i = 1
      BY <1>2, <1>3, <2>2, <2>3
    <2>4. CASE i # 1
      <3>1. i - 1 \in 1 .. Len(Tail(s)) /\ (i - 1) + 1 = i /\ ~(i <= 1)
        BY <1>1, <1>2, <2>4
      <3>2. QED  BY <1>1, <2>2, <3>1
    <2>5. QED  BY <2>3, <2>4
  <1>7. s = <<Head(s)>> \o Tail(s)
    BY <1>4, <1>5, <1>6, SeqEqual
  <1>8. QED  BY <1>1, <1>7

\* A queue with one more entry in front has its datagrams, and then the others.
LEMMA FrontJoined ==
  ASSUME NEW S, NEW h \in Seq(S) \ {<<>>}, NEW rest \in Seq(Seq(S) \ {<<>>})
  PROVE  /\ FlattenSeq(rest) \in Seq(S)
         /\ FlattenSeq(<<h>> \o rest) = h \o FlattenSeq(rest)
  <1>1. rest \in Seq(Seq(S))
    BY SeqMonotonic
  <1>2. <<h>> \in Seq(Seq(S)) /\ FlattenSeq(<<h>>) = h /\ FlattenSeq(rest) \in Seq(S)
    BY <1>1, FlattenOne, FlattenType
  <1>3. FlattenSeq(<<h>> \o rest) = h \o FlattenSeq(rest)
    BY <1>1, <1>2, FlattenConcat
  <1>4. QED  BY <1>2, <1>3

\* It is a queue again, and not an empty one.
LEMMA FrontPut ==
  ASSUME NEW T, NEW h \in T, NEW rest \in Seq(T)
  PROVE  <<h>> \o rest \in Seq(T) /\ Len(<<h>> \o rest) > 0
  <1>1. <<h>> \in Seq(T) /\ Len(<<h>>) = 1
    OBVIOUS
  <1>2. <<h>> \o rest \in Seq(T) /\ Len(<<h>> \o rest) = 1 + Len(rest) /\ Len(rest) \in Nat
    BY <1>1, ConcatProperties, LenProperties
  <1>3. QED  BY <1>2

\* Popped takes the first of the datagrams in the queue, and no entry remains without any.
LEMMA PoppedIs ==
  ASSUME NEW S, waitingQueue \in Seq(Seq(S) \ {<<>>}), waitingQueue # <<>>,
         NEW all, all = FlattenSeq(waitingQueue)
  PROVE  /\ Popped \in Seq(Seq(S) \ {<<>>})
         /\ all # <<>> /\ Head(all) = Head(Head(waitingQueue)) /\ Head(all) \in S
         /\ FlattenSeq(Popped) = Tail(all)
  <1>1. PICK h \in Seq(S) \ {<<>>}, rest \in Seq(Seq(S) \ {<<>>}) :
          /\ h = Head(waitingQueue) /\ rest = Tail(waitingQueue)
          /\ waitingQueue = <<h>> \o rest
    <2> DEFINE T == Seq(S) \ {<<>>}
    <2>1. waitingQueue \in Seq(T)
      OBVIOUS
    <2> HIDE DEF T
    <2>2. /\ Head(waitingQueue) \in T /\ Tail(waitingQueue) \in Seq(T)
          /\ waitingQueue = <<Head(waitingQueue)>> \o Tail(waitingQueue)
      BY <2>1, FrontOfQueue
    <2>3. QED  BY <2>2 DEF T
  <1>2. all = h \o FlattenSeq(rest) /\ FlattenSeq(rest) \in Seq(S)
    <2>1. FlattenSeq(<<h>> \o rest) = h \o FlattenSeq(rest) /\ FlattenSeq(rest) \in Seq(S)
      BY FrontJoined, Zenon
    <2>2. QED  BY <1>1, <2>1, Zenon
  <1>3. PICK r \in Seq(S) : r = FlattenSeq(rest)
    BY <1>2
  <1>4. /\ all # <<>> /\ Head(all) = Head(h) /\ Tail(all) = Tail(h) \o r /\ Head(h) \in S
        /\ Tail(h) \in Seq(S) /\ (Len(h) = 1 => Tail(h) = <<>>) /\ (Len(h) # 1 => Tail(h) # <<>>)
    <2>1. h \in Seq(S) /\ h # <<>> /\ Head(h) \in S
      BY <1>1, HeadTailProperties
    <2>2. /\ h \o r # <<>> /\ Head(h \o r) = Head(h) /\ Tail(h \o r) = Tail(h) \o r
          /\ Tail(h) \in Seq(S) /\ (Len(h) = 1 => Tail(h) = <<>>) /\ (Len(h) # 1 => Tail(h) # <<>>)
      BY <2>1, FirstOfConcat, Zenon
    <2>3. QED  BY <1>2, <1>3, <2>1, <2>2, Zenon
  <1>5. CASE Len(h) = 1
    <2>1. Popped = rest
      BY <1>1, <1>5 DEF Popped
    <2>2. Tail(all) = FlattenSeq(rest)
      BY <1>3, <1>4, <1>5, ConcatEmptySeq
    <2>3. QED  BY <1>1, <1>4, <2>1, <2>2
  <1>6. CASE Len(h) # 1
    <2>1. Popped = <<Tail(h)>> \o rest
      BY <1>1, <1>6 DEF Popped
    <2>2. PICK x \in Seq(S) \ {<<>>} : x = Tail(h)
      BY <1>4, <1>6
    <2>3. <<x>> \o rest \in Seq(Seq(S) \ {<<>>})
      BY FrontPut
    <2>4. FlattenSeq(<<x>> \o rest) = x \o FlattenSeq(rest)
      BY FrontJoined, Zenon
    <2>5. QED  BY <1>1, <1>3, <1>4, <2>1, <2>2, <2>3, <2>4
  <1>7. QED  BY <1>5, <1>6

\* With another first datagram in the queue, what comes after the first is the same.
LEMMA SwappedIs ==
  ASSUME NEW S, waitingQueue \in Seq(Seq(S) \ {<<>>}), waitingQueue # <<>>, NEW x \in S,
         NEW swapped, swapped = <<<<x>> \o Tail(Head(waitingQueue))>> \o Tail(waitingQueue)
  PROVE  /\ swapped \in Seq(Seq(S) \ {<<>>}) /\ swapped # <<>>
         /\ Tail(FlattenSeq(swapped)) = Tail(FlattenSeq(waitingQueue))
  <1>1. PICK h \in Seq(S) \ {<<>>}, rest \in Seq(Seq(S) \ {<<>>}) :
          /\ h = Head(waitingQueue) /\ rest = Tail(waitingQueue)
          /\ waitingQueue = <<h>> \o rest
    <2> DEFINE T == Seq(S) \ {<<>>}
    <2>1. waitingQueue \in Seq(T)
      OBVIOUS
    <2> HIDE DEF T
    <2>2. /\ Head(waitingQueue) \in T /\ Tail(waitingQueue) \in Seq(T)
          /\ waitingQueue = <<Head(waitingQueue)>> \o Tail(waitingQueue)
      BY <2>1, FrontOfQueue
    <2>3. QED  BY <2>2 DEF T
  <1> DEFINE new == <<x>> \o Tail(h)
  <1>2. swapped = <<new>> \o rest
    BY <1>1
  <1>3. PICK y \in Seq(S) : y = Tail(h)
    BY <1>1, HeadTailProperties
  <1>4. new \in Seq(S) \ {<<>>} /\ Tail(new) = y
    <2>1. <<x>> \in Seq(S) /\ <<x>> # <<>> /\ Len(<<x>>) = 1
      OBVIOUS
    <2>2. PICK o \in Seq(S) : o = <<x>>
      BY <2>1
    <2>3. o \o y # <<>> /\ Tail(o \o y) = Tail(o) \o y /\ Tail(o) = <<>>
      BY <2>1, <2>2, FirstOfConcat
    <2>4. <<>> \o y = y /\ o \o y \in Seq(S)
      BY ConcatEmptySeq, ConcatProperties
    <2>5. new = o \o y
      BY <1>3, <2>2
    <2>6. QED  BY <2>3, <2>4, <2>5
  <1> HIDE DEF new
  <1>5. /\ swapped \in Seq(Seq(S) \ {<<>>}) /\ swapped # <<>>
        /\ FlattenSeq(swapped) = new \o FlattenSeq(rest)
        /\ FlattenSeq(waitingQueue) = h \o FlattenSeq(rest) /\ FlattenSeq(rest) \in Seq(S)
    <2>1. PICK n \in Seq(S) \ {<<>>} : n = new
      BY <1>4
    <2>2. <<n>> \o rest \in Seq(Seq(S) \ {<<>>}) /\ Len(<<n>> \o rest) > 0
      BY FrontPut
    <2>3. FlattenSeq(<<n>> \o rest) = n \o FlattenSeq(rest)
      BY FrontJoined, Zenon
    <2>4. FlattenSeq(<<h>> \o rest) = h \o FlattenSeq(rest) /\ FlattenSeq(rest) \in Seq(S)
      BY FrontJoined, Zenon
    <2>5. swapped # <<>>
      BY <1>2, <2>1, <2>2
    <2>6. QED  BY <1>1, <1>2, <2>1, <2>2, <2>3, <2>4, <2>5, Zenon
  <1>6. PICK r \in Seq(S) : r = FlattenSeq(rest)
    BY <1>5
  <1>7. Tail(new \o r) = Tail(new) \o r /\ Tail(h \o r) = Tail(h) \o r
    <2>1. new \in Seq(S) /\ new # <<>> /\ h \in Seq(S) /\ h # <<>>
      BY <1>4
    <2>2. QED  BY <2>1, FirstOfConcat, Zenon
  <1>8. QED  BY <1>3, <1>4, <1>5, <1>6, <1>7

-----------------------------------------------------------------------------
(* The mutex, and the types. *)

\* The places where doSend holds wqMutex.
LockPlaces == {"decide", "giveUp", "clear", "release", "unlock"}

\* doSend decides with the mutex held, and with something in the queue.
Locked ==
  \A t \in Threads :
    /\ pc[t] \in LockPlaces => mutex = t
    /\ pc[t] = "decide" => waitingQueue # <<>>

PlacesOf(t) ==
  {"idle", "doSend", "decide", "giveUp", "clear", "release", "unlock"} \cup
    IF t \in Callers THEN {"called", "push", "pushed", "refused"}
    ELSE {"done", "error", "added", "addedError", "again", "leave", "finish", "ended"}

PlacesOK == \A t \in Threads : pc[t] \in PlacesOf(t)

\* What may be in the queue: datagrams, and what sendBuff had when an exception came.
InQueue == (IF Threw THEN 0 ELSE 1) .. queued

QueueOK ==
  /\ waitingQueue \in Seq(Seq(InQueue) \ {<<>>})
  /\ Threw => waitingQueue # <<>>
  /\ queued \in Nat /\ sent \in 0 .. queued /\ waits \in 0 .. MaxWaits

FlagsOK ==
  /\ isSending \in BOOLEAN /\ closed \in BOOLEAN /\ stall \in {"no", "failed", "skipped"}
  /\ mutex \in Threads \cup {NoThread}
  /\ poll \in {"open", "polling", "pollTasks", "stopped"}

QueueInv == PlacesOK /\ QueueOK /\ FlagsOK /\ Locked

\* A thread goes on as it may: it stays without the mutex or within it, takes it, or
\* gives it back; and only who has it, or finds it free, changes the queue.
Moves(t, from, to) ==
  /\ Goto(t, from, to) /\ to \in PlacesOf(t)
  /\ \/ /\ mutex' = mutex /\ to # "decide"
        /\ to \in LockPlaces => from \in LockPlaces
        /\ waitingQueue' = waitingQueue \/ from \in LockPlaces \/ mutex = NoThread
     \/ /\ mutex = NoThread /\ mutex' = t
        /\ to = "decide" => waitingQueue' # <<>>
     \/ from \in LockPlaces /\ to \notin LockPlaces /\ mutex' = NoThread

\* Then the mutex keeps its holder.
LEMMA MoveLocked ==
  ASSUME Types, PlacesOK, Locked, NEW t \in Threads, NEW from, NEW to, Moves(t, from, to)
  PROVE  PlacesOK' /\ Locked'
  <1>1. pc[t] = from /\ pc' = [pc EXCEPT ![t] = to] /\ pc \in [Threads -> Places]
    BY DEF Moves, Goto, Types
  <1>2. pc'[t] = to /\ \A u \in Threads : u # t => pc'[u] = pc[u]
    BY <1>1
  <1>3. PlacesOK'
    BY <1>2 DEF PlacesOK, PlacesOf, Moves
  <1>4. NoThread \notin Threads
    BY SenderAssumption
  <1>5. from \in LockPlaces => mutex = t
    BY <1>1 DEF Locked
  <1>6. CASE /\ mutex' = mutex /\ to # "decide"
             /\ to \in LockPlaces => from \in LockPlaces
             /\ waitingQueue' = waitingQueue \/ from \in LockPlaces \/ mutex = NoThread
    <2>1. ASSUME NEW u \in Threads, pc'[u] \in LockPlaces PROVE mutex' = u
      <3>1. CASE u = t
        BY <1>2, <1>5, <1>6, <2>1, <3>1
      <3>2. CASE u # t
        BY <1>2, <1>6, <2>1, <3>2 DEF Locked
      <3>3. QED  BY <3>1, <3>2
    <2>2. ASSUME NEW u \in Threads, pc'[u] = "decide" PROVE waitingQueue' # <<>>
      <3>1. u # t /\ pc[u] = "decide"
        BY <1>2, <1>6, <2>2
      <3>2. waitingQueue # <<>> /\ mutex = u
        BY <3>1 DEF Locked, LockPlaces
      <3>3. QED  BY <1>4, <1>5, <1>6, <3>1, <3>2
    <2>3. QED  BY <1>3, <2>1, <2>2 DEF Locked
  <1>7. CASE mutex = NoThread /\ mutex' = t /\ (to = "decide" => waitingQueue' # <<>>)
    <2>1. \A u \in Threads : pc[u] \notin LockPlaces
      BY <1>4, <1>7 DEF Locked
    <2>2. QED  BY <1>2, <1>3, <1>7, <2>1 DEF Locked, LockPlaces
  <1>8. CASE from \in LockPlaces /\ to \notin LockPlaces /\ mutex' = NoThread
    <2>1. mutex = t
      BY <1>5, <1>8 DEF LockPlaces
    <2>2. \A u \in Threads : pc'[u] \notin LockPlaces
      BY <1>2, <1>8, <2>1 DEF Locked
    <2>3. QED  BY <1>3, <2>2 DEF Locked, LockPlaces
  <1>9. QED  BY <1>6, <1>7, <1>8 DEF Moves

\* What send does.
LEMMA SendQueue ==
  ASSUME QueueInv, NEW t \in Callers, Call(t) \/ InSend(t)
  PROVE  /\ \E from, to : Moves(t, from, to)
         /\ QueueOK' /\ FlagsOK'
  <1>1. /\ t \in Threads
        /\ \A place \in {"called", "push", "pushed", "refused", "doSend", "idle"} : place \in PlacesOf(t)
    BY DEF Threads, PlacesOf
  <1>2. QueueOK /\ FlagsOK
    BY DEF QueueInv
  <1>3. CASE Call(t) \/ TestClosed(t) \/ TestSending(t) \/ Refuse(t)
    <2>1. \E from, to \in {"called", "push", "pushed", "refused", "doSend", "idle"} : Goto(t, from, to)
      BY <1>3 DEF Call, TestClosed, TestSending, Refuse
    <2>2. UNCHANGED <<shared, isSending, poll, leaked>> /\ stall' \in {stall, "no"}
      BY <1>3 DEF Call, TestClosed, TestSending, Refuse
    <2>3. mutex' = mutex /\ waitingQueue' = waitingQueue
      BY <2>2 DEF shared
    <2>4. \E from, to : Moves(t, from, to)
      BY <1>1, <2>1, <2>3 DEF Moves, LockPlaces
    <2>5. QED  BY <1>2, <2>2, <2>4 DEF QueueOK, InQueue, Threw, FlagsOK, shared
  <1>4. CASE Push(t)
    <2>1. PICK call \in Calls : /\ waitingQueue' = waitingQueue \o Entries(call)
                               /\ queued' = LastOf(call)[Len(call)]
      BY <1>4 DEF Push
    <2>2. /\ mutex = NoThread /\ Goto(t, "push", "pushed")
          /\ UNCHANGED <<isSending, mutex, closed, waits, sent, poll, stall, leaked>>
      BY <1>4 DEF Push
    <2>3. call \in Seq(Nat \ {0}) /\ queued \in Nat
      BY <1>2, SenderAssumption DEF QueueOK
    <2>4. /\ queued' \in Nat /\ queued <= queued'
          /\ Entries(call) \in Seq(Seq(1 .. queued') \ {<<>>})
      BY <2>1, <2>3, EntriesAre
    <2>5. /\ waitingQueue \in Seq(Seq(InQueue') \ {<<>>})
          /\ Entries(call) \in Seq(Seq(InQueue') \ {<<>>})
      <3>1. InQueue \subseteq InQueue' /\ 1 .. queued' \subseteq InQueue'
        BY <2>2, <2>3, <2>4 DEF InQueue, Threw
      <3>2. /\ Seq(InQueue) \ {<<>>} \subseteq Seq(InQueue') \ {<<>>}
            /\ Seq(1 .. queued') \ {<<>>} \subseteq Seq(InQueue') \ {<<>>}
        BY <3>1, SeqMonotonic
      <3>3. QED  BY <1>2, <2>4, <3>2, SeqMonotonic DEF QueueOK
    <2>6. waitingQueue' \in Seq(Seq(InQueue') \ {<<>>}) /\ (Threw' => waitingQueue' # <<>>)
      <3> DEFINE T == Seq(InQueue') \ {<<>>}
      <3>1. waitingQueue \in Seq(T) /\ Entries(call) \in Seq(T)
        BY <2>5
      <3> HIDE DEF T
      <3>2. waitingQueue \o Entries(call) \in Seq(T) /\ (waitingQueue # <<>> => waitingQueue \o Entries(call) # <<>>)
        BY <3>1, FirstOfConcat, ConcatProperties
      <3>3. QED  BY <1>2, <2>1, <2>2, <3>2 DEF T, QueueOK, Threw
    <2>7. sent' \in 0 .. queued' /\ waits' \in 0 .. MaxWaits
      BY <1>2, <2>2, <2>4 DEF QueueOK
    <2>8. \E from, to : Moves(t, from, to)
      BY <1>1, <2>2 DEF Moves, LockPlaces
    <2>9. QED  BY <1>2, <2>2, <2>4, <2>6, <2>7, <2>8 DEF QueueOK, FlagsOK
  <1>5. QED  BY <1>3, <1>4 DEF InSend

\* What the handlers do.
LEMMA HandlerQueue ==
  ASSUME QueueInv, NEW t \in Workers, Expire(t) \/ Complete(t) \/ InHandler(t)
  PROVE  /\ \E from, to : Moves(t, from, to)
         /\ QueueOK' /\ FlagsOK'
  <1> DEFINE P == {"done", "error", "added", "addedError", "again", "leave", "finish", "doSend", "idle"}
  <1>1. t \in Threads /\ \A place \in P : place \in PlacesOf(t)
    BY SenderAssumption DEF Threads, PlacesOf
  <1>2. QueueOK /\ FlagsOK
    BY DEF QueueInv
  <1>3. \E from, to \in P : Goto(t, from, to)
    BY DEF Expire, Complete, InHandler, Enter, Sent, SentError, Again, Leave, Finish
  <1>4. UNCHANGED <<shared, poll, leaked>> /\ isSending' \in BOOLEAN /\ stall' \in {stall, "failed"}
    BY <1>2 DEF Expire, Complete, InHandler, Enter, Sent, SentError, Again, Leave, Finish, FlagsOK
  <1>5. mutex' = mutex /\ waitingQueue' = waitingQueue
    BY <1>4 DEF shared
  <1>6. \E from, to : Moves(t, from, to)
    BY <1>1, <1>3, <1>5 DEF Moves, LockPlaces
  <1>7. QED  BY <1>2, <1>4, <1>6 DEF QueueOK, InQueue, Threw, FlagsOK, shared

\* What doSend does.
LEMMA DoSendQueue ==
  ASSUME Inv, QueueInv, NEW t \in Threads, InDoSend(t)
  PROVE  /\ \E from, to : Moves(t, from, to)
         /\ QueueOK' /\ FlagsOK'
  <1>1. \A place \in LockPlaces \cup {"doSend"} : place \in PlacesOf(t)
    BY DEF LockPlaces, PlacesOf
  <1>2. QueueOK /\ FlagsOK
    BY DEF QueueInv
  <1>3. CASE DoSend(t)
    <2>1. /\ mutex = NoThread /\ mutex' = t
          /\ UNCHANGED <<waitingQueue, closed, waits, queued, sent, poll, stall, leaked>>
          /\ isSending' \in BOOLEAN
          /\ Goto(t, "doSend", "release") \/ (Goto(t, "doSend", "decide") /\ waitingQueue # <<>>)
      BY <1>2, <1>3 DEF DoSend, FlagsOK
    <2>2. \E from, to : Moves(t, from, to)
      BY <1>1, <2>1 DEF Moves, LockPlaces
    <2>3. QED  BY <1>2, <2>1, <2>2 DEF QueueOK, InQueue, Threw, FlagsOK
  <1>4. CASE Decide(t)
    <2>1. pc[t] = "decide" /\ waitingQueue # <<>> /\ MaxWaits \in Nat
      BY <1>4, SenderAssumption DEF Decide, QueueInv, Locked
    <2>2. leaked = 0 /\ ~Threw
      BY <2>1 DEF Inv, Types, OneOwner, Owners, OwnerPlaces, Threw
    <2>3. /\ waitingQueue \in Seq(Seq(1 .. queued) \ {<<>>}) /\ InQueue = 1 .. queued
          /\ queued \in Nat /\ sent \in 0 .. queued /\ waits \in 0 .. MaxWaits
      BY <1>2, <2>2 DEF QueueOK, InQueue
    <2>4. ~Broken /\ (ThrowAll(t) \/ Wait(t) \/ Skip(t) \/ Transmit(t) \/ Throw(t))
      BY <1>4, <2>1, <2>3, FrontOfQueue DEF Decide, Broken
    <2>5. UNCHANGED <<isSending, closed, queued, poll, stall>>
      BY <2>4 DEF ThrowAll, Wait, Skip, Transmit, Throw, shared
    <2>6. FlagsOK' /\ \E from, to : Moves(t, from, to)
      <3>1. CASE ThrowAll(t) \/ Wait(t) \/ Skip(t) \/ Transmit(t)
        <4>1. mutex' = mutex /\ \E to \in {"giveUp", "unlock"} : Goto(t, "decide", to)
          BY <3>1 DEF ThrowAll, Wait, Skip, Transmit, shared
        <4>2. QED  BY <1>1, <1>2, <2>5, <4>1 DEF Moves, LockPlaces, FlagsOK
      <3>2. CASE Throw(t)
        <4>1. mutex' = NoThread /\ Goto(t, "decide", IF t \in Callers THEN "idle" ELSE "ended")
          BY <3>2 DEF Throw
        <4>2. (IF t \in Callers THEN "idle" ELSE "ended") \in PlacesOf(t)
          BY DEF PlacesOf
        <4>3. QED  BY <1>2, <2>5, <4>1, <4>2 DEF Moves, LockPlaces, FlagsOK
      <3>3. QED  BY <2>4, <3>1, <3>2
    <2>7. QueueOK'
      <3>1. CASE ThrowAll(t)
        <4>1. waitingQueue' = <<>> /\ UNCHANGED <<queued, sent, waits, leaked>>
          BY <3>1 DEF ThrowAll
        <4>2. <<>> \in Seq(Seq(1 .. queued) \ {<<>>})
          OBVIOUS
        <4>3. QED  BY <2>2, <2>3, <4>1, <4>2 DEF QueueOK, InQueue, Threw
      <3>2. CASE Wait(t)
        BY <2>1, <2>2, <2>3, <3>2 DEF Wait, QueueOK, InQueue, Threw
      <3>3. CASE Skip(t)
        BY <2>2, <2>3, <3>3 DEF Skip, QueueOK, InQueue, Threw, shared
      <3>4. CASE Transmit(t)
        <4>1. sent' = Head(Head(waitingQueue)) /\ waitingQueue' = Popped /\ waits' = 0
              /\ UNCHANGED <<queued, leaked>>
          BY <3>4 DEF Transmit
        <4>2. Popped \in Seq(Seq(1 .. queued) \ {<<>>}) /\ Head(Head(waitingQueue)) \in 1 .. queued
          BY <2>1, <2>3, PoppedIs
        <4>3. QED  BY <2>1, <2>2, <2>3, <4>1, <4>2 DEF QueueOK, InQueue, Threw
      <3>5. CASE Throw(t)
        <4>1. waitingQueue' = <<<<sent>> \o Tail(Head(waitingQueue))>> \o Tail(waitingQueue)
              /\ UNCHANGED <<queued, sent, waits>> /\ Threw'
          BY <2>2, <3>5 DEF Throw, Threw
        <4>2. waitingQueue \in Seq(Seq(0 .. queued) \ {<<>>})
          <5>1. 1 .. queued \subseteq 0 .. queued
            OBVIOUS
          <5>2. Seq(1 .. queued) \subseteq Seq(0 .. queued)
            BY <5>1, SeqMonotonic
          <5>3. Seq(1 .. queued) \ {<<>>} \subseteq Seq(0 .. queued) \ {<<>>}
            BY <5>2
          <5>4. QED  BY <2>3, <5>3, SeqMonotonic
        <4>3. waitingQueue' \in Seq(Seq(0 .. queued) \ {<<>>}) /\ waitingQueue' # <<>>
          BY <2>1, <2>3, <4>1, <4>2, SwappedIs
        <4>4. QED  BY <2>3, <4>1, <4>3 DEF QueueOK, InQueue
      <3>6. QED  BY <2>4, <3>1, <3>2, <3>3, <3>4, <3>5
    <2>8. QED  BY <2>6, <2>7
  <1>5. CASE GiveUp(t) \/ Clear(t) \/ Release(t)
    <2>1. /\ \E from, to \in {"giveUp", "clear", "release", "unlock"} : Goto(t, from, to)
          /\ UNCHANGED <<shared, poll, leaked>> /\ isSending' \in BOOLEAN /\ stall' \in {stall, "skipped"}
      BY <1>2, <1>5 DEF GiveUp, Clear, Release, FlagsOK
    <2>2. mutex' = mutex /\ waitingQueue' = waitingQueue
      BY <2>1 DEF shared
    <2>3. \E from, to : Moves(t, from, to)
      BY <1>1, <2>1, <2>2 DEF Moves, LockPlaces
    <2>4. QED  BY <1>2, <2>1, <2>3 DEF QueueOK, InQueue, Threw, FlagsOK, shared
  <1>6. CASE Unlock(t)
    <2>1. /\ Goto(t, "unlock", Return(t)) /\ mutex' = NoThread
          /\ UNCHANGED <<waitingQueue, isSending, closed, waits, queued, sent, poll, stall, leaked>>
      BY <1>6 DEF Unlock
    <2>2. Return(t) \in PlacesOf(t) /\ Return(t) \notin LockPlaces /\ "unlock" \in LockPlaces
      BY DEF Return, PlacesOf, LockPlaces
    <2>3. \E from, to : Moves(t, from, to)
      BY <2>1, <2>2 DEF Moves
    <2>4. QED  BY <1>2, <2>1, <2>3 DEF QueueOK, InQueue, Threw, FlagsOK
  <1>7. QED  BY <1>3, <1>4, <1>5, <1>6 DEF InDoSend

\* Every step keeps the types and the mutex.
LEMMA StepQueue ==
  ASSUME Inv, QueueInv, [Next]_vars
  PROVE  QueueInv'
  <1>1. PlacesOK /\ QueueOK /\ FlagsOK /\ Locked
    BY DEF QueueInv
  <1>2. ASSUME NEW t \in Threads, \E from, to : Moves(t, from, to)
        PROVE  PlacesOK' /\ Locked'
    BY <1>1, <1>2, MoveLocked DEF Inv
  <1>3. CASE \E t \in Callers : Call(t) \/ InSend(t)
    <2>1. PICK t \in Callers : Call(t) \/ InSend(t)
      BY <1>3
    <2>2. QED  BY <1>2, <2>1, SendQueue DEF Threads, QueueInv
  <1>4. CASE \E t \in Threads : InDoSend(t)
    <2>1. PICK t \in Threads : InDoSend(t)
      BY <1>4
    <2>2. QED  BY <1>2, <2>1, DoSendQueue DEF QueueInv
  <1>5. CASE \E t \in Workers : Expire(t) \/ Complete(t) \/ InHandler(t)
    <2>1. PICK t \in Workers : Expire(t) \/ Complete(t) \/ InHandler(t)
      BY <1>5
    <2>2. QED  BY <1>2, <2>1, HandlerQueue DEF Threads, QueueInv
  <1>6. CASE Close \/ PollSending \/ PollTasks
    <2>1. /\ UNCHANGED <<waitingQueue, isSending, mutex, waits, queued, sent, pc, stall, leaked>>
          /\ closed' \in BOOLEAN /\ poll' \in {"open", "polling", "pollTasks", "stopped"}
      BY <1>1, <1>6 DEF Close, PollSending, PollTasks, shared, FlagsOK
    <2>2. PlacesOK' /\ Locked'
      BY <1>1, <2>1 DEF PlacesOK, PlacesOf, Locked
    <2>3. QED  BY <1>1, <2>1, <2>2 DEF QueueOK, InQueue, Threw, FlagsOK, QueueInv
  <1>7. CASE UNCHANGED vars
    BY <1>1, <1>7 DEF vars, shared, QueueInv, PlacesOK, PlacesOf, QueueOK, InQueue, Threw, FlagsOK, Locked
  <1>8. QED  BY <1>3, <1>4, <1>5, <1>6, <1>7 DEF Next

\* A new sender has nothing, and nobody has its mutex.
LEMMA InitQueue == Init => QueueInv
  <1> SUFFICES ASSUME Init PROVE QueueInv
    OBVIOUS
  <1>1. \A t \in Threads : pc[t] = "idle"
    BY DEF Init
  <1>2. MaxWaits \in Nat
    BY SenderAssumption
  <1>3. <<>> \in Seq(Seq(1 .. 0) \ {<<>>})
    OBVIOUS
  <1>4. PlacesOK /\ Locked
    BY <1>1 DEF PlacesOK, PlacesOf, Locked, LockPlaces
  <1>5. QueueOK /\ FlagsOK
    <2>1. waitingQueue = <<>> /\ queued = 0 /\ sent = 0 /\ waits = 0 /\ ~Threw
      BY DEF Init, Threw
    <2>2. waitingQueue \in Seq(Seq(InQueue) \ {<<>>})
      BY <1>3, <2>1 DEF InQueue
    <2>3. QueueOK
      BY <1>2, <2>1, <2>2 DEF QueueOK
    <2>4. FlagsOK
      BY DEF Init, FlagsOK
    <2>5. QED  BY <2>3, <2>4
  <1>6. QED  BY <1>4, <1>5 DEF QueueInv

\* So they hold always.
LEMMA QueueInductive == Spec => []QueueInv
  <1>1. Inv /\ QueueInv /\ [Next]_vars => QueueInv'
    BY StepQueue
  <1>2. QED  BY <1>1, InitQueue, Inductive, PTL DEF Spec

-----------------------------------------------------------------------------
(* A step of the sender is a step of the outbox. *)

LEMMA StepOfOutbox ==
  ASSUME Inv, QueueInv, [Next]_vars
  PROVE  [Out!Next]_(Out!vars)
  <1>1. /\ queued \in Nat /\ sent \in 0 .. queued
        /\ waitingQueue \in Seq(Seq(InQueue) \ {<<>>}) /\ (Threw => waitingQueue # <<>>)
        /\ sends \in Nat /\ timers \in Nat /\ sends + timers <= 1
    BY DEF QueueInv, QueueOK, Inv, Types, OneOwner
  <1>2. ASSUME UNCHANGED <<waitingQueue, queued, sends, sent, leaked>> PROVE [Out!Next]_(Out!vars)
    BY <1>2 DEF Out!vars, Waiting, Threw
  <1>3. CASE \E t \in Callers : Push(t)
    <2>1. PICK t \in Callers, call \in Calls : /\ Push(t) /\ waitingQueue' = waitingQueue \o Entries(call)
                                               /\ queued' = LastOf(call)[Len(call)]
      BY <1>3 DEF Push
    <2>2. call \in Seq(Nat \ {0})
      BY SenderAssumption
    <2> DEFINE more == [k \in 1 .. queued' - queued |-> queued + k]
               S == InQueue \cup 1 .. queued'
    <2>3. /\ queued' \in Nat /\ queued <= queued'
          /\ Entries(call) \in Seq(Seq(1 .. queued') \ {<<>>})
          /\ FlattenSeq(Entries(call)) = more
      BY <1>1, <2>1, <2>2, EntriesAre
    <2> HIDE DEF more
    <2>4. /\ waitingQueue \in Seq(Seq(S) \ {<<>>}) /\ waitingQueue \in Seq(Seq(S))
          /\ Entries(call) \in Seq(Seq(S))
      <3>1. InQueue \subseteq S /\ 1 .. queued' \subseteq S
        OBVIOUS
      <3> HIDE DEF S
      <3>2. Seq(InQueue) \ {<<>>} \subseteq Seq(S) \ {<<>>} /\ Seq(1 .. queued') \ {<<>>} \subseteq Seq(S)
        BY <3>1, SeqMonotonic
      <3>3. Seq(S) \ {<<>>} \subseteq Seq(S)
        OBVIOUS
      <3>4. QED  BY <1>1, <2>3, <3>2, <3>3, SeqMonotonic
    <2> HIDE DEF S
    <2>5. UNCHANGED <<sends, sent, leaked>> /\ Threw' = Threw
      BY <2>1 DEF Push, Threw
    <2>6. Waiting' = Waiting \o more
      <3>1. FlattenSeq(waitingQueue \o Entries(call)) = FlattenSeq(waitingQueue) \o FlattenSeq(Entries(call))
        BY <2>4, FlattenConcat
      <3>2. PICK all \in Seq(S), m \in Seq(S) : all = FlattenSeq(waitingQueue) /\ m = more
        BY <2>3, <2>4, FlattenType
      <3>3. FlattenSeq(waitingQueue)' = all \o m
        BY <2>1, <2>3, <3>1, <3>2
      <3>4. CASE Threw
        <4>1. all # <<>>
          BY <1>1, <2>4, <3>2, <3>4, PoppedIs
        <4>2. Tail(all \o m) = Tail(all) \o m
          BY <4>1, FirstOfConcat
        <4>3. QED  BY <2>5, <3>2, <3>3, <3>4, <4>2 DEF Waiting
      <3>5. CASE ~Threw
        BY <2>5, <3>2, <3>3, <3>5 DEF Waiting
      <3>6. QED  BY <3>4, <3>5
    <2>7. Out!Queue
      BY <1>1, <2>3, <2>5, <2>6 DEF Out!Queue, more
    <2>8. QED  BY <2>7 DEF Out!Next
  <1>4. CASE \E t \in Threads : Decide(t)
    <2>1. PICK t \in Threads : Decide(t)
      BY <1>4
    <2>2. waitingQueue # <<>> /\ t \in Owners
      BY <2>1 DEF Decide, QueueInv, Locked, Owners, OwnerPlaces
    <2>3. sends = 0 /\ leaked = 0 /\ ~Threw
      BY <1>1, <2>2 DEF Inv, Types, OneOwner, Threw
    <2>4. waitingQueue \in Seq(Seq(1 .. queued) \ {<<>>})
      BY <1>1, <2>3 DEF InQueue
    <2>5. ThrowAll(t) \/ Wait(t) \/ Skip(t) \/ Transmit(t) \/ Throw(t)
      BY <2>1, <2>2, <2>4, FrontOfQueue DEF Decide, Broken
    <2>6. /\ Waiting = FlattenSeq(waitingQueue) /\ Waiting # <<>>
          /\ Head(Waiting) = Head(Head(waitingQueue)) /\ FlattenSeq(Popped) = Tail(Waiting)
      <3>1. Waiting = FlattenSeq(waitingQueue)
        BY <2>3 DEF Waiting
      <3>2. QED  BY <2>2, <2>4, <3>1, PoppedIs
    <2>7. CASE ThrowAll(t)
      <3>1. waitingQueue' = <<>> /\ UNCHANGED <<queued, sends, sent>>
            /\ Threw = FALSE /\ Threw' = FALSE
        BY <2>3, <2>7 DEF ThrowAll, Threw
      <3>2. Waiting' = <<>>
        BY <3>1 DEF Waiting, FlattenSeq
      <3>3. QED  BY <2>3, <3>1, <3>2 DEF Out!ThrowAll, Out!Next
    <2>8. CASE Wait(t) \/ Skip(t)
      BY <1>2, <2>8 DEF Wait, Skip, shared
    <2>9. CASE Transmit(t)
      <3>1. /\ sent' = Head(Head(waitingQueue)) /\ waitingQueue' = Popped
            /\ sends' = sends + 1 /\ queued' = queued
            /\ Threw = FALSE /\ Threw' = FALSE
        BY <2>3, <2>9 DEF Transmit, Threw
      <3>2. Waiting' = Tail(Waiting)
        BY <2>6, <3>1 DEF Waiting
      <3>3. sent' = Head(Waiting) /\ sends' = 1
        BY <2>3, <2>6, <3>1
      <3>4. UNCHANGED <<queued, Threw>>
        BY <3>1
      <3>5. Out!Send
        BY <2>3, <2>6, <3>2, <3>3, <3>4 DEF Out!Send
      <3>6. QED  BY <3>5 DEF Out!Next
    <2>10. CASE Throw(t)
      <3>1. /\ waitingQueue' = <<<<sent>> \o Tail(Head(waitingQueue))>> \o Tail(waitingQueue)
            /\ UNCHANGED <<queued, sends, sent>> /\ Threw'
        BY <2>3, <2>10 DEF Throw, Threw
      <3>2. waitingQueue \in Seq(Seq(0 .. queued) \ {<<>>})
        <4>1. 1 .. queued \subseteq 0 .. queued
          OBVIOUS
        <4>2. Seq(1 .. queued) \subseteq Seq(0 .. queued)
          BY <4>1, SeqMonotonic
        <4>3. Seq(1 .. queued) \ {<<>>} \subseteq Seq(0 .. queued) \ {<<>>}
          BY <4>2
        <4>4. QED  BY <2>4, <4>3, SeqMonotonic
      <3>3. Tail(FlattenSeq(waitingQueue)') = Tail(FlattenSeq(waitingQueue))
        BY <1>1, <2>2, <3>1, <3>2, SwappedIs
      <3>4. Waiting' = Tail(Waiting)
        BY <2>6, <3>1, <3>3 DEF Waiting
      <3>5. Out!Break
        BY <2>3, <2>6, <3>1, <3>4 DEF Out!Break
      <3>6. QED  BY <3>5 DEF Out!Next
    <2>11. QED  BY <2>5, <2>7, <2>8, <2>9, <2>10
  <1>5. CASE \E t \in Workers : Complete(t)
    <2>1. sends > 0 /\ sends' = sends - 1 /\ UNCHANGED <<shared, leaked>>
      BY <1>5 DEF Complete
    <2>2. sends = 1 /\ sends' = 0
      BY <1>1, <2>1
    <2>3. UNCHANGED <<Waiting, queued, sent, Threw>>
      BY <2>1 DEF shared, Waiting, Threw
    <2>4. QED  BY <2>2, <2>3 DEF Out!Complete, Out!Next
  <1>6. CASE \/ \E t \in Callers : Call(t) \/ TestClosed(t) \/ TestSending(t) \/ Refuse(t)
             \/ \E t \in Threads : DoSend(t) \/ GiveUp(t) \/ Clear(t) \/ Release(t) \/ Unlock(t)
             \/ \E t \in Workers : Expire(t) \/ InHandler(t)
             \/ Close \/ PollSending \/ PollTasks \/ UNCHANGED vars
    <2>1. UNCHANGED <<waitingQueue, queued, sends, sent, leaked>>
      BY <1>6 DEF Call, TestClosed, TestSending, Refuse, DoSend, GiveUp, Clear, Release, Unlock,
           Expire, InHandler, Enter, Sent, SentError, Again, Leave, Finish, Close, PollSending,
           PollTasks, vars, shared
    <2>2. QED  BY <1>2, <2>1
  <1>7. QED  BY <1>3, <1>4, <1>5, <1>6 DEF Next, InSend, InDoSend

-----------------------------------------------------------------------------
(* The theorems. *)

\* sendBuff, target and timer are used by one asynchronous operation at a time.
THEOREM OperationsAlone == Spec => []OneOperation
  <1>1. Inv => OneOperation
    BY DEF Inv, OneOwner, OneOperation
  <1>2. QED  BY <1>1, Inductive, PTL

\* sendTasks is exact. Every path through send, doSend and doSendFinish that returns counts
\* down what it has counted up, or leaves an operation that will; the one that does not
\* return, the exception of bytesCounter out of doSend, leaves one task of a caller or two of
\* a handler counted, and nothing that will count them down.
THEOREM TasksAreCounted == Spec => []TasksCountActivity
  <1>1. Inv => TasksCountActivity
    BY DEF Inv
  <1>2. QED  BY <1>1, Inductive, PTL

\* isStopped, although it reads isSending and sendTasks one after the other, holds
\* only when no operation is left and no handler runs.
THEOREM StoppedAlone == Spec => []StoppedIsQuiet
  <1>1. Inv => StoppedIsQuiet
    BY DEF Inv, Quiet, StoppedIsQuiet
  <1>2. QED  BY <1>1, Inductive, PTL

\* After an exception of bytesCounter out of doSend isSending stays set for good, and isStopped
\* never holds.
THEOREM Thrown_never_stops == Spec => []ThrownNeverStops
  <1>1. Inv => ThrownNeverStops
    BY DEF Inv, Types, OneOwner, Quiet, Threw, ThrownNeverStops
  <1>2. QED  BY <1>1, Inductive, PTL

\* Places, queue and counts keep to their types: no entry without a datagram is ever
\* in the queue, so "it should never happen" of doSend never does.
THEOREM Typed == Spec => []TypeOK
  <1>1. Inv => sendTasks \in Nat /\ sends \in Nat /\ timers \in Nat
    <2> SUFFICES ASSUME Inv PROVE sendTasks \in Nat /\ sends \in Nat /\ timers \in Nat
      OBVIOUS
    <2>1. sends \in Nat /\ timers \in Nat
      BY DEF Inv, Types
    <2>2. QED  BY <2>1, Finite DEF Inv, Types, TasksCountActivity
  <1>2. Inv /\ QueueInv => TypeOK
    BY <1>1 DEF QueueInv, PlacesOK, PlacesOf, QueueOK, InQueue, FlagsOK, TypeOK, Inv, Types, OneOwner
  <1>3. QED  BY <1>2, Inductive, QueueInductive, PTL

\* A sender is an outbox, for any threads, calls and limits: one datagram at a time
\* goes to the socket, the oldest, and no others leave the queue but all at once, or one
\* by an exception, after which none leaves.
THEOREM Is_outbox == Spec => ImplementsOutbox
  <1>1. Init => Out!Init
    BY DEF Init, Out!Init, Waiting, Threw, FlattenSeq
  <1>2. Inv /\ QueueInv /\ [Next]_vars => [Out!Next]_(Out!vars)
    BY StepOfOutbox
  <1>3. QED
    BY <1>1, <1>2, Inductive, QueueInductive, PTL DEF Spec, ImplementsOutbox, Out!Spec

=============================================================================

------------------------- MODULE UdpReceiverProofs -------------------------
(***************************************************************************)
(* For any number of threads of the io_context: the receives of a          *)
(* UdpReceiver follow one another, its count of tasks is exact, and close  *)
(* deletes it only when nothing of it runs.  The three belong together:    *)
(* the count proves the deletion quiet.                                    *)
(***************************************************************************)
EXTENDS UdpReceiver, FiniteSetTheorems, TLAPS

Places == OpenerPlaces \cup {"read", "failed", "push", "handled"}
StartPlaces == {"test", "refuse", "receive"}

\* TypeOK, but for the sign of recvTasks, which comes from the count.
Types ==
  /\ closed \in BOOLEAN /\ socketOpen \in BOOLEAN
  /\ recvTasks \in Int
  /\ receive \in {"none", "waiting", "read", "failed"}
  /\ arrived \in Nat /\ unread \in 0 .. arrived
  /\ pc \in [Threads -> Places] /\ pc[Opener] \in OpenerPlaces
  /\ closing \in {"no", "cancel", "poll", "deleted", "gaveUp"}

\* bindingMx: start has returned before close is called.
OpenedBeforeClose == closing # "no" => pc[Opener] = "idle"

Inv == Types /\ OneReceive /\ TasksCountActivity /\ OpenedBeforeClose /\ DeletedIsQuiet

-----------------------------------------------------------------------------
(* The counts. *)

\* The sets that are counted are finite.
LEMMA Finite ==
  /\ IsFiniteSet(Starting) /\ Cardinality(Starting) \in Nat
  /\ IsFiniteSet(Handling) /\ Cardinality(Handling) \in Nat
  <1>1. IsFiniteSet(Workers \cup {Opener})
    BY ReceiverAssumption, FS_AddElement
  <1>2. Starting \in SUBSET (Workers \cup {Opener}) /\ Handling \in SUBSET (Workers \cup {Opener})
    BY DEF Starting, Handling, Threads
  <1>3. IsFiniteSet(Starting) /\ IsFiniteSet(Handling)
    BY <1>1, <1>2, FS_Subset
  <1>4. QED  BY <1>3, FS_CardinalityType

\* A thread that goes from one place to another changes the sets by itself.
LEMMA Moves ==
  ASSUME Types, NEW t \in Threads, NEW from, NEW to \in Places, Goto(t, from, to)
  PROVE  /\ Starting' = IF to \in StartPlaces THEN Starting \cup {t} ELSE Starting \ {t}
         /\ Handling' = IF t # Opener /\ to # "idle" THEN Handling \cup {t} ELSE Handling \ {t}
         /\ Receiving' = IF to \notin {"idle", "handled"} THEN Receiving \cup {t}
                         ELSE Receiving \ {t}
  <1>1. pc \in [Threads -> Places] /\ pc' = [pc EXCEPT ![t] = to]
    BY DEF Types, Goto
  <1>2. pc'[t] = to /\ \A u \in Threads : u # t => pc'[u] = pc[u]
    BY <1>1
  <1>3. Starting' = IF to \in StartPlaces THEN Starting \cup {t} ELSE Starting \ {t}
    BY <1>2 DEF Starting, StartPlaces
  <1>4. Handling' = IF t # Opener /\ to # "idle" THEN Handling \cup {t} ELSE Handling \ {t}
    BY <1>2, ReceiverAssumption DEF Handling, Threads
  <1>5. Receiving' = IF to \notin {"idle", "handled"} THEN Receiving \cup {t}
                     ELSE Receiving \ {t}
    BY <1>2 DEF Receiving
  <1>6. QED  BY <1>3, <1>4, <1>5

\* An element put in or taken out of a finite set.
LEMMA OneMoreOrLess ==
  ASSUME NEW S, IsFiniteSet(S), NEW x
  PROVE  /\ Cardinality(S) \in Nat
         /\ Cardinality(S \cup {x}) = Cardinality(S) + (IF x \in S THEN 0 ELSE 1)
         /\ Cardinality(S \ {x}) = Cardinality(S) - (IF x \in S THEN 1 ELSE 0)
  <1>1. Cardinality(S) \in Nat
    BY FS_CardinalityType
  <1>2. Cardinality(S \cup {x}) = IF x \in S THEN Cardinality(S) ELSE Cardinality(S) + 1
    BY FS_AddElement
  <1>3. Cardinality(S \ {x}) = IF x \in S THEN Cardinality(S) - 1 ELSE Cardinality(S)
    BY FS_RemoveElement
  <1>4. QED  BY <1>1, <1>2, <1>3

\* And so the counts.
LEMMA Counts ==
  ASSUME Types, NEW t \in Threads, NEW from, NEW to \in Places, Goto(t, from, to)
  PROVE  /\ Cardinality(Starting)' =
              Cardinality(Starting) + (IF to \in StartPlaces THEN 1 ELSE 0)
                                    - (IF from \in StartPlaces THEN 1 ELSE 0)
         /\ Cardinality(Handling)' =
              Cardinality(Handling) + (IF t # Opener /\ to # "idle" THEN 1 ELSE 0)
                                    - (IF t # Opener /\ from # "idle" THEN 1 ELSE 0)
  <1>1. pc[t] = from
    BY DEF Goto
  <1>2. t \in Starting <=> from \in StartPlaces
    BY <1>1 DEF Starting, StartPlaces
  <1>3. t \in Handling <=> t # Opener /\ from # "idle"
    BY <1>1, ReceiverAssumption DEF Handling, Threads
  <1>4. /\ Cardinality(Starting) \in Nat
        /\ Cardinality(Starting \cup {t}) =
             Cardinality(Starting) + (IF t \in Starting THEN 0 ELSE 1)
        /\ Cardinality(Starting \ {t}) =
             Cardinality(Starting) - (IF t \in Starting THEN 1 ELSE 0)
    BY Finite, OneMoreOrLess
  <1>5. /\ Cardinality(Handling) \in Nat
        /\ Cardinality(Handling \cup {t}) =
             Cardinality(Handling) + (IF t \in Handling THEN 0 ELSE 1)
        /\ Cardinality(Handling \ {t}) =
             Cardinality(Handling) - (IF t \in Handling THEN 1 ELSE 0)
    BY Finite, OneMoreOrLess
  <1>6. Cardinality(Starting)' = IF to \in StartPlaces THEN Cardinality(Starting \cup {t})
                                 ELSE Cardinality(Starting \ {t})
    BY Moves
  <1>7. Cardinality(Handling)' = IF t # Opener /\ to # "idle" THEN Cardinality(Handling \cup {t})
                                 ELSE Cardinality(Handling \ {t})
    BY Moves
  <1>8. QED  BY <1>2, <1>3, <1>4, <1>5, <1>6, <1>7

-----------------------------------------------------------------------------
(* The steps. *)

\* start has just been called on an open socket.
LEMMA InitInv == Init => Inv
  <1> SUFFICES ASSUME Init PROVE Inv
    OBVIOUS
  <1>1. Types
    <2>1. pc = [t \in Threads |-> IF t = Opener THEN "startReceive" ELSE "idle"]
      BY DEF Init
    <2>2. pc \in [Threads -> Places]
      BY <2>1 DEF Places, OpenerPlaces
    <2>3. pc[Opener] \in OpenerPlaces
      BY <2>1 DEF Threads, OpenerPlaces
    <2>4. closed \in BOOLEAN /\ socketOpen \in BOOLEAN
      BY DEF Init
    <2>5. QED  BY <2>2, <2>3, <2>4 DEF Init, Types
  <1>2. Starting = {} /\ Handling = {} /\ Receiving = {Opener}
    BY ReceiverAssumption DEF Init, Starting, Handling, Receiving, Threads
  <1>3. TasksCountActivity
    BY <1>2, FS_EmptySet DEF Init, TasksCountActivity
  <1>4. QED
    BY <1>1, <1>2, <1>3 DEF Init, Inv, OneReceive, OpenedBeforeClose, DeletedIsQuiet

\* Every step keeps the types.
LEMMA StepTypes ==
  ASSUME Types, Next
  PROVE  Types'
  <1>1. CASE \E t \in Threads : InStartReceive(t)
    BY <1>1 DEF Types, InStartReceive, StartReceive, TestClosed, Refuse, Receive, Goto, Return,
                Places, OpenerPlaces, Threads
  <1>2. CASE \E t \in Workers : InHandler(t)
    <2>1. PICK t \in Workers : InHandler(t)
      BY <1>2
    <2>2. t \in Threads /\ t # Opener
      BY ReceiverAssumption DEF Threads
    <2>3. PICK to \in Places : pc' = [pc EXCEPT ![t] = to]
      BY <2>1 DEF InHandler, Complete, FinishFailed, FinishRead, Push, Handled, Goto,
                  Places, OpenerPlaces
    <2>4. pc' \in [Threads -> Places] /\ pc'[Opener] \in OpenerPlaces
      BY <2>2, <2>3, ReceiverAssumption DEF Types, Threads
    <2>5. /\ closed' \in BOOLEAN
          /\ socketOpen' = socketOpen
      BY <2>1 DEF Types, InHandler, Complete, FinishFailed, FinishRead, Push, Handled
    <2>6. recvTasks' \in Int
      BY <2>1 DEF Types, InHandler, Complete, FinishFailed, FinishRead, Push, Handled
    <2>7. /\ receive' \in {"none", "waiting", "read", "failed"}
          /\ arrived' = arrived /\ unread' = unread /\ closing' = closing
      BY <2>1 DEF Types, InHandler, Complete, FinishFailed, FinishRead, Push, Handled
    <2>8. QED  BY <2>4, <2>5, <2>6, <2>7 DEF Types
  <1>3. CASE Arrive \/ Read \/ Fail
    BY <1>3 DEF Types, Arrive, Read, Fail
  <1>4. CASE Close \/ InClose
    <2>1. /\ closed' \in BOOLEAN /\ socketOpen' \in BOOLEAN
          /\ UNCHANGED <<recvTasks, arrived, pc>>
      BY <1>4 DEF Types, Close, InClose, Cancel, Delete, GiveUp, CloseSocket
    <2>2. receive' \in {"none", "waiting", "read", "failed"}
      BY <1>4 DEF Types, Close, InClose, Cancel, Delete, GiveUp, CloseSocket, Aborted
    <2>3. unread' \in 0 .. arrived
      BY <1>4 DEF Types, Close, InClose, Cancel, Delete, GiveUp, CloseSocket
    <2>4. closing' \in {"no", "cancel", "poll", "deleted", "gaveUp"}
      BY <1>4 DEF Types, Close, InClose, Cancel, Delete, GiveUp, CloseSocket
    <2>5. QED  BY <2>1, <2>2, <2>3, <2>4 DEF Types
  <1>5. QED  BY <1>1, <1>2, <1>3, <1>4 DEF Next

\* The handler that has taken the receive is the only thread that can start the
\* next one, and it starts the next one last.
LEMMA StepOneReceive ==
  ASSUME Types, OneReceive, Next
  PROVE  OneReceive'
  <1>1. CASE \E t \in Threads : InStartReceive(t)
    <2>1. PICK t \in Threads : InStartReceive(t)
      BY <1>1
    <2>2. Receiving = {t} /\ receive = "none"
      BY <2>1 DEF InStartReceive, StartReceive, TestClosed, Refuse, Receive, Goto, Receiving,
                  OneReceive
    <2>3. CASE StartReceive(t) \/ TestClosed(t)
      <3>1. Receiving' = {t} /\ receive' = "none"
        BY <2>2, <2>3, Moves DEF StartReceive, TestClosed, Goto, Places, OpenerPlaces
      <3>2. QED  BY <3>1 DEF OneReceive
    <2>4. CASE Refuse(t) \/ Receive(t)
      <3>1. Return(t) \in Places /\ Return(t) \in {"idle", "handled"}
        BY DEF Return, Places, OpenerPlaces
      <3>2. Receiving' = {}
        BY <2>2, <2>4, <3>1, Moves DEF Refuse, Receive
      <3>3. QED  BY <3>2 DEF OneReceive
    <2>5. QED  BY <2>1, <2>3, <2>4 DEF InStartReceive
  <1>2. CASE \E t \in Workers : InHandler(t)
    <2>1. PICK t \in Workers : InHandler(t)
      BY <1>2
    <2>2. t \in Threads
      BY DEF Threads
    <2>3. CASE Complete(t)
      <3>1. Receiving = {} /\ receive \in Places \ {"idle", "handled"} /\ receive' = "none"
        BY <2>3 DEF Complete, OneReceive, Places
      <3>2. Receiving' = {t}
        BY <2>2, <2>3, <3>1, Moves DEF Complete
      <3>3. QED  BY <3>1, <3>2 DEF OneReceive
    <2>4. CASE FinishRead(t) \/ Push(t)
      <3>1. Receiving = {t} /\ receive = "none"
        BY <2>2, <2>4 DEF FinishRead, Push, Goto, Receiving, OneReceive
      <3>2. Receiving' \in SUBSET {t} /\ receive' = "none"
        BY <2>2, <2>4, <3>1, Moves DEF FinishRead, Push, Places, OpenerPlaces
      <3>3. QED  BY <3>2 DEF OneReceive
    <2>5. CASE FinishFailed(t) \/ Handled(t)
      <3>1. Receiving' = Receiving \ {t} /\ receive' = receive
        BY <2>2, <2>5, Moves DEF FinishFailed, Handled, Places, OpenerPlaces
      <3>2. QED  BY <3>1 DEF OneReceive
    <2>6. QED  BY <2>1, <2>3, <2>4, <2>5 DEF InHandler
  <1>3. CASE Arrive \/ Read \/ Fail \/ Close \/ InClose
    <2>1. Receiving' = Receiving /\ (receive = "none" => receive' = "none")
      BY <1>3 DEF Arrive, Read, Fail, Close, InClose, Cancel, Delete, GiveUp, CloseSocket,
                  Aborted, Receiving
    <2>2. QED  BY <2>1 DEF OneReceive
  <1>4. QED  BY <1>1, <1>2, <1>3 DEF Next

\* Whoever counts a task up goes on to count it down, on every path.
LEMMA StepTasks ==
  ASSUME Types, OneReceive, TasksCountActivity, Next
  PROVE  TasksCountActivity'
  <1>1. /\ recvTasks \in Int
        /\ Cardinality(Starting) \in Nat /\ Cardinality(Handling) \in Nat
        /\ recvTasks = Cardinality(Starting) + Cardinality(Handling)
                         + (IF receive = "none" THEN 0 ELSE 1)
    BY Finite DEF Types, TasksCountActivity
  <1>2. CASE \E t \in Threads : InStartReceive(t)
    <2>1. PICK t \in Threads : InStartReceive(t)
      BY <1>2
    <2>2. receive = "none"
      BY <2>1 DEF InStartReceive, StartReceive, TestClosed, Refuse, Receive, Goto, Receiving,
                  OneReceive
    <2>3. CASE StartReceive(t)
      <3>1. /\ Cardinality(Starting)' = Cardinality(Starting) + 1
            /\ Cardinality(Handling)' = Cardinality(Handling)
        BY <1>1, <2>3, Counts DEF StartReceive, Places, OpenerPlaces, StartPlaces
      <3>2. QED
        BY <1>1, <2>3, <3>1 DEF StartReceive, TasksCountActivity
    <2>4. CASE TestClosed(t)
      <3>1. /\ Cardinality(Starting)' = Cardinality(Starting)
            /\ Cardinality(Handling)' = Cardinality(Handling)
        BY <1>1, <2>4, Counts DEF TestClosed, Places, OpenerPlaces, StartPlaces
      <3>2. QED
        BY <1>1, <2>4, <3>1 DEF TestClosed, TasksCountActivity
    <2>5. CASE Refuse(t) \/ Receive(t)
      <3>1. /\ Return(t) \in Places /\ Return(t) \notin StartPlaces
            /\ t # Opener => Return(t) # "idle"
        BY DEF Return, Places, OpenerPlaces, StartPlaces
      <3>2. /\ Cardinality(Starting)' = Cardinality(Starting) - 1
            /\ Cardinality(Handling)' = Cardinality(Handling)
        BY <1>1, <2>5, <3>1, Counts DEF Refuse, Receive, StartPlaces
      <3>3. QED
        BY <1>1, <2>2, <2>5, <3>2 DEF Refuse, Receive, TasksCountActivity
    <2>6. QED  BY <2>1, <2>3, <2>4, <2>5 DEF InStartReceive
  <1>3. CASE \E t \in Workers : InHandler(t)
    <2>1. PICK t \in Workers : InHandler(t)
      BY <1>3
    <2>2. t \in Threads /\ t # Opener
      BY ReceiverAssumption DEF Threads
    <2>3. CASE Complete(t)
      <3>1. receive \in {"read", "failed"} /\ receive' = "none"
        BY <2>3 DEF Complete
      <3>2. /\ Cardinality(Starting)' = Cardinality(Starting)
            /\ Cardinality(Handling)' = Cardinality(Handling) + 1
        BY <1>1, <2>2, <2>3, <3>1, Counts DEF Complete, Places, StartPlaces
      <3>3. QED
        BY <1>1, <2>3, <3>1, <3>2 DEF Complete, TasksCountActivity
    <2>4. CASE FinishFailed(t) \/ FinishRead(t) \/ Push(t)
      <3>1. /\ Cardinality(Starting)' = Cardinality(Starting)
            /\ Cardinality(Handling)' = Cardinality(Handling)
        BY <1>1, <2>2, <2>4, Counts DEF FinishFailed, FinishRead, Push, Places, OpenerPlaces,
                                        StartPlaces
      <3>2. QED
        BY <1>1, <2>4, <3>1 DEF FinishFailed, FinishRead, Push, TasksCountActivity
    <2>5. CASE Handled(t)
      <3>1. /\ Cardinality(Starting)' = Cardinality(Starting)
            /\ Cardinality(Handling)' = Cardinality(Handling) - 1
        BY <1>1, <2>2, <2>5, Counts DEF Handled, Places, OpenerPlaces, StartPlaces
      <3>2. QED
        BY <1>1, <2>5, <3>1 DEF Handled, TasksCountActivity
    <2>6. QED  BY <2>1, <2>3, <2>4, <2>5 DEF InHandler
  <1>4. CASE Arrive \/ Read \/ Fail \/ Close \/ InClose
    <2>1. /\ recvTasks' = recvTasks /\ (receive' = "none" <=> receive = "none")
          /\ pc' = pc
      BY <1>4 DEF Arrive, Read, Fail, Close, InClose, Cancel, Delete, GiveUp, CloseSocket, Aborted
    <2>2. Starting' = Starting /\ Handling' = Handling
      BY <2>1 DEF Starting, Handling
    <2>3. QED  BY <1>1, <2>1, <2>2 DEF TasksCountActivity
  <1>5. QED  BY <1>2, <1>3, <1>4 DEF Next

\* Once nothing runs and close has begun, only a completion could start anything.
LEMMA StepClosing ==
  ASSUME Inv, Next
  PROVE  OpenedBeforeClose' /\ DeletedIsQuiet'
  <1>1. closing # "no" => pc[Opener] = "idle"
    BY DEF Inv, OpenedBeforeClose
  <1>2. closing = "deleted" => receive = "none" /\ \A t \in Threads : pc[t] = "idle"
    BY <1>1 DEF Inv, DeletedIsQuiet, Handling, Threads
  <1>3. CASE (\E t \in Threads : InStartReceive(t)) \/ (\E t \in Workers : InHandler(t))
    <2>1. closing # "deleted" /\ closing' = closing
      BY <1>2, <1>3 DEF InStartReceive, StartReceive, TestClosed, Refuse, Receive, InHandler,
                        Complete, FinishFailed, FinishRead, Push, Handled, Goto, Threads
    <2>2. closing # "no" => pc'[Opener] = "idle"
      <3>1. SUFFICES ASSUME pc[Opener] = "idle" PROVE pc'[Opener] = "idle"
        BY <1>1
      <3>2. PICK t \in Threads : t # Opener /\ (InStartReceive(t) \/ InHandler(t))
        BY <1>3, <3>1, ReceiverAssumption
           DEF InStartReceive, StartReceive, TestClosed, Refuse, Receive, Goto, Threads
      <3>3. \E to : pc' = [pc EXCEPT ![t] = to]
        BY <3>2 DEF InStartReceive, StartReceive, TestClosed, Refuse, Receive, InHandler,
                    Complete, FinishFailed, FinishRead, Push, Handled, Goto
      <3>4. QED  BY <3>1, <3>2, <3>3 DEF Inv, Types, Threads
    <2>3. QED  BY <2>1, <2>2 DEF OpenedBeforeClose, DeletedIsQuiet
  <1>4. CASE Arrive \/ Read \/ Fail \/ Close \/ Cancel \/ GiveUp \/ CloseSocket
    <2>1. /\ pc' = pc /\ Handling' = Handling
          /\ closing' # "no" => closing # "no" \/ pc[Opener] = "idle"
          /\ closing' = "deleted" => closing = "deleted"
          /\ receive = "none" => receive' = "none"
      BY <1>4 DEF Arrive, Read, Fail, Close, Cancel, GiveUp, CloseSocket, Aborted, Handling
    <2>2. QED  BY <1>1, <2>1 DEF Inv, OpenedBeforeClose, DeletedIsQuiet
  <1>5. CASE Delete
    <2>1. pc' = pc /\ receive' = receive /\ recvTasks = 0 /\ closing # "no"
      BY <1>5 DEF Delete, isStopped
    <2>2. receive = "none" /\ Cardinality(Handling) = 0
      BY <2>1, Finite DEF Inv, Types, TasksCountActivity
    <2>3. Handling = {}
      BY <2>2, Finite, FS_EmptySet
    <2>4. Handling' = {}
      BY <2>1, <2>3 DEF Handling
    <2>5. QED  BY <1>1, <2>1, <2>2, <2>4 DEF OpenedBeforeClose, DeletedIsQuiet
  <1>6. QED  BY <1>3, <1>4, <1>5 DEF Next, InClose

\* The invariant is inductive.
LEMMA Inductive == Spec => []Inv
  <1>1. Inv /\ [Next]_vars => Inv'
    <2> SUFFICES ASSUME Inv, [Next]_vars PROVE Inv'
      OBVIOUS
    <2>1. CASE Next
      BY <2>1, StepTypes, StepOneReceive, StepTasks, StepClosing DEF Inv
    <2>2. CASE UNCHANGED vars
      BY <2>2 DEF vars, Inv, Types, OneReceive, TasksCountActivity, OpenedBeforeClose,
                  DeletedIsQuiet, Starting, Handling, Receiving
    <2>3. QED  BY <2>1, <2>2
  <1>2. QED  BY InitInv, <1>1, PTL DEF Spec

-----------------------------------------------------------------------------
(* The theorems. *)

\* The states keep to their types; in particular recvTasks never goes below zero.
THEOREM Typed == Spec => []TypeOK
  <1>1. Inv => TypeOK
    <2> SUFFICES ASSUME Inv PROVE TypeOK
      OBVIOUS
    <2>1. recvTasks \in Nat
      BY Finite DEF Inv, Types, TasksCountActivity
    <2>2. QED  BY <2>1 DEF Inv, Types, TypeOK, Places
  <1>2. QED  BY <1>1, Inductive, PTL

\* However many threads run the io_context: one receive at a time, none while a
\* handler still uses recvBuf or the producer's end of the pipe.
THEOREM ReceivesAlone == Spec => []OneReceive
  <1>1. Inv => OneReceive
    BY DEF Inv
  <1>2. QED  BY <1>1, Inductive, PTL

\* recvTasks is exact in every state, the early return of startReceive included.
THEOREM TasksAreCounted == Spec => []TasksCountActivity
  <1>1. Inv => TasksCountActivity
    BY DEF Inv
  <1>2. QED  BY <1>1, Inductive, PTL

\* isStopped is enough for close to delete the receiver: no receive and no handler
\* of it is left then, and none comes later.
THEOREM DeletedAlone == Spec => []DeletedIsQuiet
  <1>1. Inv => DeletedIsQuiet
    BY DEF Inv
  <1>2. QED  BY <1>1, Inductive, PTL
=============================================================================

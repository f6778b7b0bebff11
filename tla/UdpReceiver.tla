---------------------------- MODULE UdpReceiver ----------------------------
(***************************************************************************)
(* UdpReceiver of include/rtpTrs/UdpReceiver.hpp on its socket, and what   *)
(* RtpTransceiver::close does to the two.                                  *)
(*                                                                         *)
(* Every receive starts the next one from its own completion handler, on   *)
(* any thread of the io_context; closed and recvTasks are read and written *)
(* by the handlers and by close without a lock, so each access is a step.  *)
(* Until a datagram arrives only the cancel or the close of the socket     *)
(* ends a receive, and they end only what has been started.                *)
(***************************************************************************)
EXTENDS Integers, FiniteSets

CONSTANTS
  Opener,        \* the thread in open2 that calls start
  Workers,       \* threads of the io_context
  MaxDatagrams   \* bound: datagrams that arrive

Threads == Workers \cup {Opener}

ASSUME ReceiverAssumption ==
  IsFiniteSet(Workers) /\ Opener \notin Workers /\ MaxDatagrams \in Nat

VARIABLES
  closed, recvTasks,
  receive,       \* the asynchronous receive: none, waiting, or how it has ended
  socketOpen,
  arrived,       \* datagrams that have arrived
  unread,        \* those of them in the buffer of the socket
  pc,            \* where each thread is
  closing        \* where RtpTransceiver::close is

vars == <<closed, recvTasks, receive, socketOpen, arrived, unread, pc, closing>>

Goto(t, from, to) == pc[t] = from /\ pc' = [pc EXCEPT ![t] = to]

-----------------------------------------------------------------------------
(* startReceive(), from start and from finishReceive. *)

\* Slip: the receive is not counted.
StartReceiveUncounted(t) ==
  /\ Goto(t, "startReceive", "test")
  /\ UNCHANGED <<closed, recvTasks, receive, socketOpen, arrived, unread, closing>>

StartReceive(t) ==
  /\ Goto(t, "startReceive", "test")
  /\ recvTasks' = recvTasks + 1
  /\ UNCHANGED <<closed, receive, socketOpen, arrived, unread, closing>>

TestClosed(t) ==
  /\ Goto(t, "test", IF closed THEN "refuse" ELSE "receive")
  /\ UNCHANGED <<closed, recvTasks, receive, socketOpen, arrived, unread, closing>>

\* Where a thread is after startReceive: done, or in the handler that called it.
Return(t) == IF t = Opener THEN "idle" ELSE "handled"

Refuse(t) ==
  /\ Goto(t, "refuse", Return(t))
  /\ recvTasks' = recvTasks - 1
  /\ UNCHANGED <<closed, receive, socketOpen, arrived, unread, closing>>

Receive(t) ==
  /\ Goto(t, "receive", Return(t))
  /\ receive' = IF socketOpen THEN "waiting" ELSE "failed"
  /\ UNCHANGED <<closed, recvTasks, socketOpen, arrived, unread, closing>>

-----------------------------------------------------------------------------
(* The socket. *)

Arrive ==
  /\ socketOpen /\ arrived < MaxDatagrams
  /\ arrived' = arrived + 1
  /\ unread' = unread + 1
  /\ UNCHANGED <<closed, recvTasks, receive, socketOpen, pc, closing>>

Read ==
  /\ receive = "waiting" /\ unread > 0
  /\ receive' = "read"
  /\ unread' = unread - 1
  /\ UNCHANGED <<closed, recvTasks, socketOpen, arrived, pc, closing>>

Fail ==
  /\ receive = "waiting"
  /\ receive' = "failed"
  /\ UNCHANGED <<closed, recvTasks, socketOpen, arrived, unread, pc, closing>>

-----------------------------------------------------------------------------
(* The completion handler, finishReceive(ex, len). *)

Complete(t) ==
  /\ receive \in {"read", "failed"}
  /\ Goto(t, "idle", receive)
  /\ receive' = "none"
  /\ UNCHANGED <<closed, recvTasks, socketOpen, arrived, unread, closing>>

\* Any error, the abort by cancel included.
FinishFailed(t) ==
  /\ Goto(t, "failed", "handled")
  /\ closed' = TRUE
  /\ UNCHANGED <<recvTasks, receive, socketOpen, arrived, unread, closing>>

\* Slip: the next receive is started before this datagram is pushed.
FinishAhead(t) ==
  /\ Goto(t, "read", IF closed THEN "handled" ELSE "push")
  /\ receive' = IF closed THEN receive ELSE "waiting"
  /\ UNCHANGED <<closed, recvTasks, socketOpen, arrived, unread, closing>>

FinishRead(t) ==
  /\ Goto(t, "read", IF closed THEN "handled" ELSE "push")
  /\ UNCHANGED <<closed, recvTasks, receive, socketOpen, arrived, unread, closing>>

\* Slip: nothing is received after a datagram.
PushLast(t) ==
  /\ Goto(t, "push", "handled")
  /\ UNCHANGED <<closed, recvTasks, receive, socketOpen, arrived, unread, closing>>

\* processor_->pushUdp, the producer's end of the OneOnePipe.
Push(t) ==
  /\ Goto(t, "push", "startReceive")
  /\ UNCHANGED <<closed, recvTasks, receive, socketOpen, arrived, unread, closing>>

Handled(t) ==
  /\ Goto(t, "handled", "idle")
  /\ recvTasks' = recvTasks - 1
  /\ UNCHANGED <<closed, receive, socketOpen, arrived, unread, closing>>

-----------------------------------------------------------------------------
(* RtpTransceiver::close, as far as this receiver goes. *)

\* Slip: the tasks are left out.
isStoppedAtOnce == closed

isStopped == closed /\ recvTasks = 0

\* bindingMx keeps close out of open2.
Close ==
  /\ closing = "no" /\ pc[Opener] = "idle"
  /\ closed' = TRUE
  /\ closing' = "cancel"
  /\ UNCHANGED <<recvTasks, receive, socketOpen, arrived, unread, pc>>

\* What is waiting is ended; what has ended already is not touched.
Aborted == IF receive = "waiting" THEN "failed" ELSE receive

Cancel ==
  /\ closing = "cancel"
  /\ receive' = Aborted
  /\ closing' = "poll"
  /\ UNCHANGED <<closed, recvTasks, socketOpen, arrived, unread, pc>>

Delete ==
  /\ closing = "poll" /\ isStopped
  /\ closing' = "deleted"
  /\ UNCHANGED <<closed, recvTasks, receive, socketOpen, arrived, unread, pc>>

\* Slip: close polls for ever.
GiveUpNever ==
  /\ closing = "poll" /\ isStopped
  /\ closing' = "gaveUp"
  /\ UNCHANGED <<closed, recvTasks, receive, socketOpen, arrived, unread, pc>>

\* After 3000 polls, 6 seconds: longer than a handler takes to run, and so only if
\* nothing is going on but a receive for which nothing has arrived.
GiveUp ==
  /\ closing = "poll" /\ ~isStopped
  /\ receive \in {"none", "waiting"} /\ unread = 0 /\ \A t \in Workers : pc[t] = "idle"
  /\ closing' = "gaveUp"
  /\ UNCHANGED <<closed, recvTasks, receive, socketOpen, arrived, unread, pc>>

\* rtpSocket_.close; the return of close comes with it.
CloseSocket ==
  /\ closing \in {"deleted", "gaveUp"} /\ socketOpen
  /\ socketOpen' = FALSE
  /\ receive' = Aborted
  /\ unread' = 0
  /\ UNCHANGED <<closed, recvTasks, arrived, pc, closing>>

-----------------------------------------------------------------------------

Init ==
  /\ closed = FALSE /\ recvTasks = 0
  /\ receive = "none"
  /\ socketOpen = TRUE
  /\ arrived = 0 /\ unread = 0
  /\ pc = [t \in Threads |-> IF t = Opener THEN "startReceive" ELSE "idle"]
  /\ closing = "no"

InStartReceive(t) == StartReceive(t) \/ TestClosed(t) \/ Refuse(t) \/ Receive(t)
InHandler(t) == Complete(t) \/ FinishFailed(t) \/ FinishRead(t) \/ Push(t) \/ Handled(t)
InClose == Cancel \/ Delete \/ GiveUp \/ CloseSocket

Next ==
  \/ \E t \in Threads : InStartReceive(t)
  \/ \E t \in Workers : InHandler(t)
  \/ Arrive \/ Read \/ Fail
  \/ Close \/ InClose

Spec == Init /\ [][Next]_vars

\* Threads are scheduled and the socket is read; nothing has to arrive, to fail or to be closed.
FairSpec ==
  /\ Spec
  /\ WF_vars(InStartReceive(Opener))
  /\ \A t \in Workers : WF_vars(InStartReceive(t) \/ InHandler(t))
  /\ WF_vars(Read)
  /\ WF_vars(InClose)

-----------------------------------------------------------------------------
(* The properties. *)

\* The threads in startReceive, and the handlers that have not come to its end.
Starting == { t \in Threads : pc[t] \in {"test", "refuse", "receive"} }
Handling == { t \in Workers : pc[t] # "idle" }
Receiving == { t \in Threads : pc[t] \notin {"idle", "handled"} }

OpenerPlaces == {"idle", "startReceive", "test", "refuse", "receive"}

TypeOK ==
  /\ closed \in BOOLEAN /\ socketOpen \in BOOLEAN
  /\ recvTasks \in Nat
  /\ receive \in {"none", "waiting", "read", "failed"}
  /\ arrived \in Nat /\ unread \in 0 .. arrived
  /\ pc \in [Threads -> OpenerPlaces \cup {"read", "failed", "push", "handled"}]
  /\ pc[Opener] \in OpenerPlaces
  /\ closing \in {"no", "cancel", "poll", "deleted", "gaveUp"}

\* One receive or one thread before the next receive, never two: the single
\* recvBuf, and the OneOnePipe behind pushUdp with its one producer, rely on it.
OneReceive ==
  /\ \A t, u \in Receiving : t = u
  /\ Receiving # {} => receive = "none"

\* recvTasks counts the receive, the handlers, and the calls of startReceive.
TasksCountActivity ==
  recvTasks = Cardinality(Starting) + Cardinality(Handling) + (IF receive = "none" THEN 0 ELSE 1)

\* A receiver is deleted only when no handler of it runs or will run.
DeletedIsQuiet == closing = "deleted" => receive = "none" /\ Handling = {}

\* A datagram that has arrived is read, unless the receiver is closed: the chain
\* of receives never breaks.
Reads == unread > 0 ~> unread = 0 \/ closed

\* After close, nothing of the receiver goes on for ever.
Stops == closing # "no" ~> ~socketOpen /\ receive = "none" /\ Handling = {}

\* close returns only when the receiver has come to its end.
CloseWaits == ~socketOpen => receive = "none" /\ Handling = {}

=============================================================================

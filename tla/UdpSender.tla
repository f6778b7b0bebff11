----------------------------- MODULE UdpSender -----------------------------
(***************************************************************************)
(* UdpSender of include/rtpTrs/UdpSender.hpp: a queue of datagrams that is *)
(* emptied by one asynchronous operation at a time.                        *)
(*                                                                         *)
(* Any thread may call send; the completion handlers run on the threads of *)
(* the io_context.  wqMutex protects waitingQueue, but isSending and       *)
(* sendTasks are read and written outside it, so each access to one of     *)
(* them is a step.  A datagram is the number of its place in the order in  *)
(* which datagrams were queued, an entry of waitingQueue the sequence of   *)
(* the datagrams of one call for one target.  close is followed by the     *)
(* loop of RtpTransceiver::close that polls isStopped before it deletes.   *)
(***************************************************************************)
EXTENDS Integers, Sequences, FiniteSets, SequencesExt

CONSTANTS
  Callers,       \* threads that call send
  Workers,       \* threads of the io_context
  NoThread,
  Calls,         \* what a call queues: for each target, how many datagrams
  MaxQueue,      \* MAX_WAITING_QUEUE_SIZE: 3000
  MaxWaits,      \* how many timers in a row the bandwidth limit can ask for; 0 is no limit
  MaxTasks,      \* doSend waits for the bandwidth with at most this many tasks: 3
  MaxCalls,      \* bound: calls of send
  MaxQueued      \* bound: datagrams queued, for the liveness

Threads == Callers \cup Workers

ASSUME SenderAssumption ==
  /\ IsFiniteSet(Threads) /\ NoThread \notin Threads /\ Callers \cap Workers = {}
  /\ \A call \in Calls : call \in Seq(Nat \ {0})
  /\ {MaxQueue, MaxWaits, MaxTasks, MaxCalls, MaxQueued} \subseteq Nat

VARIABLES
  waitingQueue, isSending, closed, sendTasks,
  mutex,         \* the thread that holds wqMutex
  sends, timers, \* asynchronous operations started and not yet completed
  pc,            \* where each thread is
  poll,          \* where RtpTransceiver::close is
  waits,         \* timers since the last datagram, for the bandwidth limit
  queued, sent,  \* the last datagram queued, the last one passed to the socket
  leaked,        \* how many tasks stay counted after an exception of bytesCounter
  stall,         \* history: why doSend or its handler has left the queue, until send looks again
  calls          \* how many calls of send there were, for the bound

shared == <<waitingQueue, mutex, closed, waits, queued, sent>>
vars   == <<shared, isSending, sendTasks, sends, timers, pc, poll, stall, leaked, calls>>

Goto(t, from, to) == pc[t] = from /\ pc' = [pc EXCEPT ![t] = to]

\* Where a thread goes on after doSend: back to its caller, or to the end of the handler.
Return(t) == IF t \in Callers THEN "idle" ELSE "finish"

-----------------------------------------------------------------------------
(* send(sendQueue, target) and send(sendQueue, targets). *)

Call(t) ==
  /\ calls < MaxCalls
  /\ Goto(t, "idle", "called")
  /\ sendTasks' = sendTasks + 1
  /\ calls' = calls + 1
  /\ UNCHANGED <<shared, isSending, sends, timers, poll, stall, leaked>>

TestClosed(t) ==
  /\ Goto(t, "called", IF closed THEN "refused" ELSE "push")
  /\ UNCHANGED <<shared, isSending, sendTasks, sends, timers, poll, stall, leaked, calls>>

\* The last datagram of each entry of a call, counted on from the last datagram queued.
LastOf(call) ==
  LET last[i \in 0 .. Len(call)] == IF i = 0 THEN queued ELSE last[i - 1] + call[i]
  IN  last

\* The entries of a call, numbered on.
Entries(call) == [i \in DOMAIN call |-> [j \in 1 .. call[i] |-> LastOf(call)[i - 1] + j]]

Push(t) ==
  /\ mutex = NoThread
  /\ Goto(t, "push", "pushed")
  /\ \E call \in Calls :
       /\ waitingQueue' = waitingQueue \o Entries(call)
       /\ queued' = LastOf(call)[Len(call)]
  /\ UNCHANGED <<isSending, mutex, closed, waits, sent, sendTasks, sends, timers, poll, stall, leaked, calls>>

TestSending(t) ==
  /\ Goto(t, "pushed", IF isSending THEN "refused" ELSE "doSend")
  /\ stall' = "no"
  /\ UNCHANGED <<shared, isSending, sendTasks, sends, timers, poll, leaked, calls>>

Refuse(t) ==
  /\ Goto(t, "refused", "idle")
  /\ sendTasks' = sendTasks - 1
  /\ UNCHANGED <<shared, isSending, sends, timers, poll, stall, leaked, calls>>

-----------------------------------------------------------------------------
(* doSend(), with wqMutex held from DoSend to Unlock. *)

\* Slip: isSending is not read again once the mutex is held.
DoSendUnchecked(t) ==
  /\ mutex = NoThread /\ mutex' = t
  /\ IF closed \/ waitingQueue = <<>>
     THEN Goto(t, "doSend", "release") /\ UNCHANGED isSending
     ELSE Goto(t, "doSend", "decide") /\ isSending' = TRUE
  /\ UNCHANGED <<waitingQueue, closed, waits, queued, sent, sendTasks, sends, timers, poll, stall, leaked, calls>>

DoSend(t) ==
  /\ mutex = NoThread /\ mutex' = t
  /\ IF closed \/ waitingQueue = <<>> \/ isSending
     THEN Goto(t, "doSend", "release") /\ UNCHANGED isSending
     ELSE Goto(t, "doSend", "decide") /\ isSending' = TRUE
  /\ UNCHANGED <<waitingQueue, closed, waits, queued, sent, sendTasks, sends, timers, poll, stall, leaked, calls>>

\* "send empty data, it should never happen": isSending stays set.
Broken == Head(waitingQueue) = <<>>

Full == Len(waitingQueue) > MaxQueue

ThrowAll(t) ==
  /\ Full
  /\ Goto(t, "decide", "giveUp")
  /\ waitingQueue' = <<>>
  /\ UNCHANGED <<isSending, mutex, closed, waits, queued, sent, sendTasks, sends, timers, poll, stall, leaked, calls>>

\* The bandwidth is used up: wait for half a unit, or skip this chance to send.
Wait(t) ==
  /\ ~Full /\ waits < MaxWaits
  /\ sendTasks <= MaxTasks
  /\ Goto(t, "decide", "unlock")
  /\ timers' = timers + 1
  /\ waits' = waits + 1
  /\ UNCHANGED <<waitingQueue, isSending, mutex, closed, queued, sent, sendTasks, sends, poll, stall, leaked, calls>>

Skip(t) ==
  /\ ~Full /\ waits < MaxWaits
  /\ sendTasks > MaxTasks
  /\ Goto(t, "decide", "giveUp")
  /\ UNCHANGED <<shared, isSending, sendTasks, sends, timers, poll, stall, leaked, calls>>

\* Slip: an entry stays in the queue after its last datagram.
PoppedEmpty == <<Tail(Head(waitingQueue))>> \o Tail(waitingQueue)

\* The front entry without its first datagram, and no entry at all once that was its last.
Popped == IF Len(Head(waitingQueue)) = 1 THEN Tail(waitingQueue)
          ELSE <<Tail(Head(waitingQueue))>> \o Tail(waitingQueue)

\* Slip: the last datagram of the entry is taken.
TransmitLast(t) ==
  /\ ~Full
  /\ Goto(t, "decide", "unlock")
  /\ sent' = Head(waitingQueue)[Len(Head(waitingQueue))]
  /\ waitingQueue' = IF Len(Head(waitingQueue)) = 1 THEN Tail(waitingQueue)
                     ELSE <<SubSeq(Head(waitingQueue), 1, Len(Head(waitingQueue)) - 1)>> \o Tail(waitingQueue)
  /\ sends' = sends + 1
  /\ waits' = 0
  /\ UNCHANGED <<isSending, mutex, closed, queued, sendTasks, timers, poll, stall, leaked, calls>>

Transmit(t) ==
  /\ ~Full
  /\ Goto(t, "decide", "unlock")
  /\ sent' = Head(Head(waitingQueue))
  /\ waitingQueue' = Popped
  /\ sends' = sends + 1
  /\ waits' = 0
  /\ UNCHANGED <<isSending, mutex, closed, queued, sendTasks, timers, poll, stall, leaked, calls>>

\* bytesCounter.update has thrown: the datagram is in sendBuff, and what sendBuff had is in
\* its place in the queue. isSending stays set, and the tasks of this call or of the handler
\* stay counted. A caller gets the exception from send; a handler takes its thread out of
\* io_context::run. Without a limit there is no update.
Throw(t) ==
  /\ ~Full /\ MaxWaits > 0
  /\ Goto(t, "decide", IF t \in Callers THEN "idle" ELSE "ended")
  /\ waitingQueue' = <<<<sent>> \o Tail(Head(waitingQueue))>> \o Tail(waitingQueue)
  /\ mutex' = NoThread
  /\ leaked' = leaked + (IF t \in Callers THEN 1 ELSE 2)
  /\ UNCHANGED <<isSending, closed, waits, queued, sent, sendTasks, sends, timers, poll, stall, calls>>

Decide(t) ==
  /\ pc[t] = "decide"
  /\ IF Broken
     THEN /\ Goto(t, "decide", "release")
          /\ waitingQueue' = Tail(waitingQueue)
          /\ UNCHANGED <<isSending, mutex, closed, waits, queued, sent, sendTasks, sends, timers, poll, stall, leaked, calls>>
     ELSE ThrowAll(t) \/ Wait(t) \/ Skip(t) \/ Transmit(t) \/ Throw(t)

\* sendTasks goes down before isSending does, and the mutex is released last.
GiveUp(t) ==
  /\ Goto(t, "giveUp", "clear")
  /\ sendTasks' = sendTasks - 1
  /\ UNCHANGED <<shared, isSending, sends, timers, poll, stall, leaked, calls>>

\* Slip: isSending stays set when doSend gives up.
ClearNothing(t) ==
  /\ Goto(t, "clear", "unlock")
  /\ UNCHANGED <<shared, isSending, sendTasks, sends, timers, poll, stall, leaked, calls>>

Clear(t) ==
  /\ Goto(t, "clear", "unlock")
  /\ isSending' = FALSE
  /\ stall' = IF waitingQueue = <<>> THEN stall ELSE "skipped"
  /\ UNCHANGED <<shared, sendTasks, sends, timers, poll, leaked, calls>>

Release(t) ==
  /\ Goto(t, "release", "unlock")
  /\ sendTasks' = sendTasks - 1
  /\ UNCHANGED <<shared, isSending, sends, timers, poll, stall, leaked, calls>>

Unlock(t) ==
  /\ Goto(t, "unlock", Return(t))
  /\ mutex' = NoThread
  /\ UNCHANGED <<waitingQueue, isSending, closed, waits, queued, sent, sendTasks, sends, timers, poll, stall, leaked, calls>>

-----------------------------------------------------------------------------
(* The completion handlers, and doSendFinish(ex, len). *)

Expire(t) ==
  /\ timers > 0 /\ timers' = timers - 1
  /\ Goto(t, "idle", "done")
  /\ UNCHANGED <<shared, isSending, sendTasks, sends, poll, stall, leaked, calls>>

Complete(t) ==
  /\ sends > 0 /\ sends' = sends - 1
  /\ \/ Goto(t, "idle", "done")
     \/ Goto(t, "idle", "error")
  /\ UNCHANGED <<shared, isSending, sendTasks, timers, poll, stall, leaked, calls>>

\* Slip: doSendFinish does not count itself.
EnterUncounted(t) ==
  /\ \/ Goto(t, "done", "added")
     \/ Goto(t, "error", "addedError")
  /\ UNCHANGED <<shared, isSending, sendTasks, sends, timers, poll, stall, leaked, calls>>

Enter(t) ==
  /\ \/ Goto(t, "done", "added")
     \/ Goto(t, "error", "addedError")
  /\ sendTasks' = sendTasks + 1
  /\ UNCHANGED <<shared, isSending, sends, timers, poll, stall, leaked, calls>>

\* Slip: a finished operation does not start the next.
SentStopping(t) ==
  /\ isSending' = FALSE
  /\ Goto(t, "added", "leave")
  /\ UNCHANGED <<shared, sendTasks, sends, timers, poll, stall, leaked, calls>>

Sent(t) ==
  /\ isSending' = FALSE
  /\ Goto(t, "added", "again")
  /\ UNCHANGED <<shared, sendTasks, sends, timers, poll, stall, leaked, calls>>

\* After an error doSendFinish does not go on with the queue.
SentError(t) ==
  /\ isSending' = FALSE
  /\ Goto(t, "addedError", "leave")
  /\ stall' = "failed"
  /\ UNCHANGED <<shared, sendTasks, sends, timers, poll, leaked, calls>>

Again(t) ==
  /\ Goto(t, "again", IF closed THEN "leave" ELSE "doSend")
  /\ UNCHANGED <<shared, isSending, sendTasks, sends, timers, poll, stall, leaked, calls>>

Leave(t) ==
  /\ Goto(t, "leave", "finish")
  /\ sendTasks' = sendTasks - 1
  /\ UNCHANGED <<shared, isSending, sends, timers, poll, stall, leaked, calls>>

\* The fetch_sub of the handler itself.
Finish(t) ==
  /\ Goto(t, "finish", "idle")
  /\ sendTasks' = sendTasks - 1
  /\ UNCHANGED <<shared, isSending, sends, timers, poll, stall, leaked, calls>>

-----------------------------------------------------------------------------
(* close(), and isStopped() as the transceiver polls it before the delete. *)

Close ==
  /\ poll = "open" /\ mutex = NoThread
  /\ closed' = TRUE
  /\ poll' = "polling"
  /\ UNCHANGED <<waitingQueue, isSending, mutex, waits, queued, sent, sendTasks, sends, timers, pc, stall, leaked, calls>>

PollSending ==
  /\ poll = "polling" /\ ~isSending
  /\ poll' = "pollTasks"
  /\ UNCHANGED <<shared, isSending, sendTasks, sends, timers, pc, stall, leaked, calls>>

PollTasks ==
  /\ poll = "pollTasks"
  /\ poll' = IF sendTasks = 0 THEN "stopped" ELSE "polling"
  /\ UNCHANGED <<shared, isSending, sendTasks, sends, timers, pc, stall, leaked, calls>>

-----------------------------------------------------------------------------

Init ==
  /\ waitingQueue = <<>> /\ isSending = FALSE /\ closed = FALSE /\ sendTasks = 0
  /\ mutex = NoThread
  /\ sends = 0 /\ timers = 0
  /\ pc = [t \in Threads |-> "idle"]
  /\ poll = "open"
  /\ waits = 0 /\ queued = 0 /\ sent = 0
  /\ leaked = 0 /\ stall = "no"
  /\ calls = 0

InSend(t)   == TestClosed(t) \/ Push(t) \/ TestSending(t) \/ Refuse(t)
InDoSend(t) == DoSend(t) \/ Decide(t) \/ GiveUp(t) \/ Clear(t) \/ Release(t) \/ Unlock(t)
InHandler(t) == Enter(t) \/ Sent(t) \/ SentError(t) \/ Again(t) \/ Leave(t) \/ Finish(t)

\* A thread that calls send after the delete is outside what close can answer for.
Next ==
  \/ \E t \in Callers : poll # "stopped" /\ Call(t)
  \/ \E t \in Callers : InSend(t)
  \/ \E t \in Threads : InDoSend(t)
  \/ \E t \in Workers : Expire(t) \/ Complete(t) \/ InHandler(t)
  \/ Close \/ PollSending \/ PollTasks

Spec == Init /\ [][Next]_vars

\* Threads are scheduled, operations complete, and close polls every 2 ms; nobody has to call.
FairSpec ==
  /\ Spec
  /\ \A t \in Callers : WF_vars(InSend(t) \/ InDoSend(t))
  /\ \A t \in Workers : WF_vars(Expire(t) \/ Complete(t) \/ InHandler(t) \/ InDoSend(t))
  /\ WF_vars(PollSending \/ PollTasks)

-----------------------------------------------------------------------------
(* The properties. *)

\* An exception has come out of doSend.
Threw == leaked > 0

\* The datagrams waiting, in the order in which they would be sent. After an exception
\* the first place of the queue has what was sent before.
Waiting == IF Threw THEN Tail(FlattenSeq(waitingQueue)) ELSE FlattenSeq(waitingQueue)

\* The threads that count in sendTasks once, and the handlers that count twice:
\* doSendFinish for itself, and the lambda that called it.
Holding ==
  { t \in Callers : pc[t] \notin {"idle", "clear", "unlock"} } \cup
  { t \in Workers : pc[t] \notin {"idle", "ended"} }
HoldingTwo ==
  { t \in Workers : pc[t] \in {"added", "addedError", "again", "leave", "doSend", "decide", "giveUp", "release"} }

TypeOK ==
  /\ waitingQueue \in Seq(Seq((IF Threw THEN 0 ELSE 1) .. queued) \ {<<>>})
  /\ isSending \in BOOLEAN /\ closed \in BOOLEAN
  /\ sendTasks \in Nat
  /\ mutex \in Threads \cup {NoThread}
  /\ sends \in Nat /\ timers \in Nat
  /\ \A t \in Threads :
       pc[t] \in {"idle", "doSend", "decide", "giveUp", "clear", "release", "unlock"} \cup
                 IF t \in Callers THEN {"called", "push", "pushed", "refused"}
                 ELSE {"done", "error", "added", "addedError", "again", "leave", "finish", "ended"}
  /\ poll \in {"open", "polling", "pollTasks", "stopped"}
  /\ waits \in 0 .. MaxWaits /\ queued \in Nat /\ sent \in 0 .. queued
  /\ leaked \in 0 .. 2 /\ stall \in {"no", "failed", "skipped"}

\* sendBuff, target and timer exist once: one operation uses them at a time,
\* although isSending is set and cleared by threads that hold no lock.
OneOperation == sends + timers <= 1

\* sendTasks is what isStopped relies on: one for every call and handler that is still
\* running, for every operation not yet completed, and for every call and handler that
\* an exception of bytesCounter has ended before it could count itself out.
TasksCountActivity ==
  sendTasks = Cardinality(Holding) + Cardinality(HoldingTwo) + sends + timers + leaked

\* Once the transceiver has seen isStopped, and deletes the sender, no handler of
\* it is running and none will.
StoppedIsQuiet ==
  poll = "stopped" => sends = 0 /\ timers = 0 /\ \A t \in Workers : pc[t] = "idle"

\* A sender that is closed comes to a stop: isStopped holds in the end. Unless an exception
\* has come out of doSend at some time: then isSending stays set and tasks stay
\* counted, RtpTransceiver::close polls in vain and gives the sender up.
StopsUnlessThrown == closed ~> (poll = "stopped" \/ Threw)

\* After an exception nothing brings the sender back: isSending stays set, so no chance to
\* send comes again, and the poll of close never ends.
ThrownNeverStops == Threw => isSending /\ poll # "stopped"

\* There are datagrams to send, and nothing but doSend that could stop it.
Pending == waitingQueue # <<>> /\ ~closed /\ ~Threw

\* The queue never stops without a cause: when datagrams stay in it for ever, then doSend has skipped
\* its chance because of too many tasks, or an operation has failed, and no call of
\* send has looked at isSending since. One more call sees to it then. This holds where
\* the limit lets a datagram pass after some timers (MaxWaits), so where it is not
\* below the size of one; of an exception of bytesCounter it says nothing.
DrainedUnlessStalled == <>[]Pending => <>[](stall # "no")

\* Where no operation fails and nothing is thrown, each datagram leaves the queue although a
\* chance is skipped: other tasks see to it.
Drained ==
  \/ <>(stall = "failed")
  \/ \A n \in 1 .. MaxQueued :
       (\E i \in DOMAIN Waiting : Waiting[i] = n) ~>
         (closed \/ Threw \/ \A i \in DOMAIN Waiting : Waiting[i] # n)

=============================================================================

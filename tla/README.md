# TLA+ models of aclEngine

aclEngine is a C++ library that moves video over RTP and decodes and encodes it on Ascend
devices. Its own control logic is in `src/include/rtpTrs` (sockets, queues, reordering) and in
`src/include/acle/aclengine.hpp` (decoders, encoders, framing). This directory has TLA+ modules
of the parts where threads and sequence numbers meet, the TLC configurations that check them on
small instances, and TLAPS proofs for every value of the constants.

- [1 Inventory](#1-inventory): components, state, operations, interaction, hard behaviours
- [2 Modules](#2-modules): how state and actions correspond to the code
- [3 Runs](#3-runs): what is checked, bounds, fairness
- [4 Proofs](#4-proofs): what is proved, from which assumptions, by which invariant
- [5 Findings](#5-findings): where the code does not do what is said of it
- [6 What is not modelled](#6-what-is-not-modelled)

To check a run: `tlc -config MCRtpPipe.cfg MCRtpPipe`. To check a proof: `tlapm RtpPipeProofs.tla`.

## 1 Inventory

Data flow of a receiving `RtpTransceiver`:

    socket --> UdpReceiver --> OneOnePipe --> recvWorker --> RtpPipe (one per ssrc/pt) --> output queue --> caller
                 (io threads)     (ring)        (thread)       (reordering)
    caller --> UdpSender (queue, bandwidth limit) --> socket

| Component | State | Operations | Shared with |
|---|---|---|---|
| `RtpPipe` (`rtpTrs/RtpPipe.hpp`) | ring of `2*reorderSize+1` flags and packets, `headPos`, `tailPos`, `SeqCounter`, `StreamStatus`, the buffer of leading packets | `reorderRtp`, `resetPipe`, getters | worker thread; readers of the status |
| `OneOnePipe` (`rtpTrs/rtpTrs.hpp`) | ring of 200 slots, atomics `headPos`, `tailPos` | `enqueue`, `dequeue`, `dequeueAll` | one io thread at a time, the worker |
| `UdpSender` (`rtpTrs/UdpSender.hpp`) | `waitingQueue` under `wqMutex`; atomics `isSending`, `closed`, `sendTasks`; one `sendBuff`, `target`, `timer` | `send` (2 forms), `doSend`, `doSendFinish`, `close`, `isStopped`, `setBandwidth` | callers, io threads, `RtpTransceiver::close` |
| `BytesCounter` (same file) | ring of 1024 counters, `baseTimestamp`, `currIndex`, `countRange_` | `update`, `count`, `reset` | inside `wqMutex` |
| `UdpReceiver` (`rtpTrs/UdpReceiver.hpp`) | `closed`, `recvTasks`, one `recvBuf` | `start`, `startReceive`, `finishReceive`, `close`, `isStopped` | io threads, `RtpTransceiver::close` |
| `RtpTransceiver` (`rtpTrs/rtpTrs.hpp`) | sockets, senders, receivers, worker thread, map of pipes, output queues, notifiers, static io threads | `open`, `open2`, `close`, `recv*`, `send*`, `init`, `shutdown` | everything above |
| `Rtp`, `Rtcp` | one buffer | getters and setters of header fields | - |
| `Decoder`, `Encoder` (`acle/aclengine.hpp`) | channel descriptor, report thread, `isWork`, `needClose`, queue of 10 | `open`, `readFrame`/`writeFrame`, callback, `close` | report thread, which runs the callback |
| `ChannelIdGenerator` (same file) | 256 ids | `GenerateChannelId`, `ReleaseChannelId` | all decoders |
| `Muxer`, `Demuxer` | sequence number, NAL unit being assembled | split into FU-A, assemble | caller |
| `ImageReader`, `ImageHandler`, `videoEngine`, `acle/core` | device buffers | calls of DVPP and FFmpeg | caller |

What is hard to test here, and what would have to hold:

- **Reordering over two wraps.** The sequence number wraps at 2^16, the ring at an odd size; three
  cursors move in nine branches. Packets must come out once, in order, and no window may be lost
  but by a reset; the `exit(0)` in `updateData` must be unreachable; `lost()` is a difference of
  unsigned counters and must not wrap.
- **Ring without a lock.** A slot must not be read and written at once, full must not look empty.
- **Flags without a lock.** `isSending` is set under `wqMutex` and read and cleared outside it; one
  buffer, one target and one timer are used by whoever owns it. `sendTasks` and `recvTasks` decide
  when an object may be deleted that handlers on other threads still point to.
- **Waking up.** A queue is drained by the completion of the operation before; a chain of receives
  is kept going by its own handler. If one link is missing everything stops silently.
- **Waiting without a predicate.** `notify_one` and `notify_all` are called without the mutex, and no
  wait has a predicate: every wake-up can be lost, and only the timeouts keep the data moving.
- **Stopping.** `close` polls flags that the handlers change; it must neither return too early nor
  wait for ever. The worker looks at its stop in one place only.
- **Open again.** Neither `RtpTransceiver::close` nor `Decoder::close` resets what it deletes or
  gives back; what a second `open` finds depends on the arguments and errors of the first.
- **Pointers kept over an unlock.** The worker keeps a pipe from packet to packet, readers of a
  status from the lock to the read, while resets erase pipes.
- **Time.** The bandwidth limit slides a ring with the clock, in units that can be changed.

The list of hazards with the line where each one bites, and the properties that cover it, is in
`PROJECT.json`.

## 2 Modules

| Module | Models | Abstract specification it implements |
|---|---|---|
| `RtpPipe` | `RtpPipe` with its `SeqCounter`, `StreamStatus`, `LeadingRtp` | `ReorderBuffer` (by `MCRtpPipe`) |
| `OneOnePipe` | `OneOnePipe` | `BoundedFifo` (by `MCOneOnePipe`) |
| `UdpSender` | `UdpSender`, the poll of `RtpTransceiver::close` | `Outbox` (by `MCUdpSender`) |
| `BytesCounter` | `BytesCounter`, its use in `doSend`, `setBandwidth` | - |
| `UdpReceiver` | `UdpReceiver`, its part of `RtpTransceiver::close` | - |
| `RecvWorker` | `recvWorker`, rings, output queues, notifiers, `receive*`, `waitNotify`, the stop | - |
| `Transceiver` | `open2`, `close`, the map of pipes with worker, resets and readers | - |
| `Codec` | `Decoder`, `Encoder`, `ChannelIdGenerator`, `SafeQueue` | - |
| `*Proofs` | theorems about each of them | - |

The modules are independent: what one needs of another is a property of the other. `OneOnePipe` has
one producer because of `OneReceive` in `UdpReceiver`. `RecvWorker` composes the path from the sockets
to the caller: its rings are the bounded queue that `OneOnePipe` is shown to implement, its pipes put
out some of what they hold, each packet once, as `RtpPipe` does. In `Transceiver` the parts between
`new` and `delete` are what `UdpSender` and `UdpReceiver` say of them: one that does not stop in time is given up. `UdpSender` takes from `BytesCounter` only
that the limit may ask for some waits, at most `MaxWaits` in a row, and that `update` may throw. Definitions named "Slip" in a
comment are plausible bugs; no specification uses them. Each is the counter-check of a property:
put in the place of the definition that follows it, it makes TLC refute that property.

**RtpPipe.** State as in the class; `out` is what the last step appended to `outQueue`, `result`
what `updateData` returned. A packet is its sequence number. `reorderRtp` holds `pipeMx`, so it is
one action: `PackageLengthError`, `ForeignSource`, `Lead` (the leading packets, kept and sorted) or
`Reorder`. `updateData` has one action per branch: `First`, `InOrderNothingPending`,
`InOrderBehindHole`, `Jump`, `Gap`, `Duplicated`, `Late`, `Old`, `Invalid`. The loops of
`takeRtps` are the number `n` of slots they pass, with the loop conditions in `StopsAt`, its error
in `TakeFails`. The sorted leading packets are fed one per step (`FeedLeading`), while nothing else
runs. Where `LeadingRtp::operator<` is no strict weak order the outcome of `std::sort` is
undefined, and the model takes every permutation. Constants: `Half` = 32768, `MaxDiff` = 5000,
`LeadingWrap` = 65000, `R` = `reorderSize` in the code. Left out: times, payload bytes and the
status fields computed from them.

**OneOnePipe.** Every load or store of an atomic and every slot access is a step. The atomics are
sequentially consistent in the code (`load()`, `store(x)` without an argument), so interleaving is
all there is. `enqueue`, `dequeue` are program counters; `all` tells `dequeueAll` from `dequeue`.

**UdpSender.** Every access to `isSending` and `sendTasks` is a step; `wqMutex` is a variable, held
from `DoSend` to `Unlock`. The order inside `doSend` is kept: the task is counted out, then
`isSending` cleared, then the mutex released. `sends` and `timers` are the asynchronous operations
asio has not completed; a handler runs on any idle thread of `Workers`. `poll` is the loop of
`RtpTransceiver::close`: `PollSending` and `PollTasks` read the two atomics one after the other.
A datagram is the number of its place in the order in which it was queued. Taken as given: a caller
does not start a `send` after the delete. `RtpTransceiver` polls 3000 times; the model polls for ever,
so that `StopsUnlessThrown` can be asked.
`Throw` is the exception of `bytesCounter.update` (`UdpSender.hpp:433`), which
`bytes_counter_units` shows to be reachable; here it may come with any datagram, since the module has
no clock. It leaves `doSend` between the `swap` and the `pop`: the front of the queue is what was sent
before, `isSending` stays set, no operation is under way, and the task of the caller, or the two of the
handler, stay counted (`leaked`). From a caller it goes out of `send`; from a handler it goes through asio out of
`io_context::run`, and the thread ends (`"ended"`; it is caught and the thread left in `rtpTrs.hpp:290-294`).
`stall` is a history: why `doSend` or `doSendFinish` has left the queue as it is (`"skipped"`, `"failed"`), until the next
call looks at `isSending`. `Outbox` may break accordingly, once, with the loss of its oldest datagram.

**BytesCounter.** The ring, its base, index and range; `history` is what was really sent. `Send` is
`doSend` with a packet that fits the limit (`count`, comparison, `update`), `SetBandwidth` is
`setBandwidth` with `reset`, `Tick` the clock, which advances, and `SetBack` the clock being set back, once.
`baseTimestamp` is 0 at first, as
in the class, and the clock is far above it. The sum that `count` adds up in a loop is the recursive function
`Total`, which the proofs can use. After an exception nothing more is sent, because `doSend`
leaves `isSending` set.

**UdpReceiver.** `closed` and `recvTasks` are read and written in steps of their own; `receive` is the
asynchronous receive and how it ended. `Arrive`, `Read` and `Fail` are the socket. `Close`,
`Cancel`, `Delete` or `GiveUp`, and `CloseSocket` follow `RtpTransceiver::close`. Its 3000 polls
(6 seconds) are `GiveUp`, which happens only when nothing goes on but a receive without data: a handler
takes far less. The error codes that the Windows build ignores are left out.

**RecvWorker.** The program counter of the worker follows `recvWorker`: `DequeueRtp`, one of the three
ways to deal with the datagrams (`recvUdpOnly`, `reorderSize_` 0, reordering packet by packet), `DequeueRtcp`,
`DealRtcp`, `Notify`, `Test`, and the wait, which ends by a notification or by its 100 ms. What is done under
one mutex is one step. `config` is the mode, the notifiers, which two or three queues may share, and the
queue that the modelled caller takes from; it is set before `open2` and left alone. The caller tests the
flag outside the mutex (`Receive`), swaps under it (`Swap`), and waits when it got nothing. A datagram is
the number of its arrival; whether it is RTP is decided when the worker looks. `pipe` is what the
pipes hold: `DealRtp` puts out any of it in any order and keeps or drops the rest, more than `RtpPipe`
does. `unannounced` records the queues with data of which nobody has been told.

**Transceiver.** `open2` is one action per outcome, since `bindingMx` is held through it: the RTP
socket fails, the RTCP socket cannot be opened (the RTP socket stays bound), it cannot be bound (both
are closed), or all is made. `close` is `CloseParts`, `DeleteParts`, `Join`, `Clear`, between which the
worker and other threads run. `ptr` is what each of the four pointers points to: nothing, an object, or
a deleted object, for no pointer is reset. `touched` is the deleted parts that `close` has used; what
that does is undefined, and there the model ends. The worker is modelled from packet to packet: take
over what is to be removed, erase it, find or make the pipe, use it. A reader holds a pipe from the
lock to the read. `half` and `excused` are histories that the properties speak of.

**Codec.** Decoders and encoders have the same shape: `Open` with any number of steps that succeed, a
report thread that sets `isWork` after it has started (`SetIsWork`) and loops until it is cleared, a
callback on that thread that fills the queue, `Send` and `Take` for `readFrame` and `writeFrame`, `SendEos`,
`Stop`, `DestroyChannel` and, for an encoder only, `Join`. `threads` lists every report thread a codec has
ever started, since an old one may still loop after a second open. A decoder asks for a close from the
start (`needClose` is true at first), so its destructor closes what was never opened. What a thread reads of a
destructed codec is any value. The library is external: its calls may fail, frames may be lost, and the
callback of the end-of-stream frame of an encoder, which has no user data, is left out: if the library gave out a
packet for that frame without an error code, the callback would dereference the null pointer
(`aclengine.hpp:715-716`). What the library does there the repository does not say.

## 3 Runs

| Run | Instance | Shows |
|---|---|---|
| `rtp_pipe` | 10 sequence numbers, `R` 2 (ring of 5), `MaxDiff` 4, 6 datagrams | `TypeOK`, `WindowShape`, `NeverExits`, `SlotsHoldTheirSeq`, `LostCoversHoles`, `DeliveredInOrder`, `ImplementsReorderBuffer` |
| `rtp_pipe_leading` | 3 leading packets, 3 sources, 5 datagrams | `LeadingFedInOrder` |
| `one_one_pipe` | 4 slots, 9 elements | `TypeOK`, `NoSlotConflict`, `AllTaken`, `ImplementsBoundedFifo` |
| `udp_sender` | 2 callers, 2 io threads, 3 calls of 1 or 2 datagrams, queue limit 2, 1 wait | `TypeOK`, `OneOperation`, `StoppedIsQuiet`, `ImplementsOutbox`, `StopsUnlessThrown`, `DrainedUnlessStalled` |
| `udp_sender_skip` | 2 callers, 1 io thread | `Drained` is violated ([5](#5-findings)) |
| `bytes_counter` | ring of 5, ranges of 2 and 3 units, 12 ms in steps of 1, 2, 6, a step back of 1 or 6 | `TypeOK`, `CountIsWindow`, `LimitKept`, `ThrowsOnlyForTimeGoingBack` |
| `bytes_counter_units` | 15 ms, the clock is not set back | `NeverThrows` is violated |
| `udp_receiver` | opener, 2 io threads, 4 datagrams | `TypeOK`, `OneReceive`, `DeletedIsQuiet`, `Reads`, `Stops` |
| `udp_receiver_close` | the same | `CloseWaits` is violated |
| `recv_worker` | 9 configurations, rings of 2, 3 datagrams | `TypeOK`, `ReceivedOnceInOrder`, `AnnouncedUnlessShared`, `Received`, `WorkerStops` |
| `transceiver` | 2 streams, 4 pipes, 3 opens | `TypeOK`, `UsedPipesLive`, `ClosedHoldsNothing`, `FreedOnlyAfterNarrowerOpen` |
| `codec` | 2 decoders with 2 ids, or 1 encoder; up to 2 threads each, queues of 1, 1 frame on its way | `TypeOK`, `ChannelIdsSound`, `GoneEncoderIsQuiet`, `ThreadsEnd` |

What the runs of `udp_sender`, `recv_worker`, `transceiver` and `codec` show, beside that the properties hold:

- *udp_sender.* A sender that is closed stops, and its queue is emptied, but for three cases that are in the
  properties because the code has them. After an exception of `bytesCounter` nothing goes on
  (`Threw`): `close` polls in vain and gives the sender up. A skipped chance and an error of the socket leave
  the queue, but only until a call looks at `isSending`: `DrainedUnlessStalled` says that a
  queue which stays for ever has been left so after the last such look. It would not hold if an error left `isSending`
  set, or a handler did not go on.
- *recv_worker.* Lost wake-ups cost a timeout and nothing else (`Received`): what was received is looked
  for again. Two exceptions are in the properties because the code has them. A notifier that two
  queues share is notified for the first of them only (`rtpTrs.hpp:1629-1636` compares the
  pointers before it asks whether the first had data), so a caller waits for its timeout although
  there is data for it. And with `recvUdpOnly` and no notifier for UDP the worker keeps its queue for
  ever: it is busy without end, never reaches the wait, and never sees the stop, which `close` then joins for ever (`Spinning`).
- *transceiver.* `close` uses a deleted receiver or sender only after `open2` had made it, `close` had
  deleted it and a narrower `open2` (without RTCP, or only to send) had not made it anew. An RTCP socket that
  cannot be opened leaves the transceiver neither open, nor closable, nor able to open again. A reader
  of a status is safe but for a reset of its stream or a close during its call.
- *codec.* Closing or destructing a decoder that nobody opened gives back channel id 0, which may be
  another's (`stray`); opening one a second time loses the first id (`reopened`). A close before the
  report thread has set `isWork` is forgotten: the thread then loops on (`hasty`). Nobody waits for
  the thread of a decoder: `unsubscribReportThread` returns at once because `stream_` is never set, so it
  may read `isWork` of a destructed decoder. An open of an encoder that fails after its channel is made
  leaves channel and thread (`failed`), because only a success sets `needClose`.

Why the bounds are enough:

- *RtpPipe.* Ten numbers with `R` 2 and `MaxDiff` 4 have every branch: a number up to `R` ahead or
  behind, between `R` and `MaxDiff`, beyond it, and exactly half the range away. Six datagrams of any
  numbers wrap both the numbers and the ring, and leave several holes. What could depend on the size
  is covered by the proofs. `LeadingWrap` 7 of 10 leaves sets of three numbers on which the
  comparison has a cycle, and others across the wrap on which it has none.
- *OneOnePipe.* Nine elements take four slots round twice with each side at any position.
- *UdpSender.* Two callers and two handlers are the most that can meet in `doSend`, since there is
  one operation, and an exception ends at most one handler; three calls of up to two entries exceed the queue
  limit and `MaxTasks`. Threads are proved away for safety. `MaxWaits` bounds the timers in a row: a
  limit below the size of one packet, for which they go on for ever (`UdpSender.hpp:355`), is not in the
  model, and `DrainedUnlessStalled` says nothing of it.
- *BytesCounter.* Steps of 6 exceed the ring of 5; steps of 2 exceed a range; 12 ms go round more than
  twice. A step back of 6 is longer than a turn of the ring, one of 1 stays inside a unit or leaves it.
- *UdpReceiver.* Two threads run the old and the new handler; a third finds nothing to do. Any
  number is proved.
- *RecvWorker.* Three datagrams fill a ring of two and overflow it, keep two in a pipe while a third comes,
  and come before and after each test and wait. The configurations have every mode, every queue watched, and
  notifiers that are apart, shared or missing. Any size, number and configuration is proved for safety.
- *Transceiver.* A deletion, a narrower open and a close need two opens; a third meets what they leave.
  Two streams are enough for a pipe of another stream to be at hand; four pipes are all that map, worker
  and reader can refer to. Any number is proved.
- *Codec.* Ids meet between two decoders; a second thread of one codec meets the first. Each open may fail before
  or after each thing it leaves behind. A queue of 1 is full with one frame.

Deadlock is not checked (`CHECK_DEADLOCK FALSE`) where the system may come to rest: after the last
datagram, call or clock tick of the bound, and after a close. `MCOneOnePipe` checks it.

Fairness. Weak fairness of every thread that is inside a function: the operating system schedules
threads. Weak fairness of the completion of asynchronous operations through the idle io threads, and
of the socket reading a datagram that has arrived while a receive waits: asio does both. Weak
fairness of the poll of `close`, a loop. Nothing is assumed of what the environment need not do:
calls of `send`, arrivals, errors of the socket, `open`, `close` and the clock are not fair. In
`RecvWorker` the worker and the caller are fair, their waits included, since both have a timeout. In `Codec`
only a thread's look at `isWork` is fair, because `aclrtProcessReport` returns after at most 500 ms; the
user need not do anything. A handler that
runs does not depend on strong fairness: with one operation at a time an idle worker stays enabled
for its completion. The io threads of `UdpSender` are those of all transceivers: that one of them is left takes
fewer senders that have thrown out of a handler than there are threads (4 by default).

## 4 Proofs

All proof modules extend the module they are about; the assumptions are the named `ASSUME` of
that module, which TLC evaluates on its runs. The form is the same throughout: an inductive
invariant, one lemma per action or group of actions that disturbs it the same way, a lemma that the
invariant holds of `Spec`, and theorems that read the properties off it.

**RtpPipeProofs**, for every `R` in `1 .. Half - 1`, every `Half`, `MaxDiff`, `LeadingSize` and any
sources: `Types`, `Windows` (`WindowShape`), `ExitIsDead` (`NeverExits`), `SlotsAreRight`
(`SlotsHoldTheirSeq`), `LostIsSound` (`LostCoversHoles`), `LeadingIsExact` (`LeadingMatchesCount`).
The invariant `RingInv` is the conjunction of the properties themselves: none is inductive alone.
`NeverExits` needs that a flagged slot of the window has a packet; that needs the window to be at
most `R` slots, or `SetSeqStates` would overwrite its tail; `SlotsHoldTheirSeq` gives the place of a
late packet; `LostCoversHoles` needs that a late packet fills a hole that was counted. Lemmas about
`forward`, `back`, `forwardDistance` and `getSeqDistance` reduce the ring to distances from the
tail.

On top of that, `Is_reorder_buffer` (`ImplementsReorderBuffer`) and `Delivers_in_order` (`DeliveredInOrder`).
Numbers are counted from the oldest that is not decided yet (`NextSeq`). `Placed` says that under `RingInv` a
waiting packet lies as many slots behind the tail as its number is away from that one; `AdmitIs` then that what
`takeRtps` puts out, slot by slot, is what `Admit` of the abstract buffer joins from the packets it holds,
number by number. Each branch of `updateData` has a lemma that it is the step of the buffer with the same name
(`StoreExtends`, `LateFills`, `InOrderExtends`, `GapSkips`, ...), and one that what it puts out rises and stays
below what is decided now. The packets put out are joined by `FlattenSeq`; that this is defined and what it does
(`FlattenIs`) is proved by induction, which `NatIsClosed` gives from the well-foundedness of the naturals,
over a set instead of an operator. The proof corrected `ReorderBuffer`: for a number exactly half the
range away from the newest, `Ahead` has to break the tie as `getSeqDistance` does, by the plain comparison. It had
broken it the other way, which matters only for a `MaxDiff` above `Half`, and no run has one.

`Leading_in_order` (`LeadingFedInOrder`) is about the sort of the first packets: on numbers that lie
less than `SeqRange - LeadingWrap` apart, `LeadingRtp::operator<` is the order of the stream (`LessIsBefore`)
and has no cycle (`NearIsOrdered`), so the outcome of `std::sort` is defined. That needs
`LeadingAssumption`, a wrap of at least two thirds of the range (65000 of 65536): with less, three numbers
could lie in a circle.

**OneOnePipeProofs**, for every capacity above 1: `Typed`, `First_in_first_out` (`Fifo`),
`SlotsAreApart` (`NoSlotConflict`), `Bounded` (`NeverOverfull`). The invariant orders the copies of
the positions that each side has made (`ProducerInv`, `ConsumerInv`) between the atomics, and says
what the slots between the consumer's head and the tail hold (`ContentsInv`). With it `Is_bounded_fifo`
(`ImplementsBoundedFifo`) is proved: the queue is the run of elements from the last taken to the last
accepted (`ContentsIs`), the store of the tail that publishes an element is `Put`, the read of a slot is
`Get`, and every other load and store leaves the run as it is (`StepOfQueue`).

**UdpSenderProofs**, for any finite sets of callers and threads, any queue limit, entries and number
of waits: `OperationsAlone` (`OneOperation`), `TasksAreCounted` (`TasksCountActivity`),
`StoppedAlone` (`StoppedIsQuiet`), `Thrown_never_stops` (`ThrownNeverStops`). `isSending` is handed on: from the thread in `doSend` that set it
to the operation, to the handler, which clears it. `OneOwner` says there is one such owner and
`isSending` is set as long as there is. For the count, every place in the code has a `Weight`, and
every step is shown to change `sendTasks` by the change of weight (`Accounted`). An exception gives the weight
of its thread to `leaked`, so that the count stays exact: every path that returns counts out what it has counted in,
and this one leaves 1 or 2. It can come only from the owner, and then there is no owner while `isSending` stays set: so
there is no second exception, and nobody who could clear `isSending` (`OneOwner`, `ThrownNeverStops`).
`NoneEnded` says that nothing else ends a thread. `Quiet` follows: a count of 0 means no operation, no handler, and callers at most between their last use of the count
and their return.

`Typed` (`TypeOK`) and `Is_outbox` (`ImplementsOutbox`) are about the queue. `Locked` says that the thread
between `DoSend` and `Unlock` has the mutex, and that the queue is not empty when it decides: what it has seen
is still so. No entry of the queue is ever without a datagram, so the branch of `doSend` that
"should never happen" does not. The datagrams that wait are the entries joined (`FlattenConcat`); a call adds
numbers that go on from the last one (`EntriesAre`), and `Popped` leaves the tail of what waited (`PoppedIs`); so
does what follows the swapped datagram after an exception (`SwappedIs`).

**BytesCounterProofs**, for any ring, interval, units (each within the ring), limit, packets and clock: `Types`
(`TypeOK`), `CountIsExact` (`CountIsWindow`), `LimitHolds` (`LimitKept`), `ThrowsAreTimeGoingBack`
(`ThrowsOnlyForTimeGoingBack`). The invariant adds `RingInv` and `ClockInv` to them, both of which TLC has
checked on the instance of the run. `RingInv`: the counters less than `countRange` behind `currIndex` hold
the bytes of their own units, and nothing has been sent after the last packet. It is what `Restart` relies on when
it clears only what `count` reads from index 0 backwards: the rest of the ring is stale, and each counter
is cleared before the range reaches it. `ClockInv`: the last packet is not ahead of the clock, unless the
unit grew or the clock was set back. For the limit, a window that ends after the last packet has no more
than the one that ends with it (`WindowShrinks`), and a packet that fits adds its bytes to one unit
only (`LimitStep`).
Lemmas say what a sum does when it is split, when one value grows, and when the values are 0; like
the sequences above they rest on `NatIsClosed`.

**UdpReceiverProofs**, for any finite set of threads: `Typed`, `ReceivesAlone` (`OneReceive`),
`TasksAreCounted` (`TasksCountActivity`), `DeletedAlone` (`DeletedIsQuiet`). The invariant adds to
them that `start` has returned before `close` (`OpenedBeforeClose`, from `bindingMx`): otherwise the
opener could start a receive after the delete.

**RecvWorkerProofs**, for any configurations, ring size and number of datagrams: `Typed`,
`Received_once_in_order` (`ReceivedOnceInOrder`), `Announced` (`AnnouncedUnlessShared`). The order of
what has been taken, waits and is still to come is not enough alone: `Ordered` says it of each way
through the worker together with what lies behind it, `Apart` that no datagram is in two of the ways,
`Told` that between the filling of a queue and `Notify` the queue is among those for which the
worker has noted that it got something. Lemmas say what appending, taking the head and
concatenating do to an increasing and to an injective sequence.

**TransceiverProofs**, for any streams, enough pipes and any number of opens: `Typed`, `PipesLive`
(`UsedPipesLive`), `ClosedIsEmpty` (`ClosedHoldsNothing`), `MadeIsLive` (`FreedOnlyAfterNarrowerOpen`).
`MadeInv` says that what the last open made is live as long as the transceiver is open; `RestInv` and `WorkerInv` give
the place of the owner for each state of worker, map and sockets; `CacheInv` that a pipe kept from
the packet before is still in the map unless it is asked to be erased; `ReaderInv` that a reader without an
excuse holds the pipe of the map and that nothing is under way that would erase it.

**CodecProofs**, for any codecs, ids, capacity and bounds: `Typed`, `Ids_sound` (`ChannelIdsSound`),
`Encoder_quiet` (`GoneEncoderIsQuiet`). `IdsInv` says who holds an id: a decoder with a channel, or one
that has been opened and is still to be closed, which may hold no id if there was none. `EncodersInv` says of an
encoder without a failed open or a hasty close that all its threads but the last have ended, and the
last too once it is closed. That the first free id exists is the well-foundedness of the natural
numbers.

Some theorems are about invariants that no run lists, because a property that is checked implies or
needs them: `Fifo` and `NeverOverfull` of `OneOnePipe`, `LeadingMatchesCount` of `RtpPipe`,
`TasksCountActivity` of `UdpSender` and `UdpReceiver`, `ThrownNeverStops` of `UdpSender`.

Only model-checked:

- every liveness property (`AllTaken`, `DrainedUnlessStalled`, `StopsUnlessThrown`, `Reads`, `Stops`,
  `Received`, `WorkerStops`, `ThreadsEnd`): liveness under fairness is beyond this prover;
- that an action can be taken where the system should go on (`ENABLED`), which only the liveness
  properties and the search for deadlocks of `one_one_pipe` touch.

Every other property of the passing runs is a theorem.

## 5 Findings

- **A skipped chance may be the last** (`udp_sender_skip`). When the bandwidth is used up and more
  than three tasks are counted, `doSend` neither sends nor starts a timer (`UdpSender.hpp:399-403`).
  The tasks it relies on may be callers that have already read `isSending` and are about to return.
  The queue then stays as it is until the next call of `send`.
- **The exceptions that should never happen** (`bytes_counter_units`). `setBandwidth` with a longer
  unit leaves the counter at a time measured in the shorter one; the next `update` throws, out of
  `doSend` with `isSending` set. In `UdpSender` that is `Throw`: the sender loses the datagram, never sends again,
  cannot be stopped (`ThrownNeverStops`) and takes one of the io threads with it when it throws in a handler.
  `ThrowsOnlyForTimeGoingBack` shows that nothing else makes it throw
  but a clock that is set back.
- **close does not always wait** (`udp_receiver_close`). A handler that has read `closed` just before
  `close` may start its receive just after the `cancel`. `close` then polls in vain and returns while
  the receive is still there; it does not delete the receiver (`DeletedIsQuiet` holds).

## 6 What is not modelled

Whole components:

- `Rtp` and `Rtcp`: getters and setters, bit masks of one buffer;
- `Muxer` and `Demuxer`: the split of H.264 into FU-A fragments and the way back is data of one thread
  in one buffer, and a model that abstracts the bytes would leave nothing of it. One hazard of theirs
  is listed: fragments lost in the middle of a unit (`aclengine.hpp:1219`);
- `ImageReader`, `ImageHandler`, `VideoEngine` and `acle/core`: sequences of calls into DVPP and FFmpeg, and
  copies;
- `seeker` (helpers), the samples, and the vendored asio, spdlog and fmt, of which asio appears as the
  environment of `UdpSender` and `UdpReceiver`. They are most of the lines of the repository.

Parts of modelled components:

- `RtpTransceiver`: destinations and the choice of a target in `send*`; setters, taken as called before
  `open2`; `init` and `shutdown` of the static io threads; `recvWorker2`, which nobody calls; the lengths
  inside an RTCP datagram, whose walk keeps them in 16 bits and does not advance when one wraps to
  zero (`rtpTrs.hpp:1725`);
- `UdpSender`: a packet larger than the limit of an interval, which waits for ever (`UdpSender.hpp:355`);
  a caller still inside `send` when its transceiver is closed (`:448`); several senders on the same io threads,
  of which each exception in a handler takes one;
- `Codec`: buffers and descriptors, which the callback of a decoder and its `close` may both destroy; the
  frame configuration and the output file of an encoder. By reading alone: `Encoder::open` returns an
  error code as a `bool`, so that a file that cannot be opened counts as a success (`aclengine.hpp:570`);
  the result of `aclrtCreateStream` is not looked at (`:888` tests another variable); `setFrameConfig` has
  a path without a `return`;
- times, payload bytes and the status fields computed from them.

Further proofs that would fit: that a composition of `OneOnePipe` and `RecvWorker` is what `RecvWorker` takes
its rings for; that `LateFills` and `GapSkips` together lose no packet that arrives within `R` of the
newest; safety halves of the liveness properties, such as that a queue which is not empty has an owner or a
thread that is about to look at it.

# Verification of HHSharedLibs

TLA+ models, TLC runs and TLAPS proofs for the shared libraries under `src/`.
The sources hold no tests and no protocol document, so every definition is
translated from the code; paths below are relative to `src/src/`.

## 1. Inventory

`src.pro` builds `core`, `network`, `enet`, `gui`, `service` and
`systemutilities`; `udt` is commented out. Of `network`, the project file
compiles `udp`, `tcp/tcpbase`, `packetbase` and `networkutilities`; `rudp`,
`packethandler` and `networkmanagerbase` are in the tree but commented out, and
`PacketHandlerBase` and the `Packet` class they use are no longer there. `rudp`
is nevertheless the one protocol this repository implements itself (the others
are vendored or wrap Qt) and therefore the core of this project. Beside it the
classes of the build in which several threads or re-entrant handlers meet are
modelled: `TCPBase`, `ENETProtocolBase` and the message logger.

| component | state | operations | interacts with | hard behaviour | what makes it correct |
|---|---|---|---|---|---|
| `RUDPChannel`, sending half (`network/rudp/rudpchannel.cpp`) | serial number counter, send window, cache of packets ahead of it, list and hash of packets waiting for an ACK, loss list, retransmission timer, global free send buffer | `sendDatagram`, `beginDataTransmission`, `endDataTransmission`, unreliable sends, retransmission and flush timers, handlers of ACK, NACK, PacketDropped | event loop, `QUdpSocket`, the peer's receiving half | wrap of 16-bit numbers, stale feedback, failed writes, windows that grow and shrink | nothing accepted is forgotten; what waits gets sent; the lists drain |
| `RUDPChannel`, receiving half | receive window, LRSN, loss list, out-of-order cache, ACK and NACK timers | `datagramReceived`, `sendPacketDroppedInfo`, `sendACKTimerTimeout`, `sendNACKTimerTimeout` | packet handler, `QUdpSocket` | reordering, duplicates, gaps across the wrap, timers that stop and restart | delivery in order and once; progress is reported; losses are real |
| `RUDPChannel`, connection | state, own and peer handshake identifier, connect, keep-alive and check-peer timers | `connectToPeer`, `disconnectFromPeer`, `closeChannel`, handlers of Handshake, Reset, Goodbye, KeepAlive, three timers | application, both halves | simultaneous open, crash and restart, lost answers, late timers | an attempt ends; both ends agree; a dead peer is noticed |
| `RUDPSocket` (`rudpsocket.cpp`) | channels by address, pool of idle channels | `getRUDPChannel`, `closeChannel`, `channelclosed`, `readPendingDatagrams` | channels, `QUdpSocket` | reuse of a pooled channel, deletion while referenced | one live channel per peer |
| `PacketsParserBase` | incoming and outgoing queues, quit flag | parse loops, `aboutToQuit` | worker threads | mutex held over a nested event loop | every queued packet handled, quitting ends |
| `NetworkManagerBase` | servers by port | start and close of UDP, TCP, RUDP servers | sockets, threads | check-then-act outside the mutex | no pointer to a deleted server |
| `TCPBase` | sockets by identifier, size of the next block of each | `connectToHost`, `newIncomingConnection`, `sendData`, `readSocketdData`, `disconnectFromHost`, `abort`, `peerDisconnected` | Qt sockets, `processData` of the application | blocks cut anywhere, a handler that closes or aborts the socket whose loop calls it, a mutex held over a signal | each end processes the other's messages, in order, once; none left in the buffer; the end is heard |
| `ENETProtocolBase` | host, peers by identifier, queue of outgoing packets, thread count | `listen`, `close`, `connectToHost`, `sendData`, three disconnects, `waitForIO` | vendored enet; its own thread and the application's | raw peer pointers in a queue, a flag and a counter without a lock, slots that are used again | packets in order and on their own connection; an exact registry; close ends and spares a host in use |
| message logger (`core/logger`) | message list, quit flag, thread-finished flag, pointer to the logger | `LogMessage`, `appendMessage`, `run`, `stopLogger`, `MessageLogger::close`, crash handler | every thread that logs, signals | lost wake-ups, messages after the last look at the list, a crash while logging | each message once and in order; stopping flushes and ends |
| `UDTProtocolBase` | as `ENETProtocolBase`, over udt | the same | vendored udt | the same | not in the build |
| `JobMonitor` | jobs by identifier, a timer each | new, start, finish, time out, delete | application | finish against timeout | one result per job |
| core services, GUI, Windows service, system utilities | settings, widgets | wrappers | Qt, the operating system | none of their own | not modelled |

Vendored and out of scope: `enet/enet`, `udt/udt`, `service/3rdparty`.

`PROJECT.json` lists the hazards with their lines and the properties that cover
them, or the reason why none does.

## 2. Modules

| module | models |
|---|---|
| `SerialNumbers` | serial numbers 1..`MaxSN` (65535), `createSerialNumber`, and the wrapping window test that both halves use |
| `Selection` | the entries of a list that pass a test, written without recursion |
| `NACKCodec` | how a list of losses is written into a NACK and what its reader makes of it |
| `NACKReports` | a receive window in which packets go missing and arrive; the report of any of its sets of losses, put through the codec |
| `DatagramNetwork` | UDP in one direction: a bounded sequence of datagrams, optionally reordered and duplicated |
| `RUDPReceiver` | the receiving half as actions on its own variables, and the invariant that ties them to the stream |
| `RUDPReceiveWindow` | the receiving half alone, against every timely arrival |
| `RUDPSender` | the sending half as actions on its own variables |
| `RUDPTransfer` | sender, receiver and two directions of network composed |
| `RUDPTransferLive` | the same with bounded losses and fairness |
| `ReliableStream` | the abstract specification: packets are accepted and later delivered, in order and once |
| `RUDPConnection` | two end points that connect, close, crash and restart |
| `TCPBase` | one connection between two `TCPBase` objects, from `connectToHost` to the last signal; both directions refine `ReliableStream` |
| `ENETProtocolBase` | the application's thread and the thread of `waitForIO` over one ENet host |
| `MessageLogger` | threads that log, stop the logger or crash, and the thread of `run()` |
| `RUDPReceiverProofs`, `NACKReportsProofs`, `RUDPReceiveWindowProofs`, `RUDPTransferProofs`, `RUDPConnectionProofs`, `TCPBaseProofs`, `ENETProtocolBaseProofs`, `MessageLoggerProofs` | theorems |

How state corresponds to code: each VARIABLES line names the member it stands
for. One action is one handler, timer slot or public call with all it does
before it returns to the event loop; the operator has the name of the function.

Where two threads share state the steps are smaller: in `ENETProtocolBase` and
`MessageLogger` one action is one critical section, or one unlocked access that
another thread can come between, and a variable (`io`, `call`, `run`, `at`) says
where each thread is. `TCPBase` has one thread, but the application is called
back from the read loop, so that the loop is split at each point where it reads
and where `processData` runs.

What is abstracted in the RUDP modules:

* A packet carries its position in the stream instead of bytes, so that order,
  loss and identity can be told apart. The send buffer counts packets; one pass
  of `sendDatagram` makes 1..`MaxBurst` packets, a datagram or its fragments.
* Reliable packets exist in one direction; the other end only answers. One
  channel, so that the function statics of `sendACKTimerTimeout` and
  `createSerialNumberForControlPacket` are that channel's own.
* Handlers are atomic: `processEvents` calls inside them are not modelled.
* A NACK reports any subset of the loss list, since which losses are old enough
  depends on round trip times (one cut at the MSS, 1627, is the report of a
  smaller subset), in any order: the code keeps the order in which they were
  noticed, which is that of the window until LRSN falls back (750). It carries
  what `NACKCodec` makes of them. `NACKReports` reports in window order. ACK2,
  arrival speed and link capacity are left out. So are timer intervals: a timer
  may fire whenever it is active.
* The window a PacketDropped advertises is any value of `AdvertisedWindows`,
  because it is a byte count divided by the MSS and cut to 16 bits; that of an
  ACK is read as 0 and has no effect, as in the code.
* Unreliable packets are not followed in flight; that they take numbers of the
  control counter and may be cached among the reliable ones is modelled.
* Identifiers of handshakes are drawn fresh, as clock plus random number are
  meant to be; the canonical choice (a multiple of 3) keeps an identifier and its
  successor apart from all others.

What is abstracted in the other modules:

* `TCPBase`: a stream is the list of its blocks with their positions; bytes are
  counted, not spelled out. A read at a wrong position yields any size of
  `Unaligned` and the message `Garbage`. `QTcpSocket` is modelled from Qt's
  behaviour as used here: `readyRead` after any part of the stream has come,
  closing at once or after its buffer is written, the peer's close after all
  its bytes, resets that lose what is under way. An `abort` of a connected
  socket ends in `stuck` (the thread waits for its own mutex), one inside
  `processData` of any other socket in `undefined` (the socket is deleted).
* `ENETProtocolBase`: an ENet call is one step, although two threads enter ENet
  without a lock, which the comment at 239 says it needs. `enet_host_service`
  may bring any event the state of a slot allows. Emission of signals is
  modelled, their queued delivery is not. The swap of the lists and the test of
  `m_listening` before it are one step: close only clears the flag, so that a
  test that is overtaken is one more turn of the loop. `Q_ASSERT` is off, as in a
  release build. Identifier 0 is what `connectID` holds in an unused slot.
  `close` and `connectToHost` run the event loop, in which the application may
  call any operation again, also one of these two inside the other; a second
  `close` inside a `close` and a second `connectToHost` inside a `connectToHost`
  are left out. The test of the thread count and what `close` does after its
  loop are two steps, between which a thread may count itself. `sendData` with
  `queued` false goes past the list (`SendAtOnce`) and changes nothing kept
  here. A use of freed memory (a packet for a peer of a destroyed host, a
  `connectToHost` whose host was closed and opened again in its event loop) ends
  what the model says: `io` is `undefined`.
  `dropped` and `raced` remember resets by the application's thread and those
  that hit what the other thread was handling.
* `MessageLogger`: a message is its thread and number; messages that `saveToFile`
  brings about itself when a file cannot be opened are counted (`grumbles`). A
  signal interrupts a thread between two calls, or the logger's thread while it
  writes; the handler is off after the first signal, and a second one ends the
  process. A signal inside `appendMessage` or `stopLogger` is left out: the
  handler then waits for a mutex its own thread holds (646). The handler ends
  the process, or returns (without `XDG_CURRENT_DESKTOP`, messagelogger.cpp:22)
  and the process goes on with a stopped logger. `close` gives the logger up and
  the event loop deletes it; a thread that read the pointer before then uses
  freed memory, and so does what is left of a `stopLogger` of another thread
  (`UseDeleted`: the model says nothing of what follows). A logger made by
  `instance()` after that has no thread and is not modelled.

Assumptions on constants: `2 * MaxWindow + 1 < MaxSN` (5000 and 65535 in the
code), `SendBuffer < MaxSN` (102400 bytes never are 65535 packets) and
`2 * SlowStart <= MaxWindow`. The three other modules assume only that their
bounds are natural numbers, that a size field of a block has at least one byte and
that a connection has two ends.

Timing assumptions of `RUDPConnection`: `Settled` says that a datagram does not
stay in flight as long as a whole connection attempt or a keep-alive interval
(a minute), and `beats` that a keep-alive timer fires within the longer interval
of `checkPeerAliveTimer`. Both follow from the intervals that
`startKeepAliveTimer` and `startCheckPeerAliveTimer` set, for a network whose
delays are below them. `Room` keeps the bounded network from cutting off what
callers and timers send.

## 3. Runs

| run | shows | bounds |
|---|---|---|
| `receive_window` | the inductive invariant `WindowInvariant`, `RefusesOnlyDelivered`, `ProgressIsReported` (what the ACK timer has not told the sender it still will), `DeliversWholeRun` | `MaxSN` 6, window 2, 13 packets: the numbers turn over twice, every window position relative to the wrap occurs |
| `transfer_wrap` | `RefinesReliableStream`, `NothingForgotten`, `NothingStranded`, `DatagramsTimely`, `TypeOK` under loss | `MaxSN` 6, window 2, 7 packets: one turn with the window across it, caching, bursts of 2; a send buffer of 3, so that here `DatagramsTimely` is about old packets |
| `transfer_faults` | `RefinesReliableStream`, `LossListExact` under loss, reordering, duplication, failed writes, BeginOrEnd and unreliable packets | `MaxSN` 12, 3 packets, 2 datagrams each way: no turn of the numbers |
| `transfer_live` | `AllDelivered`, `SenderDrains`, `DatagramsTimely` | 4 packets, one a BeginOrEnd, one loss anywhere; a send buffer of 4, so that only the send window keeps the sender back |
| `connection_open` | `Established` (both ends connected for good), `SameSession`, `KeptAlive`, `TypeOK` | two calls of `connectToPeer`, at the same or at different ends; nothing lost |
| `connection_faults` | `NeverWithoutTimer`, `AttemptEnds`, `DeadPeerNoticed` | one call each of connect, close and send, one loss or crash, restart, Goodbyes that are cached |
| `nack_report` | `FirstLossesUnderstood`, `NothingBeyondReport` | windows of 9 places, room for three ranges with gaps, over the wrap and over 44 and 45, the numbers of the separators |
| `stale_ack` | violation of `NothingForgotten` | see findings |
| `message_logger` | `OnceInOrder`, `StopFlushes` (what was logged before `m_quit` is written when `stopLogger` returns), `EveryMessageWritten`, `StopEnds` | two threads beside the logger's, one message each and two more of a crash or after it, every thread may crash: each thread's append, stop, crash and return from the handler, and the deletion of the logger, falls between any two steps of `run()` |
| `tcp_stream` | `EachEndGetsStream`, `EveryMessageProcessed`, `DataWithinSession`, `GoodbyeLast`, `CloseIsHeard`, `TypeOK` | two messages one way and one back, bodies of 0 and 1 byte, a size field of 2 bytes, so that a size and a body are each cut, joined and empty; a network failure |
| `enet_peers` | `HandedInOrder`, `OwnConnection`, `RegistryExact`, `HostOutlivesService`, `QueuedIsHanded`, `CloseReturns`, `TypeOK` | one slot that connections use in turn; up to two connections, two packets and two calls of `listen`, four of these together |
| `enet_disconnect_later` | violation of `QueuedSentBeforeDisconnect` | one connection, one packet |

The bounds on the window and on the numbers are as small as the assumptions
allow while each branch of the window tests is taken: a window of 2 has a first,
a middle and a last place, so gaps, runs and the place before the first exist.
A deeper stream would repeat the states of the previous turn; the proofs cover
all sizes of the window and of the numbers, and any stream.

One slot in `enet_peers` is the case in which the hazards meet: with a second
one connections need not share a slot. `MaxTotal` 4 admits a packet while its slot
is used again, two packets on one connection, a packet left for a second host, and
two connections over two hosts, but not all of these at once; the proofs of the
safety properties do. `MaxMessages` 1 in `message_logger` is enough for every
order of two threads' appends; the proofs cover more.

`connection_open`, `connection_faults`, `message_logger`, `tcp_stream` and the ENet
runs set `CHECK_DEADLOCK FALSE`: when the calls are used up and no timer or thread
is active, everything is at rest; a process may also have ended, or a thread be
stuck for good.

### Fairness

Timers of an event loop recur as long as they are active: the retransmission,
flush and ACK timers, the connect, keep-alive and check-peer timers have strong
fairness, since the bounded network may have no room at some of their ticks.
Datagrams in flight arrive (weak fairness), because losses are bounded. Nothing
is assumed of the application, of the NACK timer, of losses, crashes or
restarts.

Threads are scheduled: the logger's thread and a thread inside a call of the
logger, and in `ENETProtocolBase` both threads, have weak fairness. Three steps
of `ENETProtocolBase` have strong fairness: `NoMoreEvents`, because
`enet_host_check_events` reads no socket and so runs out of events before the
next `enet_host_service`; `CloseGoesOn`, because `close` tests the count after
each turn of the event loop, in which the application may make calls of its own;
and `ConnectTimesOut`, because `connectToHost` compares the time after each such
turn and a `close` outside it waits for its return. In `TCPBase` the read loop
goes on and TCP brings what was written (weak fairness); nobody has to call
anything, and a failed network need never be noticed.

### What the runs found

1. `stale_ack`: `updateFirstWaitingForACKPacketIDInSendWindow` (2558) takes an
   overtaken ACK for one past the wrap and drops unacknowledged packets.
2. `enet_disconnect_later`: `disconnectLater` (582) ends the connection for
   further packets while those `sendData` queued are still in
   `m_outgoingPacketList`; its comment says that all queued packets are sent.

Statements that do not hold either, met while the models were written and
therefore not among the properties of passing runs:

* `NothingForgotten` with unreliable packets: their numbers come from another
  counter, and an equal number replaces a cached reliable packet (2586).
* `LossListExact` past the turn of the numbers: LRSN is set to 0 while packet
  65535 waits in the cache (750), and the list comes to name received packets.
* `SenderDrains` when a BeginOrEnd packet, which bypasses the cache (951, 977),
  meets the turn: the waiting list is out of order and never drains (2540).
* That the sender understands a whole NACK: its reader is out of step after a
  range (1649, 2454), skips losses behind it and may read a range that ends
  before it begins, which 2473 asserts not to happen.
* `NothingStranded` over a network that reorders: a late PacketDropped (2270)
  moves the window back while nothing waits.
* `NothingForgotten` when writes fail: such a packet is kept nowhere (1352).
* The send buffer returns to its size: a cached packet is charged twice.
* `Established` when the first answer to a handshake is lost or overtaken: the
  answer's number is taken for the identifier, and that attempt can only end.
* `KeptAlive` after a close during an attempt, which may still connect.
* An end whose peer restarted and stays idle notices: the idle channel answers
  every KeepAlive (2290).
* `abort` of a connected `TCPBase` socket returns: it holds the mutex that
  `peerDisconnected`, called by `socket->abort()`, locks (tcpbase.cpp:177, 384).
* No message is processed after `disconnected`: the read loop goes on with the
  buffer when `processData` closes the connection.
* `RegistryExact` without its first premise: `disconnectNow` or the timeout of
  `connectToHost` may reset a slot whose event the other thread is about to
  handle; entries without a connection, or for identifier 0, remain. The slot
  `connectToHost` polls may also have become another connection's by then.
* No packet reaches a peer of a destroyed host: packets appended after the
  thread's last take stay in the list and go to the next host's thread.
* `connectToHost` polls a peer of its own host: a handler that closes and listens
  again in its event loop leaves it with a freed one (enetprotocolbase.cpp:428).
* `disconnected` follows every `connected`: `close` destroys the host without it.
* Nothing logged is lost: messages appended after the last take are not written;
  and a crash of the logger's own thread waits for itself in `stopLogger`.
* A thread may log while `MessageLogger::close` runs: between its reading of the
  pointer and `appendMessage` the logger may be deleted (messagelogger.cpp:76).

## 4. Proofs

Every invariant, action property and refinement that a passing run checks is also
stated by a theorem. The assumptions are those on the constants (section 2) and,
where given, a hypothesis on the environment.

`RUDPReceiverProofs` holds what the modules below share: serial numbers, lists,
the codec and the handlers of the receiver. For every `MaxSN` and `MaxWindow`:

* `NextSerial`: `createSerialNumber` walks through the numbers of consecutive
  stream positions.
* `WindowTestExact`: the window test on numbers decides whether a position lies
  in the window, provided it is within a turn of it.

They rest on division with remainder (`DivMod`, `RemainderUnique`,
`RemainderOfSum`, `RemainderAhead`); `SerialOfUnique` and `AdvanceSerial` carry
them over to serial numbers.

Recursion is a function over the places of a list: `RecursionSolved` says, from
the well-foundedness of the numbers alone, that such a definition has the value
its equation gives. From it come `EncodedEquation` and
`DecodedEquation`, what the codec does with one loss and with one pair, and from
these `EncodedShape` (the body is pairs of a number and a separator, of a
separator and a number) and `DecodedWithin`: each number the reader
puts on its list lies between two that were reported, whatever it takes
for a separator. Facts about lists of any length are proved by the least length
without them (`Induction`).

`NACKReportsProofs`, for every window and every set of losses in it:

* `ReportsStayWithin`: `NothingBeyondReport`.
* `ReportsBeginRight`: `FirstLossesUnderstood`.

Both need that `lost` stays in the window (`LossesInWindow`), so that a report
lists its losses by their places (`ReportByPlace`, `PickedInOrder`). For the
first, `DecodedWithin` gives bounds between numbers; `PlaceBetween` turns them
into bounds between places, since the window does not wrap between two of its
numbers of which the smaller comes first. For the second, as long as losses come
singly the body has a comma behind each and the reader takes them by twos
(`BodyInStep`, `ListInStep`, `SinglesUnderstood`); the first range then adds a
dash and its end at a place where the reader expects them, and the numbers in between
follow each other (`RangeNumbers`, `RangeUnderstood`). `FirstRangeOpens` finds
the beginning of the first range that ends.

`RUDPReceiveWindowProofs`, for every stream and window:

* `WindowCorrect`: `Spec => []WindowInvariant`.
* `DeliveryInOrder`: what was handed over is the beginning of the stream.
* `OnlyDeliveredRefused`: a timely packet is refused exactly when it was
  delivered before.
* `TypeCorrect`: the variables of the window keep their types.
* `ProgressReported`: what the ACK timer has not told the sender it still will.
* `WholeRunsDelivered`: the arrival of the awaited packet delivers it and exactly
  the run behind it that is complete; no other arrival delivers anything.

In-order delivery is not inductive by itself: a cached packet must also be the
one its number stands for. `WindowInvariant` therefore ties the window start and
each cache entry to positions of the stream. A received packet falls under one
of three cases, refused, cached (`CachedPosition`) or first of the window
(`FirstIsNext`), and the run that is then handed over is consecutive because the
cache maps numbers to positions exactly (`DeliverRunPreserves`). These lemmas are
about the receiving half in any composition.
Arrivals are timely by the guard of `Receive`; that the composed system only
produces timely datagrams is a theorem of the next module.

`RUDPTransferProofs`, for every stream, window and range of numbers: types
without a hypothesis, and correctness in two
settings, neither of which contains the other. The first is any number of turns of
the serial numbers under `Orderly`: datagrams may be lost and duplicated but keep
their order, writes do not fail, and no begin, end or unreliable packets are
sent.

* `FlowCorrect`: `Spec => []Flow`, and from it
* `ChannelIsReliable` (`RefinesReliableStream`), `NoPacketForgotten`
  (`NothingForgotten`), `NoPacketStranded` (`NothingStranded`),
  `DatagramsStayTimely` (`DatagramsTimely`), `WindowKept` (`WindowInvariant`).

`Flow` says that there are a first unacknowledged position `a`, a last sent one
`hi` and a list `pos` of positions that the feedback in flight tells, such that
(`Sending`) the window starts at `a`, the packets from `a` to `hi` are those that
wait for an ACK, in this order, and those from `hi + 1` to the last created are
those in the cache; (`Receiving`) the receiver is between `a` and `hi`;
(`InFlight`) a datagram is never a whole window older than one before it or than
what was received; (`Reporting`) `pos` never decreases. The numbers of the lists
can then be read as positions although they turn: the acknowledgement of a
number removes the packets below its position, whether or not the turn lies
between them (`AcknowledgedExact`), and the window reaches the positions
next to `hi` (`FlushedExact`). Each hypothesis of `Orderly` is needed, section 3 has
what happens without it: a late ACK moves the window back, a failed write is
forgotten, begin and end packets bypass the cache, and unreliable packets take
numbers of the stream. `transfer_wrap` is an instance.

The second setting is any network, any failed write and all packets, as long as
the numbers have not turned (`OneTurn`, that is, fewer than 60535 packets):

* `AnyNetworkIsSafe`: `RefinesReliableStream`; `LossesAreReal`: `LossListExact`;
  `EarlyDatagramsTimely`: `DatagramsTimely`; all from `FirstTurnCorrect`:
  `Spec => []FirstTurn`.

There a number is its position, so that the sender's window start is never ahead
of what was delivered, even when it moves back, each datagram and each entry of the lists
carries its own number, and a cached packet is never beyond LRSN.
`transfer_faults` is an instance.

Whatever the network does and however often the numbers turn:

* `TypesKept`: `Spec => []TypeOK`.

Its invariant `TransferTypes` says what the lists, the caches and the datagrams
in flight consist of. What could fail is the sender's loss list, which takes what
it reads from a NACK: by `DecodedWithin` these are serial numbers, as far as the
NACK reported serial numbers. That the refunds to the send buffer can be counted
rests on the caches having finitely many numbers.

`LiveIsReliable` carries all this over to the system with fairness, as the safety
side of `AllDelivered`. `transfer_live`
itself is an instance of neither setting, since its stream has a BeginOrEnd packet
and is as long as its numbers: of `LiveIsReliable` it has only `TypeOK`, and
what it checks beyond that the proofs do not cover.

`SelectSeq` is recursive, and so unknown to the provers; the model filters its
lists with `Picked` (`Selection`), which says the same with cardinalities, and the
lemmas `PickedInterval`, `PickedEntries` and `PickedInOrder` say what it returns.

`RUDPConnectionProofs`, for all bounds on calls, faults and packets in flight:

* `AlwaysTimed`: `Spec => []NeverWithoutTimer`.

The invariant `Timed` adds that a connected channel has checks left: the last
tick of `connectToPeerTimer` stops that timer on a connected channel, which then
has nothing else. One lemma per handler (`ConnectTimerTimed`, `HandshakeTimed`,
...) shows that what it leaves in its own channel is timed, or is a reset one;
`StepTimed` carries that over to both ends, whatever is sent or lost.

* `RangesKept`: `Spec => []TypeOK`.

The part of it that could fail is the identifier that a reset draws: `DrawnFresh`
shows that one nobody holds or sends always exists, since each known identifier
rules out one candidate (`OneLeft`, by the pigeonhole principle), and that what
is known is finite (`KnownFinite`).

* `SessionThroughout` (`SameSession`), `ConnectionKeptAlive` (`KeptAlive`) and
  `ConnectionStaysUp` (`StaysConnected`) for a connection that nothing disturbs:
  no datagram is lost, overtaken or repeated, nobody closes, crashes or sends
  data, and an attempt lasts for more than one tick (`Undisturbed`; two in the
  code). Either end or both may connect, at any time and as often as they like.

`connection_open` is an instance of `Undisturbed`; `ConnectionStaysUp` is the safety
side of the `Established` it checks. Set to one loss, crash or close, or to
reordering, TLC finds each of the three properties violated; with one data
packet, `KeptAlive` and `StaysConnected`: data that reaches an end not yet
connected is answered by a Reset. TLC finds no violation with repeated
datagrams, or with an attempt of one tick, but the proof does not cover them.
The invariant is `Session`:
only identifiers, confirmations and keep-alive packets are in flight and no
channel is ever reset (`Shape`); an end learns its peer's identifier before its
peer confirms (`Led`, in `Attempt`), and the last tick of an attempt finds what
will connect it in flight (`Decided`), which a network that has settled rules
out; some end is active (`Initiative`), and an end whose check is due has heard
of its peer (`Alert`). One lemma per kind of step (`Asking`, `IntroArrives`,
`ConfirmArrives`, `ConfirmAnswered`, `AliveArrives`, `TimersOnly`, `BeatSent`)
preserves it; `Carried` says what such a step leaves in flight.

`TCPBaseProofs`, for every number and size of messages:

* `StreamsAlwaysKept`: both directions implement `ReliableStream`
  (`ServerGetsStream`, `ClientGetsStream`), that is, initial states and every step
  map to those of the abstract stream.
* `TCPTypes`: types, and that a read never runs past what arrived.

That messages are processed in order is not inductive: `StreamInvariant` says
that blocks lie end to end in the stream (`StartsDiffer`: no two begin at the
same place), and that a reader between blocks stands at the start of the block
that comes next, a reader that knows a size behind the size field of that block,
with that size kept in both places (`SizeFound`, `BodyFound`). One lemma per
kind of step (`ReaderStep`, `SendStep`, `ReadyStep`, `QuietStep`) preserves it;
`DeliveryStep` turns a step into a step or stutter of the stream.

* `DataStaysWithinSession` (`DataWithinSession`) and `GoodbyeComesLast`
  (`GoodbyeLast`).

`SessionInvariant` adds that the signals follow the socket's state, and that a
loop which still runs on a closed socket was left by a `processData` that closed
it (`Session`); that a loop leaves less than it waits for when it ends
(`Drained`); and that an end nobody disturbed closes only behind its closed peer
with everything processed, or by a reset for what was left unread there
(`Farewell`). `AllRead` and `BlockEnds` turn "nothing is left to read" into
"every message was processed".

`ENETProtocolBaseProofs`, for any slots and bounds:

* `PacketsHandedInOrder`, `HostOutlivesThread`, `ENETTypes`;
* `PacketsOnOwnConnection`: the action property `OwnConnection`.

`ENETInvariant` adds to the types that the count is 1 exactly while the thread is
in its loop or its last batch, and that a thread that serves, an object that
listens and one that closes have a host, which `close` destroys only while no
thread serves (`Lifetime`, `UsesHostStep`); that the
queues number the packets consecutively (`Queues`); and that a packet waits for its own
connection (`Ownership`): its slot may lose the connection while it waits, but
gets no other one that is connected, since only `enet_host_service` completes a
connection, the thread calls it with an empty batch, and what was queued since
the last take still has its connection then (`OwnershipStep`).

* `RegistryStaysExact`: `RegistryExact`.

`RegistryInvariant` holds while no reset of the application's thread has hit what
the other thread held and no freed memory was used. It follows an identifier from the event that announces it
to the one that ends it, through the windows in which slot, hash and signals
disagree: a connection is in its slot and not yet announced (`Announcing`), out
of its slot and still in the hash (`Gone`), out of the hash and still in its slot
(`Removing`). `EventKnown` and `CallKnown` say what each thread knows of the
connection in its hands, and one lemma per group of steps (`ServiceKnown`,
`EventsKnown`, `CallsKnown`, `AppKnown`) preserves the whole.

`MessageLoggerProofs`, for any threads and messages:

* `LoggerWritesOnceInOrder`, `StoppingFlushes`, and `LoggerTypes`. The invariant
  ties `threadFinished`, `quit` and the place of the thread in `run()` together:
  after the last take the messages due are in the batch or written, and they
  stay written once `close` has given the logger up (`ClosedFlushed`).

Only model-checked is liveness, which with `ENABLED` is outside the prover's
reach: `AllDelivered`, `SenderDrains`, `Established`, `AttemptEnds`,
`DeadPeerNoticed`, `EveryMessageWritten`, `StopEnds`, `EveryMessageProcessed`,
`CloseIsHeard`, `QueuedIsHanded`, `CloseReturns`. For `AllDelivered` and
`Established` the theorems have the safety side (`LiveIsReliable`,
`ConnectionStaysUp`). `DatagramsTimely` in `transfer_live` and in any stream outside
both settings is model-checked as well.

## 5. Not modelled

* `RUDPSocket` and its pool: not in the build; the models give each peer one
  channel. Fragment reassembly, byte sizes, round trip and speed estimates of
  `RUDPChannel`, and its nested event loops (handlers are atomic; suspended
  handlers would each need their locals in the state).
* `PacketsParserBase`, `NetworkManagerBase`: not in the build, and the
  `PacketHandlerBase` they drive is no longer in the repository. The deadlock of
  `aboutToQuit` is listed as a hazard.
* `UDTProtocolBase`: not in the build.
* `JobMonitor`: nothing uses it, so the order of its calls is not in the code.
* `UDPSocket`, multicast, settings, database, plug-ins, users: wrappers of Qt
  calls without a protocol of their own.
* GUI, Windows service and system utilities: widgets and operating system calls;
  they make up most of the source lines outside the vendored libraries.
* `enet/enet`, `udt/udt`, `service/3rdparty`: vendored; ENet is modelled as far
  as `ENETProtocolBase` uses it.
* The data race of two threads inside ENet, and the reading of `m_listening`,
  `m_quit` and `m_threadCount` without synchronisation beyond interleaving.

## 6. Reproducing

    tlc -config transfer_wrap.cfg RUDPTransfer.tla
    tlapm TCPBaseProofs.tla

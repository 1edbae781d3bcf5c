-------------------------------- MODULE TCPBase --------------------------------
(***************************************************************************)
(* One connection between two TCPBase objects (network/tcp): connectToHost *)
(* at the client end, newIncomingConnection at the server end, sendData's  *)
(* blocks cut anywhere by TCP and put together by readSocketdData, and the *)
(* ways to end it.  A byte stream is the list of its blocks with the       *)
(* position of each; a message is its number at its sender.  An object has *)
(* one thread: an event waits until the read loop has returned, a call of  *)
(* the application may also come from inside processData.                  *)
(***************************************************************************)
EXTENDS Integers, Sequences

CONSTANTS
  Word,         \* sizeof(quint32)
  Bodies,       \* possible sizes of a message
  MaxMessages,  \* messages the client sends (bound)
  MaxReplies,   \* messages the server sends (bound)
  Unaligned,    \* what a size read at a wrong position may come out as
  MayBreak      \* the network may fail

ASSUME TCPAssumption ==
  /\ Word \in Nat \ {0} /\ MaxMessages \in Nat /\ MaxReplies \in Nat
  /\ Bodies \subseteq Nat /\ Unaligned \subseteq Nat

End == {"client", "server"}
Peer(e) == IF e = "client" THEN "server" ELSE "client"
Limit(e) == IF e = "client" THEN MaxMessages ELSE MaxReplies
Garbage == 0   \* the message read at a wrong position
Block == [start : Nat, size : Nat]

VARIABLES
  state,          \* QAbstractSocket::state()
  known,          \* the socket is in m_socketsHash
  pendingClose,   \* disconnectFromHost was called while it connects
  listening,      \* the server's QTcpServer listens
  backlog,        \* a connection newIncomingConnection has not taken
  hard,           \* the end was closed by a reset
  broken,         \* the network has failed
  written,        \* blocks sendData wrote
  arrived,        \* bytes of the peer's stream in the socket's buffer so far
  consumed,       \* how many of them were read
  blockSize,      \* m_socketBlockSizeInfoHash (0: no entry)
  nextBlockSize,  \* the variable of readSocketdData
  loop,           \* where readSocketdData is
  processed,      \* messages handed to processData
  announced,      \* signals connected and disconnected emitted
  late,           \* messages processed after disconnected was emitted
  selfClosed,     \* disconnectFromHost was called: "no", "outside" or "inside" processData
  fate            \* "stuck" on the object's own mutex, or "undefined" behaviour

linkVars == <<listening, backlog, broken>>
readVars == <<consumed, nextBlockSize, loop, processed, late>>
vars == <<linkVars, readVars, state, known, pendingClose, hard, written, arrived,
          blockSize, announced, selfClosed, fate>>

(* The length of the stream of blocks w.                                   *)
Total(w) == IF w = <<>> THEN 0 ELSE w[Len(w)].start + Word + w[Len(w)].size

Init ==
  /\ state = [e \in End |-> "unconnected"] /\ known = [e \in End |-> FALSE]
  /\ pendingClose = FALSE /\ listening = TRUE /\ backlog = FALSE /\ broken = FALSE
  /\ hard = [e \in End |-> FALSE] /\ written = [e \in End |-> <<>>]
  /\ arrived = [e \in End |-> 0] /\ consumed = [e \in End |-> 0]
  /\ blockSize = [e \in End |-> 0] /\ nextBlockSize = [e \in End |-> 0]
  /\ loop = [e \in End |-> "idle"]
  /\ processed = [e \in End |-> <<>>] /\ announced = [e \in End |-> <<>>]
  /\ late = [e \in End |-> 0] /\ selfClosed = [e \in End |-> "no"]
  /\ fate = [e \in End |-> "fine"]

Set(f, e, v) == [f EXCEPT ![e] = v]
Idle(e) == fate[e] = "fine" /\ loop[e] = "idle"
Callable(e) == fate[e] = "fine" /\ loop[e] \in {"idle", "callback"}

-----------------------------------------------------------------------------
(* Opening.                                                                *)

ConnectToHost ==
  /\ state["client"] = "unconnected" /\ ~known["client"] /\ Idle("client")
  /\ state' = Set(state, "client", "connecting")
  /\ known' = Set(known, "client", TRUE)
  /\ UNCHANGED <<linkVars, readVars, pendingClose, hard, written, arrived, blockSize,
                 announced, selfClosed, fate>>

(* Mutant: disconnected() is connected twice, as error() is.               *)
PeerDisconnectedTwice(e, signals) ==
  /\ state' = Set(state, e, "closed")
  /\ blockSize' = Set(blockSize, e, 0)
  /\ announced' = Set(announced, e, signals \o <<"disconnected", "disconnected">>)

(* Mutant: nobody is told.                                                 *)
PeerDisconnectedQuietly(e, signals) ==
  /\ state' = Set(state, e, "closed")
  /\ blockSize' = Set(blockSize, e, 0)
  /\ announced' = Set(announced, e, signals)

(* peerDisconnected, after the socket has changed its state.               *)
PeerDisconnected(e, signals) ==
  /\ state' = Set(state, e, "closed")
  /\ blockSize' = Set(blockSize, e, 0)
  /\ announced' = Set(announced, e, signals \o <<"disconnected">>)

(* A connected socket is closed at once, or when its buffer is flushed.    *)
DisconnectSocket(e, signals) ==
  \/ PeerDisconnected(e, signals)
  \/ state' = Set(state, e, "closing") /\ announced' = Set(announced, e, signals)
     /\ UNCHANGED blockSize

(* The handshake: peerConnected at the client, the backlog at the server.  *)
PeerConnected ==
  /\ state["client"] = "connecting" /\ Idle("client") /\ listening /\ ~broken
  /\ backlog' = TRUE
  /\ IF pendingClose
     THEN DisconnectSocket("client", <<"connected">>)
     ELSE /\ state' = Set(state, "client", "connected")
          /\ announced' = Set(announced, "client", <<"connected">>)
          /\ UNCHANGED blockSize
  /\ UNCHANGED <<readVars, listening, broken, known, pendingClose, hard, written, arrived,
                 selfClosed, fate>>

ConnectFails ==
  /\ state["client"] = "connecting" /\ Idle("client")
  /\ broken \/ ~listening
  /\ state' = Set(state, "client", "closed")
  /\ UNCHANGED <<linkVars, readVars, known, pendingClose, hard, written, arrived, blockSize,
                 announced, selfClosed, fate>>

NewIncomingConnection ==
  /\ backlog /\ listening /\ Idle("server")
  /\ backlog' = FALSE
  /\ state' = Set(state, "server", "connected")
  /\ known' = Set(known, "server", TRUE)
  /\ announced' = Set(announced, "server", <<"connected">>)
  /\ UNCHANGED <<readVars, listening, broken, pendingClose, hard, written, arrived, blockSize,
                 selfClosed, fate>>

CloseServer ==
  /\ listening /\ Callable("server")
  /\ listening' = FALSE /\ backlog' = FALSE
  /\ IF backlog
     THEN state' = Set(state, "server", "closed") /\ hard' = Set(hard, "server", TRUE)
     ELSE UNCHANGED <<state, hard>>
  /\ UNCHANGED <<readVars, broken, known, pendingClose, written, arrived, blockSize, announced,
                 selfClosed, fate>>

-----------------------------------------------------------------------------
(* Sending and reading.                                                    *)

(* The block is the size of the rest and the array: its own size and bytes.*)
(* A socket that is not open refuses the write.                            *)
SendData(e) ==
  /\ known[e] /\ Callable(e) /\ state[e] \in {"connecting", "connected", "closing"}
  /\ Len(written[e]) < Limit(e)
  /\ \E n \in Bodies :
       written' = Set(written, e, Append(written[e], [start |-> Total(written[e]), size |-> Word + n]))
  /\ UNCHANGED <<linkVars, readVars, state, known, pendingClose, hard, arrived, blockSize,
                 announced, selfClosed, fate>>

(* Any further part of the peer's stream arrives; readyRead is emitted.    *)
ReadyRead(e) ==
  /\ state[e] = "connected" /\ Idle(e) /\ ~broken
  /\ ~hard[Peer(e)]
  /\ \E n \in arrived[e] + 1 .. Total(written[Peer(e)]) : arrived' = Set(arrived, e, n)
  /\ nextBlockSize' = Set(nextBlockSize, e, blockSize[e])
  /\ loop' = Set(loop, e, "read")
  /\ UNCHANGED <<linkVars, state, known, pendingClose, hard, written, consumed, blockSize,
                 processed, announced, late, selfClosed, fate>>

BytesAvailable(e) == arrived[e] - consumed[e]

SizeKnown(e) == loop[e] = "body" \/ (loop[e] = "read" /\ nextBlockSize[e] # 0)

(* Mutant: one byte more is asked for.                                     *)
MoreThanBlockArrived(e) == BytesAvailable(e) > nextBlockSize[e]

BlockArrived(e) == BytesAvailable(e) >= nextBlockSize[e]

(* The sizes and the bodies found at a position of the peer's stream.      *)
SizesAt(e, p) ==
  LET w == written[Peer(e)]
      there == {k \in DOMAIN w : w[k].start = p}
  IN  IF there = {} THEN Unaligned ELSE {w[k].size : k \in there}
BodiesAt(e, p) ==
  LET w == written[Peer(e)]
      there == {k \in DOMAIN w : w[k].start + Word = p}
  IN  IF there = {} THEN {<<Garbage, n>> : n \in Unaligned} ELSE {<<k, w[k].size>> : k \in there}

(* Mutant: the size is read without a look at bytesAvailable.              *)
ReadSizeBlindly(e) ==
  /\ loop[e] = "read" /\ nextBlockSize[e] = 0 /\ fate[e] = "fine"
  /\ \E n \in SizesAt(e, consumed[e]) :
       nextBlockSize' = Set(nextBlockSize, e, n) /\ blockSize' = Set(blockSize, e, n)
  /\ consumed' = Set(consumed, e, consumed[e] + Word)
  /\ loop' = Set(loop, e, "body")
  /\ UNCHANGED <<linkVars, state, known, pendingClose, hard, written, arrived, processed,
                 announced, late, selfClosed, fate>>

(* Mutant: the size is not kept for the next call.                         *)
ReadSizeOnce(e) ==
  /\ loop[e] = "read" /\ nextBlockSize[e] = 0 /\ fate[e] = "fine"
  /\ BytesAvailable(e) >= Word
  /\ \E n \in SizesAt(e, consumed[e]) : nextBlockSize' = Set(nextBlockSize, e, n)
  /\ consumed' = Set(consumed, e, consumed[e] + Word)
  /\ loop' = Set(loop, e, "body")
  /\ UNCHANGED <<linkVars, state, known, pendingClose, hard, written, arrived, blockSize,
                 processed, announced, late, selfClosed, fate>>

ReadSize(e) ==
  /\ loop[e] = "read" /\ nextBlockSize[e] = 0 /\ fate[e] = "fine"
  /\ BytesAvailable(e) >= Word
  /\ \E n \in SizesAt(e, consumed[e]) :
       nextBlockSize' = Set(nextBlockSize, e, n) /\ blockSize' = Set(blockSize, e, n)
  /\ consumed' = Set(consumed, e, consumed[e] + Word)
  /\ loop' = Set(loop, e, "body")
  /\ UNCHANGED <<linkVars, state, known, pendingClose, hard, written, arrived, processed,
                 announced, late, selfClosed, fate>>

ReadBody(e) ==
  /\ SizeKnown(e) /\ fate[e] = "fine" /\ BlockArrived(e)
  /\ \E b \in BodiesAt(e, consumed[e]) :
       /\ processed' = Set(processed, e, Append(processed[e], b[1]))
       /\ consumed' = Set(consumed, e,
            IF b[2] <= BytesAvailable(e) THEN consumed[e] + b[2] ELSE arrived[e])
  /\ late' = Set(late, e, late[e] + (IF state[e] = "closed" THEN 1 ELSE 0))
  /\ loop' = Set(loop, e, "callback")
  /\ UNCHANGED <<linkVars, state, known, pendingClose, hard, written, arrived, blockSize,
                 nextBlockSize, announced, selfClosed, fate>>

(* Mutant: the kept size stays.                                            *)
ReturnsWithSize(e) ==
  /\ loop[e] = "callback" /\ fate[e] = "fine"
  /\ nextBlockSize' = Set(nextBlockSize, e, 0)
  /\ loop' = Set(loop, e, "read")
  /\ fate' = IF known[e] THEN fate ELSE Set(fate, e, "undefined")
  /\ UNCHANGED <<linkVars, state, known, pendingClose, hard, written, arrived, consumed,
                 blockSize, processed, announced, late, selfClosed>>

(* Mutant: one block a call.                                               *)
ReturnsAndLeaves(e) ==
  /\ loop[e] = "callback" /\ fate[e] = "fine"
  /\ nextBlockSize' = Set(nextBlockSize, e, 0)
  /\ blockSize' = Set(blockSize, e, 0)
  /\ loop' = Set(loop, e, "idle")
  /\ fate' = IF known[e] THEN fate ELSE Set(fate, e, "undefined")
  /\ UNCHANGED <<linkVars, state, known, pendingClose, hard, written, arrived, consumed,
                 processed, announced, late, selfClosed>>

(* processData returns to the loop; its socket may have been deleted.      *)
ProcessDataReturns(e) ==
  /\ loop[e] = "callback" /\ fate[e] = "fine"
  /\ nextBlockSize' = Set(nextBlockSize, e, 0)
  /\ blockSize' = Set(blockSize, e, 0)
  /\ loop' = Set(loop, e, "read")
  /\ fate' = IF known[e] THEN fate ELSE Set(fate, e, "undefined")
  /\ UNCHANGED <<linkVars, state, known, pendingClose, hard, written, arrived, consumed,
                 processed, announced, late, selfClosed>>

LoopBreaks(e) ==
  /\ fate[e] = "fine"
  /\ \/ loop[e] = "read" /\ nextBlockSize[e] = 0 /\ BytesAvailable(e) < Word
     \/ SizeKnown(e) /\ ~BlockArrived(e)
  /\ loop' = Set(loop, e, "idle")
  /\ UNCHANGED <<linkVars, state, known, pendingClose, hard, written, arrived, consumed,
                 blockSize, nextBlockSize, processed, announced, late, selfClosed, fate>>

-----------------------------------------------------------------------------
(* Ending.                                                                 *)

DisconnectFromHost(e) ==
  /\ known[e] /\ Callable(e)
  /\ \/ /\ state[e] = "connecting"
        /\ pendingClose' = TRUE
        /\ UNCHANGED <<state, blockSize, announced, selfClosed>>
     \/ /\ state[e] = "connected"
        /\ DisconnectSocket(e, announced[e])
        /\ selfClosed' = Set(selfClosed, e, IF loop[e] = "callback" THEN "inside" ELSE "outside")
        /\ UNCHANGED pendingClose
  /\ UNCHANGED <<linkVars, readVars, known, hard, written, arrived, fate>>

(* The rest of the write buffer has gone.                                  *)
ClosingEnds(e) ==
  /\ state[e] = "closing" /\ Idle(e)
  /\ PeerDisconnected(e, announced[e])
  /\ UNCHANGED <<linkVars, readVars, known, pendingClose, hard, written, arrived, selfClosed, fate>>

(* abort() holds the mutex peerDisconnected locks, so it never returns     *)
(* from a connected socket; any other socket is deleted.                   *)
Abort(e) ==
  /\ known[e] /\ Callable(e)
  /\ known' = Set(known, e, FALSE)
  /\ state' = Set(state, e, "closed")
  /\ IF state[e] \in {"connected", "closing"}
     THEN hard' = Set(hard, e, TRUE) /\ fate' = Set(fate, e, "stuck")
     ELSE UNCHANGED <<hard, fate>>
  /\ UNCHANGED <<linkVars, readVars, pendingClose, written, arrived, blockSize, announced,
                 selfClosed>>

(* The socket reads the end of the peer's stream, after all of it.         *)
RemoteHostClosed(e) ==
  /\ state[e] = "connected" /\ Idle(e) /\ ~broken
  /\ state[Peer(e)] = "closed" /\ ~hard[Peer(e)]
  /\ arrived[e] = Total(written[Peer(e)])
  /\ DisconnectSocket(e, announced[e])
  /\ UNCHANGED <<linkVars, readVars, known, pendingClose, hard, written, arrived, selfClosed, fate>>

(* A peer that aborted, or closed with bytes it had not read, resets the   *)
(* connection: what is under way may be lost.                              *)
ConnectionReset(e) ==
  /\ state[e] \in {"connected", "closing"} /\ Idle(e) /\ ~broken
  /\ state[Peer(e)] = "closed"
  /\ hard[Peer(e)] \/ arrived[Peer(e)] < Total(written[e])
  /\ PeerDisconnected(e, announced[e])
  /\ UNCHANGED <<linkVars, readVars, known, pendingClose, hard, written, arrived, selfClosed, fate>>

NetworkFails ==
  /\ MayBreak /\ ~broken
  /\ broken' = TRUE
  /\ UNCHANGED <<listening, backlog, readVars, state, known, pendingClose, hard, written, arrived,
                 blockSize, announced, selfClosed, fate>>

(* TCP gives the connection up; it need not, while nothing is sent.        *)
TimesOut(e) ==
  /\ broken /\ state[e] \in {"connected", "closing"} /\ Idle(e)
  /\ PeerDisconnected(e, announced[e])
  /\ hard' = Set(hard, e, TRUE)
  /\ UNCHANGED <<linkVars, readVars, known, pendingClose, written, arrived, selfClosed, fate>>

-----------------------------------------------------------------------------
ReadLoop(e) == ReadSize(e) \/ ReadBody(e) \/ ProcessDataReturns(e) \/ LoopBreaks(e)

Event(e) ==
  \/ ReadyRead(e) \/ ClosingEnds(e) \/ RemoteHostClosed(e) \/ ConnectionReset(e)

Opening == PeerConnected \/ ConnectFails \/ NewIncomingConnection

Call(e) == SendData(e) \/ DisconnectFromHost(e) \/ Abort(e)

Next ==
  \/ ConnectToHost \/ Opening \/ CloseServer \/ NetworkFails
  \/ \E e \in End : ReadLoop(e) \/ Event(e) \/ Call(e) \/ TimesOut(e)

Spec == Init /\ [][Next]_vars

(* The read loop and processData go on, and TCP and the event loop bring   *)
(* what there is to bring; nobody has to call anything.                    *)
FairSpec ==
  /\ Spec /\ WF_vars(Opening)
  /\ \A e \in End : WF_vars(ReadLoop(e)) /\ WF_vars(Event(e))

-----------------------------------------------------------------------------
(* Every variable keeps to its range, and no more is read than arrived.    *)
TypeOK ==
  /\ state \in [End -> {"unconnected", "connecting", "connected", "closing", "closed"}]
  /\ {known, hard} \subseteq [End -> BOOLEAN]
  /\ {pendingClose, listening, backlog, broken} \subseteq BOOLEAN
  /\ written \in [End -> Seq(Block)]
  /\ {arrived, consumed, blockSize, nextBlockSize, late} \subseteq [End -> Nat]
  /\ loop \in [End -> {"idle", "read", "body", "callback"}]
  /\ processed \in [End -> Seq(Nat)]
  /\ announced \in [End -> Seq({"connected", "disconnected"})]
  /\ selfClosed \in [End -> {"no", "outside", "inside"}]
  /\ fate \in [End -> {"fine", "stuck", "undefined"}]
  /\ \A e \in End : consumed[e] <= arrived[e] /\ arrived[e] <= Total(written[Peer(e)])

(* However TCP cuts the streams and whatever processData calls, an end     *)
(* processes the messages its peer sent, in order, each once and complete: *)
(* the size kept across calls of readSocketdData.                          *)
ToServer == INSTANCE ReliableStream WITH
  Stream <- MaxMessages, accepted <- Len(written["client"]), delivered <- processed["server"]
ToClient == INSTANCE ReliableStream WITH
  Stream <- MaxReplies, accepted <- Len(written["server"]), delivered <- processed["client"]
EachEndGetsStream == ToServer!Spec /\ ToClient!Spec

(* A message is processed only between connected and disconnected, each    *)
(* emitted at most once; only an application that closes the connection    *)
(* from inside processData is handed the rest of the buffer after it.      *)
DataWithinSession ==
  \A e \in End :
    /\ announced[e] \in {<<>>, <<"connected">>, <<"connected", "disconnected">>}
    /\ processed[e] # <<>> => announced[e] # <<>>
    /\ late[e] > 0 => selfClosed[e] = "inside"

(* An end that hears of the orderly close of its peer has processed all    *)
(* the peer sent, if it did not close itself and nothing of its own was    *)
(* under way: the socket is read to the end before peerDisconnected.       *)
HeardClose(e) ==
  /\ Len(announced[e]) = 2 /\ selfClosed[e] = "no" /\ ~(e = "client" /\ pendingClose)
  /\ ~broken /\ ~hard[Peer(e)] /\ arrived[Peer(e)] = Total(written[e])
GoodbyeLast ==
  \A e \in End : HeardClose(e) /\ Idle(e) => Len(processed[e]) = Len(written[Peer(e)])

(* An end catches up with what its peer has sent, time and again, unless   *)
(* the connection is closed by either end or fails or a thread is gone:    *)
(* no block is left in the buffer for want of another readyRead.           *)
EveryMessageProcessed ==
  \A e \in End :
    []<>(\/ Len(processed[e]) = Len(written[Peer(e)])
         \/ broken \/ \E x \in End : fate[x] # "fine" \/ state[x] \in {"closing", "closed"})

(* When one end closes, the other emits disconnected, unless the network   *)
(* has failed or its thread is gone.                                       *)
CloseIsHeard ==
  \A e \in End :
    (state[Peer(e)] = "closed" /\ state[e] = "connected")
      ~> (Len(announced[e]) = 2 \/ broken \/ fate[e] # "fine")
=============================================================================

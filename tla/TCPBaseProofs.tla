----------------------------- MODULE TCPBaseProofs -----------------------------
(***************************************************************************)
(* Whatever the sizes of the messages and however the streams are cut, an  *)
(* end processes exactly what its peer sent: TCPBase implements            *)
(* ReliableStream in both directions.                                      *)
(***************************************************************************)
EXTENDS TCPBase, SequenceTheorems, TLAPS

Sent(e) == written[Peer(e)]
Ended(e) == state[e] \in {"closing", "closed"}

(* Where the block after n blocks of w starts, or will start.              *)
StartAfter(w, n) == IF n < Len(w) THEN w[n + 1].start ELSE Total(w)

(* The blocks of a stream follow one another, and none is empty.           *)
Contiguous(w) ==
  /\ w # <<>> => w[1].start = 0
  /\ \A k \in 1 .. Len(w) :
       /\ w[k].size >= Word
       /\ StartAfter(w, k) = w[k].start + Word + w[k].size
  /\ \A j, k \in 1 .. Len(w) : j < k => w[j].start < w[k].start

AtBlock(e) == consumed[e] = StartAfter(Sent(e), Len(processed[e]))

(* The reader is before a block and has no size, or past the size it has.  *)
Aligned(e, size) ==
  \/ size = 0 /\ AtBlock(e)
  \/ /\ Len(processed[e]) < Len(Sent(e))
     /\ size = Sent(e)[Len(processed[e]) + 1].size
     /\ consumed[e] = Sent(e)[Len(processed[e]) + 1].start + Word

InStep(e) ==
  /\ loop[e] = "idle" /\ ~Ended(e) => Aligned(e, blockSize[e])
  /\ loop[e] = "callback" => AtBlock(e)
  /\ loop[e] \in {"read", "body"} =>
       Aligned(e, nextBlockSize[e]) /\ blockSize[e] = nextBlockSize[e]
  /\ loop[e] = "body" => nextBlockSize[e] # 0

InOrder(e) ==
  /\ Len(processed[e]) <= Len(Sent(e))
  /\ \A i \in 1 .. Len(processed[e]) : processed[e][i] = i

(* The server's socket is made from the backlog, the client's before it.   *)
Handshake ==
  /\ backlog => state["server"] = "unconnected"
  /\ backlog \/ state["server"] # "unconnected" =>
       state["client"] \notin {"unconnected", "connecting"}
  /\ known["server"] => state["server"] # "unconnected"

StreamInvariant ==
  /\ TypeOK /\ Handshake
  /\ \A e \in End : Contiguous(written[e]) /\ Len(written[e]) <= Limit(e)
  /\ \A e \in End : InStep(e) /\ InOrder(e)

Places == {"unconnected", "connecting", "connected", "closing", "closed"}

-----------------------------------------------------------------------------
LEMMA PeerFacts ==
  ASSUME NEW e \in End
  PROVE  Peer(e) \in End /\ Peer(e) # e /\ Peer(Peer(e)) = e
  BY DEF End, Peer

LEMMA TotalIsNat ==
  ASSUME NEW w \in Seq(Block)
  PROVE  Total(w) \in Nat
  <1>1. CASE w = <<>> BY <1>1 DEF Total
  <1>2. CASE w # <<>>
    <2>1. w[Len(w)] \in Block BY <1>2
    <2> QED BY <1>2, <2>1, TCPAssumption DEF Total, Block
  <1> QED BY <1>1, <1>2

(* sendData's block starts where the stream ended.                         *)
LEMMA BlockAppended ==
  ASSUME NEW w \in Seq(Block), Contiguous(w), NEW n \in Nat
  PROVE  LET v == Append(w, [start |-> Total(w), size |-> Word + n])
         IN  /\ v \in Seq(Block) /\ Contiguous(v) /\ Len(v) = Len(w) + 1
             /\ Total(w) < Total(v)
             /\ \A k \in 1 .. Len(w) : v[k] = w[k]
             /\ \A k \in 0 .. Len(w) : StartAfter(v, k) = StartAfter(w, k)
  <1> DEFINE b == [start |-> Total(w), size |-> Word + n]
             v == Append(w, b)
  <1>1. Total(w) \in Nat BY TotalIsNat
  <1>2. b \in Block /\ b.start = Total(w) /\ b.size = Word + n
    BY <1>1, TCPAssumption DEF Block
  <1> HIDE DEF b
  <1>3. /\ v \in Seq(Block) /\ Len(v) = Len(w) + 1 /\ v[Len(w) + 1] = b
        /\ \A k \in 1 .. Len(w) : v[k] = w[k]
        /\ Len(w) \in Nat
    BY <1>2, AppendProperties
  <1> HIDE DEF v
  <1>4. Total(v) = Total(w) + Word + (Word + n)
    <2>1. v # <<>> BY <1>3
    <2> QED BY <2>1, <1>2, <1>3 DEF Total
  <1>5. \A k \in 0 .. Len(w) : StartAfter(v, k) = StartAfter(w, k)
    <2> TAKE k \in 0 .. Len(w)
    <2>1. CASE k < Len(w) BY <2>1, <1>3 DEF StartAfter
    <2>2. CASE k = Len(w) BY <2>2, <1>2, <1>3 DEF StartAfter
    <2> QED BY <2>1, <2>2, <1>3
  <1>6. Contiguous(v)
    <2>1. v[1].start = 0
      <3>1. CASE w = <<>> BY <3>1, <1>2, <1>3 DEF Total
      <3>2. CASE w # <<>>
        <4>1. 1 \in 1 .. Len(w) BY <3>2, <1>3
        <4> QED BY <4>1, <3>2, <1>3 DEF Contiguous
      <3> QED BY <3>1, <3>2
    <2>2. ASSUME NEW k \in 1 .. Len(v)
          PROVE  v[k].size >= Word /\ StartAfter(v, k) = v[k].start + Word + v[k].size
      <3>1. CASE k \in 1 .. Len(w)
        <4>1. k \in 0 .. Len(w) /\ v[k] = w[k] BY <3>1, <1>3
        <4> QED BY <3>1, <4>1, <1>5 DEF Contiguous
      <3>2. CASE k = Len(w) + 1
        <4>1. StartAfter(v, k) = Total(v) BY <3>2, <1>3 DEF StartAfter
        <4> QED BY <4>1, <3>2, <1>1, <1>2, <1>3, <1>4, TCPAssumption
      <3> QED BY <3>1, <3>2, <1>3
    <2>3. ASSUME NEW j \in 1 .. Len(v), NEW k \in 1 .. Len(v), j < k
          PROVE  v[j].start < v[k].start
      <3>1. CASE k \in 1 .. Len(w)
        <4>1. j \in 1 .. Len(w) BY <3>1, <2>3
        <4> QED BY <3>1, <4>1, <2>3, <1>3 DEF Contiguous
      <3>2. CASE k = Len(w) + 1
        <4>1. j \in 1 .. Len(w) /\ w # <<>> BY <3>2, <2>3, <1>3
        <4>2. Len(w) \in 1 .. Len(w) /\ w[Len(w)] \in Block /\ w[j] \in Block BY <4>1
        <4>3. w[Len(w)].start < Total(w)
          BY <4>1, <4>2, TCPAssumption DEF Total, Block
        <4>4. w[j].start <= w[Len(w)].start
          <5>1. CASE j = Len(w) BY <5>1, <4>2 DEF Block
          <5>2. CASE j < Len(w) BY SMTT(30), <5>2, <4>1, <4>2 DEF Contiguous, Block
          <5> QED BY <5>1, <5>2, <4>1
        <4> QED BY SMTT(30), <4>1, <4>2, <4>3, <4>4, <3>2, <1>1, <1>2, <1>3 DEF Block
      <3> QED BY <3>1, <3>2, <1>3
    <2> QED BY <2>1, <2>2, <2>3 DEF Contiguous
  <1>7. Total(w) < Total(v) BY <1>1, <1>4, TCPAssumption
  <1> QED BY <1>3, <1>5, <1>6, <1>7 DEF v, b

(* Blocks start in the order of the stream, and none at its end.           *)
LEMMA StartsDiffer ==
  ASSUME NEW w \in Seq(Block), Contiguous(w), NEW j \in 1 .. Len(w), NEW k \in 1 .. Len(w),
         w[j].start = w[k].start
  PROVE  j = k
  <1>1. w[j].start \in Nat /\ w[k].start \in Nat
    <2>1. w[j] \in Block /\ w[k] \in Block OBVIOUS
    <2> QED BY <2>1 DEF Block
  <1>2. j \in Nat /\ k \in Nat OBVIOUS
  <1>3. ~(j < k) /\ ~(k < j) BY <1>1 DEF Contiguous
  <1> QED BY <1>2, <1>3

-----------------------------------------------------------------------------
LEMMA InitStream == Init => StreamInvariant
  <1> SUFFICES ASSUME Init PROVE StreamInvariant OBVIOUS
  <1>1. \A e \in End : written[e] = <<>> /\ processed[e] = <<>> /\ written[Peer(e)] = <<>>
    BY PeerFacts DEF Init
  <1>2. Total(<<>>) = 0 BY DEF Total
  <1>3. TypeOK
    <2>1. written \in [End -> Seq(Block)] BY DEF Init
    <2>2. \A e \in End : consumed[e] <= arrived[e] /\ arrived[e] <= Total(written[Peer(e)])
      BY <1>1, <1>2 DEF Init
    <2>3. /\ processed \in [End -> Seq(Nat)]
          /\ announced \in [End -> Seq({"connected", "disconnected"})]
      BY DEF Init
    <2>4. /\ {arrived, consumed, blockSize, nextBlockSize, late} \subseteq [End -> Nat]
          /\ {known, hard} \subseteq [End -> BOOLEAN]
      BY DEF Init
    <2> QED BY <2>1, <2>2, <2>3, <2>4 DEF Init, TypeOK
  <1>4. \A e \in End : Contiguous(written[e]) /\ Len(written[e]) <= Limit(e)
    BY <1>1, TCPAssumption DEF Contiguous, Limit
  <1>5. \A e \in End : InStep(e) /\ InOrder(e)
    BY <1>1, <1>2 DEF Init, InStep, InOrder, Aligned, AtBlock, StartAfter, Sent
  <1>6. Handshake BY DEF Init, Handshake, End
  <1> QED BY <1>3, <1>4, <1>5, <1>6 DEF StreamInvariant

Signals == Seq({"connected", "disconnected"})

LEMMA DisconnectTypes ==
  ASSUME StreamInvariant, NEW e \in End, NEW signals \in Signals, DisconnectSocket(e, signals)
  PROVE  /\ state' \in [End -> Places] /\ blockSize' \in [End -> Nat]
         /\ announced' \in [End -> Signals]
  <1>1. signals \o <<"disconnected">> \in Signals
    <2>1. <<"disconnected">> \in Signals BY DEF Signals
    <2> QED BY <2>1, ConcatProperties DEF Signals
  <1>2. state \in [End -> Places] /\ blockSize \in [End -> Nat] /\ announced \in [End -> Signals]
    BY DEF StreamInvariant, TypeOK, Signals, Places
  <1> HIDE DEF Signals
  <1>3. CASE PeerDisconnected(e, signals) BY <1>1, <1>2, <1>3 DEF PeerDisconnected, Set, Places
  <1>4. CASE ~PeerDisconnected(e, signals)
    BY <1>2, <1>4 DEF DisconnectSocket, Set, Places
  <1> QED BY <1>3, <1>4

LEMMA SetFlag ==
  ASSUME NEW f \in [End -> BOOLEAN], NEW e \in End, NEW v \in BOOLEAN
  PROVE  Set(f, e, v) \in [End -> BOOLEAN]
  BY Zenon DEF Set

LEMMA FlagStep ==
  ASSUME StreamInvariant, [Next]_vars
  PROVE  known' \in [End -> BOOLEAN] /\ hard' \in [End -> BOOLEAN]
  <1>1. /\ known \in [End -> BOOLEAN] /\ hard \in [End -> BOOLEAN]
        /\ "client" \in End /\ "server" \in End
    BY DEF StreamInvariant, TypeOK, End
  <1>2. CASE ConnectToHost BY <1>1, <1>2, SetFlag DEF ConnectToHost
  <1>3. CASE NewIncomingConnection BY <1>1, <1>3, SetFlag DEF NewIncomingConnection
  <1>4. CASE CloseServer BY <1>1, <1>4, SetFlag, Zenon DEF CloseServer
  <1>5. ASSUME NEW e \in End, Abort(e) \/ TimesOut(e)
        PROVE  known' \in [End -> BOOLEAN] /\ hard' \in [End -> BOOLEAN]
    <2>1. CASE Abort(e) BY <1>1, <2>1, SetFlag, Zenon DEF Abort
    <2>2. CASE TimesOut(e) BY <1>1, <2>2, SetFlag, Zenon DEF TimesOut
    <2> QED BY <1>5, <2>1, <2>2
  <1>6. CASE UNCHANGED <<known, hard>> BY <1>1, <1>6
  <1> QED BY <1>2, <1>3, <1>4, <1>5, <1>6
      DEF vars, Next, PeerConnected, ConnectFails, Opening, NetworkFails, ReadLoop, ReadSize,
          ReadBody, ProcessDataReturns, LoopBreaks, Event, ReadyRead, ClosingEnds,
          RemoteHostClosed, ConnectionReset, Call, SendData, DisconnectFromHost

LEMMA RangeStep ==
  ASSUME StreamInvariant, [Next]_vars
  PROVE  /\ state' \in [End -> Places] /\ announced' \in [End -> Signals]
         /\ blockSize' \in [End -> Nat]
         /\ {pendingClose', listening', backlog', broken'} \subseteq BOOLEAN
         /\ selfClosed' \in [End -> {"no", "outside", "inside"}]
         /\ fate' \in [End -> {"fine", "stuck", "undefined"}]
         /\ loop' \in [End -> {"idle", "read", "body", "callback"}]
  <1> DEFINE Goal == /\ state' \in [End -> Places] /\ announced' \in [End -> Signals]
                     /\ blockSize' \in [End -> Nat]
                     /\ {pendingClose', listening', backlog', broken'} \subseteq BOOLEAN
                     /\ selfClosed' \in [End -> {"no", "outside", "inside"}]
                     /\ fate' \in [End -> {"fine", "stuck", "undefined"}]
                     /\ loop' \in [End -> {"idle", "read", "body", "callback"}]
  <1> USE DEF linkVars, readVars, Set
  <1>1. /\ state \in [End -> Places] /\ announced \in [End -> Signals]
        /\ blockSize \in [End -> Nat]
        /\ {pendingClose, listening, backlog, broken} \subseteq BOOLEAN
        /\ selfClosed \in [End -> {"no", "outside", "inside"}]
        /\ fate \in [End -> {"fine", "stuck", "undefined"}]
        /\ loop \in [End -> {"idle", "read", "body", "callback"}]
        /\ "client" \in End /\ "server" \in End
    BY DEF StreamInvariant, TypeOK, Places, Signals, End
  <1>2. <<"connected">> \in Signals /\ \A e \in End : announced[e] \in Signals
    BY <1>1 DEF Signals
  <1>3. \A e \in End : PeerDisconnected(e, announced[e]) => DisconnectSocket(e, announced[e])
    BY DEF DisconnectSocket
  <1>4. ASSUME NEW e \in End, DisconnectSocket(e, announced[e])
        PROVE  /\ state' \in [End -> Places] /\ blockSize' \in [End -> Nat]
               /\ announced' \in [End -> Signals]
    BY <1>2, <1>4, DisconnectTypes
  <1>5. CASE ConnectToHost BY <1>1, <1>5 DEF ConnectToHost, Places
  <1>6. CASE PeerConnected
    <2>1. CASE pendingClose
      <3>1. DisconnectSocket("client", <<"connected">>) BY <1>6, <2>1 DEF PeerConnected
      <3>2. /\ state' \in [End -> Places] /\ blockSize' \in [End -> Nat]
            /\ announced' \in [End -> Signals]
        BY <3>1, <1>1, <1>2, DisconnectTypes
      <3> QED BY <1>1, <1>6, <3>2 DEF PeerConnected
    <2>2. CASE ~pendingClose BY <1>1, <1>2, <1>6, <2>2 DEF PeerConnected, Places
    <2> QED BY <2>1, <2>2
  <1>7. CASE ConnectFails BY <1>1, <1>7 DEF ConnectFails, Places
  <1>8. CASE NewIncomingConnection BY <1>1, <1>2, <1>8 DEF NewIncomingConnection, Places
  <1>9. CASE CloseServer BY <1>1, <1>9 DEF CloseServer, Places
  <1>10. CASE NetworkFails BY <1>1, <1>10 DEF NetworkFails
  <1>11. ASSUME NEW e \in End, ReadLoop(e) PROVE Goal
    <2>1. CASE ReadSize(e)
      <3>1. PICK n \in SizesAt(e, consumed[e]) : blockSize' = Set(blockSize, e, n)
        BY <2>1 DEF ReadSize
      <3>2. n \in Nat
        <4>1. \A k \in DOMAIN Sent(e) : Sent(e)[k].size \in Nat
          <5>1. Sent(e) \in Seq(Block) BY PeerFacts DEF StreamInvariant, TypeOK, Sent
          <5>2. \A k \in DOMAIN Sent(e) : Sent(e)[k] \in Block BY <5>1
          <5> QED BY <5>2 DEF Block
        <4> QED BY <4>1, TCPAssumption DEF SizesAt, Sent
      <3> QED BY <1>1, <2>1, <3>1, <3>2 DEF ReadSize
    <2>2. CASE ReadBody(e) BY <1>1, <2>2 DEF ReadBody
    <2>3. CASE ProcessDataReturns(e) BY <1>1, <2>3 DEF ProcessDataReturns
    <2>4. CASE LoopBreaks(e) BY <1>1, <2>4 DEF LoopBreaks
    <2> QED BY <1>11, <2>1, <2>2, <2>3, <2>4 DEF ReadLoop
  <1>12. ASSUME NEW e \in End, Event(e) \/ TimesOut(e) PROVE Goal
    <2>1. CASE ReadyRead(e) BY <1>1, <2>1 DEF ReadyRead
    <2>2. CASE ClosingEnds(e) BY <1>1, <1>3, <1>4, <2>2 DEF ClosingEnds
    <2>3. CASE RemoteHostClosed(e) BY <1>1, <1>4, <2>3 DEF RemoteHostClosed
    <2>4. CASE ConnectionReset(e) BY <1>1, <1>3, <1>4, <2>4 DEF ConnectionReset
    <2>5. CASE TimesOut(e) BY <1>1, <1>3, <1>4, <2>5 DEF TimesOut
    <2> QED BY <1>12, <2>1, <2>2, <2>3, <2>4, <2>5 DEF Event
  <1>13. ASSUME NEW e \in End, Call(e) PROVE Goal
    <2>1. CASE SendData(e) BY <1>1, <2>1 DEF SendData
    <2>2. CASE DisconnectFromHost(e)
      <3>1. CASE state[e] = "connecting" BY <1>1, <2>2, <3>1 DEF DisconnectFromHost
      <3>2. CASE state[e] # "connecting"
        <4>1. DisconnectSocket(e, announced[e]) BY <2>2, <3>2 DEF DisconnectFromHost
        <4> QED BY <1>1, <1>4, <2>2, <3>2, <4>1 DEF DisconnectFromHost
      <3> QED BY <3>1, <3>2
    <2>3. CASE Abort(e) BY <1>1, <2>3 DEF Abort, Places
    <2> QED BY <1>13, <2>1, <2>2, <2>3 DEF Call
  <1>14. CASE UNCHANGED vars BY <1>1, <1>14 DEF vars
  <1> QED BY <1>5, <1>6, <1>7, <1>8, <1>9, <1>10, <1>11, <1>12, <1>13, <1>14
      DEF Next, Opening

LEMMA HandshakeStep ==
  ASSUME StreamInvariant, [Next]_vars
  PROVE  Handshake'
  <1> USE DEF linkVars, readVars, Set, Handshake
  <1>1. /\ state \in [End -> Places] /\ known \in [End -> BOOLEAN]
        /\ "client" \in End /\ "server" \in End /\ Handshake
    BY DEF StreamInvariant, TypeOK, Places, End
  <1> DEFINE Closes(e) == /\ UNCHANGED backlog /\ UNCHANGED known
                          /\ state[e] \in {"connecting", "connected", "closing"}
                          /\ \/ state' = [state EXCEPT ![e] = "closing"]
                             \/ state' = [state EXCEPT ![e] = "closed"]
  <1>2. ASSUME NEW e \in End, Closes(e) PROVE Handshake'
    BY <1>1, <1>2 DEF End
  <1>3. CASE ConnectToHost BY <1>1, <1>3 DEF ConnectToHost
  <1>4. CASE PeerConnected
    BY <1>1, <1>4 DEF PeerConnected, DisconnectSocket, PeerDisconnected
  <1>5. CASE ConnectFails BY <1>1, <1>2, <1>5 DEF ConnectFails
  <1>6. CASE NewIncomingConnection BY <1>1, <1>6 DEF NewIncomingConnection
  <1>7. CASE CloseServer BY <1>1, <1>7 DEF CloseServer
  <1>8. CASE UNCHANGED <<backlog, known, state>> BY <1>1, <1>8
  <1>9. ASSUME NEW e \in End, Event(e) \/ TimesOut(e) PROVE Handshake'
    <2>1. CASE ReadyRead(e) BY <1>8, <2>1 DEF ReadyRead
    <2>2. Event(e) \/ TimesOut(e) => ReadyRead(e) \/ Closes(e)
      BY DEF Event, ClosingEnds, RemoteHostClosed, ConnectionReset, TimesOut, DisconnectSocket,
             PeerDisconnected
    <2> QED BY <1>2, <1>9, <2>1, <2>2
  <1>10. ASSUME NEW e \in End, Call(e) PROVE Handshake'
    <2>1. CASE SendData(e) BY <1>8, <2>1 DEF SendData
    <2>2. CASE DisconnectFromHost(e)
      <3>1. UNCHANGED <<backlog, known, state>> \/ Closes(e)
        BY <2>2 DEF DisconnectFromHost, DisconnectSocket, PeerDisconnected
      <3> QED BY <3>1, <1>2, <1>8
    <2>3. CASE Abort(e)
      <3>1. /\ known[e] /\ state' = [state EXCEPT ![e] = "closed"] /\ UNCHANGED backlog
            /\ known' = [known EXCEPT ![e] = FALSE]
        BY <2>3 DEF Abort
      <3>2. CASE e = "client" BY <1>1, <3>1, <3>2
      <3>3. CASE e = "server" BY <1>1, <3>1, <3>3
      <3> QED BY <3>2, <3>3 DEF End
    <2> QED BY <1>10, <2>1, <2>2, <2>3 DEF Call
  <1> QED BY <1>3, <1>4, <1>5, <1>6, <1>7, <1>8, <1>9, <1>10
      DEF vars, Next, Opening, NetworkFails, ReadLoop, ReadSize, ReadBody, ProcessDataReturns,
          LoopBreaks

-----------------------------------------------------------------------------
(* A step that leaves the stream to e and its reader alone; the kept size  *)
(* may be dropped when the connection has ended.                           *)
Quiet(e) ==
  /\ written'[Peer(e)] = written[Peer(e)] /\ arrived'[e] = arrived[e]
  /\ consumed'[e] = consumed[e] /\ processed'[e] = processed[e]
  /\ nextBlockSize'[e] = nextBlockSize[e] /\ loop'[e] = loop[e]
  /\ \/ blockSize'[e] = blockSize[e] /\ (Ended(e) => Ended(e)')
     \/ loop[e] \in {"idle", "callback"} /\ Ended(e)'

LEMMA Moves ==
  ASSUME StreamInvariant, [Next]_vars, NEW e \in End
  PROVE  Quiet(e) \/ SendData(Peer(e)) \/ ReadyRead(e) \/ ReadLoop(e)
  <1> USE DEF linkVars, readVars, Quiet, Ended, Set
  <1>1. /\ Peer(e) \in End /\ "client" \in End /\ "server" \in End
        /\ state \in [End -> Places] /\ blockSize \in [End -> Nat]
        /\ loop \in [End -> {"idle", "read", "body", "callback"}]
        /\ written \in [End -> Seq(Block)]
        /\ arrived \in [End -> Nat] /\ consumed \in [End -> Nat] /\ nextBlockSize \in [End -> Nat]
        /\ processed \in [End -> Seq(Nat)]
    BY PeerFacts DEF StreamInvariant, TypeOK, Places, End
  <1> DEFINE StreamKept == UNCHANGED <<written, arrived, consumed, processed, nextBlockSize, loop>>
  <1>2. ASSUME StreamKept, UNCHANGED blockSize, Ended(e) => Ended(e)' PROVE Quiet(e)
    BY <1>2
  <1>3. ASSUME NEW x \in End, StreamKept, loop[x] \in {"idle", "callback"},
               \/ /\ state' = [state EXCEPT ![x] = "closed"]
                  /\ blockSize' = [blockSize EXCEPT ![x] = 0]
               \/ /\ state' = [state EXCEPT ![x] = "closing"] \/ state' = [state EXCEPT ![x] = "closed"]
                  /\ UNCHANGED blockSize
        PROVE  Quiet(e)
    BY <1>1, <1>3
  <1>4. CASE ConnectToHost BY <1>1, <1>4 DEF ConnectToHost
  <1>5. CASE PeerConnected
    <2>1. CASE pendingClose
      BY <1>1, <1>3, <1>5, <2>1 DEF PeerConnected, DisconnectSocket, PeerDisconnected, Idle
    <2>2. CASE ~pendingClose BY <1>1, <1>5, <2>2 DEF PeerConnected
    <2> QED BY <2>1, <2>2
  <1>6. CASE ConnectFails BY <1>1, <1>3, <1>6 DEF ConnectFails, Idle
  <1>7. CASE NewIncomingConnection
    <2>1. state["server"] = "unconnected"
      BY <1>7 DEF NewIncomingConnection, StreamInvariant, Handshake
    <2> QED BY <1>1, <1>7, <2>1 DEF NewIncomingConnection
  <1>8. CASE CloseServer BY <1>1, <1>2, <1>3, <1>8 DEF CloseServer, Callable
  <1>9. CASE NetworkFails BY <1>1, <1>9 DEF NetworkFails
  <1>10. ASSUME NEW x \in End, ReadLoop(x), x # e PROVE Quiet(e)
    <2>1. CASE ReadSize(x) BY <1>1, <1>10, <2>1 DEF ReadSize
    <2>2. CASE ReadBody(x) BY <1>1, <1>10, <2>2 DEF ReadBody
    <2>3. CASE ProcessDataReturns(x) BY <1>1, <1>10, <2>3 DEF ProcessDataReturns
    <2>4. CASE LoopBreaks(x) BY <1>1, <1>10, <2>4 DEF LoopBreaks
    <2> QED BY <1>10, <2>1, <2>2, <2>3, <2>4 DEF ReadLoop
  <1>11. ASSUME NEW x \in End, Event(x) \/ TimesOut(x), ~(x = e /\ ReadyRead(e)) PROVE Quiet(e)
    <2>1. CASE ReadyRead(x) BY <1>1, <1>11, <2>1 DEF ReadyRead
    <2>2. CASE ClosingEnds(x) BY <1>1, <1>3, <2>2 DEF ClosingEnds, PeerDisconnected, Idle
    <2>3. CASE RemoteHostClosed(x)
      BY <1>1, <1>3, <2>3 DEF RemoteHostClosed, DisconnectSocket, PeerDisconnected, Idle
    <2>4. CASE ConnectionReset(x) BY <1>1, <1>3, <2>4 DEF ConnectionReset, PeerDisconnected, Idle
    <2>5. CASE TimesOut(x) BY <1>1, <1>3, <2>5 DEF TimesOut, PeerDisconnected, Idle
    <2> QED BY <1>11, <2>1, <2>2, <2>3, <2>4, <2>5 DEF Event
  <1>12. ASSUME NEW x \in End, Call(x), ~(x = Peer(e) /\ SendData(x)) PROVE Quiet(e)
    <2>1. CASE SendData(x) BY <1>1, <1>12, <2>1 DEF SendData
    <2>2. CASE DisconnectFromHost(x)
      <3>1. CASE state[x] = "connecting" BY <1>1, <1>2, <2>2, <3>1 DEF DisconnectFromHost
      <3>2. CASE state[x] # "connecting"
        BY <1>1, <1>3, <2>2, <3>2
           DEF DisconnectFromHost, DisconnectSocket, PeerDisconnected, Callable
      <3> QED BY <3>1, <3>2
    <2>3. CASE Abort(x) BY <1>1, <1>3, <2>3 DEF Abort, Callable
    <2> QED BY <1>12, <2>1, <2>2, <2>3 DEF Call
  <1>13. CASE UNCHANGED vars BY <1>2, <1>13 DEF vars
  <1> QED BY <1>4, <1>5, <1>6, <1>7, <1>8, <1>9, <1>10, <1>11, <1>12, <1>13
      DEF Next, Opening

-----------------------------------------------------------------------------
(* What the reader of e finds in the stream of its peer.                   *)
LEMMA StreamFacts ==
  ASSUME StreamInvariant, NEW e \in End
  PROVE  /\ Sent(e) \in Seq(Block) /\ Contiguous(Sent(e)) /\ Len(Sent(e)) \in Nat
         /\ processed[e] \in Seq(Nat) /\ Len(processed[e]) \in Nat
         /\ Len(processed[e]) <= Len(Sent(e))
         /\ Total(Sent(e)) \in Nat
         /\ \A k \in 1 .. Len(Sent(e)) : Sent(e)[k].start \in Nat /\ Sent(e)[k].size \in Nat
         /\ arrived[e] \in Nat /\ consumed[e] \in Nat /\ consumed[e] <= arrived[e]
         /\ arrived[e] <= Total(Sent(e))
         /\ blockSize[e] \in Nat /\ nextBlockSize[e] \in Nat
         /\ InStep(e) /\ InOrder(e)
  <1>1. Sent(e) \in Seq(Block) /\ processed[e] \in Seq(Nat) /\ Peer(e) \in End
    BY PeerFacts DEF StreamInvariant, TypeOK, Sent
  <1>2. \A k \in 1 .. Len(Sent(e)) : Sent(e)[k] \in Block BY <1>1
  <1>3. \A k \in 1 .. Len(Sent(e)) : Sent(e)[k].start \in Nat /\ Sent(e)[k].size \in Nat
    BY <1>2 DEF Block
  <1>4. /\ arrived[e] \in Nat /\ consumed[e] \in Nat /\ consumed[e] <= arrived[e]
        /\ arrived[e] <= Total(Sent(e)) /\ blockSize[e] \in Nat /\ nextBlockSize[e] \in Nat
    BY DEF StreamInvariant, TypeOK, Sent
  <1>5. Contiguous(Sent(e)) /\ InStep(e) /\ InOrder(e)
    BY <1>1 DEF StreamInvariant, Sent
  <1> QED BY <1>1, <1>3, <1>4, <1>5, TotalIsNat DEF InOrder

LEMMA SizeFound ==
  ASSUME StreamInvariant, NEW e \in End, ReadSize(e)
  PROVE  LET n == Len(processed[e]) + 1
         IN  /\ n <= Len(Sent(e)) /\ consumed[e] = Sent(e)[n].start
             /\ SizesAt(e, consumed[e]) = {Sent(e)[n].size}
  <1> DEFINE w == Sent(e)
             n == Len(processed[e]) + 1
  <1>1. /\ w \in Seq(Block) /\ Contiguous(w) /\ n \in Nat /\ n - 1 <= Len(w) /\ Len(w) \in Nat
        /\ arrived[e] <= Total(w) /\ arrived[e] \in Nat /\ consumed[e] \in Nat /\ Total(w) \in Nat
        /\ \A k \in 1 .. Len(w) : w[k].start \in Nat /\ w[k].size \in Nat
    BY StreamFacts
  <1>2. loop[e] = "read" /\ nextBlockSize[e] = 0 /\ arrived[e] - consumed[e] >= Word
    BY DEF ReadSize, BytesAvailable
  <1>3. Aligned(e, 0) BY <1>2, StreamFacts DEF InStep
  <1>4. consumed[e] = StartAfter(w, n - 1)
    <2>1. CASE AtBlock(e) BY <2>1, <1>1 DEF AtBlock
    <2>2. CASE ~AtBlock(e)
      <3>1. n \in 1 .. Len(w) /\ w[n].size = 0 BY <2>2, <1>1, <1>3 DEF Aligned
      <3> QED BY <3>1, <1>1, TCPAssumption DEF Contiguous
    <2> QED BY <2>1, <2>2
  <1>5. n <= Len(w)
    <2>1. CASE n - 1 = Len(w)
      <3>1. consumed[e] = Total(w) BY <1>1, <1>4, <2>1 DEF StartAfter
      <3> QED BY <3>1, <1>1, <1>2, TCPAssumption
    <2> QED BY <2>1, <1>1
  <1>6. consumed[e] = w[n].start BY <1>1, <1>4, <1>5 DEF StartAfter
  <1>7. \A k \in DOMAIN w : w[k].start = consumed[e] <=> k = n
    <2>1. DOMAIN w = 1 .. Len(w) /\ n \in DOMAIN w BY <1>1, <1>5
    <2> HIDE DEF w, n
    <2> QED BY <2>1, <1>1, <1>6, StartsDiffer
  <1>8. n \in DOMAIN w BY <1>1, <1>5
  <1>9. {k \in DOMAIN w : w[k].start = consumed[e]} = {n} BY <1>7, <1>8
  <1>10. SizesAt(e, consumed[e]) = {w[n].size}
    BY <1>9, <1>8 DEF SizesAt, Sent
  <1> QED BY <1>5, <1>6, <1>10

LEMMA BodyFound ==
  ASSUME StreamInvariant, NEW e \in End, ReadBody(e)
  PROVE  LET n == Len(processed[e]) + 1
             z == Sent(e)[n].size
         IN  /\ n <= Len(Sent(e)) /\ consumed[e] = Sent(e)[n].start + Word
             /\ z <= arrived[e] - consumed[e]
             /\ BodiesAt(e, consumed[e]) = {<<n, z>>}
  <1> DEFINE w == Sent(e)
             n == Len(processed[e]) + 1
             z == w[n].size
  <1>1. /\ w \in Seq(Block) /\ Contiguous(w) /\ n \in Nat /\ n - 1 <= Len(w) /\ Len(w) \in Nat
        /\ \A k \in 1 .. Len(w) : w[k].start \in Nat /\ w[k].size \in Nat
    BY StreamFacts
  <1>2. /\ loop[e] \in {"read", "body"} /\ nextBlockSize[e] # 0
        /\ nextBlockSize[e] <= arrived[e] - consumed[e]
    BY StreamFacts DEF ReadBody, SizeKnown, BlockArrived, BytesAvailable, InStep
  <1>3. /\ n <= Len(w) /\ nextBlockSize[e] = z /\ consumed[e] = w[n].start + Word
    BY <1>1, <1>2, StreamFacts DEF InStep, Aligned
  <1>4. n \in DOMAIN w /\ DOMAIN w = 1 .. Len(w) BY <1>1, <1>3
  <1>5. \A k \in DOMAIN w : w[k].start + Word = consumed[e] <=> k = n
    <2>1. ASSUME NEW k \in DOMAIN w, w[k].start + Word = consumed[e] PROVE k = n
      <3>1. w[k].start = w[n].start BY <1>1, <1>3, <1>4, <2>1, TCPAssumption
      <3> HIDE DEF w, n
      <3> QED BY <3>1, <1>1, <1>4, StartsDiffer
    <2> QED BY <2>1, <1>3
  <1>6. {k \in DOMAIN w : w[k].start + Word = consumed[e]} = {n} BY <1>4, <1>5
  <1>7. BodiesAt(e, consumed[e]) = {<<n, z>>}
    BY <1>6 DEF BodiesAt, Sent
  <1> QED BY <1>2, <1>3, <1>7

(* What an end's reader does to its own variables.                         *)
LEMMA ReaderStep ==
  ASSUME StreamInvariant, NEW e \in End, ReadLoop(e)
  PROVE  /\ UNCHANGED <<written, arrived, state>>
         /\ consumed' \in [End -> Nat] /\ nextBlockSize' \in [End -> Nat]
         /\ late' \in [End -> Nat] /\ processed' \in [End -> Seq(Nat)]
         /\ consumed'[e] <= arrived[e]
         /\ \A x \in End \ {e} : consumed'[x] = consumed[x] /\ processed'[x] = processed[x]
         /\ InStep(e)' /\ InOrder(e)'
         /\ \/ processed' = processed
            \/ /\ Len(processed[e]) < Len(Sent(e))
               /\ processed'[e] = Append(processed[e], Len(processed[e]) + 1)
  <1> USE DEF linkVars, readVars, Set
  <1> DEFINE w == Sent(e)
             n == Len(processed[e]) + 1
  <1>1. /\ w \in Seq(Block) /\ Contiguous(w) /\ Len(w) \in Nat /\ n \in Nat /\ n - 1 <= Len(w)
        /\ \A k \in 1 .. Len(w) : w[k].start \in Nat /\ w[k].size \in Nat
        /\ arrived[e] \in Nat /\ consumed[e] \in Nat /\ consumed[e] <= arrived[e]
        /\ processed[e] \in Seq(Nat) /\ InStep(e) /\ InOrder(e)
    BY StreamFacts
  <1>2. /\ consumed \in [End -> Nat] /\ nextBlockSize \in [End -> Nat] /\ late \in [End -> Nat]
        /\ blockSize \in [End -> Nat] /\ processed \in [End -> Seq(Nat)]
        /\ loop \in [End -> {"idle", "read", "body", "callback"}]
    BY DEF StreamInvariant, TypeOK
  <1>3. UNCHANGED <<written, arrived, state>> /\ Sent(e)' = w
    BY DEF ReadLoop, ReadSize, ReadBody, ProcessDataReturns, LoopBreaks, Sent
  <1>4. CASE ReadSize(e)
    <2>1. n <= Len(w) /\ consumed[e] = w[n].start /\ SizesAt(e, consumed[e]) = {w[n].size}
      BY <1>4, SizeFound
    <2>2. /\ nextBlockSize' = [nextBlockSize EXCEPT ![e] = w[n].size]
          /\ blockSize' = [blockSize EXCEPT ![e] = w[n].size]
          /\ consumed' = [consumed EXCEPT ![e] = consumed[e] + Word]
          /\ loop' = [loop EXCEPT ![e] = "body"]
          /\ UNCHANGED <<processed, late>>
          /\ arrived[e] - consumed[e] >= Word
      BY <1>4, <2>1 DEF ReadSize, BytesAvailable
    <2>3. n \in 1 .. Len(w) /\ w[n].size \in Nat /\ w[n].size # 0
      BY <1>1, <2>1, TCPAssumption DEF Contiguous
    <2>4. Aligned(e, nextBlockSize[e])' BY <1>2, <1>3, <2>1, <2>2 DEF Aligned
    <2>5. InStep(e)' BY <1>2, <2>2, <2>3, <2>4 DEF InStep
    <2>6. InOrder(e)' BY <1>1, <1>3, <2>2 DEF InOrder
    <2> QED BY SMTT(30), <1>1, <1>2, <1>3, <2>2, <2>3, <2>5, <2>6, TCPAssumption
  <1>5. CASE ReadBody(e)
    <2> DEFINE z == w[n].size
    <2>1. /\ n <= Len(w) /\ consumed[e] = w[n].start + Word /\ z <= arrived[e] - consumed[e]
          /\ BodiesAt(e, consumed[e]) = {<<n, z>>}
      BY <1>5, BodyFound
    <2>2. /\ processed' = [processed EXCEPT ![e] = Append(processed[e], n)]
          /\ consumed' = [consumed EXCEPT ![e] = consumed[e] + z]
      <3>1. PICK b \in BodiesAt(e, consumed[e]) :
              /\ processed' = [processed EXCEPT ![e] = Append(processed[e], b[1])]
              /\ consumed' = [consumed EXCEPT ![e] =
                   IF b[2] <= arrived[e] - consumed[e] THEN consumed[e] + b[2] ELSE arrived[e]]
        BY <1>5 DEF ReadBody, BytesAvailable
      <3>2. b[1] = n /\ b[2] = z BY <2>1
      <3> QED BY <2>1, <3>1, <3>2
    <2>3. /\ late' \in [End -> Nat] /\ loop' = [loop EXCEPT ![e] = "callback"]
          /\ UNCHANGED nextBlockSize
      BY <1>2, <1>5 DEF ReadBody
    <2>4. n \in 1 .. Len(w) /\ z \in Nat BY <1>1, <2>1
    <2>5. consumed'[e] = w[n].start + Word + z /\ consumed'[e] <= arrived[e]
      <3>1. consumed'[e] = consumed[e] + z BY <1>2, <2>2
      <3> HIDE DEF w, n, z
      <3> QED BY <3>1, <1>1, <2>1, <2>4
    <2>6. /\ processed'[e] = Append(processed[e], n) /\ Len(processed'[e]) = n
          /\ \A i \in 1 .. n : processed'[e][i] = i
      <3>1. processed'[e] = Append(processed[e], n) BY <1>2, <2>2
      <3>2. \A i \in 1 .. n - 1 : processed[e][i] = i BY <1>1 DEF InOrder
      <3> QED BY <3>1, <3>2, <1>1
    <2>7. AtBlock(e)'
      <3>1. StartAfter(w, n) = w[n].start + Word + z BY <1>1, <2>4 DEF Contiguous
      <3> QED BY <3>1, <1>3, <2>5, <2>6 DEF AtBlock
    <2>8. InStep(e)' BY <1>2, <2>3, <2>7 DEF InStep
    <2>9. InOrder(e)' BY <1>3, <2>1, <2>6 DEF InOrder
    <2>10. processed' \in [End -> Seq(Nat)]
      <3>1. Append(processed[e], n) \in Seq(Nat) BY <1>1
      <3> QED BY <3>1, <1>2, <2>2
    <2>11. consumed' \in [End -> Nat]
      <3>1. consumed[e] + z \in Nat BY <1>1, <2>4
      <3> HIDE DEF z
      <3> QED BY <3>1, <1>2, <2>2
    <2> QED BY SMTT(30), <1>1, <1>2, <1>3, <2>1, <2>2, <2>3, <2>5, <2>6, <2>8, <2>9, <2>10, <2>11
  <1>6. CASE ProcessDataReturns(e)
    <2>1. /\ loop[e] = "callback" /\ loop' = [loop EXCEPT ![e] = "read"]
          /\ nextBlockSize' = [nextBlockSize EXCEPT ![e] = 0]
          /\ blockSize' = [blockSize EXCEPT ![e] = 0]
          /\ UNCHANGED <<consumed, processed, late>>
      BY <1>6 DEF ProcessDataReturns
    <2>2. AtBlock(e)' BY <1>1, <1>3, <2>1 DEF InStep, AtBlock
    <2>3. InStep(e)' BY <1>2, <2>1, <2>2 DEF InStep, Aligned
    <2>4. InOrder(e)' BY <1>1, <1>3, <2>1 DEF InOrder
    <2> QED BY <1>1, <1>2, <1>3, <2>1, <2>3, <2>4
  <1>7. CASE LoopBreaks(e)
    <2>1. /\ loop[e] \in {"read", "body"} /\ loop' = [loop EXCEPT ![e] = "idle"]
          /\ UNCHANGED <<consumed, processed, late, nextBlockSize, blockSize>>
      BY <1>7 DEF LoopBreaks, SizeKnown
    <2>2. Aligned(e, blockSize[e]) BY <1>1, <2>1 DEF InStep
    <2>3. Aligned(e, blockSize[e])' BY <1>3, <2>1, <2>2 DEF Aligned, AtBlock
    <2>4. InStep(e)' BY <1>2, <2>1, <2>3 DEF InStep
    <2>5. InOrder(e)' BY <1>1, <1>3, <2>1 DEF InOrder
    <2> QED BY <1>1, <1>2, <1>3, <2>1, <2>4, <2>5
  <1> QED BY <1>4, <1>5, <1>6, <1>7 DEF ReadLoop

-----------------------------------------------------------------------------
(* Everything the preservation of the stream invariant is made of but      *)
(* flags and places.                                                       *)
Streams ==
  /\ written \in [End -> Seq(Block)] /\ processed \in [End -> Seq(Nat)]
  /\ arrived \in [End -> Nat] /\ consumed \in [End -> Nat]
  /\ nextBlockSize \in [End -> Nat] /\ late \in [End -> Nat]
  /\ \A e \in End : consumed[e] <= arrived[e] /\ arrived[e] <= Total(written[Peer(e)])
  /\ \A e \in End : Contiguous(written[e]) /\ Len(written[e]) <= Limit(e)
  /\ \A e \in End : InStep(e) /\ InOrder(e)

LEMMA QuietStep ==
  ASSUME StreamInvariant, NEW e \in End, Quiet(e)
  PROVE  InStep(e)' /\ InOrder(e)'
  <1>1. InStep(e) /\ InOrder(e) BY DEF StreamInvariant
  <1>2. Sent(e)' = Sent(e) BY DEF Quiet, Sent
  <1>3. InOrder(e)' BY <1>1, <1>2 DEF Quiet, InOrder
  <1>4. AtBlock(e)' = AtBlock(e) BY <1>2 DEF Quiet, AtBlock
  <1>5. Aligned(e, blockSize[e]) /\ blockSize'[e] = blockSize[e] => Aligned(e, blockSize[e])'
    BY <1>2, <1>4 DEF Quiet, Aligned
  <1>6. Aligned(e, nextBlockSize[e]) => Aligned(e, nextBlockSize[e])'
    BY <1>2, <1>4 DEF Quiet, Aligned
  <1>7. InStep(e)' BY <1>1, <1>4, <1>5, <1>6 DEF Quiet, InStep
  <1> QED BY <1>3, <1>7

LEMMA SendStep ==
  ASSUME StreamInvariant, [Next]_vars, NEW x \in End, SendData(x)
  PROVE  Streams'
  <1> USE DEF linkVars, readVars, Set
  <1> DEFINE w == written[x]
             e == Peer(x)
  <1>1. e \in End /\ e # x /\ Peer(e) = x BY PeerFacts
  <1>2. PICK n \in Bodies :
          written' = [written EXCEPT ![x] = Append(w, [start |-> Total(w), size |-> Word + n])]
    BY DEF SendData
  <1> DEFINE v == Append(w, [start |-> Total(w), size |-> Word + n])
  <1>3. /\ written \in [End -> Seq(Block)] /\ w \in Seq(Block) /\ Contiguous(w) /\ n \in Nat
        /\ Len(w) < Limit(x) /\ Len(w) \in Nat /\ Limit(x) \in Nat /\ Total(w) \in Nat
    BY TCPAssumption, TotalIsNat DEF StreamInvariant, TypeOK, SendData, Limit
  <1>4. /\ v \in Seq(Block) /\ Contiguous(v) /\ Len(v) = Len(w) + 1 /\ Total(w) < Total(v)
        /\ \A k \in 1 .. Len(w) : v[k] = w[k]
        /\ \A k \in 0 .. Len(w) : StartAfter(v, k) = StartAfter(w, k)
        /\ Total(v) \in Nat
    BY <1>3, BlockAppended, TotalIsNat
  <1> HIDE DEF v
  <1>5. written' = [written EXCEPT ![x] = v] BY <1>2 DEF v
  <1>6. UNCHANGED <<readVars, arrived, state, blockSize>> BY DEF SendData
  <1>7. /\ written' \in [End -> Seq(Block)] /\ written'[x] = v
        /\ \A y \in End \ {x} : written'[y] = written[y]
    BY <1>3, <1>4, <1>5
  <1>8. \A y \in End : Contiguous(written'[y]) /\ Len(written'[y]) <= Limit(y)
    <2>1. Contiguous(written'[x]) /\ Len(written'[x]) <= Limit(x)
      <3>1. Contiguous(written'[x]) BY <1>4, <1>7
      <3>2. Len(written'[x]) = Len(w) + 1 BY <1>4, <1>7
      <3> HIDE DEF w
      <3> QED BY <1>3, <3>1, <3>2
    <2> QED BY <1>7, <2>1 DEF StreamInvariant
  <1>9. ASSUME NEW y \in End
        PROVE  (consumed[y] <= arrived[y] /\ arrived[y] <= Total(written[Peer(y)]))'
    <2>1. /\ consumed[y] <= arrived[y] /\ arrived[y] <= Total(written[Peer(y)])
          /\ arrived[y] \in Nat /\ Peer(y) \in End
      BY PeerFacts DEF StreamInvariant, TypeOK
    <2>2. Total(written[Peer(y)]) <= Total(written'[Peer(y)])
      <3>1. CASE Peer(y) = x BY <3>1, <1>3, <1>4, <1>7
      <3>2. CASE Peer(y) # x
        <4>1. written'[Peer(y)] = written[Peer(y)] BY <2>1, <3>2, <1>7
        <4>2. Total(written[Peer(y)]) \in Nat BY <2>1, TotalIsNat DEF StreamInvariant, TypeOK
        <4> QED BY <4>1, <4>2
      <3> QED BY <3>1, <3>2
    <2>3. Total(written'[Peer(y)]) \in Nat BY <2>1, <1>7, TotalIsNat
    <2>4. Total(written[Peer(y)]) \in Nat BY <2>1, TotalIsNat DEF StreamInvariant, TypeOK
    <2> QED BY <2>1, <2>2, <2>3, <2>4, <1>6
  <1>10. InStep(e)' /\ InOrder(e)'
    <2>1. Sent(e) = w /\ Sent(e)' = v BY <1>1, <1>7 DEF Sent
    <2>2. /\ InStep(e) /\ InOrder(e) /\ Len(processed[e]) \in Nat /\ Len(processed[e]) <= Len(w)
      BY <1>1, <2>1, StreamFacts
    <2>3. Len(processed[e]) < Len(w) => v[Len(processed[e]) + 1] = w[Len(processed[e]) + 1]
      <3> DEFINE k == Len(processed[e]) + 1
      <3>1. k - 1 < Len(w) => k \in 1 .. Len(w) BY <1>3, <2>2
      <3> HIDE DEF k, w
      <3>2. k - 1 < Len(w) => v[k] = w[k] BY <1>4, <3>1
      <3> QED BY <3>2, <2>2 DEF k
    <2>4. InOrder(e)' BY <1>3, <1>4, <1>6, <2>1, <2>2 DEF InOrder
    <2>5. AtBlock(e)' = AtBlock(e) BY <1>3, <1>4, <1>6, <2>1, <2>2 DEF AtBlock
    <2>6. Aligned(e, blockSize[e]) => Aligned(e, blockSize[e])'
      BY <1>3, <1>4, <1>6, <2>1, <2>2, <2>3, <2>5 DEF Aligned
    <2>7. Aligned(e, nextBlockSize[e]) => Aligned(e, nextBlockSize[e])'
      BY <1>3, <1>4, <1>6, <2>1, <2>2, <2>3, <2>5 DEF Aligned
    <2>8. InStep(e)' BY <1>6, <2>2, <2>5, <2>6, <2>7 DEF InStep, Ended
    <2> QED BY <2>4, <2>8
  <1>11. InStep(x)' /\ InOrder(x)'
    <2>1. Peer(x) # x BY PeerFacts
    <2>2. Quiet(x) BY <1>1, <1>6, <1>7, <2>1 DEF Quiet, Ended
    <2> QED BY <2>2, QuietStep
  <1>12. \A y \in End : InStep(y)' /\ InOrder(y)' BY <1>10, <1>11 DEF End, Peer
  <1> HIDE DEF w, e
  <1> QED BY <1>6, <1>7, <1>8, <1>9, <1>12 DEF Streams, StreamInvariant, TypeOK

LEMMA ReadyStep ==
  ASSUME StreamInvariant, [Next]_vars, NEW x \in End, ReadyRead(x)
  PROVE  Streams'
  <1> USE DEF linkVars, readVars, Set
  <1>1. PICK n \in arrived[x] + 1 .. Total(written[Peer(x)]) : arrived' = [arrived EXCEPT ![x] = n]
    BY DEF ReadyRead
  <1>2. /\ state[x] = "connected" /\ loop[x] = "idle"
        /\ nextBlockSize' = [nextBlockSize EXCEPT ![x] = blockSize[x]]
        /\ loop' = [loop EXCEPT ![x] = "read"]
        /\ UNCHANGED <<state, written, consumed, blockSize, processed, late>>
    BY DEF ReadyRead, Idle
  <1>3. /\ arrived \in [End -> Nat] /\ nextBlockSize \in [End -> Nat] /\ blockSize \in [End -> Nat]
        /\ loop \in [End -> {"idle", "read", "body", "callback"}] /\ consumed \in [End -> Nat]
        /\ \A y \in End : consumed[y] <= arrived[y] /\ arrived[y] <= Total(written[Peer(y)])
    BY DEF StreamInvariant, TypeOK
  <1>4. n \in Nat /\ n <= Total(written[Peer(x)]) /\ arrived[x] <= n
    <2>1. Total(written[Peer(x)]) \in Nat /\ arrived[x] \in Nat BY <1>3, StreamFacts DEF Sent
    <2> QED BY <2>1
  <1>5. /\ arrived' \in [End -> Nat] /\ nextBlockSize' \in [End -> Nat]
        /\ \A y \in End : consumed'[y] <= arrived'[y] /\ arrived'[y] <= Total(written'[Peer(y)])
    <2>1. arrived' \in [End -> Nat] /\ nextBlockSize' \in [End -> Nat]
      BY <1>1, <1>2, <1>3, <1>4
    <2>2. consumed'[x] <= arrived'[x] /\ arrived'[x] <= Total(written'[Peer(x)])
      <3>1. consumed[x] \in Nat /\ arrived[x] \in Nat /\ arrived'[x] = n BY <1>1, <1>3
      <3> QED BY <1>2, <1>3, <1>4, <3>1
    <2>3. \A y \in End \ {x} : arrived'[y] = arrived[y] BY <1>1, <1>3
    <2> QED BY <1>2, <1>3, <2>1, <2>2, <2>3
  <1>6. InStep(x)' /\ InOrder(x)'
    <2>1. InStep(x) /\ InOrder(x) BY DEF StreamInvariant
    <2>2. Aligned(x, blockSize[x]) BY <1>2, <2>1 DEF InStep, Ended
    <2>3. Sent(x)' = Sent(x) BY <1>2 DEF Sent
    <2>4. nextBlockSize'[x] = blockSize[x] /\ blockSize'[x] = blockSize[x] /\ loop'[x] = "read"
      BY <1>2, <1>3
    <2>5. Aligned(x, nextBlockSize[x])' BY <1>2, <2>2, <2>3, <2>4 DEF Aligned, AtBlock
    <2>6. InOrder(x)' BY <1>2, <2>1, <2>3 DEF InOrder
    <2>7. InStep(x)' BY <2>4, <2>5 DEF InStep
    <2> QED BY <2>6, <2>7
  <1>7. ASSUME NEW y \in End, y # x PROVE InStep(y)' /\ InOrder(y)'
    <2>1. Quiet(y) BY <1>1, <1>2, <1>3, <1>7 DEF Quiet, Ended
    <2> QED BY <2>1, QuietStep
  <1>8. \A y \in End : InStep(y)' /\ InOrder(y)' BY <1>6, <1>7
  <1> QED BY <1>2, <1>5, <1>8 DEF Streams, StreamInvariant, TypeOK

LEMMA StreamStep ==
  ASSUME StreamInvariant, [Next]_vars
  PROVE  StreamInvariant'
  <1>1. Streams'
    <2>1. ASSUME NEW x \in End, ReadLoop(x) PROVE Streams'
      <3>1. /\ UNCHANGED <<written, arrived, state>>
            /\ consumed' \in [End -> Nat] /\ nextBlockSize' \in [End -> Nat]
            /\ late' \in [End -> Nat] /\ processed' \in [End -> Seq(Nat)]
            /\ consumed'[x] <= arrived[x]
            /\ \A y \in End \ {x} : consumed'[y] = consumed[y]
            /\ InStep(x)' /\ InOrder(x)'
        BY <2>1, ReaderStep
      <3>2. ASSUME NEW y \in End, y # x PROVE InStep(y)' /\ InOrder(y)'
        <4>1. Quiet(y)
          <5>1. /\ loop \in [End -> {"idle", "read", "body", "callback"}]
                /\ blockSize \in [End -> Nat] /\ nextBlockSize \in [End -> Nat]
                /\ processed \in [End -> Seq(Nat)] /\ consumed \in [End -> Nat]
            BY DEF StreamInvariant, TypeOK
          <5> QED BY <5>1, <2>1, <3>1, <3>2
                DEF Quiet, Ended, ReadLoop, ReadSize, ReadBody, ProcessDataReturns, LoopBreaks,
                    Set, linkVars, readVars
        <4> QED BY <4>1, QuietStep
      <3>3. \A y \in End : InStep(y)' /\ InOrder(y)' BY <3>1, <3>2
      <3>4. \A y \in End : consumed'[y] <= arrived'[y]
        BY <3>1 DEF StreamInvariant, TypeOK
      <3> QED BY <3>1, <3>3, <3>4 DEF Streams, StreamInvariant, TypeOK
    <2>2. CASE UNCHANGED <<written, arrived, consumed, nextBlockSize, late, processed>>
               /\ \A x \in End : ~ReadLoop(x) /\ ~ReadyRead(x) /\ ~SendData(x)
      <3>1. \A y \in End : InStep(y)' /\ InOrder(y)' BY <2>2, Moves, QuietStep, PeerFacts
      <3> QED BY <2>2, <3>1 DEF Streams, StreamInvariant, TypeOK
    <2>3. (\A x \in End : ~ReadLoop(x) /\ ~ReadyRead(x) /\ ~SendData(x))
            => UNCHANGED <<written, arrived, consumed, nextBlockSize, late, processed>>
      <3> SUFFICES ASSUME \A x \in End : ~ReadLoop(x) /\ ~ReadyRead(x) /\ ~SendData(x)
                   PROVE  UNCHANGED <<written, arrived, consumed, nextBlockSize, late, processed>>
        OBVIOUS
      <3>1. CASE UNCHANGED vars BY <3>1 DEF vars, readVars
      <3>2. CASE ConnectToHost \/ CloseServer \/ NetworkFails
        BY <3>2 DEF ConnectToHost, CloseServer, NetworkFails, readVars
      <3>3. CASE Opening
        BY <3>3 DEF Opening, PeerConnected, ConnectFails, NewIncomingConnection, readVars
      <3>4. ASSUME NEW x \in End, Event(x) \/ TimesOut(x)
            PROVE  UNCHANGED <<written, arrived, consumed, nextBlockSize, late, processed>>
        BY <3>4 DEF Event, ClosingEnds, RemoteHostClosed, ConnectionReset, TimesOut, readVars
      <3>5. ASSUME NEW x \in End, Call(x)
            PROVE  UNCHANGED <<written, arrived, consumed, nextBlockSize, late, processed>>
        BY <3>5 DEF Call, DisconnectFromHost, Abort, readVars
      <3> HIDE DEF Opening
      <3> QED BY <3>1, <3>2, <3>3, <3>4, <3>5 DEF Next
    <2> QED BY <2>1, <2>2, <2>3, SendStep, ReadyStep
  <1>2. TypeOK' BY <1>1, FlagStep, RangeStep DEF Streams, TypeOK, Places, Signals
  <1>3. Handshake' BY HandshakeStep
  <1> QED BY <1>1, <1>2, <1>3 DEF Streams, StreamInvariant

-----------------------------------------------------------------------------
LEMMA StreamInvariantHolds == Spec => []StreamInvariant
  BY InitStream, StreamStep, PTL DEF Spec

(* Every variable keeps to its range, and no reader takes bytes that have  *)
(* not arrived: the tests of bytesAvailable in readSocketdData.            *)
THEOREM TCPTypes == Spec => []TypeOK
  BY StreamInvariantHolds, PTL DEF StreamInvariant

(* A step of the connection is for each direction a step of ReliableStream *)
(* or none.                                                                *)
LEMMA DeliveryStep ==
  ASSUME StreamInvariant, [Next]_vars, NEW e \in End
  PROVE  \/ UNCHANGED <<Len(Sent(e)), processed[e]>>
         \/ /\ Len(Sent(e))' = Len(Sent(e)) + 1 /\ Len(Sent(e))' <= Limit(Peer(e))
            /\ processed'[e] = processed[e]
         \/ /\ Len(processed[e]) < Len(Sent(e)) /\ Len(Sent(e))' = Len(Sent(e))
            /\ processed'[e] = processed[e] \o [i \in 1 .. 1 |-> Len(processed[e]) + i]
  <1>1. Peer(e) \in End BY PeerFacts
  <1>2. CASE Quiet(e) BY <1>2 DEF Quiet, Sent
  <1>3. CASE ReadyRead(e) BY <1>3 DEF ReadyRead, Sent
  <1>4. CASE SendData(Peer(e))
    <2>1. /\ written \in [End -> Seq(Block)] /\ Len(Sent(e)) \in Nat
          /\ Len(Sent(e)) < Limit(Peer(e)) /\ Limit(Peer(e)) \in Nat
      BY <1>1, <1>4, StreamFacts, TCPAssumption DEF StreamInvariant, TypeOK, SendData, Sent, Limit
    <2>2. PICK b : written' = [written EXCEPT ![Peer(e)] = Append(written[Peer(e)], b)]
      BY <1>4 DEF SendData, Set
    <2>3. written'[Peer(e)] = Append(written[Peer(e)], b) BY <1>1, <2>1, <2>2
    <2>4. Len(written'[Peer(e)]) = Len(written[Peer(e)]) + 1
      <3>1. written[Peer(e)] \in Seq(Block) BY <1>1, <2>1
      <3> QED BY <2>3, <3>1
    <2>5. processed' = processed BY <1>4 DEF SendData, readVars
    <2> QED BY <2>1, <2>4, <2>5 DEF Sent
  <1>5. CASE ReadLoop(e)
    <2>1. /\ written' = written
          /\ \/ processed' = processed
             \/ /\ Len(processed[e]) < Len(Sent(e))
                /\ processed'[e] = Append(processed[e], Len(processed[e]) + 1)
      BY <1>5, ReaderStep
    <2>2. processed[e] \in Seq(Nat) BY StreamFacts
    <2>3. Append(processed[e], Len(processed[e]) + 1)
            = processed[e] \o [i \in 1 .. 1 |-> Len(processed[e]) + i]
      <3> DEFINE n == Len(processed[e])
      <3>1. n \in Nat BY <2>2
      <3>2. [i \in 1 .. 1 |-> n + i] = <<n + 1>> BY <3>1
      <3>3. Append(processed[e], n + 1) = processed[e] \o <<n + 1>>
        BY <2>2, <3>1, AppendIsConcat
      <3> QED BY <3>2, <3>3
    <2> QED BY <2>1, <2>3 DEF Sent
  <1> QED BY <1>2, <1>3, <1>4, <1>5, Moves

(* The server processes what the client sent, in order and once, however   *)
(* the bytes arrive and whatever the application does.                     *)
THEOREM ServerGetsStream == Spec => ToServer!Spec
  <1>1. Init => ToServer!Init BY DEF Init, ToServer!Init, End
  <1>2. StreamInvariant /\ [Next]_vars => [ToServer!Next]_(ToServer!streamVars)
    <2> SUFFICES ASSUME StreamInvariant, [Next]_vars
                 PROVE  [ToServer!Next]_(ToServer!streamVars)
      OBVIOUS
    <2>1. "server" \in End /\ Sent("server") = written["client"] /\ Peer("server") = "client"
          /\ Sent("server")' = written'["client"] /\ Limit("client") = MaxMessages
      BY DEF End, Sent, Peer, Limit
    <2>2. /\ Len(written["client"]) \in Nat /\ Len(processed["server"]) \in Nat
      BY <2>1, StreamFacts
    <2>3. \/ UNCHANGED <<Len(written["client"]), processed["server"]>>
          \/ /\ Len(written'["client"]) = Len(written["client"]) + 1
             /\ Len(written'["client"]) <= MaxMessages
             /\ processed'["server"] = processed["server"]
          \/ /\ Len(processed["server"]) < Len(written["client"])
             /\ Len(written'["client"]) = Len(written["client"])
             /\ processed'["server"]
                  = processed["server"] \o [i \in 1 .. 1 |-> Len(processed["server"]) + i]
      BY <2>1, DeliveryStep
    <2>4. Len(processed["server"]) < Len(written["client"])
            => 1 \in 1 .. Len(written["client"]) - Len(processed["server"])
      BY <2>2
    <2> QED BY <2>2, <2>3, <2>4, TCPAssumption
          DEF ToServer!Next, ToServer!Accept, ToServer!Deliver, ToServer!streamVars
  <1> QED BY <1>1, <1>2, StreamInvariantHolds, PTL DEF Spec, ToServer!Spec

(* The client processes what the server sent, in order and once.           *)
THEOREM ClientGetsStream == Spec => ToClient!Spec
  <1>1. Init => ToClient!Init BY DEF Init, ToClient!Init, End
  <1>2. StreamInvariant /\ [Next]_vars => [ToClient!Next]_(ToClient!streamVars)
    <2> SUFFICES ASSUME StreamInvariant, [Next]_vars
                 PROVE  [ToClient!Next]_(ToClient!streamVars)
      OBVIOUS
    <2>1. "client" \in End /\ Sent("client") = written["server"] /\ Peer("client") = "server"
          /\ Sent("client")' = written'["server"] /\ Limit("server") = MaxReplies
      BY DEF End, Sent, Peer, Limit
    <2>2. /\ Len(written["server"]) \in Nat /\ Len(processed["client"]) \in Nat
      BY <2>1, StreamFacts
    <2>3. \/ UNCHANGED <<Len(written["server"]), processed["client"]>>
          \/ /\ Len(written'["server"]) = Len(written["server"]) + 1
             /\ Len(written'["server"]) <= MaxReplies
             /\ processed'["client"] = processed["client"]
          \/ /\ Len(processed["client"]) < Len(written["server"])
             /\ Len(written'["server"]) = Len(written["server"])
             /\ processed'["client"]
                  = processed["client"] \o [i \in 1 .. 1 |-> Len(processed["client"]) + i]
      BY <2>1, DeliveryStep
    <2>4. Len(processed["client"]) < Len(written["server"])
            => 1 \in 1 .. Len(written["server"]) - Len(processed["client"])
      BY <2>2
    <2> QED BY <2>2, <2>3, <2>4, TCPAssumption
          DEF ToClient!Next, ToClient!Accept, ToClient!Deliver, ToClient!streamVars
  <1> QED BY <1>1, <1>2, StreamInvariantHolds, PTL DEF Spec, ToClient!Spec

(* Both directions of a connection implement ReliableStream, however TCP   *)
(* cuts the streams and whatever processData calls.                        *)
THEOREM StreamsAlwaysKept == Spec => EachEndGetsStream
  BY ServerGetsStream, ClientGetsStream DEF EachEndGetsStream

-----------------------------------------------------------------------------
-----------------------------------------------------------------------------
(* Sessions                                                                *)

Opened == <<"connected">>
Over == <<"connected", "disconnected">>

(* The signals follow the state of the socket.  A loop that still runs on  *)
(* a closed socket was left by a processData that closed it.               *)
Session(e) ==
  /\ state[e] \in {"unconnected", "connecting"} => announced[e] = <<>> /\ loop[e] = "idle"
  /\ state[e] \in {"connected", "closing"} => announced[e] = Opened
  /\ announced[e] \in {<<>>, Opened, Over}
  /\ announced[e] = <<>> => processed[e] = <<>> /\ loop[e] = "idle"
  /\ late[e] > 0 => state[e] = "closed" /\ selfClosed[e] = "inside"
  /\ loop[e] # "idle" /\ state[e] = "closed" /\ fate[e] = "fine" => selfClosed[e] = "inside"

LEMMA SignalFacts ==
  /\ <<>> # Opened /\ <<>> # Over /\ Opened # Over
  /\ Opened \o <<"disconnected">> = Over
  /\ Len(Opened) = 1 /\ Len(Over) = 2
  <1>1. Len(<<>>) = 0 /\ Len(Opened) = 1 /\ Len(Over) = 2 BY DEF Opened, Over
  <1>2. Opened \o <<"disconnected">> = Over
    <2>1. Opened \in Signals BY DEF Opened, Signals
    <2>2. Opened \o <<"disconnected">> = Append(Opened, "disconnected")
      BY <2>1, AppendIsConcat DEF Signals
    <2> DEFINE ended == Append(Opened, "disconnected")
    <2>3. /\ ended \in Signals /\ Len(ended) = 2
          /\ ended[1] = "connected" /\ ended[2] = "disconnected"
      <3>1. Len(Opened) = 1 /\ Opened[1] = "connected" BY DEF Opened
      <3> DEFINE S == {"connected", "disconnected"}
      <3>2. Opened \in Seq(S) /\ "disconnected" \in S BY <2>1 DEF Signals
      <3> HIDE DEF S
      <3>3. /\ ended \in Seq(S) /\ Len(ended) = Len(Opened) + 1
            /\ \A i \in 1 .. Len(Opened) : ended[i] = Opened[i]
            /\ ended[Len(Opened) + 1] = "disconnected"
        BY <3>2, AppendProperties
      <3>4. ended \in Signals BY <3>3 DEF Signals, S
      <3> QED BY <3>1, <3>3, <3>4
    <2>4. Over \in Signals /\ Len(Over) = 2 /\ Over[1] = "connected" /\ Over[2] = "disconnected"
      BY DEF Over, Signals
    <2> HIDE DEF ended
    <2>5. ended = Over
      <3>1. \A i \in 1 .. 2 : ended[i] = Over[i] BY <2>3, <2>4
      <3> QED BY <2>3, <2>4, <3>1, SeqEqual DEF Signals
    <2> QED BY <2>2, <2>5 DEF ended
  <1> QED BY <1>1, <1>2

LEMMA SessionTypes ==
  ASSUME StreamInvariant
  PROVE  /\ state \in [End -> Places] /\ announced \in [End -> Signals]
         /\ loop \in [End -> {"idle", "read", "body", "callback"}]
         /\ processed \in [End -> Seq(Nat)] /\ late \in [End -> Nat]
         /\ selfClosed \in [End -> {"no", "outside", "inside"}]
         /\ fate \in [End -> {"fine", "stuck", "undefined"}]
         /\ "client" \in End /\ "server" \in End
  BY DEF StreamInvariant, TypeOK, Places, Signals, End

(* What a connected socket that is told to disconnect has become.          *)
Disconnecting(e) ==
  /\ \/ state' = [state EXCEPT ![e] = "closed"] /\ announced' = [announced EXCEPT ![e] = Over]
     \/ state' = [state EXCEPT ![e] = "closing"] /\ announced' = [announced EXCEPT ![e] = Opened]

LEMMA Disconnects ==
  ASSUME NEW e, DisconnectSocket(e, Opened)
  PROVE  Disconnecting(e)
  BY SignalFacts DEF DisconnectSocket, PeerDisconnected, Disconnecting, Set

LEMMA Closes ==
  ASSUME NEW e, PeerDisconnected(e, Opened)
  PROVE  /\ state' = [state EXCEPT ![e] = "closed"]
         /\ announced' = [announced EXCEPT ![e] = Over]
  BY SignalFacts DEF PeerDisconnected, Set

(* A step that changes nothing of the session of e.                        *)
Aside(e) ==
  /\ state'[e] = state[e] /\ announced'[e] = announced[e] /\ loop'[e] = loop[e]
  /\ processed'[e] = processed[e] /\ late'[e] = late[e] /\ selfClosed'[e] = selfClosed[e]
  /\ fate'[e] = fate[e]

LEMMA SessionAside ==
  ASSUME NEW e, Session(e), Aside(e)
  PROVE  Session(e)'
  BY DEF Session, Aside

(* The end of the connection, seen by the end that comes to it.            *)
LEMMA EndingStep ==
  ASSUME StreamInvariant, NEW x \in End, Session(x), Event(x) \/ TimesOut(x), ~ReadyRead(x)
  PROVE  Session(x)' /\ \A e \in End \ {x} : Aside(e)
  <1> USE DEF linkVars, readVars
  <1>1. UNCHANGED <<loop, processed, late, selfClosed, fate>> /\ loop[x] = "idle"
    BY DEF Event, TimesOut, ClosingEnds, RemoteHostClosed, ConnectionReset, Idle
  <1>2. state[x] \in {"connected", "closing"}
    BY DEF Event, TimesOut, ClosingEnds, RemoteHostClosed, ConnectionReset
  <1>3. announced[x] = Opened BY <1>2 DEF Session
  <1>4. Disconnecting(x)
    BY <1>3, Disconnects DEF Event, TimesOut, ClosingEnds, RemoteHostClosed, ConnectionReset,
                            DisconnectSocket
  <1> QED BY <1>1, <1>2, <1>3, <1>4, SessionTypes, SignalFacts DEF Disconnecting, Session, Aside

LEMMA ReaderSession ==
  ASSUME StreamInvariant, NEW x \in End, Session(x), ReadLoop(x) \/ ReadyRead(x)
  PROVE  Session(x)' /\ \A e \in End \ {x} : Aside(e)
  <1> USE DEF linkVars, readVars, Set
  <1>1. CASE ReadyRead(x)
    BY <1>1, SessionTypes, SignalFacts DEF ReadyRead, Session, Aside
  <1>2. CASE ReadSize(x)
    BY <1>2, SessionTypes, SignalFacts DEF ReadSize, Session, Aside
  <1>3. CASE ReadBody(x)
    <2>1. /\ UNCHANGED <<state, announced, selfClosed, fate>>
          /\ loop[x] # "idle" /\ loop' = [loop EXCEPT ![x] = "callback"] /\ fate[x] = "fine"
          /\ late' = [late EXCEPT ![x] = late[x] + (IF state[x] = "closed" THEN 1 ELSE 0)]
      BY <1>3 DEF ReadBody, SizeKnown
    <2>2. PICK b : processed' = [processed EXCEPT ![x] = b]
      BY <1>3 DEF ReadBody
    <2> QED BY <2>1, <2>2, SessionTypes, SignalFacts DEF Session, Aside
  <1>4. CASE ProcessDataReturns(x)
    BY <1>4, SessionTypes, SignalFacts DEF ProcessDataReturns, Session, Aside
  <1>5. CASE LoopBreaks(x)
    BY <1>5, SessionTypes, SignalFacts DEF LoopBreaks, Session, Aside
  <1> QED BY <1>1, <1>2, <1>3, <1>4, <1>5 DEF ReadLoop

LEMMA CallSession ==
  ASSUME StreamInvariant, NEW x \in End, Session(x), Call(x)
  PROVE  Session(x)' /\ \A e \in End \ {x} : Aside(e)
  <1> USE DEF linkVars, readVars, Set
  <1>1. CASE SendData(x) BY <1>1, SessionAside DEF SendData, Aside
  <1>2. CASE DisconnectFromHost(x)
    <2>1. CASE state[x] = "connecting"
      BY <1>2, <2>1, SessionAside DEF DisconnectFromHost, Aside
    <2>2. CASE state[x] # "connecting"
      <3>1. state[x] = "connected" BY <1>2, <2>2 DEF DisconnectFromHost
      <3>2. announced[x] = Opened BY <3>1 DEF Session
      <3>3. Disconnecting(x) BY <1>2, <2>2, <3>2, Disconnects DEF DisconnectFromHost
      <3>4. /\ UNCHANGED <<loop, processed, late, fate>> /\ loop[x] \in {"idle", "callback"}
            /\ selfClosed' = [selfClosed EXCEPT ![x] =
                                IF loop[x] = "callback" THEN "inside" ELSE "outside"]
        BY <1>2, <2>2 DEF DisconnectFromHost, Callable
      <3> QED BY <3>1, <3>2, <3>3, <3>4, SessionTypes, SignalFacts
            DEF Disconnecting, Session, Aside
    <2> QED BY <2>1, <2>2
  <1>3. CASE Abort(x)
    BY <1>3, SessionTypes, SignalFacts DEF Abort, Callable, Session, Aside, Places
  <1> QED BY <1>1, <1>2, <1>3 DEF Call

LEMMA OpeningSession ==
  ASSUME StreamInvariant, \A e \in End : Session(e), ConnectToHost \/ Opening \/ CloseServer
  PROVE  \A e \in End : Session(e)'
  <1> USE DEF linkVars, readVars, Set
  <1>1. CASE ConnectToHost
    BY <1>1, SessionTypes, SignalFacts DEF ConnectToHost, Session
  <1>2. CASE PeerConnected
    <2>1. /\ UNCHANGED <<loop, processed, late, selfClosed, fate>> /\ state["client"] = "connecting"
      BY <1>2 DEF PeerConnected
    <2>2. \/ Disconnecting("client")
          \/ /\ state' = [state EXCEPT !["client"] = "connected"]
             /\ announced' = [announced EXCEPT !["client"] = Opened]
      BY <1>2, Disconnects DEF PeerConnected, Opened
    <2> QED BY <2>1, <2>2, SessionTypes, SignalFacts DEF Disconnecting, Session
  <1>3. CASE ConnectFails
    BY <1>3, SessionTypes, SignalFacts DEF ConnectFails, Session
  <1>4. CASE NewIncomingConnection
    <2>1. state["server"] = "unconnected"
      BY <1>4 DEF NewIncomingConnection, StreamInvariant, Handshake
    <2> QED BY <1>4, <2>1, SessionTypes, SignalFacts DEF NewIncomingConnection, Session, Opened
  <1>5. CASE CloseServer
    <2>1. backlog => state["server"] = "unconnected" BY DEF StreamInvariant, Handshake
    <2> QED BY <1>5, <2>1, SessionTypes, SignalFacts DEF CloseServer, Session
  <1> QED BY <1>1, <1>2, <1>3, <1>4, <1>5 DEF Opening

LEMMA SessionStep ==
  ASSUME StreamInvariant, \A e \in End : Session(e), [Next]_vars
  PROVE  \A e \in End : Session(e)'
  <1>1. ASSUME NEW x \in End, ReadLoop(x) \/ Event(x) \/ Call(x) \/ TimesOut(x)
        PROVE  \A e \in End : Session(e)'
    <2>1. Session(x)' /\ \A e \in End \ {x} : Aside(e)
      BY <1>1, EndingStep, ReaderSession, CallSession DEF Event
    <2> QED BY <2>1, SessionAside
  <1>2. CASE UNCHANGED vars \/ NetworkFails
    <2>1. \A e \in End : Aside(e) BY <1>2 DEF vars, readVars, NetworkFails, Aside
    <2> QED BY <2>1, SessionAside
  <1> QED BY <1>1, <1>2, OpeningSession DEF Next

-----------------------------------------------------------------------------
(* The last message                                                        *)

(* The loop leaves less in the buffer than it waits for.                   *)
Drained(e) ==
  loop[e] = "idle" /\ ~Ended(e) =>
    BytesAvailable(e) < (IF blockSize[e] = 0 THEN Word ELSE blockSize[e])

LEMMA DrainedStep ==
  ASSUME StreamInvariant, [Next]_vars, NEW e \in End, Drained(e)
  PROVE  Drained(e)'
  <1> USE DEF linkVars, readVars, Set
  <1>1. CASE Quiet(e) BY <1>1 DEF Quiet, Drained, BytesAvailable, Ended
  <1>2. CASE SendData(Peer(e)) BY <1>2 DEF SendData, Drained, BytesAvailable, Ended
  <1>3. /\ loop \in [End -> {"idle", "read", "body", "callback"}]
        /\ consumed \in [End -> Nat]
    BY DEF StreamInvariant, TypeOK
  <1>4. CASE ReadyRead(e) BY <1>3, <1>4 DEF ReadyRead, Drained
  <1>5. CASE ReadSize(e) \/ ReadBody(e) \/ ProcessDataReturns(e)
    BY <1>3, <1>5 DEF ReadSize, ReadBody, ProcessDataReturns, Drained
  <1>6. CASE LoopBreaks(e)
    <2>1. InStep(e) BY DEF StreamInvariant
    <2>2. loop[e] \in {"read", "body"} BY <1>6 DEF LoopBreaks, SizeKnown
    <2>3. blockSize[e] = nextBlockSize[e] /\ (loop[e] = "body" => nextBlockSize[e] # 0)
      BY <2>1, <2>2 DEF InStep
    <2>4. \/ nextBlockSize[e] = 0 /\ BytesAvailable(e) < Word
          \/ nextBlockSize[e] # 0 /\ ~(BytesAvailable(e) >= nextBlockSize[e])
      BY <1>6, <2>3 DEF LoopBreaks, SizeKnown, BlockArrived
    <2>5. arrived[e] \in Nat /\ consumed[e] \in Nat /\ nextBlockSize[e] \in Nat BY StreamFacts
    <2>6. BytesAvailable(e) < (IF blockSize[e] = 0 THEN Word ELSE blockSize[e])
      BY <2>3, <2>4, <2>5 DEF BytesAvailable
    <2>7. UNCHANGED <<arrived, consumed, blockSize>> BY <1>6 DEF LoopBreaks
    <2> QED BY <2>6, <2>7 DEF Drained, BytesAvailable
  <1> QED BY <1>1, <1>2, <1>4, <1>5, <1>6, Moves DEF ReadLoop

(* A block of a stream ends before the stream does.                        *)
LEMMA BlockEnds ==
  ASSUME NEW w \in Seq(Block), Contiguous(w), NEW k \in 1 .. Len(w)
  PROVE  /\ w[k].start \in Nat /\ w[k].size \in Nat
         /\ w[k].start + Word + w[k].size <= Total(w)
  <1>1. Len(w) \in Nat /\ \A j \in 1 .. Len(w) : w[j] \in Block OBVIOUS
  <1>2. \A j \in 1 .. Len(w) : w[j].start \in Nat /\ w[j].size \in Nat BY <1>1 DEF Block
  <1>3. w[k].start + Word + w[k].size = StartAfter(w, k) BY DEF Contiguous
  <1>4. StartAfter(w, k) <= Total(w)
    <2>1. Total(w) = w[Len(w)].start + Word + w[Len(w)].size BY DEF Total
    <2>2. CASE k = Len(w) BY <1>1, <1>2, <2>1, <2>2, TCPAssumption DEF StartAfter
    <2>3. CASE k < Len(w)
      <3>1. StartAfter(w, k) = w[k + 1].start /\ k + 1 \in 1 .. Len(w) /\ Len(w) \in 1 .. Len(w)
        BY <1>1, <2>3 DEF StartAfter
      <3>2. w[k + 1].start <= w[Len(w)].start
        <4>1. CASE k + 1 = Len(w) BY <1>2, <3>1, <4>1
        <4>2. CASE k + 1 < Len(w)
          <5>1. w[k + 1].start < w[Len(w)].start BY <3>1, <4>2 DEF Contiguous
          <5> QED BY <1>2, <3>1, <5>1
        <4> QED BY <1>1, <2>3, <4>1, <4>2
      <3> QED BY <1>2, <2>1, <3>1, <3>2, TCPAssumption
    <2> QED BY <1>1, <2>2, <2>3
  <1> QED BY <1>2, <1>3, <1>4

(* A reader that has drained a stream that has come to its end has         *)
(* processed all its messages.                                             *)
LEMMA AllRead ==
  ASSUME StreamInvariant, NEW e \in End, Drained(e), loop[e] = "idle", ~Ended(e),
         arrived[e] = Total(Sent(e))
  PROVE  Len(processed[e]) = Len(Sent(e))
  <1> SUFFICES ASSUME Len(processed[e]) # Len(Sent(e)) PROVE FALSE OBVIOUS
  <1> DEFINE w == Sent(e)
             k == Len(processed[e]) + 1
  <1>1. /\ w \in Seq(Block) /\ Contiguous(w) /\ Len(w) \in Nat /\ Len(processed[e]) \in Nat
        /\ Len(processed[e]) <= Len(w) /\ InStep(e) /\ consumed[e] \in Nat /\ blockSize[e] \in Nat
        /\ Total(w) \in Nat /\ Len(processed[e]) # Len(w)
    BY StreamFacts
  <1>2. k \in 1 .. Len(w) /\ Len(processed[e]) < Len(w) BY <1>1
  <1>3. Aligned(e, blockSize[e]) BY <1>1 DEF InStep
  <1>4. \/ blockSize[e] = 0 /\ consumed[e] = w[k].start
        \/ blockSize[e] = w[k].size /\ consumed[e] = w[k].start + Word
    BY <1>2, <1>3 DEF Aligned, AtBlock, StartAfter
  <1>5. Total(w) - consumed[e] < (IF blockSize[e] = 0 THEN Word ELSE blockSize[e])
    BY DEF Drained, BytesAvailable
  <1> HIDE DEF w, k
  <1>6. /\ w[k].start \in Nat /\ w[k].size \in Nat /\ w[k].start + Word + w[k].size <= Total(w)
        /\ w[k].size >= Word
    BY <1>1, <1>2, BlockEnds DEF Contiguous
  <1>7. PICK total \in Nat, start \in Nat, size \in Nat, at \in Nat, word \in Nat :
          /\ total = Total(w) /\ start = w[k].start /\ size = w[k].size /\ at = consumed[e]
          /\ word = Word
    BY <1>1, <1>6, TCPAssumption
  <1>8. start + word + size <= total /\ size >= word BY <1>6, <1>7
  <1>9. CASE blockSize[e] = 0
    <2>1. at = start \/ (size = 0 /\ at = start + word) BY <1>4, <1>7, <1>9
    <2>2. total - at < word BY <1>5, <1>7, <1>9
    <2> QED BY <1>8, <2>1, <2>2
  <1>10. CASE blockSize[e] # 0
    <2>1. at = start + word /\ blockSize[e] = size BY <1>4, <1>7, <1>10
    <2>2. total - at < size BY <1>5, <1>7, <1>10, <2>1
    <2> QED BY <1>8, <2>1, <2>2
  <1> QED BY <1>9, <1>10

(* Nothing has happened to the connection that could cut off e.            *)
Undisturbed(e) ==
  selfClosed[e] = "no" /\ ~(e = "client" /\ pendingClose) /\ ~broken /\ ~hard[Peer(e)]

(* Such an end is told to close by its closed peer, of which it has all,   *)
(* or by a reset, since something of its own was left unread there.        *)
Farewell(e) ==
  Undisturbed(e) /\ (state[e] = "closing" \/ (state[e] = "closed" /\ announced[e] = Over)) =>
    /\ state[Peer(e)] = "closed"
    /\ \/ Len(processed[e]) = Len(Sent(e))
       \/ state[e] = "closed" /\ arrived[Peer(e)] < Total(written[e])

(* A step in which e neither closes nor is told anything.                  *)
Unmoved(e) ==
  /\ state'[e] = state[e] /\ announced'[e] = announced[e]
  /\ selfClosed[e] # "no" => selfClosed'[e] # "no"
  /\ pendingClose => pendingClose'
  /\ broken => broken'
  /\ hard[Peer(e)] => hard'[Peer(e)]
  /\ state[Peer(e)] = "closed" =>
       state'[Peer(e)] = "closed" /\ written'[Peer(e)] = written[Peer(e)]
       /\ arrived'[Peer(e)] = arrived[Peer(e)]
  /\ state[e] = "closed" => written'[e] = written[e]
  /\ processed'[e] = processed[e] \/ Len(processed[e]) < Len(Sent(e))

LEMMA FarewellUnmoved ==
  ASSUME NEW e \in End, Farewell(e), Unmoved(e)
  PROVE  Farewell(e)'
  <1>1. Undisturbed(e)' => Undisturbed(e) BY DEF Undisturbed, Unmoved
  <1>2. state[Peer(e)] = "closed" => Sent(e)' = Sent(e) BY DEF Unmoved, Sent
  <1> QED BY <1>1, <1>2 DEF Farewell, Unmoved

LEMMA FarewellOpening ==
  ASSUME StreamInvariant, \A e \in End : Session(e), NEW e \in End, Farewell(e),
         ConnectToHost \/ Opening \/ CloseServer \/ NetworkFails
  PROVE  Farewell(e)'
  <1> USE DEF linkVars, readVars, Set
  <1>1. /\ e \in {"client", "server"} /\ (Peer(e) = IF e = "client" THEN "server" ELSE "client")
        /\ Session(e)
    BY DEF End, Peer
  <1>2. CASE ConnectToHost
    <2>1. CASE e = "client"
      BY <1>2, <2>1, SessionTypes DEF ConnectToHost, Farewell
    <2>2. CASE e # "client"
      <3>1. Unmoved(e) BY <1>1, <1>2, <2>2, SessionTypes DEF ConnectToHost, Unmoved
      <3> QED BY <3>1, FarewellUnmoved
    <2> QED BY <2>1, <2>2
  <1>3. CASE PeerConnected
    <2>1. \/ /\ state' = [state EXCEPT !["client"] = "connected"]
             /\ announced' = [announced EXCEPT !["client"] = Opened]
          \/ pendingClose /\ Disconnecting("client")
      BY <1>3, Disconnects DEF PeerConnected, Opened
    <2>2. /\ state["client"] = "connecting"
          /\ UNCHANGED <<selfClosed, pendingClose, broken, hard, written, arrived, processed>>
      BY <1>3 DEF PeerConnected
    <2>3. CASE e = "client"
      BY <1>3, <2>1, <2>2, <2>3, SessionTypes DEF Farewell, Undisturbed
    <2>4. CASE e # "client"
      <3>1. Unmoved(e) BY <1>1, <2>1, <2>2, <2>4, SessionTypes DEF Disconnecting, Unmoved
      <3> QED BY <3>1, FarewellUnmoved
    <2> QED BY <2>3, <2>4
  <1>4. CASE ConnectFails
    <2>1. CASE e = "client"
      BY <1>1, <1>4, <2>1, SessionTypes, SignalFacts DEF ConnectFails, Farewell, Session
    <2>2. CASE e # "client"
      <3>1. Unmoved(e) BY <1>1, <1>4, <2>2, SessionTypes DEF ConnectFails, Unmoved
      <3> QED BY <3>1, FarewellUnmoved
    <2> QED BY <2>1, <2>2
  <1>5. CASE NewIncomingConnection
    <2>1. state["server"] = "unconnected"
      BY <1>5 DEF NewIncomingConnection, StreamInvariant, Handshake
    <2>2. CASE e = "server"
      BY <1>5, <2>2, SessionTypes DEF NewIncomingConnection, Farewell
    <2>3. CASE e # "server"
      <3>1. Unmoved(e) BY <1>1, <1>5, <2>1, <2>3, SessionTypes DEF NewIncomingConnection, Unmoved
      <3> QED BY <3>1, FarewellUnmoved
    <2> QED BY <2>2, <2>3
  <1>6. CASE CloseServer
    <2>1. backlog => state["server"] = "unconnected" BY DEF StreamInvariant, Handshake
    <2>2. CASE e = "server" /\ backlog
      BY <1>1, <1>6, <2>1, <2>2, SessionTypes, SignalFacts DEF CloseServer, Farewell, Session
    <2>3. CASE e # "server" \/ ~backlog
      <3>1. hard \in [End -> BOOLEAN] BY DEF StreamInvariant, TypeOK
      <3>2. hard[Peer(e)] => hard'[Peer(e)]
        BY Zenon, <1>6, <2>3, <3>1, PeerFacts DEF CloseServer
      <3>3. Unmoved(e) BY <1>1, <1>6, <2>1, <2>3, <3>2, SessionTypes DEF CloseServer, Unmoved
      <3> QED BY <3>3, FarewellUnmoved
    <2> QED BY <1>1, <2>2, <2>3
  <1>7. CASE NetworkFails
    <2>1. Unmoved(e) BY <1>7 DEF NetworkFails, Unmoved
    <2> QED BY <2>1, FarewellUnmoved
  <1> QED BY <1>2, <1>3, <1>4, <1>5, <1>6, <1>7 DEF Opening

LEMMA FarewellReading ==
  ASSUME StreamInvariant, [Next]_vars, NEW e \in End, Farewell(e),
         NEW x \in End, ReadLoop(x) \/ ReadyRead(x)
  PROVE  Farewell(e)'
  <1> USE DEF linkVars, readVars, Set
  <1>1. CASE ReadLoop(x)
    <2>1. UNCHANGED <<state, announced, selfClosed, pendingClose, broken, hard, written, arrived>>
      BY <1>1 DEF ReadLoop, ReadSize, ReadBody, ProcessDataReturns, LoopBreaks
    <2>2. processed'[e] = processed[e] \/ Len(processed[e]) < Len(Sent(e))
      <3>1. CASE x = e BY <1>1, <3>1, ReaderStep
      <3>2. CASE x # e
        BY <1>1, <3>2, SessionTypes
           DEF ReadLoop, ReadSize, ReadBody, ProcessDataReturns, LoopBreaks
      <3> QED BY <3>1, <3>2
    <2> QED BY <2>1, <2>2, FarewellUnmoved DEF Unmoved
  <1>2. CASE ReadyRead(x)
    <2>1. /\ state[x] = "connected" /\ arrived \in [End -> Nat] /\ Peer(e) \in End
          /\ UNCHANGED <<state, announced, selfClosed, pendingClose, broken, hard, written,
                         processed>>
          /\ \E n : arrived' = [arrived EXCEPT ![x] = n]
      BY <1>2, PeerFacts DEF ReadyRead, StreamInvariant, TypeOK
    <2>2. state[Peer(e)] = "closed" => arrived'[Peer(e)] = arrived[Peer(e)] BY <2>1
    <2> QED BY <2>1, <2>2, FarewellUnmoved DEF Unmoved
  <1> QED BY <1>1, <1>2

LEMMA FarewellEnding ==
  ASSUME StreamInvariant, NEW e \in End, Session(e), Drained(e), Farewell(e),
         NEW x \in End, Event(x) \/ TimesOut(x), ~ReadyRead(x)
  PROVE  Farewell(e)'
  <1> USE DEF linkVars, readVars, Set
  <1>1. /\ state[x] \in {"connected", "closing"} /\ Idle(x)
        /\ UNCHANGED <<selfClosed, pendingClose, broken, written, arrived, processed>>
        /\ hard' = hard \/ hard' = [hard EXCEPT ![x] = TRUE]
    BY DEF Event, TimesOut, ClosingEnds, RemoteHostClosed, ConnectionReset
  <1>2. Peer(e) \in End /\ hard \in [End -> BOOLEAN] BY PeerFacts DEF StreamInvariant, TypeOK
  <1>3. hard[Peer(e)] => hard'[Peer(e)] BY Zenon, <1>1, <1>2
  <1>4. CASE x # e
    <2>1. \E signals : DisconnectSocket(x, signals)
      BY DEF Event, TimesOut, ClosingEnds, RemoteHostClosed, ConnectionReset, DisconnectSocket
    <2>2. state'[e] = state[e] /\ announced'[e] = announced[e]
      BY <1>4, <2>1, SessionTypes DEF DisconnectSocket, PeerDisconnected
    <2>3. state[Peer(e)] = "closed" => state'[Peer(e)] = "closed"
      BY <1>1, <1>2, <2>1, SessionTypes DEF DisconnectSocket, PeerDisconnected
    <2> QED BY <1>1, <1>3, <2>2, <2>3, FarewellUnmoved DEF Unmoved
  <1>5. CASE x = e
    <2>1. state'[Peer(e)] = state[Peer(e)] /\ Sent(e)' = Sent(e) /\ Peer(e) # e
      <3>1. \E signals : DisconnectSocket(e, signals)
        BY <1>5 DEF Event, TimesOut, ClosingEnds, RemoteHostClosed, ConnectionReset,
                    DisconnectSocket
      <3>2. Peer(e) # e BY PeerFacts
      <3> QED BY <1>1, <1>2, <3>1, <3>2, SessionTypes DEF DisconnectSocket, PeerDisconnected, Sent
    <2>2. CASE ClosingEnds(e)
      <3>1. Undisturbed(e)' => Undisturbed(e) BY <1>1, <1>3 DEF Undisturbed
      <3>2. state[e] = "closing" BY <2>2 DEF ClosingEnds
      <3>3. Undisturbed(e) => state[Peer(e)] = "closed" /\ Len(processed[e]) = Len(Sent(e))
        BY <3>2 DEF Farewell
      <3> QED BY <1>1, <2>1, <3>1, <3>3 DEF Farewell
    <2>3. CASE RemoteHostClosed(e)
      <3>1. /\ state[Peer(e)] = "closed" /\ arrived[e] = Total(Sent(e)) /\ loop[e] = "idle"
            /\ ~Ended(e)
        BY <2>3 DEF RemoteHostClosed, Idle, Sent, Ended
      <3>2. Len(processed[e]) = Len(Sent(e)) BY <3>1, AllRead
      <3> QED BY <1>1, <2>1, <3>1, <3>2 DEF Farewell
    <2>4. CASE ConnectionReset(e)
      <3>1. /\ state[Peer(e)] = "closed" /\ hard' = hard
            /\ hard[Peer(e)] \/ arrived[Peer(e)] < Total(written[e])
            /\ PeerDisconnected(e, announced[e])
        BY <2>4 DEF ConnectionReset
      <3>2. state'[e] = "closed" BY <3>1, SessionTypes DEF PeerDisconnected
      <3> QED BY <1>1, <2>1, <3>1, <3>2 DEF Farewell, Undisturbed
    <2>5. CASE TimesOut(e) BY <1>1, <2>5 DEF TimesOut, Farewell, Undisturbed
    <2> QED BY <1>5, <2>2, <2>3, <2>4, <2>5 DEF Event
  <1> QED BY <1>4, <1>5

LEMMA FarewellCall ==
  ASSUME StreamInvariant, NEW e \in End, Session(e), Farewell(e), NEW x \in End, Call(x)
  PROVE  Farewell(e)'
  <1> USE DEF linkVars, readVars, Set
  <1>1. Peer(e) \in End /\ Peer(e) # e BY PeerFacts
  <1>2. CASE SendData(x)
    <2>1. /\ state[x] # "closed" /\ written \in [End -> Seq(Block)]
          /\ \E w : written' = [written EXCEPT ![x] = w]
      BY <1>2 DEF SendData, StreamInvariant, TypeOK
    <2>2. \A y \in End : state[y] = "closed" => written'[y] = written[y] BY <2>1
    <2>3. UNCHANGED <<state, announced, selfClosed, pendingClose, broken, hard, arrived, processed>>
      BY <1>2 DEF SendData
    <2> QED BY <1>1, <2>2, <2>3, FarewellUnmoved DEF Unmoved
  <1>3. CASE DisconnectFromHost(x)
    <2>1. UNCHANGED <<broken, hard, written, arrived, processed>> BY <1>3 DEF DisconnectFromHost
    <2>2. CASE state[x] = "connecting"
      <3>1. UNCHANGED <<state, announced, selfClosed>> /\ pendingClose'
        BY <1>3, <2>2 DEF DisconnectFromHost
      <3> QED BY <2>1, <3>1, FarewellUnmoved DEF Unmoved
    <2>3. CASE state[x] # "connecting"
      <3>1. /\ state[x] = "connected" /\ DisconnectSocket(x, announced[x]) /\ pendingClose' = pendingClose
            /\ selfClosed' = [selfClosed EXCEPT ![x] =
                                IF loop[x] = "callback" THEN "inside" ELSE "outside"]
        BY <1>3, <2>3 DEF DisconnectFromHost
      <3>2. selfClosed'[x] # "no" BY <3>1, SessionTypes
      <3>3. CASE x = e BY <3>2, <3>3 DEF Farewell, Undisturbed
      <3>4. CASE x # e
        <4>1. /\ state'[e] = state[e] /\ announced'[e] = announced[e]
              /\ selfClosed'[e] = selfClosed[e]
              /\ state[Peer(e)] = "closed" => state'[Peer(e)] = "closed"
          BY <1>1, <3>1, <3>4, SessionTypes DEF DisconnectSocket, PeerDisconnected
        <4> QED BY <2>1, <3>1, <4>1, FarewellUnmoved DEF Unmoved
      <3> QED BY <3>3, <3>4
    <2> QED BY <2>2, <2>3
  <1>4. CASE Abort(x)
    <2>1. /\ UNCHANGED <<announced, selfClosed, pendingClose, broken, written, arrived, processed>>
          /\ state' = [state EXCEPT ![x] = "closed"]
          /\ hard' = hard \/ hard' = [hard EXCEPT ![x] = TRUE]
      BY <1>4 DEF Abort
    <2>2. hard \in [End -> BOOLEAN] BY DEF StreamInvariant, TypeOK
    <2>3. hard[Peer(e)] => hard'[Peer(e)] BY Zenon, <1>1, <2>1, <2>2
    <2>4. state[Peer(e)] = "closed" => state'[Peer(e)] = "closed" BY <1>1, <2>1, SessionTypes
    <2>5. CASE x = e /\ state[e] # "closed"
      <3>1. announced[e] # Over
        BY <2>5, SessionTypes, SignalFacts DEF Session, Places
      <3> QED BY <2>1, <2>5, <3>1, SessionTypes DEF Farewell
    <2>6. CASE x # e \/ state[e] = "closed"
      <3>1. state'[e] = state[e] BY <2>1, <2>6, SessionTypes
      <3> QED BY <2>1, <2>3, <2>4, <3>1, FarewellUnmoved DEF Unmoved
    <2> QED BY <2>5, <2>6
  <1> QED BY <1>2, <1>3, <1>4 DEF Call

SessionInvariant ==
  StreamInvariant /\ \A e \in End : Session(e) /\ Drained(e) /\ Farewell(e)

LEMMA InitSession == Init => SessionInvariant
  <1> SUFFICES ASSUME Init, NEW e \in End PROVE Session(e) /\ Drained(e) /\ Farewell(e)
    BY InitStream DEF SessionInvariant
  <1>1. Session(e) BY DEF Init, Session
  <1>2. Drained(e) BY TCPAssumption DEF Init, Drained, BytesAvailable
  <1>3. Farewell(e) BY DEF Init, Farewell
  <1> QED BY <1>1, <1>2, <1>3

LEMMA SessionInvariantStep ==
  ASSUME SessionInvariant, [Next]_vars
  PROVE  SessionInvariant'
  <1>1. StreamInvariant' BY StreamStep DEF SessionInvariant
  <1>2. \A e \in End : Session(e)' BY SessionStep DEF SessionInvariant
  <1>3. \A e \in End : Drained(e)' BY DrainedStep DEF SessionInvariant
  <1>4. ASSUME NEW e \in End PROVE Farewell(e)'
    <2>1. ASSUME NEW x \in End, ReadLoop(x) \/ Event(x) \/ Call(x) \/ TimesOut(x)
          PROVE  Farewell(e)'
      BY <2>1, FarewellReading, FarewellEnding, FarewellCall DEF SessionInvariant
    <2>2. CASE UNCHANGED vars
      <3>1. Unmoved(e) BY <2>2 DEF vars, readVars, linkVars, Unmoved
      <3> QED BY <3>1, FarewellUnmoved DEF SessionInvariant
    <2>3. CASE ConnectToHost \/ Opening \/ CloseServer \/ NetworkFails
      BY <2>3, FarewellOpening DEF SessionInvariant
    <2> QED BY <2>1, <2>2, <2>3 DEF Next
  <1> QED BY <1>1, <1>2, <1>3, <1>4 DEF SessionInvariant

LEMMA SessionInvariantHolds == Spec => []SessionInvariant
  BY InitSession, SessionInvariantStep, PTL DEF Spec

(* connected and disconnected are emitted at most once and in this order,  *)
(* and what is processed lies between them, but for the rest of the buffer *)
(* after a processData that closed the connection.                         *)
THEOREM DataStaysWithinSession == Spec => []DataWithinSession
  <1>1. SessionInvariant => DataWithinSession
    BY DEF SessionInvariant, Session, DataWithinSession, Opened, Over
  <1> QED BY <1>1, SessionInvariantHolds, PTL

(* An end that hears of the orderly close of its peer has processed every  *)
(* message of the peer: readSocketdData runs before peerDisconnected.      *)
THEOREM GoodbyeComesLast == Spec => []GoodbyeLast
  <1>1. SessionInvariant => GoodbyeLast
    <2> SUFFICES ASSUME SessionInvariant, NEW e \in End, HeardClose(e)
                 PROVE  Len(processed[e]) = Len(written[Peer(e)])
      BY DEF GoodbyeLast
    <2>1. Session(e) /\ Farewell(e) BY DEF SessionInvariant
    <2>2. Undisturbed(e) /\ announced[e] = Over
      BY <2>1, SignalFacts DEF HeardClose, Undisturbed, Session
    <2>3. state[e] \notin {"unconnected", "connecting", "connected", "closing"}
          \/ state[e] = "closing"
      BY <2>1, <2>2, SignalFacts DEF Session
    <2>4. state[e] = "closing" \/ state[e] = "closed"
      BY <2>3, SessionTypes DEF SessionInvariant, Places
    <2>5. Total(written[e]) \in Nat /\ arrived[Peer(e)] = Total(written[e])
      BY TotalIsNat DEF HeardClose, SessionInvariant, StreamInvariant, TypeOK
    <2> QED BY <2>1, <2>2, <2>4, <2>5 DEF Farewell, Sent
  <1> QED BY <1>1, SessionInvariantHolds, PTL

=============================================================================

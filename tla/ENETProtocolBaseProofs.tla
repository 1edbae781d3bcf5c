------------------------- MODULE ENETProtocolBaseProofs -------------------------
(***************************************************************************)
(* For any number of slots, connections, packets and hosts: the thread of  *)
(* waitForIO never works on a destroyed host, hands over what sendData     *)
(* queued once and in order, and never to a connection that only got the   *)
(* slot of the right one; and peersHash names the connections that are up. *)
(***************************************************************************)
EXTENDS ENETProtocolBase, SequenceTheorems, TLAPS

Serving == {"sending", "handle", "remove", "check"}
Away == {"finished", "starting", "leaving"}

(* What each thread relies on while the other one runs: the host lives as  *)
(* long as somebody uses it, and a call that found a peer found a host.    *)
Lifetime ==
  /\ io # "undefined" => threadCount = IF io \in Away THEN 0 ELSE 1
  /\ io \in Serving \/ listening \/ closing => host # 0
  /\ closing => ~listening
  /\ host = 0 => DOMAIN peersHash = {} /\ call = None
  /\ host <= listens
  /\ io = "handle" => event \in [type : {"connect", "receive", "disconnect"}, slot : Slots]
  /\ io = "remove" => event \in [type : {"disconnect"}, slot : Slots, id : IDs \ {0}]
  /\ call.step = "append" => accepted < MaxPackets
  /\ call.step = "destroy" => closing /\ io \notin Serving

UsesHost == TypeOK /\ Lifetime

-----------------------------------------------------------------------------
LEMMA InitUsesHost == Init => UsesHost
  <1> SUFFICES ASSUME Init PROVE UsesHost OBVIOUS
  <1> USE ENETAssumption DEF Init, IDs
  <1>1. outgoing \in Seq(Packet) /\ batch \in Seq(Packet) OBVIOUS
  <1>2. peer \in [Slots -> [state : PeerState, id : IDs]]
        /\ \A s \in Slots : (peer[s].state = "free") <=> (peer[s].id = 0)
    BY DEF Free, PeerState
  <1>3. signals \in [IDs \ {0} -> Seq({"connected", "disconnected"})] OBVIOUS
  <1>4. DOMAIN peersHash = {} OBVIOUS
  <1>5. TypeOK
    <2>1. /\ lastID \in IDs /\ dropped \subseteq IDs \ {0} /\ host \in 0 .. MaxListens
          /\ listens \in 0 .. MaxListens /\ accepted \in 0 .. MaxPackets /\ sent \in Nat
      OBVIOUS
    <2>2. DOMAIN peersHash \subseteq IDs /\ \A id \in DOMAIN peersHash : peersHash[id] \in Slots
      BY <1>4
    <2>3. event \in {NoEvent} /\ connecting \in {None} /\ call \in {None}
          /\ threadCount \in 0 .. 1 /\ io = "finished"
      OBVIOUS
    <2>4. listening \in BOOLEAN /\ closing \in BOOLEAN /\ raced \in BOOLEAN OBVIOUS
    <2> HIDE DEF IDs, Init
    <2> QED BY <1>1, <1>2, <1>3, <2>1, <2>2, <2>3, <2>4 DEF TypeOK
  <1>6. Lifetime BY <1>4 DEF Lifetime, Serving, Away, None
  <1> QED BY <1>5, <1>6 DEF UsesHost

(* The steps of the thread of waitForIO.                                   *)
(* A slot whose state changes while it stays in use keeps its type.        *)
LEMMA StateChange ==
  ASSUME NEW s \in Slots, NEW state \in PeerState \ {"free"}, NEW p,
         p \in [Slots -> [state : PeerState, id : IDs]],
         \A x \in Slots : (p[x].state = "free") <=> (p[x].id = 0),
         p[s].state # "free"
  PROVE  LET q == [p EXCEPT ![s].state = state]
         IN  /\ q \in [Slots -> [state : PeerState, id : IDs]]
             /\ \A x \in Slots : (q[x].state = "free") <=> (q[x].id = 0)
  <1>1. [p[s] EXCEPT !.state = state] = [state |-> state, id |-> p[s].id] OBVIOUS
  <1>2. [p[s] EXCEPT !.state = state] \in [state : PeerState, id : IDs] BY <1>1
  <1>3. p[s].id # 0 OBVIOUS
  <1> QED BY <1>1, <1>2, <1>3

LEMMA PeerStateChange ==
  ASSUME UsesHost, NEW s \in Slots, NEW state \in PeerState \ {"free"},
         peer' = [peer EXCEPT ![s].state = state], peer[s].state # "free"
  PROVE  /\ peer' \in [Slots -> [state : PeerState, id : IDs]]
         /\ \A x \in Slots : (peer'[x].state = "free") <=> (peer'[x].id = 0)
  <1>1. /\ peer \in [Slots -> [state : PeerState, id : IDs]]
        /\ \A x \in Slots : (peer[x].state = "free") <=> (peer[x].id = 0)
    BY DEF UsesHost, TypeOK
  <1> HIDE DEF UsesHost
  <1> QED BY <1>1, StateChange

LEMMA IOTypes ==
  ASSUME UsesHost, IOStep
  PROVE  UsesHost'
  <1> USE ENETAssumption DEF UsesHost, TypeOK, Lifetime, Serving, Away, queueVars, peerVars,
                             hostVars, raceVars, IDs, NoEvent, None
  <1>1. CASE EnterWaitForIO BY <1>1 DEF EnterWaitForIO
  <1>2. CASE TakePackets
    <2>1. outgoing' \in Seq(Packet) /\ batch' \in Seq(Packet) BY <1>2 DEF TakePackets
    <2> QED BY <1>2, <2>1 DEF TakePackets
  <1>3. CASE SendPacket
    <2>1. batch # <<>> => Tail(batch) \in Seq(Packet) BY HeadTailProperties
    <2>2. CASE Head(batch).host = host
      <3>1. sent' \in Nat BY <1>3, <2>2 DEF SendPacket
      <3>2. batch' \in Seq(Packet) BY <1>3, <2>1, <2>2 DEF SendPacket
      <3> QED BY SMTT(30), <1>3, <2>2, <3>1, <3>2 DEF SendPacket
    <2>3. CASE Head(batch).host # host BY SMTT(30), <1>3, <2>3 DEF SendPacket
    <2> QED BY <2>2, <2>3
  <1>4. CASE Service
    <2>1. ASSUME NEW s \in Slots, PeerConnects(s) PROVE UsesHost'
      <3>1. peer' = [peer EXCEPT ![s].state = "connected"] /\ peer[s].state # "free"
        BY <2>1 DEF PeerConnects
      <3>2. /\ peer' \in [Slots -> [state : PeerState, id : IDs]]
            /\ \A x \in Slots : (peer'[x].state = "free") <=> (peer'[x].id = 0)
        <4> HIDE DEF UsesHost, TypeOK, Lifetime
        <4> QED BY <3>1, PeerStateChange DEF PeerState
      <3>3. event' \in [type : {"connect"}, slot : Slots] /\ io' = "handle" /\ lastID' = lastID
        BY <2>1 DEF PeerConnects, Delivers
      <3> QED BY SMTT(30), <1>4, <3>2, <3>3 DEF Service
    <2>2. ASSUME NEW s \in Slots, PeerIsAccepted(s) PROVE UsesHost'
      BY <1>4, <2>2 DEF Service, PeerIsAccepted, Delivers, PeerState
    <2>3. ASSUME NEW s \in Slots, PacketIsReceived(s) PROVE UsesHost'
      BY <1>4, <2>3 DEF Service, PacketIsReceived, Delivers, PeerState
    <2>4. ASSUME NEW s \in Slots, PeerIsGone(s) PROVE UsesHost'
      BY <1>4, <2>4 DEF Service, PeerIsGone, Delivers, PeerState, Free
    <2>5. ASSUME NEW s \in Slots, PeerLeaves(s) PROVE UsesHost'
      <3>1. peer' = [peer EXCEPT ![s].state = "disconnecting"] /\ peer[s].state # "free"
        BY <2>5 DEF PeerLeaves
      <3>2. /\ peer' \in [Slots -> [state : PeerState, id : IDs]]
            /\ \A x \in Slots : (peer'[x].state = "free") <=> (peer'[x].id = 0)
        <4> HIDE DEF UsesHost, TypeOK, Lifetime
        <4> QED BY <3>1, PeerStateChange DEF PeerState
      <3>3. event' = event /\ io' = "loop" /\ lastID' = lastID BY <2>5 DEF PeerLeaves
      <3> QED BY SMTT(30), <1>4, <3>2, <3>3 DEF Service
    <2>6. CASE NoEventYet BY <1>4, <2>6 DEF Service, NoEventYet
    <2> QED BY <1>4, <2>1, <2>2, <2>3, <2>4, <2>5, <2>6 DEF Service
  <1>5. CASE NoMoreEvents BY <1>5 DEF NoMoreEvents, NoEventYet
  <1>6. ASSUME NEW s \in Slots, CheckEvents(s) PROVE UsesHost'
    <2>1. CASE PacketIsReceived(s) BY SMTT(30), <1>6, <2>1 DEF CheckEvents, PacketIsReceived, Delivers
    <2>2. CASE PeerIsGone(s) BY <1>6, <2>2 DEF CheckEvents, PeerIsGone, Delivers, PeerState, Free
    <2> QED BY <1>6, <2>1, <2>2 DEF CheckEvents
  <1>7. CASE HandleConnect
    <2>1. event.slot \in Slots /\ peer[event.slot].id \in IDs BY <1>7 DEF HandleConnect
    <2>2. signals' \in [IDs \ {0} -> Seq({"connected", "disconnected"})]
      BY <1>7, <2>1, AppendProperties DEF HandleConnect, Emitted
    <2> QED BY SMTT(30), <1>7, <2>1, <2>2 DEF HandleConnect
  <1>8. CASE HandleReceive BY <1>8 DEF HandleReceive
  <1>9. CASE HandleDisconnect BY SMTT(30), <1>9 DEF HandleDisconnect, KeysOf
  <1>10. CASE RemoveDisconnected
    <2>1. event.id \in IDs \ {0} BY <1>10 DEF RemoveDisconnected
    <2>2. signals' \in [IDs \ {0} -> Seq({"connected", "disconnected"})]
      BY <1>10, <2>1, AppendProperties DEF RemoveDisconnected, Emitted
    <2> QED BY SMTT(30), <1>10, <2>1, <2>2 DEF RemoveDisconnected, Without
  <1>11. CASE LeaveWaitForIO BY <1>11 DEF LeaveWaitForIO
  <1>12. CASE ThreadFinishes BY <1>12 DEF ThreadFinishes
  <1> QED BY <1>1, <1>2, <1>3, <1>4, <1>5, <1>6, <1>7, <1>8, <1>9, <1>10, <1>11, <1>12 DEF IOStep

(* The steps of the application's thread.                                  *)
LEMMA CallTypes ==
  ASSUME UsesHost, CallStep
  PROVE  UsesHost'
  <1> USE ENETAssumption DEF UsesHost, TypeOK, Lifetime, Serving, Away, queueVars, peerVars,
                             hostVars, ioVars, raceVars, IDs, None
  <1>1. CASE AppendPacket
    <2>1. /\ call \in [step : {"append"}, id : IDs, slot : Slots] /\ host \in 1 .. MaxListens
          /\ accepted + 1 \in 1 .. MaxPackets
      BY <1>1 DEF AppendPacket
    <2>2. [n |-> accepted + 1, id |-> call.id, slot |-> call.slot, host |-> host,
           live |-> peer[call.slot] = [state |-> "connected", id |-> call.id]] \in Packet
      BY <2>1 DEF Packet
    <2>3. outgoing' \in Seq(Packet) BY <1>1, <2>2, AppendProperties DEF AppendPacket
    <2> QED BY SMTT(30), <1>1, <2>1, <2>3 DEF AppendPacket
  <1>2. CASE ReadConnectID
    <2>1. call \in [step : {"read"}, id : IDs, slot : Slots] BY <1>2 DEF ReadConnectID
    <2>2. peer[call.slot].id \in IDs BY <2>1
    <2>3. call' \in [step : {"removePeer"}, id : IDs, slot : Slots]
      BY <1>2, <2>1, <2>2 DEF ReadConnectID
    <2>4. raced' \in BOOLEAN BY <1>2 DEF ReadConnectID
    <2> HIDE DEF IDs
    <2> QED BY <1>2, <2>1, <2>3, <2>4 DEF ReadConnectID
  <1>3. CASE RemovePeer
    <2>1. call \in [step : {"removePeer"}, id : IDs, slot : Slots] BY <1>3 DEF RemovePeer
    <2>2. call' \in [step : {"reset"}, id : IDs, slot : Slots] BY <1>3, <2>1 DEF RemovePeer
    <2>3. host # 0 BY <2>1
    <2>4. DOMAIN peersHash' \subseteq IDs /\ \A id \in DOMAIN peersHash' : peersHash'[id] \in Slots
      BY <1>3 DEF RemovePeer, Without
    <2> QED BY SMTT(30), <1>3, <2>2, <2>3, <2>4 DEF RemovePeer
  <1>4. CASE ResetPeer
    <2>1. call \in [step : {"reset"}, id : IDs, slot : Slots] BY <1>4 DEF ResetPeer
    <2>2. signals' \in [IDs \ {0} -> Seq({"connected", "disconnected"})]
      BY <1>4, <2>1, AppendProperties DEF ResetPeer, Emitted
    <2>3. peer' \in [Slots -> [state : PeerState, id : IDs]]
          /\ \A s \in Slots : (peer'[s].state = "free") <=> (peer'[s].id = 0)
      BY <1>4, <2>1 DEF ResetPeer, Free, PeerState
    <2>4. dropped' \subseteq IDs \ {0}
      <3>1. peer[call.slot].id \in IDs BY <2>1
      <3> HIDE DEF IDs
      <3> QED BY <1>4, <3>1 DEF ResetPeer
    <2>5. raced' \in BOOLEAN BY <1>4 DEF ResetPeer
    <2> QED BY <1>4, <2>1, <2>2, <2>3, <2>4, <2>5 DEF ResetPeer
  <1>5. CASE BeginDisconnect
    <2>1. call \in [step : {"disconnect", "later"}, id : IDs, slot : Slots]
      BY <1>5 DEF BeginDisconnect
    <2>2. \A p \in AfterDisconnect(peer[call.slot]) :
            p \in [state : PeerState, id : IDs] /\ (p.state = "free" <=> p.id = 0)
      BY SMTT(30), <2>1 DEF AfterDisconnect, PeerState, Free
    <2> QED BY <1>5, <2>1, <2>2 DEF BeginDisconnect
  <1>6. CASE ConnectPolls
    <2>1. connecting \in [step : {"sleep", "events"}, slot : Slots, id : IDs,
                          host : 1 .. MaxListens, inClose : BOOLEAN]
      BY <1>6 DEF ConnectPolls, TurnEnds
    <2>2. connecting' \in {None} \cup [step : {"sleep", "events"}, slot : Slots, id : IDs,
                                         host : 1 .. MaxListens, inClose : BOOLEAN]
      BY <1>6, <2>1 DEF ConnectPolls
    <2> QED BY SMTT(30), <1>6, <2>2 DEF ConnectPolls
  <1>7. CASE SendAtOnce BY <1>7 DEF SendAtOnce
  <1>8. CASE DestroyHost
    <2>1. peer' \in [Slots -> [state : PeerState, id : IDs]]
          /\ \A s \in Slots : (peer'[s].state = "free") <=> (peer'[s].id = 0)
      BY <1>8 DEF DestroyHost, Free, PeerState
    <2>2. DOMAIN peersHash' = {} BY <1>8 DEF DestroyHost
    <2>3. io \notin Serving /\ ~listening BY <1>8 DEF DestroyHost
    <2>4. DOMAIN peersHash' \subseteq IDs /\ \A id \in DOMAIN peersHash' : peersHash'[id] \in Slots
      BY <2>2
    <2>5. TypeOK'
      <3>1. host' \in 0 .. MaxListens BY <1>8 DEF DestroyHost
      <3>2. closing' \in BOOLEAN BY <1>8 DEF DestroyHost
      <3> QED BY <1>8, <2>1, <2>4, <3>1, <3>2 DEF DestroyHost
    <2>6. Lifetime' BY <1>8, <2>2, <2>3 DEF DestroyHost
    <2> QED BY <2>5, <2>6
  <1> QED BY <1>1, <1>2, <1>3, <1>4, <1>5, <1>6, <1>7, <1>8 DEF CallStep

LEMMA AppTypes ==
  ASSUME UsesHost, AppStep
  PROVE  UsesHost'
  <1> USE ENETAssumption DEF UsesHost, TypeOK, Lifetime, Serving, Away, queueVars, peerVars,
                             hostVars, ioVars, raceVars, IDs, None, Callable
  <1>1. CASE Listen BY SMTT(30), <1>1 DEF Listen
  <1>2. CASE StartWaitingForIO BY <1>2 DEF StartWaitingForIO
  <1>3. CASE Close
    <2>1. TypeOK' BY <1>3 DEF Close
    <2>2. Lifetime' BY <1>3 DEF Close
    <2> QED BY <2>1, <2>2
  <1>4. CASE CloseGoesOn
    <2>1. call' = [step |-> "destroy"] /\ closing /\ io \in Away BY <1>4 DEF CloseGoesOn
    <2>2. TypeOK' BY <1>4, <2>1 DEF CloseGoesOn
    <2>3. Lifetime' BY <1>4, <2>1 DEF CloseGoesOn
    <2> QED BY <2>2, <2>3
  <1>5. ASSUME NEW s \in Slots, ConnectToHost(s) PROVE UsesHost'
    <2>1. connecting' \in [step : {"sleep"}, slot : Slots, id : IDs, host : 1 .. MaxListens,
                           inClose : BOOLEAN]
      BY <1>5 DEF ConnectToHost
    <2> QED BY <1>5, <2>1 DEF ConnectToHost, PeerState
  <1>6. CASE ConnectTimesOut
    <2>1. connecting.slot \in Slots BY <1>6 DEF ConnectTimesOut, TurnEnds
    <2>2. peer' \in [Slots -> [state : PeerState, id : IDs]]
          /\ \A s \in Slots : (peer'[s].state = "free") <=> (peer'[s].id = 0)
      BY <1>6, <2>1 DEF ConnectTimesOut, TurnEnds, Free, PeerState
    <2>3. dropped' \subseteq IDs \ {0}
      <3>1. peer[connecting.slot].id \in IDs BY <2>1
      <3> HIDE DEF IDs
      <3> QED BY <1>6, <3>1 DEF ConnectTimesOut
    <2>4. raced' \in BOOLEAN BY <1>6 DEF ConnectTimesOut
    <2>5. Lifetime' BY <1>6, <2>1 DEF ConnectTimesOut
    <2>6. TypeOK'
      <3>1. /\ connecting' = None
            /\ UNCHANGED <<outgoing, batch, sent, accepted, listening, host, listens, closing,
                           threadCount, io, event, lastID, peersHash, signals, call>>
        BY <1>6 DEF ConnectTimesOut
      <3> HIDE DEF Lifetime, Serving, Away
      <3> QED BY <2>2, <2>3, <2>4, <3>1
    <2> QED BY <2>5, <2>6
  <1>7. ASSUME NEW id \in IDs,
               \/ SendData(id) \/ SendDataNow(id)
               \/ DisconnectNow(id) \/ Disconnect(id) \/ DisconnectLater(id)
        PROVE  UsesHost'
    <2>1. PICK step \in {"append", "send", "read", "disconnect", "later"} :
            GetPeer(id, step) /\ (step = "append" => accepted < MaxPackets)
      BY <1>7 DEF SendData, SendDataNow, DisconnectNow, Disconnect, DisconnectLater
    <2>2. call' \in [step : {step}, id : IDs, slot : Slots]
      BY <2>1 DEF GetPeer, Registered
    <2>3. host # 0 BY <2>1 DEF GetPeer, Registered
    <2> QED BY SMTT(30), <2>1, <2>2, <2>3 DEF GetPeer
  <1>8. CASE ConnectDangles BY <1>8 DEF ConnectDangles, TurnEnds
  <1> QED BY <1>1, <1>2, <1>3, <1>4, <1>5, <1>6, <1>7, <1>8 DEF AppStep

LEMMA UsesHostStep ==
  ASSUME UsesHost, [Next]_vars
  PROVE  UsesHost'
  <1>1. CASE UNCHANGED vars
    BY <1>1 DEF vars, UsesHost, TypeOK, Lifetime, queueVars, peerVars, hostVars, ioVars, raceVars
  <1> QED BY <1>1, IOTypes, CallTypes, AppTypes DEF Next

-----------------------------------------------------------------------------
(* The lists: a batch exists only while it is being sent.                  *)
Queues ==
  /\ HandedInOrder
  /\ batch # <<>> => io \in {"sending", "last", "undefined"}

LEMMA QueuesStep ==
  ASSUME UsesHost, Queues, [Next]_vars
  PROVE  Queues'
  <1> USE DEF UsesHost, TypeOK, Queues, HandedInOrder, InOrder, queueVars
  <1>1. CASE AppendPacket
    <2>1. /\ outgoing' = Append(outgoing, outgoing'[Len(outgoing) + 1])
          /\ outgoing'[Len(outgoing) + 1].n = accepted + 1
      BY <1>1, AppendProperties DEF AppendPacket
    <2>2. Len(outgoing') = Len(outgoing) + 1 /\ DOMAIN outgoing' = 1 .. Len(outgoing) + 1
          /\ \A i \in 1 .. Len(outgoing) : outgoing'[i] = outgoing[i]
      BY <1>1, AppendProperties DEF AppendPacket
    <2>3. UNCHANGED <<batch, sent, io>> /\ accepted' = accepted + 1
      BY <1>1 DEF AppendPacket, ioVars
    <2>4. \A i \in DOMAIN outgoing' : outgoing'[i].n = sent + Len(batch) + i
      <3> SUFFICES ASSUME NEW i \in DOMAIN outgoing'
                   PROVE  outgoing'[i].n = sent + Len(batch) + i
        OBVIOUS
      <3>1. CASE i \in 1 .. Len(outgoing) BY SMTT(30), <2>2, <3>1
      <3>2. CASE i = Len(outgoing) + 1 BY <2>1, <3>2
      <3> QED BY SMTT(30), <2>2, <3>1, <3>2
    <2> QED BY <2>2, <2>3, <2>4
  <1>2. CASE TakePackets
    <2>1. batch = <<>> BY <1>2 DEF TakePackets
    <2>2. batch' = outgoing /\ outgoing' = <<>> /\ UNCHANGED <<sent, accepted>>
          /\ io' \in {"sending", "last"}
      BY <1>2 DEF TakePackets
    <2> QED BY <2>1, <2>2
  <1>3. CASE SendPacket
    <2>1. UNCHANGED <<outgoing, accepted>> /\ batch # <<>> /\ io' \in {"sending", "last", "undefined"}
      BY <1>3 DEF SendPacket
    <2>2. CASE Head(batch).host = host
      <3>1. sent' = sent + 1 /\ batch' = Tail(batch) BY <1>3, <2>2 DEF SendPacket
      <3>2. Len(batch') = Len(batch) - 1 /\ \A i \in 1 .. Len(batch) - 1 : batch'[i] = batch[i + 1]
        BY <2>1, <3>1, HeadTailProperties
      <3>3. \A i \in DOMAIN batch' : batch'[i].n = sent' + i
        <4>1. DOMAIN batch' = 1 .. Len(batch) - 1 BY <2>1, <3>1, HeadTailProperties
        <4>2. \A i \in 1 .. Len(batch) - 1 : batch[i + 1].n = sent + (i + 1) OBVIOUS
        <4> QED BY <3>1, <3>2, <4>1, <4>2
      <3> QED BY <2>1, <3>1, <3>2, <3>3
    <2>3. CASE Head(batch).host # host BY <1>3, <2>1, <2>3 DEF SendPacket
    <2> QED BY <2>2, <2>3
  <1>4. CASE /\ UNCHANGED queueVars
             /\ io' = io \/ batch = <<>> \/ io \notin {"sending", "last", "undefined"}
    BY <1>4
  <1>5. CASE IOStep /\ ~TakePackets /\ ~SendPacket
    BY <1>4, <1>5
    DEF IOStep, EnterWaitForIO, Service, NoMoreEvents, CheckEvents, HandleConnect, HandleReceive,
        HandleDisconnect, RemoveDisconnected, LeaveWaitForIO, ThreadFinishes
  <1>6. CASE CallStep /\ ~AppendPacket
    BY <1>4, <1>6
    DEF CallStep, SendAtOnce, ReadConnectID, RemovePeer, ResetPeer, BeginDisconnect, DestroyHost,
        ConnectPolls, ioVars
  <1>7. CASE AppStep
    BY <1>4, <1>7
    DEF AppStep, Listen, StartWaitingForIO, Close, CloseGoesOn, ConnectToHost, ConnectTimesOut,
        ConnectDangles, SendData, SendDataNow, DisconnectNow, Disconnect, DisconnectLater, GetPeer, ioVars
  <1>8. CASE UNCHANGED vars BY <1>4, <1>8 DEF vars, ioVars
  <1> QED BY <1>1, <1>2, <1>3, <1>5, <1>6, <1>7, <1>8 DEF Next

(* A packet waits for its own connection.  Between two calls of            *)
(* enet_host_service the slot may lose that connection, but gets no other  *)
(* one that is connected; and no packet waits through such a call that had *)
(* already lost its connection.                                            *)
Concerned(p) == p.host = host /\ p.live /\ p.id \notin dropped
NotAnothers(p) ==
  Concerned(p) => (peer[p.slot].state = "connected" => peer[p.slot].id = p.id)
StillOwn(p) ==
  Concerned(p) => peer[p.slot].id = p.id /\ peer[p.slot].state # "connecting"
Proper(p) == NotAnothers(p) /\ (p.live => p.id # 0) /\ p.host <= listens
Ownership ==
  /\ \A i \in DOMAIN batch : Proper(batch[i])
  /\ \A i \in DOMAIN outgoing : Proper(outgoing[i])
  /\ io = "sending" => \A i \in DOMAIN outgoing : StillOwn(outgoing[i])

ENETInvariant == UsesHost /\ Queues /\ Ownership

(* The application's thread opens and resets connections, but what it      *)
(* resets it drops: a packet that waits for another connection loses       *)
(* nothing.                                                                *)
LEMMA AppKeepsSlots ==
  ASSUME UsesHost, NEW p \in Packet, Proper(p), CallStep \/ AppStep
  PROVE  Proper(p)' /\ (StillOwn(p) => StillOwn(p)')
  <1> USE DEF UsesHost, TypeOK, Lifetime, Proper, NotAnothers, StillOwn, Concerned, Packet
  <1>1. CASE UNCHANGED <<host, listens, dropped, peer>> BY <1>1
  <1>2. CASE AppendPacket \/ SendAtOnce \/ ReadConnectID \/ RemovePeer \/ ConnectPolls
    BY <1>1, <1>2 DEF AppendPacket, SendAtOnce, ReadConnectID, RemovePeer, ConnectPolls, hostVars,
                      peerVars, raceVars
  <1>3. CASE ResetPeer
    <2>1. call.slot \in Slots BY <1>3 DEF ResetPeer, None
    <2> QED BY <1>3, <2>1 DEF ResetPeer, Free, hostVars
  <1>4. CASE BeginDisconnect
    <2>1. call.slot \in Slots BY <1>4 DEF BeginDisconnect, None
    <2>2. PICK q \in AfterDisconnect(peer[call.slot]) : peer' = [peer EXCEPT ![call.slot] = q]
      BY <1>4 DEF BeginDisconnect
    <2>3. \/ peer[call.slot].state = "connecting" /\ q = Free
          \/ q = peer[call.slot]
          \/ /\ peer[call.slot].state \in {"connected", "later"}
             /\ q.id = peer[call.slot].id /\ q.state \in {"disconnecting", "later"}
      <3>1. CASE peer[call.slot].state = "connecting" BY <2>2, <3>1 DEF AfterDisconnect
      <3>2. CASE peer[call.slot].state \in {"connected", "later"}
        <4>1. PICK state \in {"disconnecting", "later"} :
                q = [peer[call.slot] EXCEPT !.state = state]
          BY <2>2, <3>2 DEF AfterDisconnect
        <4>2. peer[call.slot] \in [state : PeerState, id : IDs] BY <2>1
        <4> QED BY <3>2, <4>1, <4>2
      <3>3. CASE peer[call.slot].state \notin {"connecting", "connected", "later"}
        BY <2>2, <3>3 DEF AfterDisconnect
      <3> QED BY <3>1, <3>2, <3>3
    <2>4. UNCHANGED <<host, listens, dropped>> BY <1>4 DEF BeginDisconnect, hostVars, raceVars
    <2> QED BY <2>1, <2>2, <2>3, <2>4 DEF Free
  <1>5. CASE Listen BY <1>5, ENETAssumption DEF Listen, peerVars, raceVars
  <1>6. CASE StartWaitingForIO \/ Close \/ CloseGoesOn \/ ConnectDangles
    BY <1>1, <1>6 DEF StartWaitingForIO, Close, CloseGoesOn, ConnectDangles, hostVars, peerVars,
                      raceVars
  <1>7. CASE DestroyHost BY <1>7, ENETAssumption DEF DestroyHost, raceVars
  <1>8. ASSUME NEW s \in Slots, ConnectToHost(s)
        PROVE  Proper(p)' /\ (StillOwn(p) => StillOwn(p)')
    <2>1. peer[s].id = 0 BY <1>8 DEF ConnectToHost
    <2> QED BY <1>8, <2>1 DEF ConnectToHost, hostVars, raceVars
  <1>9. CASE ConnectTimesOut
    <2>1. connecting.slot \in Slots BY <1>9 DEF ConnectTimesOut, TurnEnds, None
    <2> QED BY <1>9, <2>1 DEF ConnectTimesOut, Free, hostVars
  <1>10. ASSUME NEW id \in IDs,
                \/ SendData(id) \/ SendDataNow(id)
                \/ DisconnectNow(id) \/ Disconnect(id) \/ DisconnectLater(id)
         PROVE  UNCHANGED <<host, listens, dropped, peer>>
    BY <1>10 DEF SendData, SendDataNow, DisconnectNow, Disconnect, DisconnectLater, GetPeer, hostVars, peerVars,
                 raceVars
  <1> QED BY <1>1, <1>2, <1>3, <1>4, <1>5, <1>6, <1>7, <1>8, <1>9, <1>10 DEF CallStep, AppStep

(* A call of enet_host_service or enet_host_check_events.                  *)
LEMMA ServiceKeepsSlots ==
  ASSUME UsesHost, NEW p \in Packet, Proper(p),
         \/ Service /\ StillOwn(p)
         \/ \E s \in Slots : CheckEvents(s)
  PROVE  Proper(p)'
  <1> USE DEF UsesHost, TypeOK, Proper, NotAnothers, StillOwn, Concerned, Packet
  <1>1. UNCHANGED <<host, listens, dropped>>
    BY DEF Service, CheckEvents, hostVars, raceVars
  <1>2. CASE UNCHANGED peer BY <1>1, <1>2
  <1>3. ASSUME NEW s \in Slots, PeerIsGone(s) PROVE Proper(p)'
    BY <1>1, <1>3 DEF PeerIsGone, Free
  <1>4. ASSUME NEW s \in Slots, CheckEvents(s) PROVE Proper(p)'
    BY <1>2, <1>3, <1>4 DEF CheckEvents, PacketIsReceived, peerVars
  <1>5. CASE Service /\ StillOwn(p)
    <2>1. ASSUME NEW s \in Slots, PeerConnects(s) PROVE Proper(p)'
      BY <1>1, <1>5, <2>1 DEF PeerConnects
    <2>2. ASSUME NEW s \in Slots, PeerIsAccepted(s) PROVE Proper(p)'
      <3>1. peer[s].id = 0 BY <2>2 DEF PeerIsAccepted
      <3> QED BY <1>1, <1>5, <2>2, <3>1 DEF PeerIsAccepted
    <2>3. ASSUME NEW s \in Slots, PeerLeaves(s) PROVE Proper(p)'
      BY <1>1, <1>5, <2>3 DEF PeerLeaves
    <2> QED BY <1>2, <1>3, <1>5, <2>1, <2>2, <2>3
            DEF Service, NoEventYet, PacketIsReceived, peerVars
  <1> QED BY <1>4, <1>5

LEMMA OwnershipStep ==
  ASSUME ENETInvariant, [Next]_vars
  PROVE  Ownership'
  <1> USE DEF ENETInvariant, Ownership
  <1>1. /\ \A i \in DOMAIN batch : batch[i] \in Packet
        /\ \A i \in DOMAIN outgoing : outgoing[i] \in Packet
    BY DEF UsesHost, TypeOK
  <1>2. CASE AppendPacket
    <2>1. UNCHANGED <<batch, io, peer, host, listens, dropped>>
      BY <1>2 DEF AppendPacket, ioVars, peerVars, hostVars, raceVars
    <2> DEFINE own == peer[call.slot] = [state |-> "connected", id |-> call.id]
               p == [n |-> accepted', id |-> call.id, slot |-> call.slot, host |-> host, live |-> own]
    <2>2. /\ outgoing' = Append(outgoing, p)
          /\ p.live <=> peer[p.slot] = [state |-> "connected", id |-> p.id]
          /\ p.slot = call.slot /\ p.host = host
      BY <1>2 DEF AppendPacket
    <2> HIDE DEF p
    <2>3. p.slot \in Slots BY <1>2, <2>2 DEF AppendPacket, UsesHost, TypeOK, None
    <2>4. Proper(p) /\ StillOwn(p)
      BY <2>2, <2>3 DEF Proper, NotAnothers, StillOwn, Concerned, UsesHost, TypeOK, Lifetime
    <2>5. DOMAIN outgoing' = 1 .. Len(outgoing) + 1
          /\ \A i \in DOMAIN outgoing' : \/ i \in DOMAIN outgoing /\ outgoing'[i] = outgoing[i]
                                      \/ outgoing'[i] = p
      BY <2>2, AppendProperties DEF UsesHost, TypeOK
    <2> QED BY <2>1, <2>4, <2>5 DEF Proper, NotAnothers, StillOwn, Concerned
  <1>3. CASE (CallStep \/ AppStep) /\ ~AppendPacket
    <2>1. UNCHANGED <<batch, outgoing>>
      BY <1>3 DEF CallStep, AppStep, SendAtOnce, ReadConnectID, RemovePeer, ResetPeer,
                  BeginDisconnect, DestroyHost, ConnectPolls, Listen, StartWaitingForIO, Close,
                  CloseGoesOn, ConnectToHost, ConnectTimesOut, ConnectDangles, SendData,
                  SendDataNow, DisconnectNow, Disconnect, DisconnectLater, GetPeer,
                  queueVars
    <2>2. io' = "sending" => io = "sending"
      BY <1>3 DEF CallStep, AppStep, SendAtOnce, ReadConnectID, RemovePeer, ResetPeer,
                  BeginDisconnect, DestroyHost, ConnectPolls, Listen, StartWaitingForIO, Close,
                  CloseGoesOn, ConnectToHost, ConnectTimesOut, ConnectDangles, SendData,
                  SendDataNow, DisconnectNow, Disconnect, DisconnectLater, GetPeer,
                  ioVars
    <2>3. /\ \A i \in DOMAIN batch : Proper(batch[i])'
          /\ \A i \in DOMAIN outgoing :
               Proper(outgoing[i])' /\ (StillOwn(outgoing[i]) => StillOwn(outgoing[i])')
      BY <1>1, <1>3, <2>1, AppKeepsSlots
    <2> QED BY <2>1, <2>2, <2>3
  <1>4. CASE TakePackets
    <2>1. batch' = outgoing /\ outgoing' = <<>> /\ UNCHANGED <<peer, host, listens, dropped>>
      BY <1>4 DEF TakePackets, peerVars, hostVars, raceVars
    <2> QED BY <2>1 DEF Proper, NotAnothers, StillOwn, Concerned
  <1>5. CASE SendPacket
    <2>1. UNCHANGED <<outgoing, peer, host, listens, dropped>> /\ batch # <<>>
          /\ (batch' = batch \/ batch' = Tail(batch)) /\ (io' = "sending" => io = "sending")
      BY <1>5 DEF SendPacket, peerVars, hostVars, raceVars
    <2>2. \A i \in DOMAIN batch' : \E j \in DOMAIN batch : batch'[i] = batch[j]
      <3>1. DOMAIN Tail(batch) = 1 .. Len(batch) - 1
            /\ \A i \in 1 .. Len(batch) - 1 : i + 1 \in DOMAIN batch /\ Tail(batch)[i] = batch[i + 1]
        BY <2>1, HeadTailProperties DEF UsesHost, TypeOK
      <3> QED BY <2>1, <3>1
    <2> QED BY <2>1, <2>2 DEF Proper, NotAnothers, StillOwn, Concerned
  <1>6. CASE Service
    <2>1. UNCHANGED <<batch, outgoing>> /\ io = "sending" /\ batch = <<>> /\ io' # "sending"
      BY <1>6 DEF Service, queueVars, NoEventYet, PeerConnects, PeerIsAccepted, PacketIsReceived,
                  PeerIsGone, PeerLeaves, Delivers
    <2>2. \A i \in DOMAIN outgoing : Proper(outgoing[i])' BY <1>1, <1>6, <2>1, ServiceKeepsSlots
    <2> QED BY <2>1, <2>2
  <1>7. ASSUME NEW s \in Slots, CheckEvents(s) PROVE Ownership'
    <2>1. UNCHANGED <<batch, outgoing>> /\ io' # "sending"
      BY <1>7 DEF CheckEvents, queueVars, PacketIsReceived, PeerIsGone, Delivers
    <2>2. /\ \A i \in DOMAIN batch : Proper(batch[i])'
          /\ \A i \in DOMAIN outgoing : Proper(outgoing[i])'
      BY <1>1, <1>7, <2>1, ServiceKeepsSlots
    <2> QED BY <2>1, <2>2
  <1>8. CASE UNCHANGED <<batch, outgoing, peer, host, listens, dropped>>
             /\ (io' = "sending" => io = "sending")
    BY <1>8 DEF Proper, NotAnothers, StillOwn, Concerned
  <1>9. CASE EnterWaitForIO \/ NoMoreEvents \/ HandleConnect \/ HandleReceive \/ HandleDisconnect
             \/ RemoveDisconnected \/ LeaveWaitForIO \/ ThreadFinishes
    BY <1>8, <1>9 DEF EnterWaitForIO, NoMoreEvents, NoEventYet, HandleConnect, HandleReceive,
                      HandleDisconnect, RemoveDisconnected, LeaveWaitForIO, ThreadFinishes,
                      queueVars, peerVars, hostVars, raceVars
  <1>10. CASE UNCHANGED vars
    BY <1>8, <1>10 DEF vars, queueVars, peerVars, hostVars, ioVars, raceVars
  <1> QED BY <1>2, <1>3, <1>4, <1>5, <1>6, <1>7, <1>9, <1>10 DEF Next, IOStep

(* The inductive invariant of ENETProtocolBase, whatever the threads of the*)
(* application, the service and the network do between their steps.        *)
THEOREM InvariantHolds == Spec => []ENETInvariant
  <1>1. Init => ENETInvariant
    BY InitUsesHost DEF Init, ENETInvariant, Queues, HandedInOrder, InOrder, Ownership
  <1>2. ENETInvariant /\ [Next]_vars => ENETInvariant'
    BY UsesHostStep, QueuesStep, OwnershipStep DEF ENETInvariant
  <1> QED BY <1>1, <1>2, PTL DEF Spec

-----------------------------------------------------------------------------
(* The thread counts itself at most once, a free slot has no identifier,   *)
(* and no event is handled under an identifier of no connection.           *)
THEOREM ENETTypes == Spec => []TypeOK
  <1>1. ENETInvariant => TypeOK BY DEF ENETInvariant, UsesHost
  <1> QED BY <1>1, InvariantHolds, PTL

(* What sendData queued is handed to ENet once, in the order of the calls. *)
THEOREM PacketsHandedInOrder == Spec => []HandedInOrder
  <1>1. ENETInvariant => HandedInOrder BY DEF ENETInvariant, Queues
  <1> QED BY <1>1, InvariantHolds, PTL

(* close() never destroys the host under the thread that serves it.        *)
THEOREM HostOutlivesThread == Spec => []HostOutlivesService
  <1>1. ENETInvariant => HostOutlivesService
    BY DEF ENETInvariant, UsesHost, Lifetime, Serving, HostOutlivesService
  <1> QED BY <1>1, InvariantHolds, PTL

(* A packet goes out on the connection it was queued for or on none,       *)
(* unless that had ended before or the application reset it.               *)
THEOREM PacketsOnOwnConnection == Spec => OwnConnection
  <1> DEFINE Own == sent' # sent =>
               LET p == Head(batch)
               IN  p.live /\ p.id \notin dropped /\ peer[p.slot].state = "connected" =>
                     peer[p.slot].id = p.id
  <1>1. ENETInvariant /\ [Next]_vars => [Own]_vars
    <2> SUFFICES ASSUME ENETInvariant, Next, sent' # sent PROVE Own
      OBVIOUS
    <2>1. SendPacket
      BY DEF Next, IOStep, CallStep, AppStep, EnterWaitForIO, TakePackets, Service, NoMoreEvents,
             CheckEvents, HandleConnect, HandleReceive, HandleDisconnect, RemoveDisconnected,
             LeaveWaitForIO, ThreadFinishes, AppendPacket, SendAtOnce, ReadConnectID, RemovePeer,
             ResetPeer, BeginDisconnect, DestroyHost, ConnectPolls, Listen, StartWaitingForIO,
             Close, CloseGoesOn, ConnectToHost, ConnectTimesOut, ConnectDangles, SendData,
             SendDataNow, DisconnectNow, Disconnect, DisconnectLater,
             GetPeer, queueVars
    <2>2. batch # <<>> /\ Head(batch).host = host BY <2>1 DEF SendPacket
    <2>3. 1 \in DOMAIN batch /\ Head(batch) = batch[1]
      BY <2>2, HeadTailProperties DEF ENETInvariant, UsesHost, TypeOK
    <2>4. NotAnothers(batch[1]) BY <2>3 DEF ENETInvariant, Ownership, Proper
    <2> QED BY <2>2, <2>3, <2>4 DEF NotAnothers, Concerned
  <1> QED BY <1>1, InvariantHolds, PTL DEF Spec, OwnConnection

-----------------------------------------------------------------------------
(* The registry.  While no reset has hit what the other thread held:       *)
Unheard(id) == signals[id] = <<>>
Ended(id) == signals[id] = <<"connected", "disconnected">>
Gone(s) == InHand(s) /\ event.type = "disconnect"
Announcing(s) == io = "handle" /\ event.type = "connect" /\ event.slot = s
Removing(s, id) == call.step = "reset" /\ call.slot = s /\ call.id = id

(* an identifier is given once, and its signals come once and in order;    *)
Identifiers ==
  /\ \A s \in Slots : peer[s].id <= lastID
  /\ \A id \in IDs \ {0} : id > lastID => Unheard(id)
  /\ \A s, t \in Slots : peer[s].id = peer[t].id /\ peer[s].id # 0 => s = t
  /\ \A id \in IDs \ {0} : Unheard(id) \/ Open(id) \/ Ended(id)

(* a key is a connection that was announced, in the slot it has or had;    *)
Keys ==
  /\ \A id \in DOMAIN peersHash :
       id # 0 /\ Open(id) /\ (peer[peersHash[id]].id = id \/ Gone(peersHash[id]))
  /\ \A i, j \in DOMAIN peersHash : peersHash[i] = peersHash[j] => i = j

(* and a connection that was announced is registered, unless a disconnect  *)
(* of the application has just taken it out;                               *)
SlotKnown(s) ==
  LET id == peer[s].id
  IN  id # 0 =>
        IF peer[s].state = "connecting" \/ Announcing(s)
        THEN Unheard(id)
        ELSE Open(id) /\ ((Registered(id) /\ peersHash[id] = s) \/ Removing(s, id))

(* the thread of waitForIO handles an event of a connection that is still  *)
(* there, or the end of one that has left its slot;                        *)
EventKnown ==
  /\ io = "handle" /\ event.type # "disconnect" =>
       peer[event.slot].state \notin {"free", "connecting"}
  /\ io \in {"handle", "remove"} /\ event.type = "disconnect" =>
       peer[event.slot].state \in {"free", "connecting"}
  /\ io = "remove" =>
       /\ Open(event.id)
       /\ \A s \in Slots : peer[s].id # event.id
       /\ \A id \in DOMAIN peersHash : peersHash[id] = event.slot => id = event.id

(* and a disconnect of the application works on a connection that was      *)
(* announced, takes it out of its slot only, and out of the hash first.    *)
CallKnown ==
  /\ call.step \in {"read", "removePeer", "reset"} => call.id # 0 /\ ~Unheard(call.id)
  /\ call.step \in {"removePeer", "reset"} =>
       \A s \in Slots : peer[s].id = call.id => s = call.slot
  /\ call.step = "reset" => ~Registered(call.id)

Registry ==
  /\ Identifiers
  /\ Keys
  /\ \A s \in Slots : SlotKnown(s)
  /\ EventKnown
  /\ CallKnown
RegistryInvariant == ~raced /\ io # "undefined" => Registry

-----------------------------------------------------------------------------
LEMMA SignalsDiffer ==
  ASSUME NEW id PROVE ~(Unheard(id) /\ Open(id)) /\ ~(Ended(id) /\ (Unheard(id) \/ Open(id)))
  BY DEF Unheard, Open, Ended

LEMMA AppendSignals ==
  /\ Append(<<>>, "connected") = <<"connected">>
  /\ Append(<<"connected">>, "disconnected") = <<"connected", "disconnected">>
  <1> DEFINE S == {"connected", "disconnected"}
  <1>1. <<>> \in Seq(S) /\ <<"connected">> \in Seq(S) /\ <<"connected", "disconnected">> \in Seq(S)
    OBVIOUS
  <1>2. "connected" \in S /\ "disconnected" \in S OBVIOUS
  <1>3. Len(<<>>) = 0 /\ Len(<<"connected">>) = 1 /\ Len(<<"connected", "disconnected">>) = 2 OBVIOUS
  <1>4. /\ <<"connected">>[1] = "connected" /\ <<"connected", "disconnected">>[1] = "connected"
        /\ <<"connected", "disconnected">>[2] = "disconnected"
    OBVIOUS
  <1> DEFINE a == Append(<<>>, "connected")
             b == Append(<<"connected">>, "disconnected")
  <1> HIDE DEF S
  <1>5. a \in Seq(S) /\ Len(a) = 1 /\ a[1] = "connected" BY <1>1, <1>2, <1>3, AppendProperties
  <1>6. b \in Seq(S) /\ Len(b) = 2 /\ b[1] = "connected" /\ b[2] = "disconnected"
    BY <1>1, <1>2, <1>3, <1>4, AppendProperties
  <1> HIDE DEF a, b
  <1>7. a = <<"connected">> BY <1>1, <1>3, <1>4, <1>5, SeqEqual
  <1>8. b = <<"connected", "disconnected">> BY <1>1, <1>3, <1>4, <1>6, SeqEqual
  <1> QED BY <1>7, <1>8 DEF a, b

(* A signal follows the ones before it and leaves the other connections.   *)
LEMMA SignalEmitted ==
  ASSUME UsesHost, NEW id \in IDs \ {0}
  PROVE  /\ signals' = Emitted(id, "connected") =>
              /\ Unheard(id) => Open(id)'
              /\ \A j \in IDs \ {0} : j # id => signals'[j] = signals[j]
         /\ signals' = Emitted(id, "disconnected") =>
              /\ Open(id) => Ended(id)'
              /\ \A j \in IDs \ {0} : j # id => signals'[j] = signals[j]
  <1>1. signals \in [IDs \ {0} -> Seq({"connected", "disconnected"})] BY DEF UsesHost, TypeOK
  <1>2. \A signal : Emitted(id, signal) = [signals EXCEPT ![id] = Append(signals[id], signal)]
    BY DEF Emitted
  <1>3. \A signal : signals' = Emitted(id, signal) =>
          /\ signals'[id] = Append(signals[id], signal)
          /\ \A j \in IDs \ {0} : j # id => signals'[j] = signals[j]
    BY <1>1, <1>2
  <1> QED BY <1>3, AppendSignals DEF Unheard, Open, Ended

(* The types the steps below rest on.                                      *)
Shapes ==
  /\ peer \in [Slots -> [state : PeerState, id : IDs]]
  /\ \A s \in Slots : (peer[s].state = "free") <=> (peer[s].id = 0)
  /\ lastID \in IDs
  /\ DOMAIN peersHash \subseteq IDs /\ \A id \in DOMAIN peersHash : peersHash[id] \in Slots
  /\ call.step \notin {"none", "destroy"} => call.id \in IDs /\ call.slot \in Slots
  /\ io \in {"handle", "remove"} => event.slot \in Slots
  /\ io = "handle" => event.type \in {"connect", "receive", "disconnect"}
  /\ io = "remove" => event.type = "disconnect" /\ event.id \in IDs \ {0}

LEMMA HasShapes == UsesHost => Shapes
  BY DEF UsesHost, TypeOK, Lifetime, Shapes, None

(* A step that leaves the slots, the hash and the signals alone, and       *)
(* neither takes up nor drops an event or a call that works on them.       *)
LEMMA QuietStep ==
  ASSUME Shapes, Registry, UNCHANGED <<peer, lastID, signals, peersHash>>,
         \/ UNCHANGED <<io, event>>
         \/ /\ \/ io \notin {"handle", "remove"}
               \/ io = "handle" /\ event.type = "receive"
            /\ \/ io' \notin {"handle", "remove"}
               \/ /\ io' = "handle" /\ event'.type = "receive"
                  /\ peer[event'.slot].state \notin {"free", "connecting"},
         \/ UNCHANGED call
         \/ call.step # "reset" /\ call'.step \notin {"read", "removePeer", "reset"}
  PROVE  Registry'
  <1> USE DEF Shapes, Registry, Unheard, Open, Ended, Registered
  <1>1. Identifiers' BY DEF Identifiers
  <1>2. Keys' BY DEF Keys, Gone, InHand
  <1>3. \A s \in Slots : SlotKnown(s)'
    <2> SUFFICES ASSUME NEW s \in Slots PROVE SlotKnown(s)' OBVIOUS
    <2>1. SlotKnown(s) OBVIOUS
    <2>2. Announcing(s)' <=> Announcing(s) BY DEF Announcing
    <2>3. \A id : Removing(s, id) => Removing(s, id)' BY DEF Removing
    <2> QED BY <2>1, <2>2, <2>3 DEF SlotKnown
  <1>4. EventKnown' BY DEF EventKnown
  <1>5. CallKnown' BY DEF CallKnown
  <1> QED BY <1>1, <1>2, <1>3, <1>4, <1>5

(* enet_host_service and enet_host_check_events.                           *)
LEMMA ServiceKnown ==
  ASSUME UsesHost, Registry, Service \/ \E s \in Slots : CheckEvents(s)
  PROVE  Registry'
  <1>1. Shapes BY HasShapes
  <1>2. UNCHANGED <<signals, peersHash, call>> /\ io \in {"sending", "check"}
    BY DEF Service, CheckEvents
  <1> USE ENETAssumption DEF Shapes, Registry, Unheard, Open, Ended, Registered
  <1>3. ASSUME NEW s \in Slots, PeerConnects(s) PROVE Registry'
    <2>1. /\ peer[s].state = "connecting" /\ lastID' = lastID
          /\ peer' = [peer EXCEPT ![s].state = "connected"]
          /\ io' = "handle" /\ event' = [type |-> "connect", slot |-> s]
      BY <1>3 DEF PeerConnects, Delivers
    <2>2. peer' = [peer EXCEPT ![s] = [state |-> "connected", id |-> peer[s].id]]
      <3>1. [peer[s] EXCEPT !.state = "connected"] = [state |-> "connected", id |-> peer[s].id]
        BY <1>1
      <3> QED BY <2>1, <3>1
    <2>3. /\ \A t \in Slots : peer'[t].id = peer[t].id
          /\ \A t \in Slots : t # s => peer'[t] = peer[t]
          /\ peer'[s].state = "connected" /\ event'.type = "connect" /\ event'.slot = s
      BY <1>1, <2>1, <2>2
    <2> HIDE DEF Shapes
    <2>4. Identifiers' BY <1>2, <2>1, <2>3 DEF Identifiers
    <2>5. Keys' BY <1>1, <1>2, <2>1, <2>3 DEF Keys, Gone, InHand, Shapes
    <2>6. \A t \in Slots : SlotKnown(t)'
      <3> SUFFICES ASSUME NEW t \in Slots PROVE SlotKnown(t)' OBVIOUS
      <3>1. ~Announcing(t) /\ (Announcing(t)' <=> t = s) BY <1>2, <2>1, <2>3 DEF Announcing
      <3>2. \A id : Removing(t, id)' <=> Removing(t, id) BY <1>2 DEF Removing
      <3>3. SlotKnown(t) OBVIOUS
      <3>4. CASE t = s BY <1>2, <2>1, <2>3, <3>1, <3>3, <3>4 DEF SlotKnown
      <3>5. CASE t # s BY <1>2, <2>3, <3>1, <3>2, <3>3, <3>5 DEF SlotKnown
      <3> QED BY <3>4, <3>5
    <2>7. EventKnown' BY <1>2, <2>1, <2>3 DEF EventKnown
    <2>8. CallKnown' BY <1>2, <2>3 DEF CallKnown
    <2> QED BY <2>4, <2>5, <2>6, <2>7, <2>8
  <1>4. ASSUME NEW s \in Slots, PeerIsAccepted(s) PROVE Registry'
    <2>1. /\ peer[s].state = "free" /\ lastID' = lastID + 1 /\ lastID < MaxIDs
          /\ peer' = [peer EXCEPT ![s] = [state |-> "connected", id |-> lastID + 1]]
          /\ io' = "handle" /\ event' = [type |-> "connect", slot |-> s]
      BY <1>4 DEF PeerIsAccepted, Delivers
    <2>2. lastID + 1 \in IDs \ {0} /\ lastID + 1 > lastID BY <1>1, <2>1 DEF IDs
    <2>3. Unheard(lastID + 1) /\ \A t \in Slots : peer[t].id # lastID + 1
      BY <1>1, <2>2 DEF Identifiers, IDs
    <2>4. /\ \A t \in Slots : t # s => peer'[t] = peer[t]
          /\ peer'[s].state = "connected" /\ peer'[s].id = lastID + 1 /\ peer[s].id = 0
          /\ event'.type = "connect" /\ event'.slot = s
      BY <1>1, <2>1
    <2>5. Identifiers' BY <1>1, <1>2, <2>1, <2>3, <2>4 DEF Identifiers, IDs
    <2>6. Keys' BY <1>1, <1>2, <2>1, <2>3, <2>4, SignalsDiffer DEF Keys, Gone, InHand
    <2>7. \A t \in Slots : SlotKnown(t)'
      <3> SUFFICES ASSUME NEW t \in Slots PROVE SlotKnown(t)' OBVIOUS
      <3>1. ~Announcing(t) /\ (Announcing(t)' <=> t = s) BY <1>2, <2>1, <2>4 DEF Announcing
      <3>2. \A id : Removing(t, id)' <=> Removing(t, id) BY <1>2 DEF Removing
      <3>3. SlotKnown(t) OBVIOUS
      <3>4. CASE t = s BY <1>2, <2>3, <2>4, <3>1, <3>4 DEF SlotKnown
      <3>5. CASE t # s BY <1>2, <2>4, <3>1, <3>2, <3>3, <3>5 DEF SlotKnown
      <3> QED BY <3>4, <3>5
    <2>8. EventKnown' BY <1>2, <2>1, <2>4 DEF EventKnown
    <2>9. CallKnown' BY <1>2, <2>3, <2>4 DEF CallKnown
    <2> QED BY <2>5, <2>6, <2>7, <2>8, <2>9
  <1>5. ASSUME NEW s \in Slots, PacketIsReceived(s) PROVE Registry'
    <2>1. /\ UNCHANGED <<peer, lastID>> /\ io' = "handle" /\ event'.type = "receive"
          /\ peer[event'.slot].state \notin {"free", "connecting"}
      BY <1>5 DEF PacketIsReceived, Delivers, peerVars
    <2> QED BY <1>1, <1>2, <2>1, QuietStep
  <1>6. ASSUME NEW s \in Slots, PeerIsGone(s) PROVE Registry'
    <2>1. /\ lastID' = lastID /\ peer' = [peer EXCEPT ![s] = Free]
          /\ io' = "handle" /\ event' = [type |-> "disconnect", slot |-> s]
      BY <1>6 DEF PeerIsGone, Delivers
    <2>2. /\ \A t \in Slots : t # s => peer'[t] = peer[t]
          /\ peer'[s].state = "free" /\ peer'[s].id = 0
          /\ event'.type = "disconnect" /\ event'.slot = s
      BY <1>1, <2>1 DEF Free
    <2>3. Identifiers' BY <1>1, <1>2, <2>1, <2>2 DEF Identifiers, IDs
    <2>4. Keys' BY <1>1, <1>2, <2>1, <2>2 DEF Keys, Gone, InHand
    <2>5. \A t \in Slots : SlotKnown(t)'
      <3> SUFFICES ASSUME NEW t \in Slots PROVE SlotKnown(t)' OBVIOUS
      <3>1. ~Announcing(t) /\ ~Announcing(t)' BY <1>2, <2>1, <2>2 DEF Announcing
      <3>2. \A id : Removing(t, id)' <=> Removing(t, id) BY <1>2 DEF Removing
      <3>3. SlotKnown(t) OBVIOUS
      <3>4. CASE t = s BY <2>2, <3>4 DEF SlotKnown
      <3>5. CASE t # s BY <1>2, <2>2, <3>1, <3>2, <3>3, <3>5 DEF SlotKnown
      <3> QED BY <3>4, <3>5
    <2>6. EventKnown' BY <1>2, <2>1, <2>2 DEF EventKnown
    <2>7. CallKnown' BY <1>2, <2>2 DEF CallKnown
    <2> QED BY <2>3, <2>4, <2>5, <2>6, <2>7
  <1>7. ASSUME NEW s \in Slots, PeerLeaves(s) PROVE Registry'
    <2>1. /\ peer[s].state = "connected" /\ lastID' = lastID /\ event' = event /\ io' = "loop"
          /\ peer' = [peer EXCEPT ![s].state = "disconnecting"]
      BY <1>7 DEF PeerLeaves
    <2>2. peer' = [peer EXCEPT ![s] = [state |-> "disconnecting", id |-> peer[s].id]]
      <3>1. [peer[s] EXCEPT !.state = "disconnecting"] = [state |-> "disconnecting", id |-> peer[s].id]
        BY <1>1
      <3> QED BY <2>1, <3>1
    <2>3. /\ \A t \in Slots : peer'[t].id = peer[t].id
          /\ \A t \in Slots : t # s => peer'[t] = peer[t]
          /\ peer'[s].state = "disconnecting"
      BY <1>1, <2>1, <2>2
    <2>4. Identifiers' BY <1>2, <2>1, <2>3 DEF Identifiers
    <2>5. Keys' BY <1>1, <1>2, <2>1, <2>3 DEF Keys, Gone, InHand
    <2>6. \A t \in Slots : SlotKnown(t)'
      <3> SUFFICES ASSUME NEW t \in Slots PROVE SlotKnown(t)' OBVIOUS
      <3>1. ~Announcing(t) /\ ~Announcing(t)' BY <1>2, <2>1 DEF Announcing
      <3>2. (peer'[t].state = "connecting") <=> (peer[t].state = "connecting") BY <2>1, <2>3
      <3>3. \A id : Removing(t, id)' <=> Removing(t, id) BY <1>2 DEF Removing
      <3> QED BY <1>2, <2>3, <3>1, <3>2, <3>3 DEF SlotKnown
    <2>7. EventKnown' BY <1>2, <2>1, <2>3 DEF EventKnown
    <2>8. CallKnown' BY <1>2, <2>3 DEF CallKnown
    <2> QED BY <2>4, <2>5, <2>6, <2>7, <2>8
  <1>8. CASE NoEventYet
    <2>1. UNCHANGED <<peer, lastID>> /\ io' = "loop" BY <1>8 DEF NoEventYet, peerVars
    <2> QED BY <1>1, <1>2, <2>1, QuietStep
  <1> QED BY <1>3, <1>4, <1>5, <1>6, <1>7, <1>8 DEF Service, CheckEvents

(* The events.                                                             *)
LEMMA EventsKnown ==
  ASSUME UsesHost, Registry,
         HandleConnect \/ HandleReceive \/ HandleDisconnect \/ RemoveDisconnected
  PROVE  Registry'
  <1>1. Shapes BY HasShapes
  <1> USE DEF Shapes, Registry
  <1>2. CASE HandleConnect
    <2>1. PICK id \in IDs : id = peer[event.slot].id BY <1>1, <1>2 DEF HandleConnect
    <2>2. PICK slot \in Slots : slot = event.slot BY <1>1, <1>2 DEF HandleConnect
    <2>3. /\ io = "handle" /\ event.type = "connect" /\ io' = "check"
          /\ peersHash' = [j \in DOMAIN peersHash \cup {id} |-> IF j = id THEN slot ELSE peersHash[j]]
          /\ signals' = Emitted(id, "connected")
          /\ UNCHANGED <<peer, lastID, call>>
      BY <1>2, <2>1, <2>2 DEF HandleConnect, peerVars
    <2>4. id # 0 /\ Unheard(id) /\ peer[slot].state \notin {"free", "connecting"} /\ peer[slot].id = id
      BY <1>1, <2>1, <2>2, <2>3 DEF EventKnown, SlotKnown, Announcing
    <2>5. Open(id)' /\ \A j \in IDs \ {0} : j # id => signals'[j] = signals[j]
      BY <2>1, <2>3, <2>4, SignalEmitted
    <2>6. ~Registered(id) /\ \A j \in DOMAIN peersHash : peersHash[j] # slot
      BY <1>1, <2>2, <2>3, <2>4, SignalsDiffer DEF Keys, Gone, Registered
    <2>7. /\ DOMAIN peersHash' = DOMAIN peersHash \cup {id} /\ peersHash'[id] = slot
          /\ \A j \in DOMAIN peersHash : peersHash'[j] = peersHash[j]
      BY <2>3, <2>6 DEF Registered
    <2>8. Identifiers'
      <3>1. id <= lastID BY <2>4 DEF Identifiers
      <3>2. \A j \in IDs \ {0} : j > lastID => j # id BY <1>1, <2>1, <3>1 DEF IDs
      <3> QED BY <1>1, <2>3, <2>5, <3>2 DEF Identifiers, Unheard, Open, Ended
    <2>9. Keys'
      <3>1. \A j \in DOMAIN peersHash' : j # 0 /\ Open(j)' /\ peer'[peersHash'[j]].id = j
        BY <1>1, <2>3, <2>4, <2>5, <2>6, <2>7, SignalsDiffer DEF Keys, Gone, Open, Registered
      <3>2. \A i, j \in DOMAIN peersHash' : peersHash'[i] = peersHash'[j] => i = j
        BY <2>6, <2>7 DEF Keys
      <3> QED BY <3>1, <3>2 DEF Keys
    <2>10. \A t \in Slots : SlotKnown(t)'
      <3> SUFFICES ASSUME NEW t \in Slots PROVE SlotKnown(t)' OBVIOUS
      <3>1. CASE t = slot
        BY <2>3, <2>4, <2>5, <2>7, <3>1 DEF SlotKnown, Announcing, Registered
      <3>2. CASE t # slot
        <4>1. peer[t].id # id BY <1>1, <2>4, <3>2 DEF Identifiers
        <4> QED BY ZenonT(30), <1>1, <2>2, <2>3, <2>5, <2>7, <3>2, <4>1
                DEF SlotKnown, Announcing, Removing, Unheard, Open, Registered
      <3> QED BY <3>1, <3>2
    <2>11. EventKnown' BY <2>3 DEF EventKnown
    <2>12. CallKnown'
      BY <1>1, <2>3, <2>4, <2>5, <2>7 DEF CallKnown, Unheard, Registered
    <2> QED BY <2>8, <2>9, <2>10, <2>11, <2>12
  <1>3. CASE HandleReceive
    <2>1. /\ UNCHANGED <<peer, lastID, signals, peersHash, call>>
          /\ io = "handle" /\ event.type = "receive" /\ io' = "check"
      BY <1>3 DEF HandleReceive, peerVars
    <2> QED BY <1>1, <2>1, QuietStep
  <1>4. CASE HandleDisconnect
    <2>1. PICK slot \in Slots : slot = event.slot BY <1>1, <1>4 DEF HandleDisconnect
    <2>2. /\ UNCHANGED <<peer, lastID, signals, peersHash, call>>
          /\ io = "handle" /\ event.type = "disconnect"
          /\ peer[slot].state \in {"free", "connecting"}
      BY <1>4, <2>1 DEF HandleDisconnect, peerVars, EventKnown
    <2>3. Identifiers' BY <2>2 DEF Identifiers, Unheard, Open, Ended
    <2>4. CallKnown' BY <2>2 DEF CallKnown, Unheard, Registered
    <2>5. ASSUME NEW id \in KeysOf(slot) \ {0},
                 event' = [type |-> "disconnect", slot |-> slot, id |-> id], io' = "remove"
          PROVE  Registry'
      <3>1. id \in DOMAIN peersHash /\ peersHash[id] = slot /\ event'.type = "disconnect"
            /\ event'.slot = slot /\ event'.id = id
        BY <2>5 DEF KeysOf
      <3>2. Open(id) BY <3>1 DEF Keys
      <3>3. \A s \in Slots : peer[s].id # id
        <4> SUFFICES ASSUME NEW s \in Slots, peer[s].id = id PROVE FALSE OBVIOUS
        <4>1. id # 0 /\ ~Unheard(id) BY <2>5, <3>2, SignalsDiffer
        <4>2. ~Announcing(s) BY <2>2 DEF Announcing
        <4>3. peer[s].state # "connecting" BY <4>1 DEF SlotKnown
        <4>4. s = slot \/ Removing(s, id) BY <3>1, <4>1, <4>2, <4>3 DEF SlotKnown
        <4>5. ~Removing(s, id) BY <3>1 DEF Removing, CallKnown, Registered
        <4>6. s = slot BY <4>4, <4>5
        <4>7. peer[s].state # "free" BY <1>1, <4>1
        <4> QED BY <2>2, <4>3, <4>6, <4>7
      <3>4. Keys'
        BY <1>1, <2>1, <2>2, <2>5, <3>1 DEF Keys, Gone, InHand, Open
      <3>5. \A t \in Slots : SlotKnown(t)'
        BY <1>1, <2>2, <2>5, <3>1 DEF SlotKnown, Announcing, Removing, Unheard, Open, Registered
      <3>6. EventKnown' BY <2>2, <2>5, <3>1, <3>2, <3>3 DEF EventKnown, Open, Keys
      <3> QED BY <2>3, <2>4, <3>4, <3>5, <3>6
    <2>6. ASSUME KeysOf(slot) = {} \/ 0 \in KeysOf(slot), io' = "check" PROVE Registry'
      <3>1. \A j \in DOMAIN peersHash : peersHash[j] # slot BY <2>6 DEF KeysOf, Keys
      <3>2. Keys' BY <1>1, <2>1, <2>2, <3>1 DEF Keys, Gone, InHand, Open
      <3>3. \A t \in Slots : SlotKnown(t)'
        BY <1>1, <2>2, <2>6 DEF SlotKnown, Announcing, Removing, Unheard, Open, Registered
      <3>4. EventKnown' BY <2>6 DEF EventKnown
      <3> QED BY <2>3, <2>4, <3>2, <3>3, <3>4
    <2> QED BY <1>4, <2>1, <2>5, <2>6 DEF HandleDisconnect
  <1>5. CASE RemoveDisconnected
    <2>1. PICK id \in IDs \ {0} : id = event.id BY <1>1, <1>5 DEF RemoveDisconnected
    <2>2. PICK slot \in Slots : slot = event.slot BY <1>1, <1>5 DEF RemoveDisconnected
    <2>3. /\ io = "remove" /\ event.type = "disconnect" /\ io' = "check"
          /\ peersHash' = Without(id) /\ signals' = Emitted(id, "disconnected")
          /\ UNCHANGED <<peer, lastID, call>>
      BY <1>1, <1>5, <2>1 DEF RemoveDisconnected, peerVars
    <2>4. Open(id) /\ (\A s \in Slots : peer[s].id # id)
          /\ \A j \in DOMAIN peersHash : peersHash[j] = slot => j = id
      BY <2>1, <2>2, <2>3 DEF EventKnown
    <2>5. Ended(id)' /\ \A j \in IDs \ {0} : j # id => signals'[j] = signals[j]
      BY <2>1, <2>3, <2>4, SignalEmitted
    <2>6. /\ DOMAIN peersHash' = DOMAIN peersHash \ {id}
          /\ \A j \in DOMAIN peersHash' : peersHash'[j] = peersHash[j]
      BY <2>3 DEF Without
    <2>7. Identifiers'
      BY <1>1, <2>3, <2>4, <2>5, SignalsDiffer DEF Identifiers, Unheard, Open, Ended
    <2>8. Keys'
      BY <1>1, <2>2, <2>3, <2>4, <2>5, <2>6 DEF Keys, Gone, InHand, Open
    <2>9. \A t \in Slots : SlotKnown(t)'
      <3> SUFFICES ASSUME NEW t \in Slots PROVE SlotKnown(t)' OBVIOUS
      <3>1. ~Announcing(t) /\ ~Announcing(t)' BY <2>3 DEF Announcing
      <3>2. \A j : Removing(t, j)' <=> Removing(t, j) BY <2>3 DEF Removing
      <3>3. peer[t].id # id /\ peer[t].id \in IDs BY <1>1, <2>4
      <3>4. peer[t].id # 0 => signals'[peer[t].id] = signals[peer[t].id] BY <2>5, <3>3
      <3>5. /\ Registered(peer[t].id)' <=> Registered(peer[t].id)
            /\ Registered(peer[t].id) => peersHash'[peer[t].id] = peersHash[peer[t].id]
        BY <2>3, <2>6, <3>3 DEF Registered
      <3> QED BY <2>3, <3>1, <3>2, <3>4, <3>5 DEF SlotKnown, Unheard, Open
    <2>10. EventKnown' BY <2>3 DEF EventKnown
    <2>11. CallKnown'
      <3>1. \A j \in IDs \ {0} : ~Unheard(j) => ~Unheard(j)'
        BY <2>5, SignalsDiffer DEF Unheard, Ended
      <3> QED BY <1>1, <2>3, <2>6, <3>1 DEF CallKnown, Registered
    <2> QED BY <2>7, <2>8, <2>9, <2>10, <2>11
  <1> QED BY <1>2, <1>3, <1>4, <1>5

(* The calls of the application, when their reset hits nothing.            *)
LEMMA CallsKnown ==
  ASSUME UsesHost, Registry, ReadConnectID \/ RemovePeer \/ ResetPeer \/ DestroyHost, ~raced'
  PROVE  Registry'
  <1>1. Shapes BY HasShapes
  <1> USE DEF Shapes, Registry
  <1>2. CASE ReadConnectID
    <2>1. /\ UNCHANGED <<peer, lastID, signals, peersHash, io, event>>
          /\ call.step = "read" /\ peer[call.slot].id = call.id
          /\ call' = [call EXCEPT !.step = "removePeer", !.id = call.id]
      BY <1>2 DEF ReadConnectID, peerVars, ioVars
    <2>2. call \in [step : {"read"}, id : IDs, slot : Slots]
      BY <1>2, HasShapes DEF ReadConnectID, UsesHost, TypeOK, None
    <2>3. call'.step = "removePeer" /\ call'.id = call.id /\ call'.slot = call.slot BY <2>1, <2>2
    <2>4. Identifiers' BY <2>1 DEF Identifiers, Unheard, Open, Ended
    <2>5. Keys' BY <2>1 DEF Keys, Gone, InHand, Open
    <2>6. \A t \in Slots : SlotKnown(t)'
      BY <2>1, <2>3 DEF SlotKnown, Announcing, Removing, Unheard, Open, Registered
    <2>7. EventKnown' BY <2>1 DEF EventKnown, Open
    <2>8. CallKnown' BY <2>1, <2>2, <2>3 DEF CallKnown, Unheard, Identifiers
    <2> QED BY <2>4, <2>5, <2>6, <2>7, <2>8
  <1>3. CASE RemovePeer
    <2>1. /\ UNCHANGED <<peer, lastID, signals, io, event>>
          /\ call.step = "removePeer" /\ peersHash' = Without(call.id)
          /\ call' = [call EXCEPT !.step = "reset"]
      BY <1>3 DEF RemovePeer, peerVars, ioVars
    <2>2. call \in [step : {"removePeer"}, id : IDs, slot : Slots]
      BY <1>3, HasShapes DEF RemovePeer, UsesHost, TypeOK, None
    <2>3. call'.step = "reset" /\ call'.id = call.id /\ call'.slot = call.slot BY <2>1, <2>2
    <2>4. /\ DOMAIN peersHash' = DOMAIN peersHash \ {call.id}
          /\ \A j \in DOMAIN peersHash' : peersHash'[j] = peersHash[j]
      BY <2>1 DEF Without
    <2>5. Identifiers' BY <2>1 DEF Identifiers, Unheard, Open, Ended
    <2>6. Keys' BY <2>1, <2>4 DEF Keys, Gone, InHand, Open
    <2>7. \A t \in Slots : SlotKnown(t)'
      <3> SUFFICES ASSUME NEW t \in Slots PROVE SlotKnown(t)' OBVIOUS
      <3>1. Announcing(t)' <=> Announcing(t) BY <2>1 DEF Announcing
      <3>2. \A j : ~Removing(t, j) BY <2>1 DEF Removing
      <3>3. CASE peer[t].id = call.id
        <4>1. t = call.slot BY <2>1, <3>3 DEF CallKnown
        <4>2. Removing(t, call.id)' BY <2>3, <4>1 DEF Removing
        <4> QED BY SMTT(30), <2>1, <3>1, <3>3, <4>2 DEF SlotKnown, Unheard, Open
      <3>4. CASE peer[t].id # call.id
        <4>1. /\ Registered(peer[t].id)' <=> Registered(peer[t].id)
              /\ Registered(peer[t].id) => peersHash'[peer[t].id] = peersHash[peer[t].id]
          BY <2>1, <2>4, <3>4 DEF Registered
        <4> QED BY <2>1, <3>1, <3>2, <4>1 DEF SlotKnown, Unheard, Open
      <3> QED BY <3>3, <3>4
    <2>8. EventKnown' BY <2>1, <2>4 DEF EventKnown, Open
    <2>9. CallKnown' BY <2>1, <2>3, <2>4 DEF CallKnown, Unheard, Registered
    <2> QED BY <2>5, <2>6, <2>7, <2>8, <2>9
  <1>4. CASE ResetPeer
    <2>1. PICK slot \in Slots : slot = call.slot BY <1>1, <1>4 DEF ResetPeer
    <2>2. PICK id \in IDs : id = call.id BY <1>1, <1>4 DEF ResetPeer
    <2>3. /\ UNCHANGED <<lastID, peersHash, io, event>>
          /\ call.step = "reset" /\ call' = None
          /\ peer[slot].id = id /\ ~InHand(slot)
          /\ peer' = [peer EXCEPT ![slot] = Free] /\ signals' = Emitted(id, "disconnected")
      BY <1>4, <2>1, <2>2 DEF ResetPeer, ioVars
    <2>4. id # 0 /\ ~Unheard(id) /\ ~Registered(id) BY <2>2, <2>3 DEF CallKnown
    <2>5. Open(id)
      <3>1. ~Announcing(slot) BY <2>3 DEF Announcing, InHand
      <3> QED BY <2>3, <2>4, <3>1 DEF SlotKnown
    <2>6. Ended(id)' /\ \A j \in IDs \ {0} : j # id => signals'[j] = signals[j]
      BY <2>2, <2>3, <2>4, <2>5, SignalEmitted
    <2>7. /\ \A t \in Slots : t # slot => peer'[t] = peer[t] /\ peer[t].id # id
          /\ peer'[slot].state = "free" /\ peer'[slot].id = 0
      BY <1>1, <2>3, <2>4 DEF Identifiers, Free
    <2>8. call'.step = "none" BY <2>3 DEF None
    <2>9. Identifiers'
      <3>1. lastID >= 0 /\ lastID' = lastID BY <1>1, <2>3 DEF IDs
      <3>2. \A s \in Slots : peer'[s].id <= lastID BY <2>7, <3>1 DEF Identifiers
      <3>3. \A s, t \in Slots : peer'[s].id = peer'[t].id /\ peer'[s].id # 0 => s = t
        BY <2>7 DEF Identifiers
      <3>4. id <= lastID BY <2>3 DEF Identifiers
      <3>5. \A j \in IDs \ {0} : j > lastID => Unheard(j)'
        <4>1. \A j \in IDs \ {0} : j > lastID => j # id BY <1>1, <3>4 DEF IDs
        <4> QED BY <2>6, <4>1 DEF Identifiers, Unheard
      <3>6. \A j \in IDs \ {0} : Unheard(j)' \/ Open(j)' \/ Ended(j)'
        BY <2>6 DEF Identifiers, Unheard, Open, Ended
      <3> QED BY <3>1, <3>2, <3>3, <3>5, <3>6 DEF Identifiers
    <2>10. Keys'
      BY <1>1, <2>3, <2>4, <2>6, <2>7 DEF Keys, Gone, InHand, Open, Registered
    <2>11. \A t \in Slots : SlotKnown(t)'
      <3> SUFFICES ASSUME NEW t \in Slots PROVE SlotKnown(t)' OBVIOUS
      <3>1. CASE t = slot BY <2>7, <3>1 DEF SlotKnown
      <3>2. CASE t # slot
        <4>1. peer'[t] = peer[t] /\ peer[t].id # id /\ peer[t].id \in IDs BY <1>1, <2>7, <3>2
        <4>2. Announcing(t)' <=> Announcing(t) BY <2>3 DEF Announcing
        <4>3. \A j : ~Removing(t, j) BY <2>1, <3>2 DEF Removing
        <4>4. peer[t].id # 0 => signals'[peer[t].id] = signals[peer[t].id] BY <2>6, <4>1
        <4> QED BY <2>3, <4>1, <4>2, <4>3, <4>4 DEF SlotKnown, Unheard, Open, Registered
      <3> QED BY <3>1, <3>2
    <2>12. EventKnown'
      BY <1>1, <2>3, <2>6, <2>7 DEF EventKnown, Open, InHand
    <2>13. CallKnown' BY <2>8 DEF CallKnown
    <2> QED BY <2>9, <2>10, <2>11, <2>12, <2>13
  <1>5. CASE DestroyHost
    <2>1. /\ UNCHANGED <<lastID, signals, io, event>> /\ call'.step = "none"
          /\ peer' = [s \in Slots |-> Free] /\ DOMAIN peersHash' = {}
      BY <1>5 DEF DestroyHost, None, ioVars
    <2>2. io \notin Serving BY <1>5 DEF DestroyHost, UsesHost, Lifetime
    <2>3. \A s \in Slots : peer'[s].id = 0 /\ peer'[s].state = "free" BY <2>1 DEF Free
    <2>4. Identifiers'
      <3>1. lastID >= 0 BY <1>1 DEF IDs
      <3> QED BY <2>1, <2>3, <3>1 DEF Identifiers, Unheard, Open, Ended
    <2>5. Keys' BY <2>1 DEF Keys
    <2>6. \A s \in Slots : SlotKnown(s)' BY <2>3 DEF SlotKnown
    <2>7. EventKnown' BY <2>1, <2>2 DEF EventKnown, Serving
    <2>8. CallKnown' BY <2>1 DEF CallKnown
    <2> QED BY <2>4, <2>5, <2>6, <2>7, <2>8
  <1> QED BY <1>2, <1>3, <1>4, <1>5

(* A slot that an attempt to connect still holds is emptied.               *)
LEMMA AttemptGivenUp ==
  ASSUME Shapes, Registry, NEW s \in Slots, peer[s].state \in {"free", "connecting"},
         peer' = [peer EXCEPT ![s] = Free],
         UNCHANGED <<lastID, signals, peersHash, io, event>>,
         UNCHANGED call \/ (call.step # "reset" /\ call'.step = "none")
  PROVE  Registry'
  <1> USE DEF Shapes, Registry
  <1>1. /\ \A t \in Slots : t # s => peer'[t] = peer[t]
        /\ peer'[s].state = "free" /\ peer'[s].id = 0
    BY DEF Free
  <1>2. peer[s].id = 0 \/ Unheard(peer[s].id) BY DEF SlotKnown
  <1>3. \A id \in DOMAIN peersHash : peersHash[id] = s => Gone(s)
    BY <1>2, SignalsDiffer DEF Keys
  <1>4. Identifiers'
    <2>1. lastID >= 0 BY DEF IDs
    <2> QED BY <1>1, <2>1 DEF Identifiers, Unheard, Open, Ended
  <1>5. Keys' BY <1>1, <1>3 DEF Keys, Gone, InHand, Open
  <1>6. \A t \in Slots : SlotKnown(t)'
    <2> SUFFICES ASSUME NEW t \in Slots PROVE SlotKnown(t)' OBVIOUS
    <2>1. CASE t = s BY <1>1, <2>1 DEF SlotKnown
    <2>2. CASE t # s /\ UNCHANGED call
      BY <1>1, <2>2 DEF SlotKnown, Announcing, Removing, Unheard, Open, Registered
    <2>3. CASE t # s /\ call.step # "reset"
      BY <1>1, <2>3 DEF SlotKnown, Announcing, Removing, Unheard, Open, Registered
    <2>4. CASE UNCHANGED call \/ call.step # "reset" BY <2>1, <2>2, <2>3, <2>4
    <2> QED BY <2>4
  <1>7. EventKnown' BY <1>1 DEF EventKnown, Open
  <1>8. CallKnown' BY <1>1 DEF CallKnown, Unheard, Registered
  <1> QED BY <1>4, <1>5, <1>6, <1>7, <1>8

LEMMA AppKnown ==
  ASSUME UsesHost, Registry, AppStep \/ BeginDisconnect, ~raced', io' # "undefined"
  PROVE  Registry'
  <1>1. Shapes BY HasShapes
  <1> USE ENETAssumption DEF Shapes, Registry
  <1>2. CASE BeginDisconnect
    <2>1. PICK s \in Slots : s = call.slot BY <1>1, <1>2 DEF BeginDisconnect
    <2>2. PICK p \in AfterDisconnect(peer[s]) : peer' = [peer EXCEPT ![s] = p]
      BY <1>2, <2>1 DEF BeginDisconnect
    <2>3. /\ UNCHANGED <<lastID, signals, peersHash, io, event>>
          /\ call.step \in {"disconnect", "later"} /\ call'.step = "none"
      BY <1>2 DEF BeginDisconnect, ioVars, None
    <2>4. CASE peer[s].state = "connecting"
      BY <1>1, <2>2, <2>3, <2>4, AttemptGivenUp DEF AfterDisconnect
    <2>5. CASE peer[s].state # "connecting"
      <3>1. p.id = peer[s].id /\ (p.state = "free" <=> peer[s].state = "free")
            /\ p.state # "connecting"
        <4>1. CASE peer[s].state \in {"connected", "later"}
          <5>1. PICK state \in {"disconnecting", "later"} : p = [peer[s] EXCEPT !.state = state]
            BY <2>2, <4>1 DEF AfterDisconnect
          <5> QED BY <1>1, <4>1, <5>1
        <4>2. CASE peer[s].state \notin {"connected", "later"}
          BY <2>2, <2>5, <4>2 DEF AfterDisconnect
        <4> QED BY <4>1, <4>2
      <3>2. /\ \A t \in Slots : peer'[t].id = peer[t].id
            /\ \A t \in Slots : (peer'[t].state = "free") <=> (peer[t].state = "free")
            /\ \A t \in Slots : (peer'[t].state = "connecting") <=> (peer[t].state = "connecting")
        BY <1>1, <2>2, <2>5, <3>1
      <3>3. Identifiers' BY <2>3, <3>2 DEF Identifiers, Unheard, Open, Ended
      <3>4. Keys' BY <1>1, <2>3, <3>2 DEF Keys, Gone, InHand, Open
      <3>5. \A t \in Slots : SlotKnown(t)'
        <4> SUFFICES ASSUME NEW t \in Slots PROVE SlotKnown(t)' OBVIOUS
        <4>1. SlotKnown(t) /\ peer'[t].id = peer[t].id BY <3>2
        <4>2. (peer'[t].state = "connecting") <=> (peer[t].state = "connecting") BY <3>2
        <4>3. Announcing(t)' <=> Announcing(t) BY <2>3 DEF Announcing
        <4>4. \A id : ~Removing(t, id) BY <2>3 DEF Removing
        <4>5. \A id : (Unheard(id)' <=> Unheard(id)) /\ (Open(id)' <=> Open(id))
          BY <2>3 DEF Unheard, Open
        <4>6. \A id : Registered(id)' <=> Registered(id) BY <2>3 DEF Registered
        <4>7. peersHash' = peersHash BY <2>3
        <4> HIDE DEF Announcing, Removing, Unheard, Open, Registered, Shapes
        <4> QED BY <4>1, <4>2, <4>3, <4>4, <4>5, <4>6, <4>7 DEF SlotKnown
      <3>6. EventKnown' BY <1>1, <2>3, <3>2 DEF EventKnown, Open
      <3>7. CallKnown' BY <2>3 DEF CallKnown
      <3> QED BY <3>3, <3>4, <3>5, <3>6, <3>7
    <2> QED BY <2>4, <2>5
  <1>3. CASE Listen \/ StartWaitingForIO \/ Close
    <2>1. /\ UNCHANGED <<peer, lastID, signals, peersHash, call>>
          /\ UNCHANGED <<io, event>> \/ (io = "finished" /\ io' = "starting")
      BY <1>3 DEF Listen, StartWaitingForIO, Close, peerVars, ioVars
    <2> QED BY <1>1, <2>1, QuietStep
  <1>4. CASE CloseGoesOn
    <2>1. /\ UNCHANGED <<peer, lastID, signals, peersHash, io, event>>
          /\ call.step = "none" /\ call'.step = "destroy"
      BY <1>4 DEF CloseGoesOn, Callable, None, peerVars, ioVars
    <2> QED BY <1>1, <2>1, QuietStep
  <1>5. ASSUME NEW s \in Slots, ConnectToHost(s) PROVE Registry'
    <2>1. /\ UNCHANGED <<signals, peersHash, io, event, call>> /\ call.step = "none"
          /\ peer[s].state = "free" /\ lastID' = lastID + 1 /\ lastID < MaxIDs
          /\ peer' = [peer EXCEPT ![s] = [state |-> "connecting", id |-> lastID + 1]]
      BY <1>5 DEF ConnectToHost, Callable, None, ioVars
    <2>2. lastID + 1 \in IDs \ {0} /\ lastID + 1 > lastID BY <1>1, <2>1 DEF IDs
    <2>3. Unheard(lastID + 1) /\ \A t \in Slots : peer[t].id # lastID + 1
      BY <1>1, <2>2 DEF Identifiers, IDs
    <2>4. /\ \A t \in Slots : t # s => peer'[t] = peer[t]
          /\ peer'[s].state = "connecting" /\ peer'[s].id = lastID + 1 /\ peer[s].id = 0
      BY <1>1, <2>1
    <2>5. Identifiers'
      BY <1>1, <2>1, <2>3, <2>4 DEF Identifiers, Unheard, Open, Ended, IDs
    <2>6. Keys' BY <1>1, <2>1, <2>3, <2>4, SignalsDiffer DEF Keys, Gone, InHand, Open
    <2>7. \A t \in Slots : SlotKnown(t)'
      BY <1>1, <2>1, <2>3, <2>4 DEF SlotKnown, Announcing, Removing, Unheard, Open, Registered
    <2>8. EventKnown'
      BY <1>1, <2>1, <2>3, <2>4, SignalsDiffer DEF EventKnown, Open
    <2>9. CallKnown' BY <2>1 DEF CallKnown
    <2> QED BY <2>5, <2>6, <2>7, <2>8, <2>9
  <1>6. CASE ConnectTimesOut
    <2>1. PICK s \in Slots : s = connecting.slot
      BY <1>6 DEF ConnectTimesOut, TurnEnds, UsesHost, TypeOK, None
    <2>2. /\ UNCHANGED <<lastID, signals, peersHash, io, event, call>>
          /\ peer' = [peer EXCEPT ![s] = Free] /\ peer[s].state \in {"free", "connecting"}
      <3>1. peer[s] \in {Free, [state |-> "connecting", id |-> connecting.id]}
        BY <1>6, <2>1 DEF ConnectTimesOut
      <3>2. peer[s].state \in {"free", "connecting"} BY <3>1 DEF Free
      <3> QED BY <1>6, <2>1, <3>2 DEF ConnectTimesOut, ioVars
    <2> QED BY <1>1, <2>2, AttemptGivenUp
  <1>7. ASSUME NEW id \in IDs,
               SendData(id) \/ SendDataNow(id) \/ Disconnect(id) \/ DisconnectLater(id)
        PROVE  Registry'
    <2>1. /\ UNCHANGED <<peer, lastID, signals, peersHash, io, event>>
          /\ call.step = "none" /\ call'.step \notin {"read", "removePeer", "reset"}
      BY <1>7 DEF SendData, SendDataNow, Disconnect, DisconnectLater, GetPeer, Callable, None,
                  peerVars, ioVars
    <2> QED BY <1>1, <2>1, QuietStep
  <1>8. ASSUME NEW id \in IDs, DisconnectNow(id) PROVE Registry'
    <2>1. /\ UNCHANGED <<peer, lastID, signals, peersHash, io, event>> /\ id \in DOMAIN peersHash
          /\ call.step = "none" /\ call'.step = "read" /\ call'.id = id
      BY <1>8 DEF DisconnectNow, GetPeer, Callable, None, peerVars, ioVars, Registered
    <2>2. Identifiers' BY <2>1 DEF Identifiers, Unheard, Open, Ended
    <2>3. Keys' BY <2>1 DEF Keys, Gone, InHand, Open
    <2>4. \A t \in Slots : SlotKnown(t)'
      BY <2>1 DEF SlotKnown, Announcing, Removing, Unheard, Open, Registered
    <2>5. EventKnown' BY <2>1 DEF EventKnown, Open
    <2>6. CallKnown' BY <2>1, SignalsDiffer DEF CallKnown, Unheard, Open, Keys
    <2> QED BY <2>2, <2>3, <2>4, <2>5, <2>6
  <1>9. ~ConnectDangles BY DEF ConnectDangles
  <1> QED BY <1>2, <1>3, <1>4, <1>5, <1>6, <1>7, <1>8, <1>9 DEF AppStep

LEMMA RegistryStep ==
  ASSUME UsesHost, RegistryInvariant, [Next]_vars
  PROVE  RegistryInvariant'
  <1> SUFFICES ASSUME ~raced', io' # "undefined" PROVE Registry'
    BY DEF RegistryInvariant
  <1>1. ~raced /\ io # "undefined"
    <2>1. raced => raced'
      <3>1. CASE ReadConnectID \/ ResetPeer \/ ConnectTimesOut
        BY <3>1 DEF ReadConnectID, ResetPeer, ConnectTimesOut
      <3>2. CASE UNCHANGED raced BY <3>2
      <3> QED BY <3>1, <3>2
          DEF Next, IOStep, CallStep, AppStep, EnterWaitForIO, TakePackets, SendPacket, Service,
              NoMoreEvents, CheckEvents, HandleConnect, HandleReceive, HandleDisconnect,
              RemoveDisconnected, LeaveWaitForIO, ThreadFinishes, AppendPacket, SendAtOnce,
              RemovePeer, BeginDisconnect, DestroyHost, ConnectPolls, Listen, StartWaitingForIO,
              Close, CloseGoesOn, ConnectToHost, ConnectDangles, SendData, SendDataNow,
              DisconnectNow, Disconnect, DisconnectLater, GetPeer, raceVars, vars
    <2>2. io = "undefined" => UNCHANGED io
      BY DEF Next, IOStep, CallStep, AppStep, EnterWaitForIO, TakePackets, SendPacket, Service,
             NoMoreEvents, CheckEvents, HandleConnect, HandleReceive, HandleDisconnect,
             RemoveDisconnected, LeaveWaitForIO, ThreadFinishes, AppendPacket, SendAtOnce,
             ReadConnectID, RemovePeer, ResetPeer, BeginDisconnect, DestroyHost, ConnectPolls,
             Listen, StartWaitingForIO, Close, CloseGoesOn, ConnectToHost, ConnectTimesOut,
             ConnectDangles, TurnEnds, Callable, SendData, SendDataNow, DisconnectNow, Disconnect,
             DisconnectLater, GetPeer, ioVars, vars
    <2> QED BY <2>1, <2>2
  <1>2. Registry /\ Shapes BY <1>1, HasShapes DEF RegistryInvariant
  <1>3. CASE EnterWaitForIO \/ TakePackets \/ SendPacket \/ NoMoreEvents \/ LeaveWaitForIO
             \/ ThreadFinishes
    <2>1. /\ UNCHANGED <<peer, lastID, signals, peersHash, call>>
          /\ io \notin {"handle", "remove"} /\ io' \notin {"handle", "remove"}
      BY <1>3 DEF EnterWaitForIO, TakePackets, SendPacket, NoMoreEvents, NoEventYet,
                  LeaveWaitForIO, ThreadFinishes, peerVars
    <2> QED BY <1>2, <2>1, QuietStep
  <1>4. CASE AppendPacket \/ SendAtOnce \/ ConnectPolls
    <2>1. /\ UNCHANGED <<peer, lastID, signals, peersHash, io, event>>
          /\ \/ UNCHANGED call
             \/ call.step # "reset" /\ call'.step \notin {"read", "removePeer", "reset"}
      BY <1>4 DEF AppendPacket, SendAtOnce, ConnectPolls, None, peerVars, ioVars
    <2> QED BY <1>2, <2>1, QuietStep
  <1>5. CASE UNCHANGED vars
    <2>1. UNCHANGED <<peer, lastID, signals, peersHash, io, event, call>>
      BY <1>5 DEF vars, peerVars, ioVars
    <2> QED BY <1>2, <2>1, QuietStep
  <1> QED BY <1>2, <1>3, <1>4, <1>5, ServiceKnown, EventsKnown, CallsKnown, AppKnown
          DEF Next, IOStep, CallStep

(* While no reset by the application hits what the thread of waitForIO     *)
(* holds, and no freed memory is used, peersHash names exactly the         *)
(* connections that were announced and not ended, each in its slot; every  *)
(* signal comes once; and data comes from an announced connection.         *)
THEOREM RegistryStaysExact == Spec => []RegistryExact
  <1>1. Init => RegistryInvariant
    BY ENETAssumption
    DEF Init, RegistryInvariant, Registry, Identifiers, Keys, SlotKnown, EventKnown, CallKnown,
        Unheard, Free, None, IDs
  <1>2. ENETInvariant /\ RegistryInvariant /\ [Next]_vars => RegistryInvariant'
    BY RegistryStep DEF ENETInvariant
  <1>3. ENETInvariant /\ RegistryInvariant => RegistryExact
    <2> SUFFICES ASSUME UsesHost, Registry
                 PROVE  /\ \A id \in DOMAIN peersHash :
                             /\ id # 0 /\ Open(id)
                             /\ \/ peer[peersHash[id]].id = id
                                \/ InHand(peersHash[id]) /\ event.type = "disconnect"
                        /\ \A i, j \in DOMAIN peersHash : peersHash[i] = peersHash[j] => i = j
                        /\ \A id \in IDs \ {0} :
                             Open(id) \/ signals[id] \in {<<>>, <<"connected", "disconnected">>}
                        /\ io = "handle" /\ event.type = "receive" => Open(peer[event.slot].id)
      BY DEF ENETInvariant, RegistryInvariant, RegistryExact
    <2>1. Shapes BY HasShapes
    <2>2. \A id \in IDs \ {0} :
            Open(id) \/ signals[id] \in {<<>>, <<"connected", "disconnected">>}
      BY DEF Registry, Identifiers, Unheard, Ended
    <2>3. io = "handle" /\ event.type = "receive" => Open(peer[event.slot].id)
      BY <2>1 DEF Registry, Shapes, EventKnown, SlotKnown, Announcing
    <2> QED BY <2>2, <2>3 DEF Registry, Keys, Gone
  <1> QED BY <1>1, <1>2, <1>3, InvariantHolds, PTL DEF Spec
=============================================================================

---------------------------- MODULE ENETProtocolBase ----------------------------
(***************************************************************************)
(* ENETProtocolBasePrivate (enet/enetprotocolbase.cpp): the thread of the  *)
(* application calls it, a second thread runs waitForIO, and they share    *)
(* the ENet host, its peer slots, peersHash and m_outgoingPacketList.  The *)
(* mutex covers one operation on the hash or the list, never an operation  *)
(* of the class, so each call is a step per critical section.  A call of   *)
(* the ENet library is one step.  Where the code runs the event loop       *)
(* (connectToHost, close) the application may call it again: one close and *)
(* one connectToHost at a time, either inside the other.  An identifier 0  *)
(* is what connectID holds in a slot without a connection.  io is          *)
(* "undefined" once a thread has used freed memory.                        *)
(***************************************************************************)
EXTENDS Integers, Sequences

CONSTANTS
  Slots,        \* the peers of the ENetHost
  MaxIDs,       \* connections opened, by either side (bound)
  MaxPackets,   \* calls of sendData that queue a packet (bound)
  MaxListens,   \* calls of listen that succeed (bound)
  MaxTotal      \* connections, packets and listens together (bound)

ASSUME ENETAssumption ==
  MaxIDs \in Nat /\ MaxPackets \in Nat /\ MaxListens \in Nat /\ MaxTotal \in Nat

IDs == 0 .. MaxIDs
PeerState == {"free", "connecting", "connected", "later", "disconnecting"}
Packet == [n : 1 .. MaxPackets, id : IDs, slot : Slots, host : 1 .. MaxListens, live : BOOLEAN]

VARIABLES
  listening,     \* m_listening
  host,          \* localServer: the number of its listen, 0 when it is null
  listens,       \* successful calls of listen so far
  threadCount,   \* m_threadCount
  io,            \* where the thread of waitForIO is
  event,         \* the event it handles
  outgoing,      \* m_outgoingPacketList
  batch,         \* the local outgoingPacketList of waitForIO
  sent,          \* calls of enet_peer_send by waitForIO so far
  accepted,      \* packets sendData has queued
  peer,          \* the slots: ENetPeer::state and ENetPeer::connectID
  lastID,        \* connections opened so far
  peersHash,     \* connection identifier -> slot
  signals,       \* per identifier but 0, the signals emitted: history
  connecting,    \* a running connectToHost: its step, peer, host, and is
                 \* it a call from the event loop of close
  closing,       \* close() runs
  call,          \* a running call without event loop: its step and locals
  dropped,       \* connections reset by the application's thread: history
  raced          \* such a reset hit what the other thread held: history

queueVars == <<outgoing, batch, sent, accepted>>
peerVars == <<peer, lastID>>
hostVars == <<listening, host, listens, closing>>
ioVars == <<threadCount, io, event>>
raceVars == <<dropped, raced>>
vars == <<queueVars, peerVars, hostVars, ioVars, raceVars, peersHash, signals, connecting, call>>

None == [step |-> "none"]
NoEvent == [type |-> "none"]
Free == [state |-> "free", id |-> 0]

Init ==
  /\ listening = FALSE /\ host = 0 /\ listens = 0 /\ threadCount = 0
  /\ io = "finished" /\ event = NoEvent
  /\ outgoing = <<>> /\ batch = <<>> /\ sent = 0 /\ accepted = 0
  /\ peer = [s \in Slots |-> Free] /\ lastID = 0
  /\ peersHash = [id \in {} |-> 0] /\ signals = [id \in IDs \ {0} |-> <<>>]
  /\ connecting = None /\ closing = FALSE /\ call = None
  /\ dropped = {} /\ raced = FALSE

Registered(id) == id \in DOMAIN peersHash
Without(id) == [j \in DOMAIN peersHash \ {id} |-> peersHash[j]]
Emitted(id, signal) ==
  IF id = 0 THEN signals ELSE [signals EXCEPT ![id] = Append(@, signal)]
(* The bound on what the model starts.                                     *)
MayStart == lastID + accepted + listens < MaxTotal
(* The application's thread may enter the class.                           *)
Callable == io # "undefined" /\ call = None /\ connecting.step # "sleep"
(* The thread of waitForIO holds an event of slot s.                       *)
InHand(s) == io \in {"handle", "remove"} /\ event.slot = s

-----------------------------------------------------------------------------
(* The application's thread: listen, close and the thread.                 *)

Listen ==
  /\ Callable /\ host = 0 /\ listens < MaxListens /\ MayStart
  /\ listens' = listens + 1 /\ host' = listens' /\ listening' = TRUE
  /\ UNCHANGED <<queueVars, peerVars, ioVars, raceVars, peersHash, signals, connecting,
                 closing, call>>

(* QThread::start does nothing while the thread still runs.                *)
StartWaitingForIO ==
  /\ Callable /\ io = "finished"
  /\ io' = "starting"
  /\ UNCHANGED <<queueVars, peerVars, hostVars, raceVars, threadCount, event, peersHash,
                 signals, connecting, call>>

Close ==
  /\ Callable /\ host # 0 /\ ~closing
  /\ listening' = FALSE /\ closing' = TRUE
  /\ UNCHANGED <<queueVars, peerVars, ioVars, raceVars, host, listens, peersHash, signals,
                 connecting, call>>

(* A call of connectToHost from the event loop of close returns first.     *)
CloseGoesOn ==
  /\ Callable /\ closing /\ threadCount = 0
  /\ connecting # None => ~connecting.inClose
  /\ call' = [step |-> "destroy"]
  /\ UNCHANGED <<queueVars, peerVars, hostVars, ioVars, raceVars, peersHash, signals, connecting>>

(* Every peer is told, then the host is destroyed with its slots; a thread *)
(* may have counted itself since the test.                                 *)
DestroyHost ==
  /\ call.step = "destroy" /\ io # "undefined"
  /\ closing' = FALSE /\ host' = 0 /\ call' = None
  /\ peersHash' = [id \in {} |-> 0] /\ peer' = [s \in Slots |-> Free]
  /\ UNCHANGED <<queueVars, ioVars, raceVars, listening, listens, lastID, signals, connecting>>

-----------------------------------------------------------------------------
(* connectToHost: it polls the state of its peer between turns of the      *)
(* event loop.                                                             *)

ConnectToHost(s) ==
  /\ Callable /\ host # 0 /\ connecting = None
  /\ peer[s].state = "free" /\ lastID < MaxIDs /\ MayStart
  /\ lastID' = lastID + 1
  /\ peer' = [peer EXCEPT ![s] = [state |-> "connecting", id |-> lastID']]
  /\ connecting' = [step |-> "sleep", slot |-> s, id |-> lastID', host |-> host,
                    inClose |-> closing]
  /\ UNCHANGED <<queueVars, hostVars, ioVars, raceVars, peersHash, signals, call>>

(* A turn of the event loop is over, and with it a close it started.       *)
TurnEnds ==
  /\ io # "undefined" /\ call = None
  /\ connecting.step = "events" /\ (closing => connecting.inClose)

(* The state of the slot, before and after each turn of the event loop.    *)
ConnectPolls ==
  /\ \/ connecting.step = "sleep" /\ io # "undefined" /\ call = None
     \/ TurnEnds /\ host \in {0, connecting.host}
  /\ connecting' = IF host = 0 \/ peer[connecting.slot].state = "connected"
                   THEN None ELSE [connecting EXCEPT !.step = "events"]
  /\ UNCHANGED <<queueVars, peerVars, hostVars, ioVars, raceVars, peersHash, signals, call>>

(* enet_peer_reset, on what the slot holds by now.                         *)
ConnectTimesOut ==
  /\ TurnEnds /\ host = connecting.host
  /\ LET p == peer[connecting.slot]
     IN  /\ dropped' = dropped \cup ({p.id} \ {0})
         /\ raced' = (raced \/ p \notin {Free, [state |-> "connecting", id |-> connecting.id]})
  /\ peer' = [peer EXCEPT ![connecting.slot] = Free]
  /\ connecting' = None
  /\ UNCHANGED <<queueVars, hostVars, ioVars, lastID, peersHash, signals, call>>

(* A host closed and opened again in the turn: the peer is freed memory.   *)
ConnectDangles ==
  /\ TurnEnds /\ host \notin {0, connecting.host}
  /\ io' = "undefined"
  /\ UNCHANGED <<queueVars, peerVars, hostVars, raceVars, threadCount, event, peersHash, signals,
                 connecting, call>>

-----------------------------------------------------------------------------
(* sendData and the disconnects.                                           *)

GetPeer(id, step) ==
  /\ Callable /\ Registered(id)
  /\ call' = [step |-> step, id |-> id, slot |-> peersHash[id]]
  /\ UNCHANGED <<queueVars, peerVars, hostVars, ioVars, raceVars, peersHash, signals, connecting>>

SendData(id) == accepted < MaxPackets /\ MayStart /\ GetPeer(id, "append")
SendDataNow(id) == GetPeer(id, "send")
DisconnectNow(id) == GetPeer(id, "read")
Disconnect(id) == GetPeer(id, "disconnect")
DisconnectLater(id) == GetPeer(id, "later")

AppendPacket ==
  /\ call.step = "append" /\ io # "undefined"
  /\ accepted' = accepted + 1
  /\ outgoing' = Append(outgoing,
       [n |-> accepted', id |-> call.id, slot |-> call.slot, host |-> host,
        live |-> peer[call.slot] = [state |-> "connected", id |-> call.id]])
  /\ call' = None
  /\ UNCHANGED <<peerVars, hostVars, ioVars, raceVars, batch, sent, peersHash,
                 signals, connecting>>

(* sendData without the list: enet_peer_send from this thread.             *)
SendAtOnce ==
  /\ call.step = "send" /\ io # "undefined"
  /\ call' = None
  /\ UNCHANGED <<queueVars, peerVars, hostVars, ioVars, raceVars, peersHash, signals, connecting>>

ReadConnectID ==
  /\ call.step = "read" /\ io # "undefined"
  /\ LET id == peer[call.slot].id
     IN  /\ raced' = (raced \/ id # call.id)
         /\ call' = [call EXCEPT !.step = "removePeer", !.id = id]
  /\ UNCHANGED <<queueVars, peerVars, hostVars, ioVars, dropped, peersHash, signals, connecting>>

RemovePeer ==
  /\ call.step = "removePeer" /\ io # "undefined"
  /\ peersHash' = Without(call.id)
  /\ call' = [call EXCEPT !.step = "reset"]
  /\ UNCHANGED <<queueVars, peerVars, hostVars, ioVars, raceVars, signals, connecting>>

(* enet_peer_disconnect_now, and the signal from this thread.              *)
ResetPeer ==
  /\ call.step = "reset" /\ io # "undefined"
  /\ dropped' = dropped \cup ({peer[call.slot].id} \ {0})
  /\ raced' = (raced \/ peer[call.slot].id # call.id \/ InHand(call.slot))
  /\ peer' = [peer EXCEPT ![call.slot] = Free]
  /\ signals' = Emitted(call.id, "disconnected")
  /\ call' = None
  /\ UNCHANGED <<queueVars, hostVars, ioVars, lastID, peersHash, connecting>>

(* enet_peer_disconnect and enet_peer_disconnect_later: a connected peer   *)
(* takes no more packets and its end is announced by an event.             *)
AfterDisconnect(p) ==
  CASE p.state = "connecting" -> {Free}
    [] p.state \in {"connected", "later"} ->
         {[p EXCEPT !.state = state] :
            state \in {"disconnecting"} \cup IF call.step = "later" THEN {"later"} ELSE {}}
    [] OTHER -> {p}

BeginDisconnect ==
  /\ call.step \in {"disconnect", "later"} /\ io # "undefined"
  /\ \E p \in AfterDisconnect(peer[call.slot]) : peer' = [peer EXCEPT ![call.slot] = p]
  /\ call' = None
  /\ UNCHANGED <<queueVars, hostVars, ioVars, raceVars, lastID, peersHash, signals, connecting>>

-----------------------------------------------------------------------------
(* The thread of waitForIO.                                                *)

(* Mutant: the thread does not count itself.                               *)
EnterUncounted ==
  /\ io = "starting"
  /\ threadCount' = threadCount /\ io' = "loop"
  /\ UNCHANGED <<queueVars, peerVars, hostVars, raceVars, event, peersHash, signals,
                 connecting, call>>

EnterWaitForIO ==
  /\ io = "starting"
  /\ threadCount' = threadCount + 1 /\ io' = "loop"
  /\ UNCHANGED <<queueVars, peerVars, hostVars, raceVars, event, peersHash, signals,
                 connecting, call>>

(* Mutant: the list is not cleared.                                        *)
CopyPackets ==
  /\ io = "loop"
  /\ batch' = outgoing /\ outgoing' = outgoing
  /\ io' = IF listening THEN "sending" ELSE "last"
  /\ UNCHANGED <<peerVars, hostVars, raceVars, threadCount, event, sent, accepted,
                 peersHash, signals, connecting, call>>

(* Mutant: nothing is sent once nobody listens.                            *)
TakeWithoutDrain ==
  /\ io = "loop"
  /\ batch' = IF listening THEN outgoing ELSE <<>>
  /\ outgoing' = IF listening THEN <<>> ELSE outgoing
  /\ io' = IF listening THEN "sending" ELSE "last"
  /\ UNCHANGED <<peerVars, hostVars, raceVars, threadCount, event, sent, accepted,
                 peersHash, signals, connecting, call>>

(* Mutant: the list is left for the next turn when its mutex is taken.     *)
TakeIfUnlocked ==
  /\ io = "loop"
  /\ \/ batch' = outgoing /\ outgoing' = <<>>
     \/ batch' = <<>> /\ outgoing' = outgoing
  /\ io' = IF listening THEN "sending" ELSE "last"
  /\ UNCHANGED <<peerVars, hostVars, raceVars, threadCount, event, sent, accepted,
                 peersHash, signals, connecting, call>>

(* The list is copied and cleared in one critical section; close() does    *)
(* not touch it, so the test of m_listening before it is part of the step. *)
TakePackets ==
  /\ io = "loop"
  /\ batch' = outgoing /\ outgoing' = <<>>
  /\ io' = IF listening THEN "sending" ELSE "last"
  /\ UNCHANGED <<peerVars, hostVars, raceVars, threadCount, event, sent, accepted,
                 peersHash, signals, connecting, call>>

(* enet_peer_send, which takes the packet when the peer is connected and   *)
(* refuses it otherwise: the packet is gone in both cases.  The peers of a *)
(* host that was destroyed are freed memory.                               *)
SendPacket ==
  /\ io \in {"sending", "last"} /\ batch # <<>>
  /\ IF Head(batch).host = host
     THEN sent' = sent + 1 /\ batch' = Tail(batch) /\ UNCHANGED io
     ELSE io' = "undefined" /\ UNCHANGED <<sent, batch>>
  /\ UNCHANGED <<peerVars, hostVars, raceVars, threadCount, event, outgoing, accepted,
                 peersHash, signals, connecting, call>>

(* enet_host_service: an event, or nothing.                                *)
Delivers(type, s) ==
  /\ event' = [type |-> type, slot |-> s] /\ io' = "handle"

PeerConnects(s) ==
  /\ peer[s].state = "connecting"
  /\ peer' = [peer EXCEPT ![s].state = "connected"]
  /\ Delivers("connect", s)
  /\ UNCHANGED lastID

PeerIsAccepted(s) ==
  /\ peer[s].state = "free" /\ lastID < MaxIDs /\ MayStart
  /\ lastID' = lastID + 1
  /\ peer' = [peer EXCEPT ![s] = [state |-> "connected", id |-> lastID']]
  /\ Delivers("connect", s)

PacketIsReceived(s) ==
  /\ peer[s].state = "connected"
  /\ Delivers("receive", s)
  /\ UNCHANGED peerVars

(* The slot is free before the event is delivered.                         *)
PeerIsGone(s) ==
  /\ peer[s].state # "free"
  /\ peer' = [peer EXCEPT ![s] = Free]
  /\ Delivers("disconnect", s)
  /\ UNCHANGED lastID

(* The remote end leaves; its event comes in a later call.                 *)
PeerLeaves(s) ==
  /\ peer[s].state = "connected"
  /\ peer' = [peer EXCEPT ![s].state = "disconnecting"] /\ io' = "loop"
  /\ UNCHANGED <<event, lastID>>

NoEventYet == io' = "loop" /\ UNCHANGED <<event, peerVars>>

Service ==
  /\ io = "sending" /\ batch = <<>>
  /\ \/ NoEventYet
     \/ \E s \in Slots : PeerConnects(s) \/ PeerIsAccepted(s) \/ PacketIsReceived(s)
                         \/ PeerIsGone(s) \/ PeerLeaves(s)
  /\ UNCHANGED <<queueVars, hostVars, raceVars, threadCount, peersHash, signals, connecting, call>>

(* enet_host_check_events reads no socket, so it comes to an end.          *)
NoMoreEvents ==
  /\ io = "check" /\ NoEventYet
  /\ UNCHANGED <<queueVars, hostVars, raceVars, threadCount, peersHash, signals, connecting, call>>

CheckEvents(s) ==
  /\ io = "check"
  /\ PacketIsReceived(s) \/ (peer[s].state = "disconnecting" /\ PeerIsGone(s))
  /\ UNCHANGED <<queueVars, hostVars, raceVars, threadCount, peersHash, signals, connecting, call>>

(* connectID is read again: 0 when the slot was reset meanwhile.           *)
HandleConnect ==
  /\ io = "handle" /\ event.type = "connect"
  /\ LET id == peer[event.slot].id
     IN  /\ peersHash' = [j \in DOMAIN peersHash \cup {id} |->
                            IF j = id THEN event.slot ELSE peersHash[j]]
         /\ signals' = Emitted(id, "connected")
  /\ io' = "check" /\ event' = NoEvent
  /\ UNCHANGED <<queueVars, peerVars, hostVars, raceVars, threadCount, connecting, call>>

(* dataReceived is emitted for the connectID in the slot.                  *)
HandleReceive ==
  /\ io = "handle" /\ event.type = "receive"
  /\ io' = "check" /\ event' = NoEvent
  /\ UNCHANGED <<queueVars, peerVars, hostVars, raceVars, threadCount, peersHash, signals,
                 connecting, call>>

(* getPeerID: any key of the slot, 0 when it has none (as after an attempt *)
(* to connect that failed; Q_ASSERT is off in a release build).            *)
KeysOf(s) == {id \in DOMAIN peersHash : peersHash[id] = s}

(* Mutant: an event without an identifier is handled as well.              *)
HandleAnyDisconnect ==
  /\ io = "handle" /\ event.type = "disconnect"
  /\ \/ \E id \in KeysOf(event.slot) \ {0} :
          /\ event' = [type |-> "disconnect", slot |-> event.slot, id |-> id]
          /\ io' = "remove"
     \/ /\ KeysOf(event.slot) = {} \/ 0 \in KeysOf(event.slot)
        /\ event' = [type |-> "disconnect", slot |-> event.slot, id |-> 0] /\ io' = "remove"
  /\ UNCHANGED <<queueVars, peerVars, hostVars, raceVars, threadCount, peersHash, signals,
                 connecting, call>>

HandleDisconnect ==
  /\ io = "handle" /\ event.type = "disconnect"
  /\ \/ \E id \in KeysOf(event.slot) \ {0} :
          /\ event' = [type |-> "disconnect", slot |-> event.slot, id |-> id]
          /\ io' = "remove"
     \/ /\ KeysOf(event.slot) = {} \/ 0 \in KeysOf(event.slot)
        /\ event' = NoEvent /\ io' = "check"
  /\ UNCHANGED <<queueVars, peerVars, hostVars, raceVars, threadCount, peersHash, signals,
                 connecting, call>>

(* Mutant: removePeer is forgotten.                                        *)
AnnounceDisconnected ==
  /\ io = "remove"
  /\ UNCHANGED peersHash
  /\ signals' = Emitted(event.id, "disconnected")
  /\ event' = NoEvent /\ io' = "check"
  /\ UNCHANGED <<queueVars, peerVars, hostVars, raceVars, threadCount, connecting, call>>

RemoveDisconnected ==
  /\ io = "remove"
  /\ peersHash' = Without(event.id)
  /\ signals' = Emitted(event.id, "disconnected")
  /\ event' = NoEvent /\ io' = "check"
  /\ UNCHANGED <<queueVars, peerVars, hostVars, raceVars, threadCount, connecting, call>>

(* Mutant: the thread stays counted.                                       *)
LeaveCounted ==
  /\ io = "last" /\ batch = <<>>
  /\ threadCount' = threadCount /\ io' = "leaving"
  /\ UNCHANGED <<queueVars, peerVars, hostVars, raceVars, event, peersHash, signals,
                 connecting, call>>

LeaveWaitForIO ==
  /\ io = "last" /\ batch = <<>>
  /\ threadCount' = threadCount - 1 /\ io' = "leaving"
  /\ UNCHANGED <<queueVars, peerVars, hostVars, raceVars, event, peersHash, signals,
                 connecting, call>>

ThreadFinishes ==
  /\ io = "leaving"
  /\ io' = "finished"
  /\ UNCHANGED <<queueVars, peerVars, hostVars, raceVars, threadCount, event, peersHash,
                 signals, connecting, call>>

-----------------------------------------------------------------------------
IOStep ==
  \/ EnterWaitForIO \/ TakePackets \/ SendPacket
  \/ Service \/ NoMoreEvents \/ \E s \in Slots : CheckEvents(s)
  \/ HandleConnect \/ HandleReceive \/ HandleDisconnect \/ RemoveDisconnected
  \/ LeaveWaitForIO \/ ThreadFinishes
CallStep ==
  \/ AppendPacket \/ SendAtOnce \/ ReadConnectID \/ RemovePeer \/ ResetPeer
  \/ BeginDisconnect \/ DestroyHost \/ ConnectPolls
AppStep ==
  \/ Listen \/ StartWaitingForIO \/ Close \/ CloseGoesOn
  \/ \E s \in Slots : ConnectToHost(s)
  \/ ConnectTimesOut \/ ConnectDangles
  \/ \E id \in IDs : SendData(id) \/ SendDataNow(id)
                     \/ DisconnectNow(id) \/ Disconnect(id) \/ DisconnectLater(id)

Next == IOStep \/ CallStep \/ AppStep
Spec == Init /\ [][Next]_vars
(* Both threads are scheduled; ENet runs out of events between two reads   *)
(* of its socket; close() tests the thread's count after each turn of the  *)
(* event loop, in which the application may call again, and the time of a  *)
(* connectToHost runs out.                                                 *)
FairSpec ==
  /\ Spec /\ WF_vars(IOStep) /\ WF_vars(CallStep)
  /\ SF_vars(NoMoreEvents) /\ SF_vars(CloseGoesOn) /\ SF_vars(ConnectTimesOut)

-----------------------------------------------------------------------------
TypeOK ==
  /\ listening \in BOOLEAN /\ host \in 0 .. MaxListens /\ listens \in 0 .. MaxListens
  /\ threadCount \in 0 .. 1
  /\ io \in {"finished", "starting", "loop", "sending", "handle", "remove", "check", "last",
             "leaving", "undefined"}
  /\ event \in {NoEvent} \cup [type : {"connect", "receive", "disconnect"}, slot : Slots]
               \cup [type : {"disconnect"}, slot : Slots, id : IDs \ {0}]
  /\ outgoing \in Seq(Packet) /\ batch \in Seq(Packet) /\ sent \in Nat
  /\ accepted \in 0 .. MaxPackets
  /\ peer \in [Slots -> [state : PeerState, id : IDs]]
  /\ \A s \in Slots : (peer[s].state = "free") <=> (peer[s].id = 0)
  /\ lastID \in IDs
  /\ DOMAIN peersHash \subseteq IDs /\ \A id \in DOMAIN peersHash : peersHash[id] \in Slots
  /\ signals \in [IDs \ {0} -> Seq({"connected", "disconnected"})]
  /\ connecting \in {None} \cup [step : {"sleep", "events"}, slot : Slots, id : IDs,
                                 host : 1 .. MaxListens, inClose : BOOLEAN]
  /\ closing \in BOOLEAN
  /\ call \in {None, [step |-> "destroy"]}
              \cup [step : {"append", "send", "read", "removePeer", "reset", "disconnect", "later"},
                    id : IDs, slot : Slots]
  /\ dropped \subseteq IDs \ {0} /\ raced \in BOOLEAN

(* A packet sendData has queued is handed to ENet once and in the order of *)
(* the calls, whatever the two threads do around the swap of the lists.    *)
InOrder(s, first) == \A i \in DOMAIN s : s[i].n = first + i
HandedInOrder ==
  /\ InOrder(batch, sent)
  /\ InOrder(outgoing, sent + Len(batch))
  /\ accepted = sent + Len(batch) + Len(outgoing)

(* A packet never goes out on a later connection that has got the slot of  *)
(* its own, although the lists hold slots and not connections: unless its  *)
(* connection ended while sendData ran, or the application reset it.       *)
OwnConnection ==
  [][sent' # sent =>
       LET p == Head(batch)
       IN  p.live /\ p.id \notin dropped /\ peer[p.slot].state = "connected" =>
             peer[p.slot].id = p.id]_vars

(* close() destroys the host only when the thread does not work on it: a   *)
(* thread that has counted itself is waited for, one that counts itself    *)
(* later finds that nobody listens.                                        *)
HostOutlivesService ==
  host = 0 => io \notin {"sending", "handle", "remove", "check"}

(* While no reset by the application's thread hits what the other thread   *)
(* holds, and no freed memory is used, peersHash is exact: it names the    *)
(* connections that were announced and whose end was not, each once and in *)
(* the slot it still has or has just lost; no end is announced twice, and  *)
(* data comes from an announced connection.                                *)
Open(id) == signals[id] = <<"connected">>
RegistryExact ==
  ~raced /\ io # "undefined" =>
    /\ \A id \in DOMAIN peersHash :
         /\ id # 0 /\ Open(id)
         /\ \/ peer[peersHash[id]].id = id
            \/ InHand(peersHash[id]) /\ event.type = "disconnect"
    /\ \A i, j \in DOMAIN peersHash : peersHash[i] = peersHash[j] => i = j
    /\ \A id \in IDs \ {0} : Open(id) \/ signals[id] \in {<<>>, <<"connected", "disconnected">>}
    /\ io = "handle" /\ event.type = "receive" => Open(peer[event.slot].id)

(* What was queued while the thread served the host is handed over, also   *)
(* when close() comes first.                                               *)
QueuedIsHanded ==
  \A n \in 1 .. MaxPackets :
    (accepted >= n /\ listening /\ threadCount > 0) ~> (sent >= n \/ io = "undefined")

(* close() returns.                                                        *)
CloseReturns == closing ~> (~closing \/ io = "undefined")

(* disconnectLater: "All queued outgoing packets are sent." (line 581).    *)
(* What sendData had queued on a connection that was up is taken by ENet   *)
(* although disconnectLater was called meanwhile.                          *)
QueuedSentBeforeDisconnect ==
  [][sent' # sent =>
       LET p == Head(batch)
       IN  p.live /\ peer[p.slot].id = p.id => peer[p.slot].state # "later"]_vars
=============================================================================

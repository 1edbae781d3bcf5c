---------------------------- MODULE RUDPConnection ----------------------------
(***************************************************************************)
(* Connection management of RUDPChannel: two end points that connect,      *)
(* disconnect, close, crash and come back, with the handshake, Reset,      *)
(* Goodbye and KeepAlive packets between them and the timers that retry    *)
(* and give up.  Data is a packet without content: what matters is how the *)
(* state of the channel it meets answers it.                               *)
(***************************************************************************)
EXTENDS DatagramNetwork, FiniteSets

CONSTANTS
  EndPoint,         \* the two ends
  ConnectTicks,     \* RUDP_CONNECTION_TIMEOUT in ticks of connectToPeerTimer (2)
  MaxChecks,        \* RUDP_MAX_CHECK_ALIVE_TIMES (2)
  GoodbyeMayWait,   \* a Goodbye may lie outside the send window and be cached
  MaxConnects,      \* bound on the calls of connectToPeer
  MaxCloses,        \* bound on the calls that end a connection
  MaxData,          \* bound on the data packets sent
  MaxFaults         \* bound on the crashes and the datagrams lost

ASSUME ConnectionAssumption ==
  /\ \E a, b \in EndPoint : a # b /\ EndPoint = {a, b}
  /\ {ConnectTicks, MaxChecks} \subseteq Nat \ {0}
  /\ GoodbyeMayWait \in BOOLEAN
  /\ {MaxConnects, MaxCloses, MaxData, MaxFaults} \subseteq Nat

VARIABLES
  channel,   \* the channel of each end point: see FreshChannel
  net,       \* datagrams in flight to each end point
  up,        \* the end points whose process runs
  used       \* calls, crashes and losses so far, against their bounds

vars == <<channel, net, up, used>>

Peer(e) == CHOOSE p \in EndPoint : p # e

(* What init leaves.  A timer is its remaining ticks, 0 when it is stopped;*)
(* id is the handshake identifier.                                         *)
FreshChannel(id) ==
  [state |-> "Unconnected",   \* m_ChannelState
   myID |-> id,               \* m_myHandshakeID
   peerID |-> 0,              \* m_peerHandshakeID
   connectTicks |-> 0,        \* m_connectToPeerTimer, m_msecConnectToPeerTimeout
   keepAlive |-> FALSE,       \* m_keepAliveTimer is active
   aliveChecks |-> 0,         \* m_checkPeerAliveTimer, m_checkPeerAliveTimes
   heard |-> "nothing",       \* what arrived since the last check
   beats |-> {},              \* keep-alive timers that fired since the last check
   goodbyeWaits |-> FALSE]    \* a Goodbye in m_ToBeSentPacketsHash

(* Identifiers are drawn from the clock and a random number: the next one  *)
(* is neither held nor in flight anywhere, nor is its successor, which     *)
(* answers a handshake.  They are multiples of 3 here.                     *)
KnownIDs ==
  UNION {{channel[e].myID, channel[e].peerID}
         \cup {m.id : m \in {n \in ToSet(net[e]) : n.type = "Handshake"}} : e \in EndPoint}
DrawnID ==
  CHOOSE id \in {3 * k : k \in 1 .. Cardinality(KnownIDs) + 1} :
    {id, id + 1} \cap KnownIDs = {}

Reset == FreshChannel(DrawnID)

Handshake(id) == <<[type |-> "Handshake", id |-> id]>>
Control(type) == <<[type |-> type]>>

Init ==
  LET first == CHOOSE e \in EndPoint : TRUE
  IN  /\ channel = [e \in EndPoint |-> FreshChannel(IF e = first THEN 3 ELSE 6)]
      /\ net = [e \in EndPoint |-> <<>>]
      /\ up = EndPoint
      /\ used = [connects |-> 0, closes |-> 0, data |-> 0, faults |-> 0]

(* What is in flight to p when packets are sent; a dead process gets none. *)
Sent(p, packets) == IF p \in up THEN Written(net[p], packets) ELSE <<>>

(* End point e, left with the datagrams rest in flight to it, changes its  *)
(* channel to new and sends packets.                                       *)
Step(e, rest, new, packets) ==
  /\ channel' = [channel EXCEPT ![e] = new]
  /\ net' = [net EXCEPT ![e] = rest, ![Peer(e)] = Sent(Peer(e), packets)]
  /\ UNCHANGED up

(* Applications and timers wait until the modelled network has room, so    *)
(* that it never cuts off what they or the handlers they set off send.     *)
Room == \A e \in EndPoint : Len(net[e]) + Len(net[Peer(e)]) < Capacity

-----------------------------------------------------------------------------
(* Ending a connection                                                     *)

(* disconnectFromPeer: the channel afterwards and what is sent, as a pair. *)
Disconnected(c) ==
  IF c.state = "Unconnected"
  THEN {<<c, <<>>>>}
  ELSE {<<[c EXCEPT !.state = "Disconnecting"], Control("Goodbye")>>}
       \cup IF GoodbyeMayWait
            THEN {<<[c EXCEPT !.state = "Disconnecting", !.goodbyeWaits = TRUE], <<>>>>}
            ELSE {}

(* What closeChannel sends before it resets the channel.                   *)
Farewell(c) ==
  IF c.state = "Connected" THEN {d[2] : d \in Disconnected(c)} ELSE {<<>>}

-----------------------------------------------------------------------------
(* The application                                                         *)

Call(e, kind, bound) ==
  /\ e \in up /\ Room
  /\ used[kind] < bound
  /\ used' = [used EXCEPT ![kind] = @ + 1]

(* Mutants: a renewed call adds to the time left; it draws an identifier.  *)
ConnectToPeerAddingTime(e) ==
  LET c == channel[e]
  IN  /\ Call(e, "connects", MaxConnects)
      /\ c.state # "Connected"
      /\ Step(e, net[e], [c EXCEPT !.state = "Connecting", !.connectTicks = @ + ConnectTicks],
              IF c.connectTicks = 0 THEN Handshake(c.myID) ELSE <<>>)

ConnectToPeerRenamed(e) ==
  LET c == [channel[e] EXCEPT !.myID = DrawnID]
  IN  /\ Call(e, "connects", MaxConnects)
      /\ c.state # "Connected"
      /\ Step(e, net[e], [c EXCEPT !.state = "Connecting", !.connectTicks = ConnectTicks],
              IF c.connectTicks = 0 THEN Handshake(c.myID) ELSE <<>>)

(* connectToPeer; sendDatagram calls it on a channel that is not connected.*)
ConnectToPeer(e) ==
  LET c == channel[e]
  IN  /\ Call(e, "connects", MaxConnects)
      /\ c.state # "Connected"
      /\ Step(e, net[e], [c EXCEPT !.state = "Connecting", !.connectTicks = ConnectTicks],
              IF c.connectTicks = 0 THEN Handshake(c.myID) ELSE <<>>)

DisconnectFromPeer(e) ==
  /\ Call(e, "closes", MaxCloses)
  /\ channel[e].state # "Unconnected"
  /\ \E d \in Disconnected(channel[e]) : Step(e, net[e], d[1], d[2])

CloseChannel(e) ==
  /\ Call(e, "closes", MaxCloses)
  /\ \E farewell \in Farewell(channel[e]) : Step(e, net[e], Reset, farewell)

(* sendDatagram: a channel that is not connected gets a ConnectToPeer and  *)
(* the time to connect first, but what came of it is not looked at, nor is *)
(* the state again: data goes out in any of them, only never before all    *)
(* connectToPeer.                                                          *)
SendData(e) ==
  /\ Call(e, "data", MaxData)
  /\ used.connects > 0
  /\ Step(e, net[e], channel[e], Control("Data"))

-----------------------------------------------------------------------------
(* The timers                                                              *)

(* Datagrams are not in flight for as long as a connection attempt or a    *)
(* keep-alive interval lasts; only KeepAlive packets that two ends without *)
(* a timer send back and forth are always in flight.                       *)
Settled ==
  \A e \in EndPoint : \A i \in DOMAIN net[e] :
    net[e][i].type = "KeepAlive" /\ ~ \E p \in up : channel[p].keepAlive

(* Mutants: connectToPeerTimeout does not give up; it gives up without a   *)
(* reset.                                                                  *)
ConnectTimerNeverEnds(e) ==
  /\ e \in up /\ Room /\ channel[e].connectTicks > 0
  /\ Step(e, net[e], channel[e], Handshake(channel[e].myID))
  /\ UNCHANGED used

ConnectTimerWithoutReset(e) ==
  /\ e \in up /\ Room /\ channel[e].connectTicks > 0
  /\ Step(e, net[e], [channel[e] EXCEPT !.connectTicks = @ - 1], <<>>)
  /\ UNCHANGED used

(* connectToPeerTimeout.                                                   *)
ConnectTimer(e) ==
  LET c == channel[e]
  IN  /\ e \in up /\ Room
      /\ c.connectTicks > 0
      /\ \/ /\ c.state = "Connected"
            /\ Step(e, net[e], [c EXCEPT !.connectTicks = 0], <<>>)
         \/ /\ c.state # "Connected" /\ c.connectTicks > 1
            /\ Step(e, net[e], [c EXCEPT !.connectTicks = @ - 1], Handshake(c.myID))
         \/ /\ c.state # "Connected" /\ c.connectTicks = 1
            /\ Settled
            /\ Step(e, net[e], Reset, <<>>)
      /\ UNCHANGED used

KeepAliveTimer(e) ==
  /\ e \in up /\ Room /\ Settled
  /\ channel[e].keepAlive
  /\ channel' = [p \in EndPoint |-> [channel[p] EXCEPT !.beats = @ \cup {e}]]
  /\ net' = [net EXCEPT ![Peer(e)] = Sent(Peer(e), Control("KeepAlive"))]
  /\ UNCHANGED <<up, used>>

(* Mutant: a check without news does not count.                            *)
CheckPeerAliveForgetting(e) ==
  LET c == channel[e]
  IN  /\ e \in up /\ Room /\ Settled
      /\ c.aliveChecks > 0
      /\ Step(e, net[e], [c EXCEPT !.aliveChecks = MaxChecks, !.heard = "nothing", !.beats = {}], <<>>)
      /\ UNCHANGED used

(* checkPeerAliveTimerTimeout.  Its interval is longer than that of a      *)
(* keep-alive timer, so that a running one has fired since the last check, *)
(* and its packet, if it arrived, is recent; other packets may not be.     *)
CheckPeerAlive(e) ==
  LET c == channel[e]
      next(checks) ==
        [c EXCEPT !.aliveChecks = checks, !.heard = "nothing", !.beats = {}]
  IN  /\ e \in up /\ Room /\ Settled
      /\ c.aliveChecks > 0
      /\ {p \in up : channel[p].keepAlive} \subseteq c.beats
      /\ \/ /\ c.heard # "nothing"
            /\ Step(e, net[e], next(MaxChecks), <<>>)
         \/ /\ c.heard # "KeepAlive" /\ c.aliveChecks > 1
            /\ Step(e, net[e], next(c.aliveChecks - 1), <<>>)
         \/ /\ c.heard # "KeepAlive" /\ c.aliveChecks = 1
            /\ \E farewell \in Farewell(c) : Step(e, net[e], Reset, farewell)
      /\ UNCHANGED used

(* The send window reaches a cached Goodbye.                               *)
FlushGoodbye(e) ==
  /\ e \in up /\ Room
  /\ channel[e].goodbyeWaits
  /\ Step(e, net[e], [channel[e] EXCEPT !.goodbyeWaits = FALSE], Control("Goodbye"))
  /\ UNCHANGED used

-----------------------------------------------------------------------------
(* processPacket and the reliable packets of datagramReceived              *)

(* startCheckPeerAliveTimer: the count starts at its full value only when  *)
(* the timer was not running, as after init.                               *)
Checks(left) == IF left = 0 THEN MaxChecks ELSE left

(* datagramReceived notes the arrival of a packet that is not a KeepAlive. *)
Heard(c) == IF c.heard = "nothing" THEN [c EXCEPT !.heard = "packet"] ELSE c

(* Mutants: the passive end starts the keep-alive timer; the active end     *)
(* repeats its handshake instead of answering.                             *)
ReceiveHandshakeBeatingSwapped(e, rest, id) ==
  LET c == Heard(channel[e])
  IN  \/ /\ c.peerID = 0
         /\ Step(e, rest, [c EXCEPT !.peerID = id],
                 Handshake(IF c.state = "Connecting" THEN c.myID + 1 ELSE c.myID))
      \/ /\ c.peerID # 0 /\ id = c.peerID
         /\ Step(e, rest, c, Handshake(c.myID + 1))
      \/ /\ c.peerID # 0 /\ id = c.peerID + 1 /\ c.state = "Connected"
         /\ Step(e, rest, c, <<>>)
      \/ /\ c.peerID # 0 /\ id = c.peerID + 1 /\ c.state # "Connected"
         /\ Step(e, rest,
                 [c EXCEPT !.state = "Connected", !.aliveChecks = Checks(@), !.beats = {},
                           !.keepAlive = c.keepAlive \/ c.state = "Unconnected"],
                 IF c.state = "Unconnected" THEN Handshake(c.myID + 1) ELSE <<>>)
      \/ /\ c.peerID # 0 /\ id \notin {c.peerID, c.peerID + 1}
         /\ Step(e, rest, [FreshChannel(c.myID) EXCEPT !.peerID = id], Handshake(c.myID))

ReceiveHandshakeUnanswered(e, rest, id) ==
  LET c == Heard(channel[e])
  IN  \/ /\ c.peerID = 0
         /\ Step(e, rest, [c EXCEPT !.peerID = id],
                 Handshake(c.myID))
      \/ /\ c.peerID # 0 /\ id = c.peerID
         /\ Step(e, rest, c, Handshake(c.myID + 1))
      \/ /\ c.peerID # 0 /\ id = c.peerID + 1 /\ c.state = "Connected"
         /\ Step(e, rest, c, <<>>)
      \/ /\ c.peerID # 0 /\ id = c.peerID + 1 /\ c.state # "Connected"
         /\ Step(e, rest,
                 [c EXCEPT !.state = "Connected", !.aliveChecks = Checks(@), !.beats = {},
                           !.keepAlive = c.keepAlive \/ c.state = "Connecting"],
                 IF c.state = "Unconnected" THEN Handshake(c.myID + 1) ELSE <<>>)
      \/ /\ c.peerID # 0 /\ id \notin {c.peerID, c.peerID + 1}
         /\ Step(e, rest, [FreshChannel(c.myID) EXCEPT !.peerID = id], Handshake(c.myID))

ReceiveHandshake(e, rest, id) ==
  LET c == Heard(channel[e])
  IN  \/ /\ c.peerID = 0
         /\ Step(e, rest, [c EXCEPT !.peerID = id],
                 Handshake(IF c.state = "Connecting" THEN c.myID + 1 ELSE c.myID))
      \/ /\ c.peerID # 0 /\ id = c.peerID
         /\ Step(e, rest, c, Handshake(c.myID + 1))
      \/ /\ c.peerID # 0 /\ id = c.peerID + 1 /\ c.state = "Connected"
         /\ Step(e, rest, c, <<>>)
      \/ /\ c.peerID # 0 /\ id = c.peerID + 1 /\ c.state # "Connected"
         /\ Step(e, rest,
                 [c EXCEPT !.state = "Connected", !.aliveChecks = Checks(@), !.beats = {},
                           !.keepAlive = c.keepAlive \/ c.state = "Connecting"],
                 IF c.state = "Unconnected" THEN Handshake(c.myID + 1) ELSE <<>>)
      \/ /\ c.peerID # 0 /\ id \notin {c.peerID, c.peerID + 1}
         /\ Step(e, rest, [FreshChannel(c.myID) EXCEPT !.peerID = id], Handshake(c.myID))

ReceiveReset(e, rest) == Step(e, rest, Reset, <<>>)

ReceiveGoodbye(e, rest) ==
  /\ \E d \in IF channel[e].state = "Disconnecting"
              THEN {<<channel[e], <<>>>>} ELSE Disconnected(channel[e]) :
       Step(e, rest, Reset, d[2])

ReceiveKeepAlive(e, rest) ==
  /\ Step(e, rest, [channel[e] EXCEPT !.heard = "KeepAlive"],
          IF channel[e].keepAlive THEN <<>> ELSE Control("KeepAlive"))

ReceiveData(e, rest) ==
  /\ Step(e, rest, Heard(channel[e]),
          IF channel[e].state = "Connected" THEN <<>> ELSE Control("Reset"))

DatagramReceived(e, i) ==
  /\ e \in up
  /\ i \in Deliverable(net[e])
  /\ LET m == net[e][i]
     IN  \E rest \in AfterDelivery(net[e], i) :
           \/ m.type = "Handshake" /\ ReceiveHandshake(e, rest, m.id)
           \/ m.type = "Reset" /\ ReceiveReset(e, rest)
           \/ m.type = "Goodbye" /\ ReceiveGoodbye(e, rest)
           \/ m.type = "KeepAlive" /\ ReceiveKeepAlive(e, rest)
           \/ m.type = "Data" /\ ReceiveData(e, rest)
  /\ UNCHANGED used

-----------------------------------------------------------------------------
(* Faults                                                                  *)

Lose ==
  /\ Lossy /\ used.faults < MaxFaults
  /\ \E e \in EndPoint : \E i \in DOMAIN net[e] :
       net' = [net EXCEPT ![e] = RemoveAt(@, i)]
  /\ used' = [used EXCEPT !.faults = @ + 1]
  /\ UNCHANGED <<channel, up>>

(* The process of e ends; what is in flight to it is lost.  Its channel is *)
(* gone: the one here is that of its next start.                           *)
Crash(e) ==
  /\ e \in up /\ used.faults < MaxFaults
  /\ up' = up \ {e}
  /\ net' = [net EXCEPT ![e] = <<>>]
  /\ channel' = [channel EXCEPT ![e] = Reset]
  /\ used' = [used EXCEPT !.faults = @ + 1]

Restart(e) ==
  /\ e \notin up
  /\ up' = up \cup {e}
  /\ UNCHANGED <<channel, net, used>>

Application(e) ==
  ConnectToPeer(e) \/ DisconnectFromPeer(e) \/ CloseChannel(e) \/ SendData(e)

Next ==
  \/ \E e \in EndPoint :
       \/ Application(e)
       \/ ConnectTimer(e)
       \/ KeepAliveTimer(e)
       \/ CheckPeerAlive(e)
       \/ FlushGoodbye(e)
       \/ \E i \in DOMAIN net[e] : DatagramReceived(e, i)
       \/ Crash(e)
       \/ Restart(e)
  \/ Lose

Spec == Init /\ [][Next]_vars

(* The event loop serves arrivals and timers; a crashed process need not   *)
(* come back.                                                              *)
Fairness ==
  \A e \in EndPoint :
    /\ WF_vars(\E i \in DOMAIN net[e] : DatagramReceived(e, i))
    /\ SF_vars(ConnectTimer(e))
    /\ SF_vars(KeepAliveTimer(e))
    /\ SF_vars(CheckPeerAlive(e))

LiveSpec == Spec /\ Fairness

-----------------------------------------------------------------------------
(* Properties                                                              *)

States == {"Unconnected", "Connecting", "Connected", "Disconnecting"}

(* Every variable keeps to its range.                                      *)
TypeOK ==
  /\ \A e \in EndPoint :
       /\ channel[e].state \in States
       /\ {channel[e].myID, channel[e].peerID} \subseteq Nat
       /\ channel[e].connectTicks \in 0 .. ConnectTicks
       /\ channel[e].aliveChecks \in 0 .. MaxChecks
       /\ Len(net[e]) <= Capacity
  /\ up \subseteq EndPoint

State(e) == channel[e].state

(* A channel that is not idle always has a timer running that will decide  *)
(* its fate, whatever the peer does (connectToPeerTimer or                 *)
(* checkPeerAliveTimer).                                                   *)
NeverWithoutTimer ==
  \A e \in EndPoint :
    State(e) # "Unconnected" => channel[e].connectTicks > 0 \/ channel[e].aliveChecks > 0

(* When both ends are connected, each holds the handshake identifier of    *)
(* the other's present channel.                                            *)
SameSession ==
  (\A e \in EndPoint : State(e) = "Connected") =>
     \A e \in EndPoint : channel[e].peerID = channel[Peer(e)].myID

(* An established connection has an end that sends keep-alive packets.     *)
KeptAlive ==
  (\A e \in EndPoint : State(e) = "Connected") =>
     \E e \in EndPoint : channel[e].keepAlive

(* A connection attempt is over at some time.                              *)
AttemptEnds ==
  \A e \in EndPoint : State(e) = "Connecting" ~> (State(e) # "Connecting" \/ e \notin up)

(* Both ends get connected when one of them asks for it, and stay so.      *)
Established ==
  \A e \in EndPoint :
    State(e) = "Connecting" ~> [](\A p \in EndPoint : State(p) = "Connected")

(* When the peer is gone for good, an end point does not stay connected.   *)
DeadPeerNoticed ==
  \A e \in EndPoint :
    State(e) = "Connected" ~> (State(e) # "Connected" \/ Peer(e) \in up \/ e \notin up)
=============================================================================

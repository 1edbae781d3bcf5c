-------------------------- MODULE RUDPConnectionProofs --------------------------
(***************************************************************************)
(* For every bound on calls, losses, crashes and packets in flight: a      *)
(* channel that is not idle has a timer that will end its wait, and every  *)
(* variable keeps to its range.  For a connection that nothing disturbs:   *)
(* ends that are connected hold each other's present identifier, stay      *)
(* connected and keep the connection alive.                                *)
(***************************************************************************)
EXTENDS RUDPConnection, SequenceTheorems, FiniteSetTheorems, TLAPS

(* A connected channel checks that its peer is alive; any other channel    *)
(* that is not idle does, or is the channel of an attempt with time left.  *)
(* The fields of no concern may hold anything.                             *)
Timed(c) ==
  /\ c \in [state : {c.state}, myID : {c.myID}, peerID : {c.peerID},
            connectTicks : Nat, keepAlive : {c.keepAlive}, aliveChecks : Nat,
            heard : {c.heard}, beats : {c.beats}, goodbyeWaits : {c.goodbyeWaits}]
  /\ c.state = "Connected" => c.aliveChecks > 0
  /\ c.state # "Unconnected" => c.connectTicks > 0 \/ c.aliveChecks > 0

AllTimed ==
  /\ channel = [e \in EndPoint |-> channel[e]]
  /\ \A e \in EndPoint : Timed(channel[e])

-----------------------------------------------------------------------------
(* The channels that operations leave                                      *)

LEMMA Bounds == ConnectTicks \in Nat /\ ConnectTicks > 0 /\ MaxChecks \in Nat /\ MaxChecks > 0
<1>1. ConnectTicks \in Nat \ {0} /\ MaxChecks \in Nat \ {0}
  BY ConnectionAssumption DEF ConnectionAssumption
<1> QED
  BY <1>1

LEMMA ChecksBound ==
  ASSUME NEW left \in Nat
  PROVE  /\ Checks(left) \in Nat /\ Checks(left) > 0
         /\ left \in 0 .. MaxChecks => Checks(left) \in 0 .. MaxChecks
  BY Bounds DEF Checks

LEMMA FreshTimed == ASSUME NEW id PROVE Timed(FreshChannel(id))
  BY DEF Timed, FreshChannel

LEMMA HeardTimed ==
  ASSUME NEW c, Timed(c)
  PROVE  /\ Timed(Heard(c))
         /\ Heard(c).state = c.state
         /\ Heard(c).peerID = c.peerID
  BY DEF Timed, Heard

(* What disconnectFromPeer leaves.                                         *)
LEMMA DisconnectedTimed ==
  ASSUME NEW c, Timed(c), NEW d \in Disconnected(c)
  PROVE  Timed(d[1])
<1>1. CASE c.state = "Unconnected"
  <2>1. d = <<c, <<>>>>
    BY <1>1 DEF Disconnected
  <2> QED
    BY <2>1
<1>2. CASE c.state # "Unconnected"
  <2>1. \/ d = <<[c EXCEPT !.state = "Disconnecting"], Control("Goodbye")>>
        \/ d = <<[c EXCEPT !.state = "Disconnecting", !.goodbyeWaits = TRUE], <<>>>>
    BY <1>2 DEF Disconnected
  <2>2. \/ d[1] = [c EXCEPT !.state = "Disconnecting"]
        \/ d[1] = [c EXCEPT !.state = "Disconnecting", !.goodbyeWaits = TRUE]
    BY <2>1
  <2>3. Timed([c EXCEPT !.state = "Disconnecting"])
    BY <1>2 DEF Timed
  <2>4. Timed([c EXCEPT !.state = "Disconnecting", !.goodbyeWaits = TRUE])
    BY <1>2 DEF Timed
  <2> QED
    BY <2>2, <2>3, <2>4
<1> QED
  BY <1>1, <1>2

(* An attempt has time left.                                               *)
LEMMA AttemptTimed ==
  ASSUME NEW c, Timed(c), NEW ticks \in Nat, ticks > 0,
         c.state # "Connected" \/ c.aliveChecks > 0
  PROVE  Timed([c EXCEPT !.connectTicks = ticks])
  BY DEF Timed

-----------------------------------------------------------------------------
(* The steps                                                               *)

(* A step of one end changes its own channel alone.                        *)
LEMMA StepTimed ==
  ASSUME AllTimed, NEW e \in EndPoint, NEW rest, NEW new, NEW packets,
         Step(e, rest, new, packets), Timed(new)
  PROVE  AllTimed'
<1>1. channel' = [p \in EndPoint |-> IF p = e THEN new ELSE channel[p]]
  BY DEF AllTimed, Step
<1>2. ASSUME NEW p \in EndPoint PROVE Timed(channel'[p])
  <2>1. CASE p = e
    BY <1>1, <2>1
  <2>2. CASE p # e
    <3>1. channel'[p] = channel[p]
      BY <1>1, <2>2
    <3> QED
      BY <3>1 DEF AllTimed
  <2> QED
    BY <2>1, <2>2
<1>3. channel' = [p \in EndPoint |-> channel'[p]]
  BY <1>1
<1> QED
  BY <1>2, <1>3 DEF AllTimed

(* A reset, whatever is sent with it.                                      *)
LEMMA ResetTimed ==
  ASSUME AllTimed, NEW e \in EndPoint, NEW rest, NEW packets, Step(e, rest, Reset, packets)
  PROVE  AllTimed'
<1>1. Timed(Reset)
  BY FreshTimed DEF Reset
<1> QED
  BY <1>1, StepTimed

LEMMA InitTimed == Init => AllTimed
<1> SUFFICES ASSUME Init PROVE AllTimed
  OBVIOUS
<1>1. \E first : channel = [e \in EndPoint |-> FreshChannel(IF e = first THEN 3 ELSE 6)]
  BY DEF Init
<1>2. PICK first : channel = [e \in EndPoint |-> FreshChannel(IF e = first THEN 3 ELSE 6)]
  BY <1>1
<1>3. ASSUME NEW e \in EndPoint PROVE Timed(channel[e])
  <2>1. channel[e] = FreshChannel(IF e = first THEN 3 ELSE 6)
    BY <1>2
  <2> QED
    BY <2>1, FreshTimed
<1>4. channel = [e \in EndPoint |-> channel[e]]
  BY <1>2
<1> QED
  BY <1>3, <1>4 DEF AllTimed

(* Calls of the application.                                               *)
LEMMA ApplicationTimed ==
  ASSUME AllTimed, NEW e \in EndPoint, Application(e)
  PROVE  AllTimed'
<1> DEFINE c == channel[e]
<1>0. Timed(c)
  BY DEF AllTimed
<1>1. CASE ConnectToPeer(e)
  <2> DEFINE new == [c EXCEPT !.state = "Connecting", !.connectTicks = ConnectTicks]
  <2>1. Timed(new)
    <3> HIDE DEF c
    <3>1. ConnectTicks \in Nat /\ ConnectTicks > 0
      BY Bounds
    <3> QED
      BY <1>0, <3>1 DEF Timed
  <2>2. \E packets : Step(e, net[e], new, packets)
    BY <1>1 DEF ConnectToPeer
  <2> QED
    BY <2>1, <2>2, StepTimed
<1>2. CASE DisconnectFromPeer(e)
  <2>1. PICK d \in Disconnected(c) : Step(e, net[e], d[1], d[2])
    BY <1>2 DEF DisconnectFromPeer
  <2>2. Timed(d[1])
    BY <1>0, DisconnectedTimed
  <2> QED
    BY <2>1, <2>2, StepTimed
<1>3. CASE CloseChannel(e)
  <2>1. PICK farewell \in Farewell(c) : Step(e, net[e], Reset, farewell)
    BY <1>3 DEF CloseChannel
  <2> QED
    BY <2>1, ResetTimed
<1>4. CASE SendData(e)
  BY <1>0, <1>4, StepTimed DEF SendData
<1> QED
  BY <1>1, <1>2, <1>3, <1>4 DEF Application

(* Timers.                                                                 *)
LEMMA ConnectTimerTimed ==
  ASSUME AllTimed, NEW e \in EndPoint, ConnectTimer(e)
  PROVE  AllTimed'
<1> DEFINE c == channel[e]
<1>0. Timed(c) /\ c.connectTicks > 0
  BY DEF AllTimed, ConnectTimer
<1>1. \/ c.state = "Connected" /\ Step(e, net[e], [c EXCEPT !.connectTicks = 0], <<>>)
      \/ /\ c.state # "Connected" /\ c.connectTicks > 1
         /\ Step(e, net[e], [c EXCEPT !.connectTicks = @ - 1], Handshake(c.myID))
      \/ Step(e, net[e], Reset, <<>>)
  BY DEF ConnectTimer
<1>2. ASSUME c.state = "Connected" PROVE Timed([c EXCEPT !.connectTicks = 0])
  <2> HIDE DEF c
  <2> QED
    BY <1>0, <1>2 DEF Timed
<1>3. ASSUME c.state # "Connected", c.connectTicks > 1
      PROVE  Timed([c EXCEPT !.connectTicks = @ - 1])
  <2> HIDE DEF c
  <2>1. c.connectTicks \in Nat
    BY <1>0 DEF Timed
  <2>2. c.connectTicks - 1 \in Nat /\ c.connectTicks - 1 > 0
    BY <1>3, <2>1
  <2> QED
    BY <1>0, <1>3, <2>2 DEF Timed
<1> HIDE DEF c
<1> QED
  BY <1>1, <1>2, <1>3, StepTimed, ResetTimed

LEMMA KeepAliveTimerTimed ==
  ASSUME AllTimed, NEW e \in EndPoint, KeepAliveTimer(e)
  PROVE  AllTimed'
<1>1. channel' = [p \in EndPoint |-> [channel[p] EXCEPT !.beats = @ \cup {e}]]
  BY DEF KeepAliveTimer
<1>2. ASSUME NEW p \in EndPoint PROVE Timed(channel'[p])
  <2> DEFINE c == channel[p]
  <2>1. Timed(c)
    BY DEF AllTimed
  <2>2. channel'[p] = [c EXCEPT !.beats = @ \cup {e}]
    BY <1>1
  <2> HIDE DEF c
  <2>3. Timed([c EXCEPT !.beats = @ \cup {e}])
    BY <2>1 DEF Timed
  <2> QED
    BY <2>2, <2>3
<1>3. channel' = [p \in EndPoint |-> channel'[p]]
  BY <1>1
<1> QED
  BY <1>2, <1>3 DEF AllTimed

LEMMA CheckPeerAliveTimed ==
  ASSUME AllTimed, NEW e \in EndPoint, CheckPeerAlive(e)
  PROVE  AllTimed'
<1> DEFINE c == channel[e]
           next(checks) ==
             [c EXCEPT !.aliveChecks = checks, !.heard = "nothing", !.beats = {}]
<1>0. Timed(c)
  BY DEF AllTimed
<1>1. \/ Step(e, net[e], next(MaxChecks), <<>>)
      \/ c.aliveChecks > 1 /\ Step(e, net[e], next(c.aliveChecks - 1), <<>>)
      \/ \E farewell : Step(e, net[e], Reset, farewell)
  BY DEF CheckPeerAlive
<1> HIDE DEF c
<1>2. ASSUME NEW checks \in Nat, checks > 0 PROVE Timed(next(checks))
  BY <1>0, <1>2 DEF Timed
<1>3. Timed(next(MaxChecks))
  BY <1>2, Bounds
<1>4. ASSUME c.aliveChecks > 1 PROVE Timed(next(c.aliveChecks - 1))
  <2>1. c.aliveChecks \in Nat
    BY <1>0 DEF Timed
  <2>2. c.aliveChecks - 1 \in Nat /\ c.aliveChecks - 1 > 0
    BY <1>4, <2>1
  <2> QED
    BY <1>2, <2>2
<1> HIDE DEF next
<1> QED
  BY <1>1, <1>3, <1>4, StepTimed, ResetTimed

LEMMA FlushGoodbyeTimed ==
  ASSUME AllTimed, NEW e \in EndPoint, FlushGoodbye(e)
  PROVE  AllTimed'
<1> DEFINE c == channel[e]
<1>0. Timed(c)
  BY DEF AllTimed
<1>1. Step(e, net[e], [c EXCEPT !.goodbyeWaits = FALSE], Control("Goodbye"))
  BY DEF FlushGoodbye
<1> HIDE DEF c
<1>2. Timed([c EXCEPT !.goodbyeWaits = FALSE])
  BY <1>0 DEF Timed
<1> QED
  BY <1>1, <1>2, StepTimed

(* Arrivals.                                                               *)
LEMMA HandshakeTimed ==
  ASSUME AllTimed, NEW e \in EndPoint, NEW rest, NEW id, ReceiveHandshake(e, rest, id)
  PROVE  AllTimed'
<1> DEFINE c == Heard(channel[e])
           connected ==
             [c EXCEPT !.state = "Connected", !.aliveChecks = Checks(@), !.beats = {},
                       !.keepAlive = c.keepAlive \/ c.state = "Connecting"]
           again == [FreshChannel(c.myID) EXCEPT !.peerID = id]
<1>0. Timed(c)
  BY HeardTimed DEF AllTimed
<1>1. \E packets :
        \/ Step(e, rest, [c EXCEPT !.peerID = id], packets)
        \/ Step(e, rest, c, packets)
        \/ Step(e, rest, connected, packets)
        \/ Step(e, rest, again, packets)
  BY DEF ReceiveHandshake
<1> HIDE DEF c
<1>2. Timed([c EXCEPT !.peerID = id])
  BY <1>0 DEF Timed
<1>3. Timed(connected)
  <2>1. c.aliveChecks \in Nat
    BY <1>0 DEF Timed
  <2>2. Checks(c.aliveChecks) \in Nat /\ Checks(c.aliveChecks) > 0
    BY <2>1, ChecksBound
  <2> QED
    BY <1>0, <2>2 DEF Timed
<1>4. Timed(again)
  BY DEF Timed, FreshChannel
<1> HIDE DEF connected, again
<1> QED
  BY <1>0, <1>1, <1>2, <1>3, <1>4, StepTimed

LEMMA ArrivalTimed ==
  ASSUME AllTimed, NEW e \in EndPoint, NEW i, DatagramReceived(e, i)
  PROVE  AllTimed'
<1> DEFINE c == channel[e]
<1>0. Timed(c)
  BY DEF AllTimed
<1>1. PICK rest :
        \/ ReceiveHandshake(e, rest, net[e][i].id)
        \/ ReceiveReset(e, rest)
        \/ ReceiveGoodbye(e, rest)
        \/ ReceiveKeepAlive(e, rest)
        \/ ReceiveData(e, rest)
  BY DEF DatagramReceived
<1>2. CASE ReceiveHandshake(e, rest, net[e][i].id)
  BY <1>2, HandshakeTimed
<1>3. CASE ReceiveReset(e, rest)
  BY <1>3, ResetTimed DEF ReceiveReset
<1>4. CASE ReceiveGoodbye(e, rest)
  <2>1. \E packets : Step(e, rest, Reset, packets)
    BY <1>4 DEF ReceiveGoodbye
  <2> QED
    BY <2>1, ResetTimed
<1>5. CASE ReceiveKeepAlive(e, rest)
  <2>1. \E packets : Step(e, rest, [c EXCEPT !.heard = "KeepAlive"], packets)
    BY <1>5 DEF ReceiveKeepAlive
  <2> HIDE DEF c
  <2>2. Timed([c EXCEPT !.heard = "KeepAlive"])
    BY <1>0 DEF Timed
  <2> QED
    BY <2>1, <2>2, StepTimed
<1>6. CASE ReceiveData(e, rest)
  <2>1. \E packets : Step(e, rest, Heard(c), packets)
    BY <1>6 DEF ReceiveData
  <2>2. Timed(Heard(c))
    BY <1>0, HeardTimed
  <2> QED
    BY <2>1, <2>2, StepTimed
<1> QED
  BY <1>1, <1>2, <1>3, <1>4, <1>5, <1>6

LEMMA CrashTimed ==
  ASSUME AllTimed, NEW e \in EndPoint, Crash(e)
  PROVE  AllTimed'
<1>1. channel' = [p \in EndPoint |-> IF p = e THEN Reset ELSE channel[p]]
  BY DEF AllTimed, Crash
<1>2. ASSUME NEW p \in EndPoint PROVE Timed(channel'[p])
  <2>1. Timed(Reset) /\ Timed(channel[p])
    BY FreshTimed DEF Reset, AllTimed
  <2>2. channel'[p] = IF p = e THEN Reset ELSE channel[p]
    BY <1>1
  <2> QED
    BY <2>1, <2>2
<1>3. channel' = [p \in EndPoint |-> channel'[p]]
  BY <1>1
<1> QED
  BY <1>2, <1>3 DEF AllTimed

LEMMA NextTimed == AllTimed /\ [Next]_vars => AllTimed'
<1> SUFFICES ASSUME AllTimed, [Next]_vars PROVE AllTimed'
  OBVIOUS
<1>1. ASSUME channel' = channel PROVE AllTimed'
  BY <1>1 DEF AllTimed
<1>2. ASSUME NEW e \in EndPoint, Application(e) PROVE AllTimed'
  BY <1>2, ApplicationTimed
<1>3. ASSUME NEW e \in EndPoint,
             \/ ConnectTimer(e) \/ KeepAliveTimer(e) \/ CheckPeerAlive(e) \/ FlushGoodbye(e)
      PROVE  AllTimed'
  BY <1>3, ConnectTimerTimed, KeepAliveTimerTimed, CheckPeerAliveTimed, FlushGoodbyeTimed
<1>4. ASSUME NEW e \in EndPoint, NEW i, DatagramReceived(e, i) PROVE AllTimed'
  BY <1>4, ArrivalTimed
<1>5. ASSUME NEW e \in EndPoint, Crash(e) \/ Restart(e) PROVE AllTimed'
  BY <1>1, <1>5, CrashTimed DEF Restart
<1>6. ASSUME Lose \/ UNCHANGED vars PROVE AllTimed'
  BY <1>1, <1>6 DEF Lose, vars
<1> QED
  BY <1>2, <1>3, <1>4, <1>5, <1>6 DEF Next

(* A channel that is not idle always has a timer running that decides its  *)
(* fate (connectToPeerTimer or checkPeerAliveTimer): no loss, crash,       *)
(* restart or order of calls and packets strands it.                       *)
THEOREM AlwaysTimed == Spec => []NeverWithoutTimer
<1>1. AllTimed => NeverWithoutTimer
  BY DEF AllTimed, Timed, NeverWithoutTimer, State
<1> QED
  BY InitTimed, NextTimed, <1>1, PTL DEF Spec

-----------------------------------------------------------------------------
(* The ranges of the variables.                                            *)
Datagrams ==
  [type : {"Handshake"}, id : Nat] \cup [type : {"Reset", "Goodbye", "KeepAlive", "Data"}]

AllChannels ==
  [state : States, myID : Nat, peerID : Nat, connectTicks : 0 .. ConnectTicks,
   keepAlive : BOOLEAN, aliveChecks : 0 .. MaxChecks, heard : {"nothing", "packet", "KeepAlive"},
   beats : SUBSET EndPoint, goodbyeWaits : BOOLEAN]

Ranged ==
  /\ channel \in [EndPoint -> AllChannels]
  /\ net \in [EndPoint -> Seq(Datagrams)]
  /\ \A e \in EndPoint : Len(net[e]) <= Capacity
  /\ up \subseteq EndPoint

(* Identifiers are drawn from a set that known ones cannot exhaust: each   *)
(* rules out one candidate.                                                *)
LEMMA OneLeft ==
  ASSUME NEW known, IsFiniteSet(known)
  PROVE  \E id \in {3 * k : k \in 1 .. Cardinality(known) + 1} : {id, id + 1} \cap known = {}
<1> DEFINE n == Cardinality(known)
<1>1. n \in Nat
  BY FS_CardinalityType
<1> HIDE DEF n
<1> SUFFICES ASSUME \A k \in 1 .. n + 1 : {3 * k, 3 * k + 1} \cap known # {} PROVE FALSE
  BY DEF n
<1> DEFINE f == [k \in 1 .. n + 1 |-> CHOOSE x \in known : x \in {3 * k, 3 * k + 1}]
<1>2. \A k \in 1 .. n + 1 : f[k] \in known /\ f[k] \in {3 * k, 3 * k + 1}
  OBVIOUS
<1>3. f \in [1 .. n + 1 -> known]
  BY <1>2
<1>4. IsFiniteSet(1 .. n + 1) /\ Cardinality(1 .. n + 1) = n + 1
  BY <1>1, FS_Interval
<1> HIDE DEF f
<1>5. \E x, y \in 1 .. n + 1 : x # y /\ f[x] = f[y]
  <2>1. Cardinality(known) < Cardinality(1 .. n + 1)
    BY <1>1, <1>4 DEF n
  <2> QED
    BY <1>3, <1>4, <2>1, FS_PigeonHole
<1>6. PICK x, y \in 1 .. n + 1 : x # y /\ f[x] = f[y]
  BY <1>5
<1>7. f[x] \in {3 * x, 3 * x + 1} /\ f[x] \in {3 * y, 3 * y + 1} /\ x \in Int /\ y \in Int
  BY <1>1, <1>2, <1>6
<1> QED
  BY <1>6, <1>7

(* What is known is finite.                                                *)
LEMMA KnownFinite == ASSUME Ranged PROVE IsFiniteSet(KnownIDs)
<1> DEFINE shakes(e) == {n \in ToSet(net[e]) : n.type = "Handshake"}
           ids(e) == {m.id : m \in shakes(e)}
           known(e) == {channel[e].myID, channel[e].peerID} \cup ids(e)
<1>1. ASSUME NEW e \in EndPoint PROVE IsFiniteSet(known(e))
  <2>1. IsFiniteSet(DOMAIN net[e])
    <3>1. DOMAIN net[e] = 1 .. Len(net[e]) /\ Len(net[e]) \in Nat
      BY LenProperties DEF Ranged
    <3> QED
      BY <3>1, FS_Interval
  <2>2. IsFiniteSet(ToSet(net[e]))
    <3>1. [i \in DOMAIN net[e] |-> net[e][i]] \in Surjection(DOMAIN net[e], ToSet(net[e]))
      BY DEF Surjection, ToSet
    <3> QED
      BY <2>1, <3>1, FS_Surjection
  <2>3. IsFiniteSet(shakes(e))
    BY <2>2, FS_Subset
  <2>4. IsFiniteSet(ids(e))
    <3>1. [m \in shakes(e) |-> m.id] \in Surjection(shakes(e), ids(e))
      <4> DEFINE s == shakes(e)
      <4> HIDE DEF shakes
      <4> QED
        BY DEF Surjection
    <3> QED
      BY <2>3, <3>1, FS_Surjection
  <2>5. IsFiniteSet({channel[e].myID, channel[e].peerID})
    <3>1. IsFiniteSet({channel[e].myID}) /\ IsFiniteSet({channel[e].peerID})
      BY FS_Singleton
    <3>2. {channel[e].myID, channel[e].peerID} = {channel[e].myID} \cup {channel[e].peerID}
      OBVIOUS
    <3> QED
      BY <3>1, <3>2, FS_Union
  <2> HIDE DEF ids
  <2> QED
    BY <2>4, <2>5, FS_Union
<1>2. PICK a \in EndPoint, b \in EndPoint : EndPoint = {a, b}
  BY ConnectionAssumption
<1>3. KnownIDs = known(a) \cup known(b)
  BY <1>2 DEF KnownIDs
<1> HIDE DEF known
<1> QED
  BY <1>1, <1>3, FS_Union

LEMMA DrawnFresh ==
  ASSUME Ranged
  PROVE  DrawnID \in Nat /\ {DrawnID, DrawnID + 1} \cap KnownIDs = {}
<1> DEFINE drawn == {3 * k : k \in 1 .. Cardinality(KnownIDs) + 1}
<1>1. IsFiniteSet(KnownIDs)
  BY KnownFinite
<1>2. \E id \in drawn : {id, id + 1} \cap KnownIDs = {}
  BY <1>1, OneLeft
<1>3. DrawnID \in drawn /\ {DrawnID, DrawnID + 1} \cap KnownIDs = {}
  BY <1>2 DEF DrawnID
<1>4. Cardinality(KnownIDs) \in Nat
  BY <1>1, FS_CardinalityType
<1> QED
  BY <1>3, <1>4

-----------------------------------------------------------------------------
(* What is in flight after packets are sent and one is taken.              *)
LEMMA WrittenRanged ==
  ASSUME NEW M, NEW n \in Seq(M), NEW t \in Seq(M)
  PROVE  Written(n, t) \in Seq(M) /\ Len(Written(n, t)) <= Capacity
<1> DEFINE all == n \o t
           len == IF Len(all) < Capacity THEN Len(all) ELSE Capacity
<1>1. all \in Seq(M) /\ Len(all) \in Nat /\ Capacity \in Nat
  BY ConcatProperties, LenProperties, NetworkAssumption
<1> HIDE DEF all
<1>2. len \in Nat /\ len <= Len(all) /\ len <= Capacity
  BY <1>1
<1>3. Written(n, t) = SubSeq(all, 1, len)
  BY DEF Written, all
<1> HIDE DEF len
<1>4. SubSeq(all, 1, len) \in Seq(M) /\ Len(SubSeq(all, 1, len)) = len
  <2>1. 1 \in 1 .. Len(all) + 1 /\ len \in 1 - 1 .. Len(all) /\ len - 1 + 1 = len
    BY <1>1, <1>2
  <2> QED
    BY <1>1, <2>1, SubSeqProperties
<1> QED
  BY <1>2, <1>3, <1>4

LEMMA RemoveAtRanged ==
  ASSUME NEW M, NEW n \in Seq(M), NEW i \in DOMAIN n
  PROVE  RemoveAt(n, i) \in Seq(M) /\ Len(RemoveAt(n, i)) <= Len(n)
<1> DEFINE before == SubSeq(n, 1, i - 1)
           after == SubSeq(n, i + 1, Len(n))
<1>1. Len(n) \in Nat /\ i \in 1 .. Len(n)
  BY LenProperties
<1>2. before \in Seq(M) /\ Len(before) = i - 1
  <2>1. 1 \in 1 .. Len(n) + 1 /\ i - 1 \in 1 - 1 .. Len(n) /\ (i - 1) - 1 + 1 = i - 1
    BY <1>1
  <2> QED
    BY <2>1, SubSeqProperties
<1>3. after \in Seq(M) /\ Len(after) = Len(n) - i
  <2>1. /\ i + 1 \in 1 .. Len(n) + 1 /\ Len(n) \in (i + 1) - 1 .. Len(n)
        /\ Len(n) - (i + 1) + 1 = Len(n) - i
    BY <1>1
  <2> QED
    BY <2>1, SubSeqProperties
<1>4. RemoveAt(n, i) = before \o after
  BY DEF RemoveAt
<1> HIDE DEF before, after
<1>5. before \o after \in Seq(M) /\ Len(before \o after) = Len(before) + Len(after)
  BY <1>2, <1>3, ConcatProperties
<1> QED
  BY <1>1, <1>2, <1>3, <1>4, <1>5

LEMMA PacketsRanged ==
  /\ \A id \in Nat : Handshake(id) \in Seq(Datagrams)
  /\ \A type \in {"Reset", "Goodbye", "KeepAlive", "Data"} : Control(type) \in Seq(Datagrams)
  /\ <<>> \in Seq(Datagrams)
<1>1. \A m \in Datagrams : <<m>> \in Seq(Datagrams)
  OBVIOUS
<1>2. \A id \in Nat : [type |-> "Handshake", id |-> id] \in Datagrams
  BY DEF Datagrams
<1>3. \A type \in {"Reset", "Goodbye", "KeepAlive", "Data"} : [type |-> type] \in Datagrams
  BY DEF Datagrams
<1> QED
  BY <1>1, <1>2, <1>3, EmptySeq DEF Handshake, Control

(* The same for a step of e that changes its own channel.                  *)
LEMMA StepRanged ==
  ASSUME Ranged, NEW e \in EndPoint, NEW rest \in Seq(Datagrams), Len(rest) <= Capacity,
         NEW new \in AllChannels, NEW packets \in Seq(Datagrams),
         Step(e, rest, new, packets)
  PROVE  Ranged'
<1>1. channel' \in [EndPoint -> AllChannels] /\ up' \subseteq EndPoint
  BY DEF Ranged, Step
<1>2. Sent(Peer(e), packets) \in Seq(Datagrams) /\ Len(Sent(Peer(e), packets)) <= Capacity
  <2>1. CASE Peer(e) \in up
    <3>1. net[Peer(e)] \in Seq(Datagrams)
      BY <2>1 DEF Ranged
    <3> QED
      BY <2>1, <3>1, WrittenRanged DEF Sent
  <2>2. CASE Peer(e) \notin up
    <3>1. Len(<<>>) <= Capacity
      BY NetworkAssumption
    <3> QED
      BY <2>2, <3>1, PacketsRanged DEF Sent
  <2> QED
    BY <2>1, <2>2
<1>3. net' = [net EXCEPT ![e] = rest, ![Peer(e)] = Sent(Peer(e), packets)]
  BY DEF Step
<1>4. ASSUME NEW x \in EndPoint
      PROVE  net'[x] \in Seq(Datagrams) /\ Len(net'[x]) <= Capacity
  <2>1. net'[x] \in {net[x], rest, Sent(Peer(e), packets)}
    BY <1>3 DEF Ranged
  <2> QED
    BY <1>2, <2>1 DEF Ranged
<1>5. net' \in [EndPoint -> Seq(Datagrams)]
  <2>1. net' = [x \in EndPoint |-> net'[x]]
    BY <1>3 DEF Ranged
  <2> QED
    BY <1>4, <2>1
<1> QED
  BY <1>1, <1>4, <1>5 DEF Ranged

-----------------------------------------------------------------------------
(* The channels that operations leave are in range, too.                   *)
LEMMA FreshRanged == ASSUME NEW id \in Nat PROVE FreshChannel(id) \in AllChannels
  BY Bounds DEF FreshChannel, AllChannels, States

LEMMA ResetRanged ==
  ASSUME Ranged, NEW e \in EndPoint, NEW rest \in Seq(Datagrams), Len(rest) <= Capacity,
         NEW packets \in Seq(Datagrams), Step(e, rest, Reset, packets)
  PROVE  Ranged'
<1>1. Reset \in AllChannels
  BY DrawnFresh, FreshRanged DEF Reset
<1> QED
  BY <1>1, StepRanged

LEMMA HeardRanged ==
  ASSUME NEW c \in AllChannels PROVE Heard(c) \in AllChannels
  BY DEF Heard, AllChannels

LEMMA DisconnectedRanged ==
  ASSUME NEW c \in AllChannels, NEW d \in Disconnected(c)
  PROVE  d[1] \in AllChannels /\ d[2] \in Seq(Datagrams)
<1> DEFINE leaving == [c EXCEPT !.state = "Disconnecting"]
           waiting == [c EXCEPT !.state = "Disconnecting", !.goodbyeWaits = TRUE]
<1>1. leaving \in AllChannels /\ waiting \in AllChannels
  BY DEF AllChannels, States
<1>2. \/ d = <<c, <<>>>>
      \/ d = <<leaving, Control("Goodbye")>>
      \/ d = <<waiting, <<>>>>
  BY DEF Disconnected
<1> HIDE DEF leaving, waiting
<1>3. /\ d[1] \in {c, leaving, waiting}
      /\ d[2] \in {Control("Goodbye"), <<>>}
  BY <1>2
<1> QED
  BY <1>1, <1>3, PacketsRanged

LEMMA FarewellRanged ==
  ASSUME NEW c \in AllChannels, NEW farewell \in Farewell(c)
  PROVE  farewell \in Seq(Datagrams)
<1>1. CASE c.state = "Connected"
  BY <1>1, DisconnectedRanged DEF Farewell
<1>2. CASE c.state # "Connected"
  BY <1>2, PacketsRanged DEF Farewell
<1> QED
  BY <1>1, <1>2

-----------------------------------------------------------------------------
(* The steps keep to the ranges.                                           *)

LEMMA InitRanged == Init => Ranged
<1> SUFFICES ASSUME Init PROVE Ranged
  OBVIOUS
<1>1. PICK first : channel = [e \in EndPoint |-> FreshChannel(IF e = first THEN 3 ELSE 6)]
  BY DEF Init
<1>2. \A e \in EndPoint : channel[e] \in AllChannels
  <2>1. FreshChannel(3) \in AllChannels /\ FreshChannel(6) \in AllChannels
    BY FreshRanged
  <2> QED
    BY <1>1, <2>1
<1>3. net = [e \in EndPoint |-> <<>>] /\ up = EndPoint
  BY DEF Init
<1>4. <<>> \in Seq(Datagrams) /\ Len(<<>>) <= Capacity
  BY NetworkAssumption, EmptySeq
<1>5. channel \in [EndPoint -> AllChannels]
  BY <1>1, <1>2
<1> QED
  BY <1>3, <1>4, <1>5 DEF Ranged

LEMMA ApplicationRanged ==
  ASSUME Ranged, NEW e \in EndPoint, Application(e)
  PROVE  Ranged'
<1>1. PICK c \in AllChannels : c = channel[e]
  BY DEF Ranged
<1>2. net[e] \in Seq(Datagrams) /\ Len(net[e]) <= Capacity
  BY DEF Ranged
<1>3. CASE ConnectToPeer(e)
  <2> DEFINE new == [c EXCEPT !.state = "Connecting", !.connectTicks = ConnectTicks]
             packets == IF c.connectTicks = 0 THEN Handshake(c.myID) ELSE <<>>
  <2>1. Step(e, net[e], new, packets)
    BY <1>1, <1>3 DEF ConnectToPeer
  <2>2. new \in AllChannels
    <3>1. ConnectTicks \in 0 .. ConnectTicks /\ "Connecting" \in States
      BY Bounds DEF States
    <3> QED
      BY <1>1, <3>1 DEF AllChannels
  <2>3. packets \in Seq(Datagrams)
    BY <1>1, PacketsRanged DEF AllChannels
  <2> HIDE DEF new, packets
  <2> QED
    BY <1>2, <2>1, <2>2, <2>3, StepRanged
<1>4. CASE DisconnectFromPeer(e)
  <2>1. PICK d \in Disconnected(c) : Step(e, net[e], d[1], d[2])
    BY <1>1, <1>4 DEF DisconnectFromPeer
  <2>2. d[1] \in AllChannels /\ d[2] \in Seq(Datagrams)
    BY <1>1, <2>1, DisconnectedRanged
  <2> QED
    BY <1>2, <2>1, <2>2, StepRanged
<1>5. CASE CloseChannel(e)
  <2>1. PICK farewell \in Farewell(c) : Step(e, net[e], Reset, farewell)
    BY <1>1, <1>5 DEF CloseChannel
  <2> QED
    BY <1>1, <1>2, <2>1, FarewellRanged, ResetRanged
<1>6. CASE SendData(e)
  <2>1. Step(e, net[e], c, Control("Data"))
    BY <1>1, <1>6 DEF SendData
  <2> QED
    BY <1>1, <1>2, <2>1, PacketsRanged, StepRanged
<1> QED
  BY <1>3, <1>4, <1>5, <1>6 DEF Application

LEMMA ConnectTimerRanged ==
  ASSUME Ranged, NEW e \in EndPoint, ConnectTimer(e)
  PROVE  Ranged'
<1>1. PICK c \in AllChannels : c = channel[e]
  BY DEF Ranged
<1>2. net[e] \in Seq(Datagrams) /\ Len(net[e]) <= Capacity
  BY DEF Ranged
<1> DEFINE stopped == [c EXCEPT !.connectTicks = 0]
           ticked == [c EXCEPT !.connectTicks = @ - 1]
<1>3. \/ Step(e, net[e], stopped, <<>>)
      \/ c.connectTicks > 1 /\ Step(e, net[e], ticked, Handshake(c.myID))
      \/ Step(e, net[e], Reset, <<>>)
  BY <1>1 DEF ConnectTimer
<1>4. stopped \in AllChannels
  BY <1>1, Bounds DEF AllChannels
<1>5. ASSUME c.connectTicks > 1 PROVE ticked \in AllChannels
  <2>1. c.connectTicks \in 0 .. ConnectTicks
    BY <1>1 DEF AllChannels
  <2>2. c.connectTicks - 1 \in 0 .. ConnectTicks
    BY <1>5, <2>1, Bounds
  <2> QED
    BY <1>1, <2>2 DEF AllChannels
<1>6. Handshake(c.myID) \in Seq(Datagrams) /\ <<>> \in Seq(Datagrams)
  BY <1>1, PacketsRanged DEF AllChannels
<1> HIDE DEF stopped, ticked
<1> QED
  BY <1>2, <1>3, <1>4, <1>5, <1>6, StepRanged, ResetRanged

LEMMA KeepAliveTimerRanged ==
  ASSUME Ranged, NEW e \in EndPoint, KeepAliveTimer(e)
  PROVE  Ranged'
<1> DEFINE p == Peer(e)
           sent == Sent(p, Control("KeepAlive"))
<1>1. /\ e \in up /\ up' = up
      /\ channel' = [x \in EndPoint |-> [channel[x] EXCEPT !.beats = @ \cup {e}]]
      /\ net' = [net EXCEPT ![p] = sent]
  BY DEF KeepAliveTimer
<1>2. ASSUME NEW x \in EndPoint PROVE channel'[x] \in AllChannels
  <2>1. PICK c \in AllChannels : c = channel[x]
    BY DEF Ranged
  <2>2. channel'[x] = [c EXCEPT !.beats = @ \cup {e}]
    BY <1>1, <2>1
  <2>3. [c EXCEPT !.beats = @ \cup {e}] \in AllChannels
    BY <2>1 DEF AllChannels
  <2> QED
    BY <2>2, <2>3
<1>3. channel' \in [EndPoint -> AllChannels]
  BY <1>1, <1>2
<1>4. sent \in Seq(Datagrams) /\ Len(sent) <= Capacity
  <2>1. CASE p \in up
    <3>1. net[p] \in Seq(Datagrams) /\ Control("KeepAlive") \in Seq(Datagrams)
      BY <2>1, PacketsRanged DEF Ranged
    <3> QED
      BY <2>1, <3>1, WrittenRanged DEF Sent
  <2>2. CASE p \notin up
    <3>1. <<>> \in Seq(Datagrams) /\ Len(<<>>) <= Capacity
      BY NetworkAssumption, EmptySeq
    <3> QED
      BY <2>2, <3>1 DEF Sent
  <2> QED
    BY <2>1, <2>2
<1> HIDE DEF sent
<1>5. net' \in [EndPoint -> Seq(Datagrams)] /\ \A x \in EndPoint : Len(net'[x]) <= Capacity
  BY <1>1, <1>4 DEF Ranged
<1> QED
  BY <1>1, <1>3, <1>5 DEF Ranged

LEMMA CheckPeerAliveRanged ==
  ASSUME Ranged, NEW e \in EndPoint, CheckPeerAlive(e)
  PROVE  Ranged'
<1>1. PICK c \in AllChannels : c = channel[e]
  BY DEF Ranged
<1>2. net[e] \in Seq(Datagrams) /\ Len(net[e]) <= Capacity
  BY DEF Ranged
<1> DEFINE next(checks) ==
      [c EXCEPT !.aliveChecks = checks, !.heard = "nothing", !.beats = {}]
<1>3. \/ Step(e, net[e], next(MaxChecks), <<>>)
      \/ c.aliveChecks > 1 /\ Step(e, net[e], next(c.aliveChecks - 1), <<>>)
      \/ \E farewell \in Farewell(c) : Step(e, net[e], Reset, farewell)
  BY <1>1 DEF CheckPeerAlive
<1>4. \A checks \in 0 .. MaxChecks : next(checks) \in AllChannels
  BY <1>1 DEF AllChannels
<1>5. MaxChecks \in 0 .. MaxChecks
  BY Bounds
<1>6. c.aliveChecks > 1 => c.aliveChecks - 1 \in 0 .. MaxChecks
  <2>1. c.aliveChecks \in 0 .. MaxChecks
    BY <1>1 DEF AllChannels
  <2> QED
    BY <2>1, Bounds
<1> HIDE DEF next
<1> QED
  BY <1>1, <1>2, <1>3, <1>4, <1>5, <1>6, PacketsRanged, FarewellRanged, StepRanged, ResetRanged

LEMMA FlushGoodbyeRanged ==
  ASSUME Ranged, NEW e \in EndPoint, FlushGoodbye(e)
  PROVE  Ranged'
<1>1. PICK c \in AllChannels : c = channel[e]
  BY DEF Ranged
<1>2. net[e] \in Seq(Datagrams) /\ Len(net[e]) <= Capacity
  BY DEF Ranged
<1> DEFINE new == [c EXCEPT !.goodbyeWaits = FALSE]
<1>3. Step(e, net[e], new, Control("Goodbye"))
  BY <1>1 DEF FlushGoodbye
<1>4. new \in AllChannels
  BY <1>1 DEF AllChannels
<1> HIDE DEF new
<1> QED
  BY <1>2, <1>3, <1>4, PacketsRanged, StepRanged

LEMMA HandshakeRanged ==
  ASSUME Ranged, NEW e \in EndPoint, NEW rest \in Seq(Datagrams), Len(rest) <= Capacity,
         NEW id \in Nat, ReceiveHandshake(e, rest, id)
  PROVE  Ranged'
<1>1. PICK c \in AllChannels : c = Heard(channel[e])
  BY HeardRanged DEF Ranged
<1> DEFINE introduced == [c EXCEPT !.peerID = id]
           connected ==
             [c EXCEPT !.state = "Connected", !.aliveChecks = Checks(@), !.beats = {},
                       !.keepAlive = c.keepAlive \/ c.state = "Connecting"]
           again == [FreshChannel(c.myID) EXCEPT !.peerID = id]
<1>2. c.myID \in Nat /\ c.myID + 1 \in Nat
  BY <1>1 DEF AllChannels
<1>3. \E packets \in {Handshake(c.myID), Handshake(c.myID + 1), <<>>} :
        \/ Step(e, rest, introduced, packets)
        \/ Step(e, rest, c, packets)
        \/ Step(e, rest, connected, packets)
        \/ Step(e, rest, again, packets)
  BY <1>1 DEF ReceiveHandshake
<1>4. introduced \in AllChannels
  BY <1>1 DEF AllChannels
<1>5. connected \in AllChannels
  <2>1. Checks(c.aliveChecks) \in 0 .. MaxChecks /\ "Connected" \in States
    <3>1. c.aliveChecks \in 0 .. MaxChecks
      BY <1>1 DEF AllChannels
    <3>2. c.aliveChecks \in Nat
      BY <3>1, Bounds
    <3>3. Checks(c.aliveChecks) \in 0 .. MaxChecks
      BY <3>1, <3>2, ChecksBound
    <3> QED
      BY <3>3 DEF States
  <2>2. (c.keepAlive \/ c.state = "Connecting") \in BOOLEAN
    OBVIOUS
  <2> QED
    BY <1>1, <2>1, <2>2 DEF AllChannels
<1>6. again \in AllChannels
  <2>1. FreshChannel(c.myID) \in AllChannels
    BY <1>2, FreshRanged
  <2> QED
    BY <2>1 DEF AllChannels
<1>7. {Handshake(c.myID), Handshake(c.myID + 1), <<>>} \subseteq Seq(Datagrams)
  BY <1>2, PacketsRanged
<1> HIDE DEF introduced, connected, again
<1> QED
  BY <1>1, <1>3, <1>4, <1>5, <1>6, <1>7, StepRanged

LEMMA ArrivalRanged ==
  ASSUME Ranged, NEW e \in EndPoint, NEW i \in DOMAIN net[e], DatagramReceived(e, i)
  PROVE  Ranged'
<1> DEFINE m == net[e][i]
<1>1. PICK c \in AllChannels, n \in Seq(Datagrams) :
        c = channel[e] /\ n = net[e] /\ Len(n) <= Capacity
  BY DEF Ranged
<1>2. PICK rest \in AfterDelivery(n, i) :
        \/ m.type = "Handshake" /\ ReceiveHandshake(e, rest, m.id)
        \/ ReceiveReset(e, rest)
        \/ ReceiveGoodbye(e, rest)
        \/ ReceiveKeepAlive(e, rest)
        \/ ReceiveData(e, rest)
  BY <1>1 DEF DatagramReceived
<1>3. rest \in Seq(Datagrams) /\ Len(rest) <= Capacity
  <2>1. RemoveAt(n, i) \in Seq(Datagrams) /\ Len(RemoveAt(n, i)) <= Len(n)
    BY <1>1, RemoveAtRanged
  <2>2. PICK len \in Nat, left \in Nat, cap \in Nat :
          len = Len(n) /\ left = Len(RemoveAt(n, i)) /\ cap = Capacity
    BY <1>1, <2>1, LenProperties, NetworkAssumption
  <2>3. Len(RemoveAt(n, i)) <= Capacity
    <3>1. left <= len /\ len <= cap
      BY <1>1, <2>1, <2>2
    <3> QED
      BY <2>2, <3>1
  <2> QED
    BY <1>1, <1>2, <2>1, <2>3 DEF AfterDelivery
<1>4. m \in Datagrams
  BY <1>1
<1>5. CASE m.type = "Handshake" /\ ReceiveHandshake(e, rest, m.id)
  <2>1. m.id \in Nat
    BY <1>4, <1>5 DEF Datagrams
  <2> QED
    BY <1>3, <1>5, <2>1, HandshakeRanged
<1>6. CASE ReceiveReset(e, rest)
  BY <1>3, <1>6, PacketsRanged, ResetRanged DEF ReceiveReset
<1>7. CASE ReceiveGoodbye(e, rest)
  <2>1. PICK d : /\ d = <<c, <<>>>> \/ d \in Disconnected(c)
                 /\ Step(e, rest, Reset, d[2])
    BY <1>1, <1>7 DEF ReceiveGoodbye
  <2>2. d[2] \in Seq(Datagrams)
    <3>1. d = <<c, <<>>>> => d[2] = <<>>
      OBVIOUS
    <3> QED
      BY <1>1, <2>1, <3>1, PacketsRanged, DisconnectedRanged
  <2> QED
    BY <1>3, <2>1, <2>2, ResetRanged
<1>8. CASE ReceiveKeepAlive(e, rest)
  <2> DEFINE new == [c EXCEPT !.heard = "KeepAlive"]
             packets == IF c.keepAlive THEN <<>> ELSE Control("KeepAlive")
  <2>1. Step(e, rest, new, packets)
    BY <1>1, <1>8 DEF ReceiveKeepAlive
  <2>2. new \in AllChannels
    BY <1>1 DEF AllChannels
  <2>3. packets \in Seq(Datagrams)
    BY PacketsRanged
  <2> HIDE DEF new, packets
  <2> QED
    BY <1>3, <2>1, <2>2, <2>3, StepRanged
<1>9. CASE ReceiveData(e, rest)
  <2> DEFINE packets == IF c.state = "Connected" THEN <<>> ELSE Control("Reset")
  <2>1. Step(e, rest, Heard(c), packets)
    BY <1>1, <1>9 DEF ReceiveData
  <2>2. Heard(c) \in AllChannels
    BY <1>1, HeardRanged
  <2>3. packets \in Seq(Datagrams)
    BY PacketsRanged
  <2> HIDE DEF packets
  <2> QED
    BY <1>3, <2>1, <2>2, <2>3, StepRanged
<1> QED
  BY <1>2, <1>5, <1>6, <1>7, <1>8, <1>9

LEMMA FaultsRanged ==
  ASSUME Ranged, Lose \/ \E e \in EndPoint : Crash(e) \/ Restart(e)
  PROVE  Ranged'
<1>0. <<>> \in Seq(Datagrams) /\ Len(<<>>) <= Capacity
  BY NetworkAssumption, EmptySeq
<1>1. ASSUME Lose PROVE Ranged'
  <2>0. PICK e \in EndPoint :
          \E i \in DOMAIN net[e] : net' = [net EXCEPT ![e] = RemoveAt(net[e], i)]
    BY <1>1 DEF Lose
  <2>1. PICK i \in DOMAIN net[e] : net' = [net EXCEPT ![e] = RemoveAt(net[e], i)]
    BY <2>0
  <2>2. PICK n \in Seq(Datagrams) : n = net[e] /\ Len(n) <= Capacity
    BY DEF Ranged
  <2>3. RemoveAt(n, i) \in Seq(Datagrams) /\ Len(RemoveAt(n, i)) <= Len(n)
    BY <2>1, <2>2, RemoveAtRanged
  <2>4. Len(RemoveAt(n, i)) <= Capacity
    <3>1. PICK len \in Nat, left \in Nat, cap \in Nat :
            len = Len(n) /\ left = Len(RemoveAt(n, i)) /\ cap = Capacity
      BY <2>2, <2>3, LenProperties, NetworkAssumption
    <3>2. left <= len /\ len <= cap
      BY <2>2, <2>3, <3>1
    <3> QED
      BY <3>1, <3>2
  <2>5. net' \in [EndPoint -> Seq(Datagrams)] /\ \A x \in EndPoint : Len(net'[x]) <= Capacity
    BY <2>1, <2>2, <2>3, <2>4 DEF Ranged
  <2> QED
    BY <1>1, <2>5 DEF Lose, Ranged
<1>2. ASSUME NEW e \in EndPoint, Crash(e) PROVE Ranged'
  <2>1. Reset \in AllChannels
    BY DrawnFresh, FreshRanged DEF Reset
  <2> QED
    BY <1>0, <1>2, <2>1 DEF Crash, Ranged
<1>3. ASSUME NEW e \in EndPoint, Restart(e) PROVE Ranged'
  BY <1>3 DEF Restart, Ranged
<1> QED
  BY <1>1, <1>2, <1>3

LEMMA NextRanged == Ranged /\ [Next]_vars => Ranged'
<1> SUFFICES ASSUME Ranged, [Next]_vars PROVE Ranged'
  OBVIOUS
<1>1. ASSUME UNCHANGED vars PROVE Ranged'
  BY <1>1 DEF vars, Ranged
<1>2. ASSUME NEW e \in EndPoint, Application(e) PROVE Ranged'
  BY <1>2, ApplicationRanged
<1>3. ASSUME NEW e \in EndPoint,
             \/ ConnectTimer(e) \/ KeepAliveTimer(e) \/ CheckPeerAlive(e) \/ FlushGoodbye(e)
      PROVE  Ranged'
  BY <1>3, ConnectTimerRanged, KeepAliveTimerRanged, CheckPeerAliveRanged, FlushGoodbyeRanged
<1>4. ASSUME NEW e \in EndPoint, NEW i \in DOMAIN net[e], DatagramReceived(e, i) PROVE Ranged'
  BY <1>4, ArrivalRanged
<1> QED
  BY <1>1, <1>2, <1>3, <1>4, FaultsRanged DEF Next

(* Every variable keeps to its range, for all bounds: the timers never run *)
(* for longer than they are set, and there is always a new identifier for  *)
(* a channel that is reset.                                                *)
THEOREM RangesKept == Spec => []TypeOK
<1>1. Ranged => TypeOK
  BY DEF Ranged, AllChannels, TypeOK
<1> QED
  BY InitRanged, NextRanged, <1>1, PTL DEF Spec

-----------------------------------------------------------------------------
(* What is in flight, as far as the order matters.                         *)
Has(n, m) == \E i \in DOMAIN n : n[i] = m
Twice(n, m) == \E i, j \in DOMAIN n : i < j /\ n[i] = m /\ n[j] = m
Led(n, x, y) == \A j \in DOMAIN n : n[j] = y => \E i \in DOMAIN n : i < j /\ n[i] = x

LEMMA WrittenOne ==
  ASSUME NEW M, NEW n \in Seq(M), NEW m \in M, Len(n) < Capacity
  PROVE  LET q == Written(n, <<m>>)
         IN  /\ q \in Seq(M) /\ Len(q) = Len(n) + 1
             /\ \A k : Has(q, k) <=> Has(n, k) \/ k = m
             /\ \A k : Twice(n, k) \/ (Has(n, k) /\ k = m) => Twice(q, k)
             /\ \A x, y : Led(n, x, y) /\ (y = m => Has(n, x)) => Led(q, x, y)
<1> DEFINE all == n \o <<m>>
           q == Written(n, <<m>>)
<1>1. /\ Len(n) \in Nat /\ Capacity \in Nat /\ <<m>> \in Seq(M) /\ Len(<<m>>) = 1
      /\ <<m>>[1] = m
  BY NetworkAssumption, LenProperties
<1>2. /\ all \in Seq(M) /\ Len(all) = Len(n) + 1
      /\ \A i \in 1 .. Len(n) + 1 : all[i] = IF i <= Len(n) THEN n[i] ELSE <<m>>[i - Len(n)]
  BY <1>1, ConcatProperties
<1>3. \A i \in 1 .. Len(n) : all[i] = n[i]
  BY <1>1, <1>2
<1>4. all[Len(n) + 1] = m
  BY <1>1, <1>2
<1>5. q = SubSeq(all, 1, Len(all))
  <2> HIDE DEF all
  <2>1. (IF Len(all) < Capacity THEN Len(all) ELSE Capacity) = Len(all)
    BY <1>1, <1>2
  <2> QED
    BY <2>1 DEF Written, all
<1> HIDE DEF all
<1>6. q = all
  BY <1>1, <1>2, <1>5, SubSeqFull
<1>7. DOMAIN q = 1 .. Len(n) + 1 /\ DOMAIN n = 1 .. Len(n)
  BY <1>2, <1>6, LenProperties
<1> HIDE DEF q
<1>8. /\ \A i \in DOMAIN n : i \in DOMAIN q /\ q[i] = n[i] /\ i < Len(n) + 1
      /\ Len(n) + 1 \in DOMAIN q /\ q[Len(n) + 1] = m
      /\ \A i \in DOMAIN q : i \in DOMAIN n \/ i = Len(n) + 1
  BY <1>1, <1>3, <1>4, <1>6, <1>7
<1>9. \A k : Has(q, k) <=> Has(n, k) \/ k = m
  BY <1>8 DEF Has
<1>10. \A k : Twice(n, k) \/ (Has(n, k) /\ k = m) => Twice(q, k)
  BY <1>8 DEF Has, Twice
<1>11. \A x, y : Led(n, x, y) /\ (y = m => Has(n, x)) => Led(q, x, y)
  BY <1>8 DEF Has, Led
<1> QED
  BY <1>2, <1>6, <1>9, <1>10, <1>11 DEF q

LEMMA WrittenNone ==
  ASSUME NEW M, NEW n \in Seq(M), Len(n) <= Capacity
  PROVE  Written(n, <<>>) = n
<1>1. n \o <<>> = n
  BY ConcatEmptySeq
<1>2. (IF Len(n) < Capacity THEN Len(n) ELSE Capacity) = Len(n)
  BY NetworkAssumption, LenProperties
<1>3. SubSeq(n, 1, Len(n)) = n
  BY SubSeqFull
<1> QED
  BY <1>1, <1>2, <1>3 DEF Written

(* The oldest datagram is taken.                                           *)
LEMMA TakenFirst ==
  ASSUME NEW M, NEW n \in Seq(M), 1 \in DOMAIN n
  PROVE  LET q == RemoveAt(n, 1)
         IN  /\ q \in Seq(M) /\ Len(q) = Len(n) - 1
             /\ \A k : Has(n, k) <=> Has(q, k) \/ k = n[1]
             /\ \A k : Twice(n, k) => Has(q, k) /\ (k = n[1] \/ Twice(q, k))
             /\ \A x, y : Led(n, x, y) => n[1] # y /\ (x = n[1] \/ Led(q, x, y))
<1> DEFINE q == RemoveAt(n, 1)
           tail == SubSeq(n, 2, Len(n))
<1>1. Len(n) \in Nat \ {0} /\ DOMAIN n = 1 .. Len(n)
  BY LenProperties
<1>2. SubSeq(n, 1, 0) = <<>>
  BY <1>1, SubSeqEmpty
<1>3. tail \in Seq(M) /\ Len(tail) = Len(n) - 1 /\ \A i \in 1 .. Len(n) - 1 : tail[i] = n[i + 1]
  <2>1. CASE Len(n) = 1
    <3>1. tail = <<>>
      BY <2>1, SubSeqEmpty
    <3> QED
      BY <2>1, <3>1
  <2>2. CASE Len(n) # 1
    <3>1. 2 \in 1 .. Len(n) + 1 /\ Len(n) \in 2 - 1 .. Len(n)
      BY <1>1, <2>2
    <3> QED
      BY <1>1, <2>2, <3>1, SubSeqProperties
  <2> QED
    BY <2>1, <2>2
<1>4. q = <<>> \o tail
  BY <1>2 DEF RemoveAt
<1> HIDE DEF tail, q
<1>5. q = tail
  BY <1>3, <1>4, ConcatEmptySeq
<1>6. DOMAIN q = 1 .. Len(n) - 1
  BY <1>3, <1>5, LenProperties
<1>7. /\ \A i \in DOMAIN q : i + 1 \in DOMAIN n /\ q[i] = n[i + 1] /\ i \in Nat /\ 1 <= i
      /\ \A i \in DOMAIN n : i = 1 \/ i - 1 \in DOMAIN q
      /\ \A i \in DOMAIN n : i \in Nat /\ i >= 1
  BY <1>1, <1>3, <1>5, <1>6
<1>8. \A k : Has(n, k) <=> Has(q, k) \/ k = n[1]
  BY <1>7 DEF Has
<1>9. ASSUME NEW k, Twice(n, k) PROVE Has(q, k) /\ (k = n[1] \/ Twice(q, k))
  <2>1. PICK i, j \in DOMAIN n : i < j /\ n[i] = k /\ n[j] = k
    BY <1>9 DEF Twice
  <2>2. j - 1 \in DOMAIN q /\ q[j - 1] = k
    BY <1>7, <2>1
  <2>3. ASSUME i # 1 PROVE Twice(q, k)
    <3>1. i - 1 \in DOMAIN q /\ q[i - 1] = k /\ i - 1 < j - 1
      BY SMTT(30), <1>7, <2>1, <2>3
    <3> QED
      BY <2>2, <3>1 DEF Twice
  <2> QED
    BY <2>1, <2>2, <2>3 DEF Has
<1>10. ASSUME NEW x, NEW y, Led(n, x, y) PROVE n[1] # y /\ (x = n[1] \/ Led(q, x, y))
  <2>1. n[1] # y
    BY <1>7, <1>10 DEF Led
  <2>2. ASSUME x # n[1], NEW j \in DOMAIN q, q[j] = y
        PROVE  \E i \in DOMAIN q : i < j /\ q[i] = x
    <3>1. PICK i \in DOMAIN n : i < j + 1 /\ n[i] = x
      BY <1>7, <1>10, <2>2 DEF Led
    <3>2. i - 1 \in DOMAIN q /\ q[i - 1] = x /\ i - 1 < j
      BY <1>7, <2>2, <3>1
    <3> QED
      BY <3>2
  <2> QED
    BY <2>1, <2>2 DEF Led
<1> QED
  BY <1>3, <1>5, <1>8, <1>9, <1>10 DEF q

-----------------------------------------------------------------------------
(* A connection that nothing disturbs: no datagram is lost, overtaken or   *)
(* repeated, nobody closes, crashes or sends data, and an attempt lasts    *)
(* for more than one tick.                                                 *)
Undisturbed ==
  /\ ~Lossy /\ ~Reorder /\ ~Duplicate
  /\ MaxCloses = 0 /\ MaxData = 0 /\ MaxFaults = 0
  /\ ConnectTicks > 1

Intro(e) == [type |-> "Handshake", id |-> channel[e].myID]
Confirm(e) == [type |-> "Handshake", id |-> channel[e].myID + 1]
Alive == [type |-> "KeepAlive"]
Packets(e) == {Intro(e), Confirm(e), Alive}

(* No channel is ever reset, and only handshakes and keep-alive packets    *)
(* are in flight.                                                          *)
Shape ==
  /\ channel \in [EndPoint -> [state : {"Unconnected", "Connecting", "Connected"},
       myID : Nat \ {0}, peerID : Nat, connectTicks : Nat, keepAlive : BOOLEAN,
       aliveChecks : Nat, heard : {"nothing", "packet", "KeepAlive"}, beats : SUBSET EndPoint,
       goodbyeWaits : {FALSE}]]
  /\ net = [e \in EndPoint |-> net[e]]
  /\ \A e \in EndPoint :
       /\ channel[e].peerID \in {0, channel[Peer(e)].myID}
       /\ net[e] \in Seq(Packets(Peer(e)))
       /\ Len(net[e]) + Len(net[Peer(e)]) <= Capacity
  /\ up = EndPoint
  /\ used \in [connects : Nat, closes : Nat, data : Nat, faults : Nat]

(* The peer knows the identifier of e, or will.                            *)
Introduced(e) == channel[Peer(e)].peerID # 0 \/ Has(net[Peer(e)], Intro(e))

(* What is in flight will connect e, without another tick of its timer.    *)
Decided(e) ==
  \/ Has(net[e], Confirm(Peer(e)))
  \/ channel[Peer(e)].peerID # 0 /\ Has(net[Peer(e)], Intro(e))
  \/ Twice(net[Peer(e)], Intro(e))

(* The handshake as e sees it: identifiers are exchanged before they are   *)
(* confirmed, and the last tick of an attempt finds it decided.            *)
Attempt(e) ==
  LET c == channel[e]
  IN  /\ c.state = "Unconnected" => c.connectTicks = 0
      /\ c.state = "Connecting" => c.connectTicks > 0
      /\ c.state = "Connected" => c.peerID # 0
      /\ c.state # "Unconnected" \/ c.peerID # 0 => Introduced(e)
      /\ c.peerID = 0 => Led(net[e], Intro(Peer(e)), Confirm(Peer(e)))
      /\ c.state = "Connecting" /\ c.connectTicks = 1 => Decided(e)

(* Some end called connectToPeer, and it keeps the connection alive.       *)
Quiet(e) ==
  /\ channel[e].state = "Unconnected"
  /\ ~Has(net[e], Intro(Peer(e))) /\ ~Has(net[e], Confirm(Peer(e)))
Initiative ==
  \/ \E e \in EndPoint : channel[e].state = "Connecting" \/ channel[e].keepAlive
  \/ \A e \in EndPoint : Quiet(e)

(* A connected end hears of its peer before it has done its last check.    *)
Alert(e) ==
  LET c == channel[e]
      p == channel[Peer(e)]
  IN  /\ c.aliveChecks > 0 => c.state = "Connected"
      /\ c.keepAlive => c.state = "Connected"
      /\ c.state = "Connected" => c.keepAlive \/ p.keepAlive \/ Has(net[Peer(e)], Confirm(e))
      /\ Peer(e) \in c.beats => c.heard = "KeepAlive" \/ Has(net[e], Alive)
      /\ e \in c.beats => \/ c.heard = "KeepAlive" \/ Has(net[e], Alive)
                          \/ Has(net[Peer(e)], Alive) \/ p.keepAlive

Session == Shape /\ Initiative /\ \A e \in EndPoint : Attempt(e) /\ Alert(e)

-----------------------------------------------------------------------------
LEMMA Pair ==
  /\ \A e \in EndPoint : Peer(e) \in EndPoint /\ Peer(e) # e /\ Peer(Peer(e)) = e
  /\ \A e, x \in EndPoint : x = e \/ x = Peer(e)
<1>1. PICK a, b \in EndPoint : a # b /\ EndPoint = {a, b}
  BY ConnectionAssumption
<1>2. \A e \in EndPoint : Peer(e) \in EndPoint /\ Peer(e) # e
  BY <1>1 DEF Peer
<1> QED
  BY <1>1, <1>2

(* The packets differ.                                                     *)
LEMMA PacketsDiffer ==
  ASSUME Shape, NEW e \in EndPoint
  PROVE  /\ Intro(e) # Confirm(e) /\ Intro(e) # Alive /\ Confirm(e) # Alive
         /\ Intro(e).type = "Handshake" /\ Confirm(e).type = "Handshake"
         /\ Alive.type = "KeepAlive"
         /\ Intro(e).id = channel[e].myID /\ Confirm(e).id = channel[e].myID + 1
<1>1. channel[e].myID \in Nat
  BY DEF Shape
<1>2. Intro(e).type = "Handshake" /\ Confirm(e).type = "Handshake" /\ Alive.type = "KeepAlive"
      /\ Intro(e).id = channel[e].myID /\ Confirm(e).id = channel[e].myID + 1
  BY DEF Intro, Confirm, Alive
<1> QED
  BY <1>1, <1>2

(* What e has taken leaves rest, and the packets it sent stand last.       *)
Carried(e, rest, packets) ==
  /\ net' = [x \in EndPoint |-> net'[x]]
  /\ net'[e] = rest
  /\ \A x \in EndPoint : Intro(x)' = Intro(x) /\ Confirm(x)' = Confirm(x)
  /\ \A x \in EndPoint : net'[x] \in Seq(Packets(Peer(x))')
  /\ \A x \in EndPoint : Len(net'[x]) + Len(net'[Peer(x)]) <= Capacity
  /\ packets = <<>> => net'[Peer(e)] = net[Peer(e)]
  /\ \A m \in Packets(e) : packets = <<m>> =>
       LET n == net[Peer(e)]
           q == net'[Peer(e)]
       IN  /\ \A k : Has(q, k) <=> Has(n, k) \/ k = m
           /\ \A k : Twice(n, k) \/ (Has(n, k) /\ k = m) => Twice(q, k)
           /\ \A x, y : Led(n, x, y) /\ (y = m => Has(n, x)) => Led(q, x, y)

(* e sends one packet or none, and takes one or none: what is in flight.   *)
LEMMA InFlight ==
  ASSUME Shape, NEW e \in EndPoint, NEW rest, NEW packets,
         net' = [net EXCEPT ![e] = rest, ![Peer(e)] = Sent(Peer(e), packets)],
         \A x \in EndPoint : channel'[x].myID = channel[x].myID,
         \/ rest = net[e] /\ (packets = <<>> \/ Room)
         \/ 1 \in DOMAIN net[e] /\ rest = RemoveAt(net[e], 1),
         packets = <<>> \/ \E m \in Packets(e) : packets = <<m>>
  PROVE  Carried(e, rest, packets)
<1> DEFINE p == Peer(e)
<1>1. p \in EndPoint /\ p # e /\ Peer(p) = e
  BY Pair
<1>3. /\ net[e] \in Seq(Packets(p)) /\ net[p] \in Seq(Packets(e))
      /\ Len(net[e]) + Len(net[p]) <= Capacity
  BY <1>1 DEF Shape
<1>4. net'[e] = rest /\ net'[p] = Written(net[p], packets) /\ net' = [x \in EndPoint |-> net'[x]]
  BY <1>1 DEF Shape, Sent
<1>5. \A x \in EndPoint : Intro(x)' = Intro(x) /\ Confirm(x)' = Confirm(x)
  BY DEF Intro, Confirm
<1>6. \A x \in EndPoint : Packets(x)' = Packets(x)
  BY <1>5 DEF Packets, Alive
<1>7. /\ rest \in Seq(Packets(p))
      /\ rest = net[e] \/ Len(rest) = Len(net[e]) - 1
  BY <1>3, TakenFirst
<1>8. /\ Len(net[e]) \in Nat /\ Len(net[p]) \in Nat /\ Len(rest) \in Nat /\ Capacity \in Nat
  BY <1>3, <1>7, LenProperties, NetworkAssumption
<1>81. PICK here \in Nat, there \in Nat, left \in Nat, cap \in Nat :
         here = Len(net[e]) /\ there = Len(net[p]) /\ left = Len(rest) /\ cap = Capacity
  BY <1>8
<1>82. here + there <= cap
  BY <1>3, <1>81
<1>9. packets = <<>> => net'[p] = net[p]
  <2>1. Len(net[p]) <= Capacity
    <3>1. there <= cap
      BY <1>82
    <3> QED
      BY <1>81, <3>1
  <2> QED
    BY <1>3, <1>4, <2>1, WrittenNone
<1>10. /\ left + there <= cap
       /\ packets # <<>> => left + there < cap /\ there < cap
  <2>1. Room => here + there < cap
    BY <1>81 DEF Room
  <2>2. 1 \in DOMAIN net[e] => here > 0
    BY <1>3, <1>81
  <2>3. 1 \in DOMAIN net[e] /\ rest = RemoveAt(net[e], 1) => left = here - 1
    BY <1>3, <1>81, TakenFirst
  <2>4. rest = net[e] => left = here
    BY <1>81
  <2> QED
    BY <1>82, <2>1, <2>2, <2>3, <2>4
<1>11. ASSUME NEW m \in Packets(e), packets = <<m>>
       PROVE  LET n == net[p]
                  q == net'[p]
              IN  /\ q \in Seq(Packets(e)) /\ Len(q) = Len(n) + 1
                  /\ \A k : Has(q, k) <=> Has(n, k) \/ k = m
                  /\ \A k : Twice(n, k) \/ (Has(n, k) /\ k = m) => Twice(q, k)
                  /\ \A x, y : Led(n, x, y) /\ (y = m => Has(n, x)) => Led(q, x, y)
  <2>1. packets # <<>>
    BY <1>11
  <2>2. Len(net[p]) < Capacity
    BY <1>10, <1>81, <2>1
  <2>3. net'[p] = Written(net[p], <<m>>)
    BY <1>4, <1>11
  <2>4. PICK n \in Seq(Packets(e)) : n = net[p]
    BY <1>3
  <2>41. PICK q : q = Written(n, <<m>>)
    OBVIOUS
  <2>5. Len(n) < Capacity
    BY <2>2, <2>4
  <2>6. /\ q \in Seq(Packets(e)) /\ Len(q) = Len(n) + 1
        /\ \A k : Has(q, k) <=> Has(n, k) \/ k = m
        /\ \A k : Twice(n, k) \/ (Has(n, k) /\ k = m) => Twice(q, k)
        /\ \A x, y : Led(n, x, y) /\ (y = m => Has(n, x)) => Led(q, x, y)
    BY SMTT(30), <2>41, <2>5, WrittenOne
  <2>7. n = net[p] /\ q = net'[p]
    BY <2>3, <2>4, <2>41
  <2> HIDE DEF p
  <2> QED
    BY <2>6, <2>7
<1>12. /\ net'[p] \in Seq(Packets(e))
       /\ net'[p] = net[p] \/ (packets # <<>> /\ Len(net'[p]) = Len(net[p]) + 1)
  <2>1. CASE packets = <<>>
    BY <1>3, <1>9, <2>1
  <2>2. CASE packets # <<>>
    <3>1. PICK m \in Packets(e) : packets = <<m>>
      BY <2>2
    <3> QED
      BY <1>11, <2>2, <3>1
  <2> QED
    BY <2>1, <2>2
<1>13. Len(net'[e]) + Len(net'[p]) <= Capacity /\ Len(net'[p]) + Len(net'[e]) <= Capacity
  <2>1. Len(net'[e]) = left
    BY <1>4, <1>81
  <2>2. Len(net'[p]) = there \/ (packets # <<>> /\ Len(net'[p]) = there + 1)
    BY <1>12, <1>81
  <2>3. CASE Len(net'[p]) = there
    <3>1. left + there <= cap /\ there + left <= cap
      BY <1>10
    <3> QED
      BY <1>81, <2>1, <2>3, <3>1
  <2>4. CASE packets # <<>> /\ Len(net'[p]) = there + 1
    <3>1. left + there < cap
      BY <1>10, <2>4
    <3>2. left + (there + 1) <= cap /\ (there + 1) + left <= cap
      BY <3>1
    <3> QED
      BY <1>81, <2>1, <2>4, <3>2
  <2> QED
    BY <2>2, <2>3, <2>4
<1>14. \A x \in EndPoint : net'[x] \in Seq(Packets(Peer(x))')
  BY <1>1, <1>4, <1>6, <1>7, <1>12, Pair
<1>15. \A x \in EndPoint : Len(net'[x]) + Len(net'[Peer(x)]) <= Capacity
  <2> SUFFICES ASSUME NEW x \in EndPoint PROVE Len(net'[x]) + Len(net'[Peer(x)]) <= Capacity
    OBVIOUS
  <2>1. x = e \/ x = p
    BY Pair
  <2> QED
    BY <1>1, <1>13, <2>1
<1> QED
  BY <1>4, <1>5, <1>9, <1>11, <1>14, <1>15 DEF Carried

Channels ==
  [state : {"Unconnected", "Connecting", "Connected"}, myID : Nat \ {0}, peerID : Nat,
   connectTicks : Nat, keepAlive : BOOLEAN, aliveChecks : Nat,
   heard : {"nothing", "packet", "KeepAlive"}, beats : SUBSET EndPoint, goodbyeWaits : {FALSE}]

(* The same for a step of e that changes its own channel.                  *)
LEMMA StepFacts ==
  ASSUME Shape, NEW e \in EndPoint, NEW rest, NEW new \in Channels, NEW packets,
         Step(e, rest, new, packets),
         \/ rest = net[e] /\ (packets = <<>> \/ Room)
         \/ 1 \in DOMAIN net[e] /\ rest = RemoveAt(net[e], 1),
         packets = <<>> \/ \E m \in Packets(e) : packets = <<m>>,
         new.myID = channel[e].myID, new.peerID \in {0, channel[Peer(e)].myID},
         used' \in [connects : Nat, closes : Nat, data : Nat, faults : Nat]
  PROVE  /\ Shape'
         /\ channel'[e] = new /\ channel'[Peer(e)] = channel[Peer(e)]
         /\ Carried(e, rest, packets)
<1>1. /\ channel' = [channel EXCEPT ![e] = new] /\ up' = up
      /\ net' = [net EXCEPT ![e] = rest, ![Peer(e)] = Sent(Peer(e), packets)]
  BY DEF Step
<1>2. channel \in [EndPoint -> Channels]
  BY DEF Shape, Channels
<1>3. /\ channel'[e] = new /\ \A x \in EndPoint : x # e => channel'[x] = channel[x]
      /\ channel' \in [EndPoint -> Channels]
  BY <1>1, <1>2
<1>4. \A x \in EndPoint : channel'[x].myID = channel[x].myID
  BY <1>3
<1>41. Carried(e, rest, packets)
  BY <1>1, <1>4, InFlight
<1>5. /\ net' = [x \in EndPoint |-> net'[x]]
      /\ \A x \in EndPoint : Intro(x)' = Intro(x) /\ Confirm(x)' = Confirm(x)
      /\ \A x \in EndPoint : net'[x] \in Seq(Packets(Peer(x))')
      /\ \A x \in EndPoint : Len(net'[x]) + Len(net'[Peer(x)]) <= Capacity
  BY <1>41 DEF Carried
<1>6. \A x \in EndPoint : channel'[x].peerID \in {0, channel'[Peer(x)].myID}
  <2> SUFFICES ASSUME NEW x \in EndPoint PROVE channel'[x].peerID \in {0, channel[Peer(x)].myID}
    BY <1>4, Pair
  <2>1. CASE x = e
    BY <1>3, <2>1
  <2>2. CASE x # e
    BY <1>3, <2>2 DEF Shape
  <2> QED
    BY <2>1, <2>2
<1>7. Shape'
  BY <1>1, <1>3, <1>5, <1>6 DEF Shape, Channels, Packets, Alive
<1> QED
  BY <1>3, <1>41, <1>7, Pair

(* What it takes to keep up a session: no step takes a connection down.    *)
StaysUp == \A e \in EndPoint : State(e) = "Connected" => State(e)' = "Connected"
Kept == Session' /\ StaysUp

LEMMA SessionKept ==
  ASSUME NEW e \in EndPoint, Shape', Initiative', Attempt(e)', Attempt(Peer(e))', Alert(e)',
         Alert(Peer(e))', channel[e].state = "Connected" => channel'[e].state = "Connected",
         channel'[Peer(e)].state = channel[Peer(e)].state
  PROVE  Kept
<1>1. ASSUME NEW x \in EndPoint PROVE Attempt(x)' /\ Alert(x)'
  <2>1. CASE x = e
    BY <2>1
  <2>2. CASE x = Peer(e)
    BY <2>2
  <2> QED
    BY <2>1, <2>2, Pair
<1>2. StaysUp
  <2>1. ASSUME NEW x \in EndPoint, channel[x].state = "Connected"
        PROVE  channel'[x].state = "Connected"
    <3>1. CASE x = e
      BY <2>1, <3>1
    <3>2. CASE x = Peer(e)
      BY <2>1, <3>2
    <3> QED
      BY <3>1, <3>2, Pair
  <2> QED
    BY <2>1 DEF StaysUp, State
<1> QED
  BY <1>1, <1>2 DEF Session, Kept

-----------------------------------------------------------------------------
(* The steps.                                                              *)

(* A packet is taken.                                                      *)
LEMMA TakenFacts ==
  ASSUME Shape, NEW e \in EndPoint, 1 \in DOMAIN net[e]
  PROVE  LET n == net[e]
             q == RemoveAt(net[e], 1)
         IN  /\ n[1] \in Packets(Peer(e))
             /\ \A k : Has(n, k) <=> Has(q, k) \/ k = n[1]
             /\ \A k : Twice(n, k) => Has(q, k) /\ (k = n[1] \/ Twice(q, k))
             /\ \A x, y : Led(n, x, y) => n[1] # y /\ (x = n[1] \/ Led(q, x, y))
<1>1. PICK n \in Seq(Packets(Peer(e))) : n = net[e]
  BY DEF Shape
<1>2. n[1] \in Packets(Peer(e))
  BY <1>1
<1> QED
  BY <1>1, <1>2, TakenFirst

(* Timers that leave the handshake alone.                                  *)
LEMMA TimersOnly ==
  ASSUME Session, NEW e \in EndPoint, NEW new \in Channels, Step(e, net[e], new, <<>>),
         new.state \in {channel[e].state, "Connecting"},
         channel[e].state = "Connected" => new.state = "Connected",
         new.myID = channel[e].myID, new.peerID = channel[e].peerID,
         new.keepAlive = channel[e].keepAlive,
         new.state = "Unconnected" => new.connectTicks = 0,
         new.state = "Connecting" => new.connectTicks > 1 /\ channel[e].state = "Connecting",
         new.aliveChecks > 0 => new.state = "Connected",
         new.beats = {} \/ (new.beats = channel[e].beats /\ new.heard = channel[e].heard),
         used' \in [connects : Nat, closes : Nat, data : Nat, faults : Nat]
  PROVE  Kept
<1> DEFINE p == Peer(e)
<1>1. p \in EndPoint /\ p # e /\ Peer(p) = e
  BY Pair
<1>2. new.peerID \in {0, channel[p].myID}
  BY DEF Session, Shape
<1>3. Shape' /\ channel'[e] = new /\ channel'[p] = channel[p] /\ Carried(e, net[e], <<>>)
  BY <1>2, StepFacts DEF Session
<1>4. /\ net'[e] = net[e] /\ net'[p] = net[p]
      /\ Intro(e)' = Intro(e) /\ Confirm(e)' = Confirm(e)
      /\ Intro(p)' = Intro(p) /\ Confirm(p)' = Confirm(p)
  BY <1>1, <1>3 DEF Carried
<1> HIDE DEF p
<1>5. Attempt(e) /\ Attempt(p) /\ Alert(e) /\ Alert(p) /\ Initiative
  BY <1>1 DEF Session
<1>6. new.state = channel[e].state
  OBVIOUS
<1>7. Attempt(e)'
  <2>1. Introduced(e)' <=> Introduced(e)
    BY <1>1, <1>3, <1>4 DEF Introduced, p
  <2>2. new.state = "Connecting" => new.connectTicks > 0 /\ new.connectTicks # 1
    BY DEF Channels
  <2> QED
    BY <1>1, <1>3, <1>4, <1>5, <1>6, <2>1, <2>2 DEF Attempt, p
<1>8. Attempt(p)'
  BY <1>1, <1>3, <1>4, <1>5, <1>6 DEF Attempt, Introduced, Decided, p
<1>9. Alert(e)'
  BY <1>1, <1>3, <1>4, <1>5, <1>6 DEF Alert, Alive, p
<1>10. Alert(p)'
  BY <1>1, <1>3, <1>4, <1>5, <1>6 DEF Alert, Alive, p
<1>11. Initiative'
  BY <1>1, <1>3, <1>4, <1>5, <1>6, Pair DEF Initiative, Quiet, p
<1> QED
  BY <1>3, <1>7, <1>8, <1>9, <1>10, <1>11, SessionKept DEF p

(* connectToPeer and connectToPeerTimeout send an identifier.              *)
LEMMA Asking ==
  ASSUME Session, Undisturbed, NEW e \in EndPoint, NEW new \in Channels, Room,
         Step(e, net[e], new, <<Intro(e)>>),
         channel[e].state \in {"Unconnected", "Connecting"}, new.state = "Connecting",
         new.connectTicks > 0,
         channel[e].state = "Unconnected" => new.connectTicks > 1,
         new.myID = channel[e].myID, new.peerID = channel[e].peerID,
         new.keepAlive = channel[e].keepAlive, new.aliveChecks = channel[e].aliveChecks,
         new.beats = channel[e].beats, new.heard = channel[e].heard,
         used' \in [connects : Nat, closes : Nat, data : Nat, faults : Nat]
  PROVE  Kept
<1> DEFINE p == Peer(e)
<1>1. p \in EndPoint /\ p # e /\ Peer(p) = e
  BY Pair
<1>2. new.peerID \in {0, channel[p].myID}
  BY DEF Session, Shape
<1>3. /\ Shape' /\ channel'[e] = new /\ channel'[p] = channel[p]
      /\ Carried(e, net[e], <<Intro(e)>>)
  <2>1. Intro(e) \in Packets(e)
    BY DEF Packets
  <2> QED
    BY <1>2, <2>1, StepFacts DEF Session
<1>4. /\ net'[e] = net[e]
      /\ Intro(e)' = Intro(e) /\ Confirm(e)' = Confirm(e)
      /\ Intro(p)' = Intro(p) /\ Confirm(p)' = Confirm(p)
      /\ \A k : Has(net'[p], k) <=> Has(net[p], k) \/ k = Intro(e)
      /\ \A k : Twice(net[p], k) \/ (Has(net[p], k) /\ k = Intro(e)) => Twice(net'[p], k)
      /\ \A x, y : Led(net[p], x, y) /\ (y = Intro(e) => Has(net[p], x)) => Led(net'[p], x, y)
  BY <1>1, <1>3 DEF Carried, Packets
<1> HIDE DEF p
<1>5. Attempt(e) /\ Attempt(p) /\ Alert(e) /\ Alert(p) /\ Initiative
  BY <1>1 DEF Session
<1>6. Intro(e) # Confirm(e) /\ Intro(e) # Alive /\ Alive' = Alive
  BY PacketsDiffer DEF Session, Alive
<1>7. Attempt(e)'
  <2>1. Introduced(e)'
    BY <1>1, <1>4 DEF Introduced, p
  <2>2. new.connectTicks = 1 => Decided(e)'
    <3>1. ASSUME new.connectTicks = 1 PROVE Introduced(e)
      BY <1>5, <3>1 DEF Attempt
    <3> QED
      BY <1>1, <1>3, <1>4, <3>1 DEF Introduced, Decided, p
  <2> QED
    BY <1>1, <1>3, <1>4, <1>5, <2>1, <2>2 DEF Attempt, p
<1>8. Attempt(p)'
  BY <1>1, <1>3, <1>4, <1>5, <1>6 DEF Attempt, Introduced, Decided, p
<1>9. Alert(e)'
  BY <1>1, <1>3, <1>4, <1>5, <1>6 DEF Alert, p
<1>10. Alert(p)'
  BY <1>1, <1>3, <1>4, <1>5, <1>6 DEF Alert, p
<1>11. Initiative'
  BY <1>3 DEF Initiative
<1> QED
  BY <1>3, <1>7, <1>8, <1>9, <1>10, <1>11, SessionKept DEF p

(* The identifier of the peer arrives.                                     *)
LEMMA IntroArrives ==
  ASSUME Session, NEW e \in EndPoint, 1 \in DOMAIN net[e],
         net[e][1] = Intro(Peer(e)), NEW new \in Channels, NEW m \in Packets(e),
         Step(e, RemoveAt(net[e], 1), new, <<m>>),
         \/ channel[e].peerID # 0 /\ m = Confirm(e)
         \/ channel[e].peerID = 0 /\ m = Intro(e)
         \/ channel[e].peerID = 0 /\ m = Confirm(e) /\ channel[e].state = "Connecting",
         new.state = channel[e].state, new.myID = channel[e].myID,
         new.peerID = channel[Peer(e)].myID, new.keepAlive = channel[e].keepAlive,
         new.connectTicks = channel[e].connectTicks, new.aliveChecks = channel[e].aliveChecks,
         new.beats = channel[e].beats, channel[e].heard = "KeepAlive" => new.heard = "KeepAlive",
         used' \in [connects : Nat, closes : Nat, data : Nat, faults : Nat]
  PROVE  Kept
<1> DEFINE p == Peer(e)
           rest == RemoveAt(net[e], 1)
<1>1. p \in EndPoint /\ p # e /\ Peer(p) = e
  BY Pair
<1>2. new.peerID # 0 /\ new.peerID \in {0, channel[p].myID}
  <2>1. channel[p].myID \in Nat \ {0}
    BY <1>1 DEF Session, Shape
  <2> QED
    BY <2>1
<1>3. Shape' /\ channel'[e] = new /\ channel'[p] = channel[p] /\ Carried(e, rest, <<m>>)
  BY StepFacts DEF Session
<1>4. /\ net'[e] = rest
      /\ Intro(e)' = Intro(e) /\ Confirm(e)' = Confirm(e)
      /\ Intro(p)' = Intro(p) /\ Confirm(p)' = Confirm(p)
      /\ \A k : Has(net'[p], k) <=> Has(net[p], k) \/ k = m
      /\ \A k : Twice(net[p], k) \/ (Has(net[p], k) /\ k = m) => Twice(net'[p], k)
      /\ \A x, y : Led(net[p], x, y) /\ (y = m => Has(net[p], x)) => Led(net'[p], x, y)
  BY <1>1, <1>3 DEF Carried
<1>5. /\ \A k : Has(net[e], k) <=> Has(rest, k) \/ k = Intro(p)
      /\ \A k : Twice(net[e], k) => Has(rest, k)
  BY TakenFacts DEF Session
<1> HIDE DEF p, rest
<1>6. Attempt(e) /\ Attempt(p) /\ Alert(e) /\ Alert(p) /\ Initiative
  BY <1>1 DEF Session
<1>7. /\ Intro(e) # Confirm(e) /\ Intro(e) # Alive /\ Confirm(e) # Alive
      /\ Intro(p) # Confirm(p) /\ Intro(p) # Alive /\ Confirm(p) # Alive /\ Alive' = Alive
  BY <1>1, PacketsDiffer DEF Session, Alive
<1>8. Introduced(e) \/ m = Intro(e)
  BY <1>6 DEF Attempt
<1>9. Attempt(e)'
  <2>1. Introduced(e)'
    BY <1>1, <1>3, <1>4, <1>8 DEF Introduced, p
  <2>2. Decided(e) => Decided(e)'
    BY <1>1, <1>3, <1>4, <1>5, <1>7 DEF Decided, p
  <2> QED
    BY <1>2, <1>3, <1>6, <2>1, <2>2 DEF Attempt
<1>10. Attempt(p)'
  <2>1. Introduced(p)'
    BY <1>1, <1>2, <1>3 DEF Introduced
  <2>2. Decided(p) => Decided(p)'
    BY <1>1, <1>2, <1>3, <1>4, <1>5, <1>7 DEF Decided
  <2>3. channel[p].peerID = 0 => Led(net'[p], Intro(e), Confirm(e))
    <3>1. channel[p].peerID = 0 /\ m = Confirm(e) => Has(net[p], Intro(e))
      BY <1>6, <1>7, <1>8 DEF Introduced, p
    <3> QED
      BY <1>1, <1>4, <1>6, <3>1 DEF Attempt
  <2> QED
    BY <1>1, <1>3, <1>4, <1>6, <2>1, <2>2, <2>3 DEF Attempt
<1>11. Alert(e)'
  BY <1>1, <1>3, <1>4, <1>5, <1>6, <1>7 DEF Alert, p
<1>12. Alert(p)'
  BY <1>1, <1>3, <1>4, <1>5, <1>6, <1>7 DEF Alert
<1>13. Initiative'
  <2>1. \E x \in EndPoint : channel[x].state = "Connecting" \/ channel[x].keepAlive
    BY <1>5, <1>6 DEF Initiative, Quiet, p
  <2> QED
    BY <1>3, <2>1, Pair DEF Initiative, p
<1> QED
  BY <1>3, <1>9, <1>10, <1>11, <1>12, <1>13, SessionKept DEF p

(* The peer confirms, and e is connected by now.                           *)
LEMMA ConfirmArrives ==
  ASSUME Session, NEW e \in EndPoint, 1 \in DOMAIN net[e],
         net[e][1] = Confirm(Peer(e)), NEW new \in Channels,
         channel[e].state # "Unconnected",
         Step(e, RemoveAt(net[e], 1), new, <<>>),
         new.state = "Connected", new.myID = channel[e].myID,
         new.peerID = channel[e].peerID,
         IF channel[e].state = "Connecting" THEN new.keepAlive = TRUE
         ELSE new.keepAlive = channel[e].keepAlive,
         \/ new.beats = {}
         \/ /\ new.beats = channel[e].beats
            /\ channel[e].heard = "KeepAlive" => new.heard = "KeepAlive",
         used' \in [connects : Nat, closes : Nat, data : Nat, faults : Nat]
  PROVE  Kept
<1> DEFINE p == Peer(e)
           rest == RemoveAt(net[e], 1)
<1>1. p \in EndPoint /\ p # e /\ Peer(p) = e
  BY Pair
<1>2. new.peerID \in {0, channel[p].myID}
  BY DEF Session, Shape
<1>3. Shape' /\ channel'[e] = new /\ channel'[p] = channel[p] /\ Carried(e, rest, <<>>)
  BY <1>2, StepFacts DEF Session
<1>4. /\ net'[e] = rest /\ net'[p] = net[p]
      /\ Intro(e)' = Intro(e) /\ Confirm(e)' = Confirm(e)
      /\ Intro(p)' = Intro(p) /\ Confirm(p)' = Confirm(p)
  BY <1>1, <1>3 DEF Carried
<1>5. /\ \A k : Has(net[e], k) <=> Has(rest, k) \/ k = Confirm(p)
      /\ \A k : Twice(net[e], k) => k = Confirm(p) \/ Twice(rest, k)
      /\ ~Led(net[e], Intro(p), Confirm(p))
  BY ZenonT(30), TakenFacts DEF Session
<1> HIDE DEF p, rest
<1>6. Attempt(e) /\ Attempt(p) /\ Alert(e) /\ Alert(p) /\ Initiative
  BY <1>1 DEF Session
<1>7. /\ Intro(p) # Confirm(p) /\ Confirm(p) # Alive /\ Alive' = Alive
  BY <1>1, PacketsDiffer DEF Session, Alive
<1>8. channel[e].peerID # 0
  BY <1>5, <1>6 DEF Attempt, p
<1>9. Attempt(e)'
  BY <1>1, <1>3, <1>4, <1>6, <1>8 DEF Attempt, Introduced, p
<1>10. Attempt(p)'
  <2>1. Introduced(p)'
    BY <1>1, <1>3, <1>8 DEF Introduced
  <2>2. Decided(p) => Decided(p)'
    BY <1>1, <1>3, <1>4, <1>5, <1>7, <1>8 DEF Decided
  <2> QED
    BY <1>1, <1>3, <1>4, <1>6, <2>1, <2>2 DEF Attempt
<1>11. channel[e].keepAlive => new.keepAlive
  BY <1>6 DEF Alert
<1>12. channel[p].state = "Connected" => channel[p].keepAlive \/ new.keepAlive
  <2>1. CASE channel[e].state = "Connecting"
    BY <2>1
  <2>2. CASE channel[e].state = "Connected"
    BY <1>6, <2>2, Pair DEF Initiative, Quiet, p
  <2> QED
    BY <2>1, <2>2 DEF Session, Shape
<1>13. Alert(e)'
  <2>1. new.keepAlive \/ channel[p].keepAlive \/ Has(net[p], Confirm(e))
    <3>1. CASE channel[e].state = "Connecting"
      BY <3>1
    <3>2. CASE channel[e].state = "Connected"
      BY <1>6, <1>11, <3>2 DEF Alert, p
    <3> QED
      BY <3>1, <3>2 DEF Session, Shape
  <2>2. new.beats \subseteq channel[e].beats
        /\ (new.beats # {} /\ channel[e].heard = "KeepAlive" => new.heard = "KeepAlive")
    OBVIOUS
  <2> QED
    BY <1>1, <1>3, <1>4, <1>5, <1>6, <1>7, <2>1, <2>2 DEF Alert, p
<1>14. Alert(p)'
  BY <1>1, <1>3, <1>4, <1>5, <1>6, <1>7, <1>11, <1>12 DEF Alert
<1>15. Initiative'
  <2>1. \E x \in EndPoint : channel[x].state = "Connecting" \/ channel[x].keepAlive
    BY <1>5, <1>6 DEF Initiative, Quiet, p
  <2> QED
    BY <1>1, <1>3, <1>11, <2>1, Pair DEF Initiative, p
<1> QED
  BY <1>3, <1>9, <1>10, <1>13, <1>14, <1>15, SessionKept DEF p

(* The peer confirms to an end that did not ask.                           *)
LEMMA ConfirmAnswered ==
  ASSUME Session, NEW e \in EndPoint, 1 \in DOMAIN net[e],
         net[e][1] = Confirm(Peer(e)), NEW new \in Channels,
         channel[e].state = "Unconnected",
         Step(e, RemoveAt(net[e], 1), new, <<Confirm(e)>>),
         new.state = "Connected", new.myID = channel[e].myID,
         new.peerID = channel[e].peerID, new.keepAlive = channel[e].keepAlive, new.beats = {},
         used' \in [connects : Nat, closes : Nat, data : Nat, faults : Nat]
  PROVE  Kept
<1> DEFINE p == Peer(e)
           rest == RemoveAt(net[e], 1)
<1>1. p \in EndPoint /\ p # e /\ Peer(p) = e
  BY Pair
<1>2. new.peerID \in {0, channel[p].myID}
  BY DEF Session, Shape
<1>3. Shape' /\ channel'[e] = new /\ channel'[p] = channel[p] /\ Carried(e, rest, <<Confirm(e)>>)
  <2>1. Confirm(e) \in Packets(e)
    BY DEF Packets
  <2> QED
    BY <1>2, <2>1, StepFacts DEF Session
<1>4. /\ net'[e] = rest
      /\ Intro(e)' = Intro(e) /\ Confirm(e)' = Confirm(e)
      /\ Intro(p)' = Intro(p) /\ Confirm(p)' = Confirm(p)
      /\ \A k : Has(net'[p], k) <=> Has(net[p], k) \/ k = Confirm(e)
      /\ \A k : Twice(net[p], k) => Twice(net'[p], k)
      /\ \A x, y : Led(net[p], x, y) /\ (y = Confirm(e) => Has(net[p], x)) => Led(net'[p], x, y)
  BY <1>1, <1>3 DEF Carried, Packets
<1>5. /\ \A k : Has(net[e], k) <=> Has(rest, k) \/ k = Confirm(p)
      /\ \A k : Twice(net[e], k) => k = Confirm(p) \/ Twice(rest, k)
      /\ ~Led(net[e], Intro(p), Confirm(p))
  BY TakenFacts DEF Session
<1> HIDE DEF p, rest
<1>6. Attempt(e) /\ Attempt(p) /\ Alert(e) /\ Alert(p) /\ Initiative
  BY <1>1 DEF Session
<1>7. /\ Intro(p) # Confirm(p) /\ Confirm(p) # Alive /\ Alive' = Alive
  BY <1>1, PacketsDiffer DEF Session, Alive
<1>8. channel[e].peerID # 0
  BY <1>5, <1>6 DEF Attempt, p
<1>9. Introduced(e)
  BY <1>6, <1>8 DEF Attempt
<1>10. Attempt(e)'
  BY <1>1, <1>3, <1>4, <1>8, <1>9 DEF Attempt, Introduced, p
<1>11. Attempt(p)'
  <2>1. Introduced(p)'
    BY <1>1, <1>3, <1>8 DEF Introduced
  <2>2. Decided(p) => Decided(p)'
    BY <1>1, <1>3, <1>4, <1>5, <1>7, <1>8 DEF Decided
  <2>3. channel[p].peerID = 0 => Led(net'[p], Intro(e), Confirm(e))
    BY <1>1, <1>4, <1>6, <1>9 DEF Attempt, Introduced, p
  <2> QED
    BY <1>1, <1>3, <1>4, <1>6, <2>1, <2>2, <2>3 DEF Attempt
<1>12. ~channel[e].keepAlive
  BY <1>6 DEF Alert
<1>13. channel[p].state = "Connecting" \/ channel[p].keepAlive
  BY <1>5, <1>6, <1>12, Pair DEF Initiative, Quiet, p
<1>14. Alert(e)'
  BY <1>1, <1>3, <1>4 DEF Alert, p
<1>15. Alert(p)'
  BY <1>1, <1>3, <1>4, <1>5, <1>6, <1>7, <1>12, <1>13 DEF Alert
<1>16. Initiative'
  BY <1>1, <1>3, <1>13 DEF Initiative
<1> QED
  BY <1>3, <1>10, <1>11, <1>14, <1>15, <1>16, SessionKept DEF p

(* A keep-alive packet arrives, and is answered by an end without a timer. *)
LEMMA AliveArrives ==
  ASSUME Session, NEW e \in EndPoint, 1 \in DOMAIN net[e], net[e][1] = Alive,
         NEW new \in Channels, NEW packets,
         Step(e, RemoveAt(net[e], 1), new, packets),
         packets = <<>> \/ packets = <<Alive>>, channel[e].keepAlive \/ packets = <<Alive>>,
         new.state = channel[e].state, new.myID = channel[e].myID,
         new.peerID = channel[e].peerID, new.connectTicks = channel[e].connectTicks,
         new.keepAlive = channel[e].keepAlive, new.aliveChecks = channel[e].aliveChecks,
         new.heard = "KeepAlive",
         used' \in [connects : Nat, closes : Nat, data : Nat, faults : Nat]
  PROVE  Kept
<1> DEFINE p == Peer(e)
           rest == RemoveAt(net[e], 1)
<1>1. p \in EndPoint /\ p # e /\ Peer(p) = e
  BY Pair
<1>2. new.peerID \in {0, channel[p].myID} /\ Alive \in Packets(e)
  BY DEF Session, Shape, Packets
<1>3. Shape' /\ channel'[e] = new /\ channel'[p] = channel[p] /\ Carried(e, rest, packets)
  BY <1>2, StepFacts DEF Session
<1>4. /\ net'[e] = rest
      /\ Intro(e)' = Intro(e) /\ Confirm(e)' = Confirm(e)
      /\ Intro(p)' = Intro(p) /\ Confirm(p)' = Confirm(p)
  BY <1>1, <1>3 DEF Carried
<1>5. /\ \A k : Has(net[p], k) => Has(net'[p], k)
      /\ \A k : k # Alive => (Has(net'[p], k) <=> Has(net[p], k))
      /\ \A k : Twice(net[p], k) => Twice(net'[p], k)
      /\ \A x, y : y # Alive /\ Led(net[p], x, y) => Led(net'[p], x, y)
      /\ channel[e].keepAlive \/ Has(net'[p], Alive)
  <2>1. CASE packets = <<>>
    BY <1>3, <2>1 DEF Carried
  <2>2. CASE packets = <<Alive>>
    BY <1>2, <1>3, <2>2 DEF Carried
  <2> QED
    BY <2>1, <2>2
<1>6. /\ \A k : Has(net[e], k) <=> Has(rest, k) \/ k = Alive
      /\ \A k : Twice(net[e], k) => k = Alive \/ Twice(rest, k)
      /\ \A x, y : Led(net[e], x, y) => x = Alive \/ Led(rest, x, y)
  BY TakenFacts DEF Session
<1> HIDE DEF p, rest
<1>7. Attempt(e) /\ Attempt(p) /\ Alert(e) /\ Alert(p) /\ Initiative
  BY <1>1 DEF Session
<1>8. /\ Intro(e) # Alive /\ Confirm(e) # Alive /\ Intro(p) # Alive /\ Confirm(p) # Alive
      /\ Alive' = Alive
  BY <1>1, PacketsDiffer DEF Session, Alive
<1>9. Attempt(e)'
  <2>1. Introduced(e) => Introduced(e)'
    BY <1>1, <1>3, <1>4, <1>5 DEF Introduced, p
  <2>2. Decided(e) => Decided(e)'
    BY <1>1, <1>3, <1>4, <1>5, <1>6, <1>8 DEF Decided, p
  <2> QED
    BY <1>1, <1>3, <1>4, <1>6, <1>7, <1>8, <2>1, <2>2 DEF Attempt, p
<1>10. Attempt(p)'
  <2>1. Introduced(p) => Introduced(p)'
    BY <1>1, <1>3, <1>4, <1>6, <1>8 DEF Introduced
  <2>2. Decided(p) => Decided(p)'
    BY <1>1, <1>3, <1>4, <1>5, <1>6, <1>8 DEF Decided
  <2> QED
    BY <1>1, <1>3, <1>4, <1>5, <1>7, <1>8, <2>1, <2>2 DEF Attempt
<1>11. Alert(e)'
  BY <1>1, <1>3, <1>4, <1>5, <1>7, <1>8 DEF Alert, p
<1>12. Alert(p)'
  BY <1>1, <1>3, <1>4, <1>5, <1>6, <1>7, <1>8 DEF Alert
<1>13. Initiative'
  <2>1. \A x \in EndPoint : channel'[x].state = channel[x].state
                            /\ channel'[x].keepAlive = channel[x].keepAlive
    BY <1>1, <1>3, Pair DEF p
  <2>2. \A x \in EndPoint : Quiet(x) => Quiet(x)'
    <3>1. Quiet(e) => Quiet(e)'
      BY <1>1, <1>3, <1>4, <1>6 DEF Quiet, p
    <3>2. Quiet(p) => Quiet(p)'
      BY <1>1, <1>3, <1>4, <1>5, <1>8 DEF Quiet
    <3> QED
      BY <3>1, <3>2, Pair DEF p
  <2> QED
    BY <1>7, <2>1, <2>2 DEF Initiative
<1> QED
  BY <1>3, <1>9, <1>10, <1>11, <1>12, <1>13, SessionKept DEF p

(* The keep-alive timer of e sends a packet.                               *)
LEMMA BeatSent ==
  ASSUME Session, NEW e \in EndPoint, KeepAliveTimer(e)
  PROVE  Kept
<1> DEFINE p == Peer(e)
<1>1. p \in EndPoint /\ p # e /\ Peer(p) = e
  BY Pair
<1>2. /\ Room /\ up' = up /\ used' = used
      /\ channel' = [x \in EndPoint |-> [channel[x] EXCEPT !.beats = @ \cup {e}]]
      /\ net' = [net EXCEPT ![p] = Sent(p, <<Alive>>)]
  BY DEF KeepAliveTimer, Control, Alive
<1>3. \A x \in EndPoint :
        /\ channel'[x] \in Channels
        /\ channel'[x].state = channel[x].state /\ channel'[x].myID = channel[x].myID
        /\ channel'[x].peerID = channel[x].peerID /\ channel'[x].heard = channel[x].heard
        /\ channel'[x].connectTicks = channel[x].connectTicks
        /\ channel'[x].keepAlive = channel[x].keepAlive
        /\ channel'[x].aliveChecks = channel[x].aliveChecks
        /\ channel'[x].beats = channel[x].beats \cup {e}
  <2> SUFFICES ASSUME NEW x \in EndPoint
      PROVE /\ channel'[x] \in Channels
            /\ channel'[x].state = channel[x].state /\ channel'[x].myID = channel[x].myID
            /\ channel'[x].peerID = channel[x].peerID /\ channel'[x].heard = channel[x].heard
            /\ channel'[x].connectTicks = channel[x].connectTicks
            /\ channel'[x].keepAlive = channel[x].keepAlive
            /\ channel'[x].aliveChecks = channel[x].aliveChecks
            /\ channel'[x].beats = channel[x].beats \cup {e}
    OBVIOUS
  <2>1. channel[x] \in Channels
    BY DEF Session, Shape, Channels
  <2>2. channel'[x] = [channel[x] EXCEPT !.beats = @ \cup {e}]
    BY <1>2
  <2>3. PICK c \in Channels : c = channel[x]
    BY <2>1
  <2> DEFINE new == [c EXCEPT !.beats = @ \cup {e}]
  <2>4. new \in Channels
    BY DEF Channels
  <2>5. /\ new.state = c.state /\ new.myID = c.myID /\ new.peerID = c.peerID
        /\ new.heard = c.heard /\ new.connectTicks = c.connectTicks
        /\ new.keepAlive = c.keepAlive /\ new.aliveChecks = c.aliveChecks
        /\ new.beats = c.beats \cup {e}
    BY DEF Channels
  <2>6. channel'[x] = new
    BY <2>2, <2>3
  <2> HIDE DEF new
  <2> QED
    BY <2>3, <2>4, <2>5, <2>6
<1>4. Carried(e, net[e], <<Alive>>)
  <2>1. Alive \in Packets(e)
    BY DEF Packets
  <2>2. net' = [net EXCEPT ![e] = net[e], ![p] = Sent(p, <<Alive>>)]
    BY <1>1, <1>2 DEF Session, Shape
  <2> QED
    BY <1>2, <1>3, <2>1, <2>2, InFlight DEF Session
<1>5. /\ net'[e] = net[e]
      /\ Intro(e)' = Intro(e) /\ Confirm(e)' = Confirm(e)
      /\ Intro(p)' = Intro(p) /\ Confirm(p)' = Confirm(p)
      /\ \A k : Has(net'[p], k) <=> Has(net[p], k) \/ k = Alive
      /\ \A k : Twice(net[p], k) => Twice(net'[p], k)
      /\ \A x, y : y # Alive /\ Led(net[p], x, y) => Led(net'[p], x, y)
  BY <1>1, <1>4 DEF Carried, Packets
<1>6. Shape'
  <2>1. channel' \in [EndPoint -> Channels]
    BY <1>2, <1>3
  <2>2. \A x \in EndPoint : channel'[x].peerID \in {0, channel'[Peer(x)].myID}
    BY <1>3, Pair DEF Session, Shape
  <2> QED
    BY <1>2, <1>4, <2>1, <2>2 DEF Session, Shape, Carried, Channels
<1> HIDE DEF p
<1>7. Attempt(e) /\ Attempt(p) /\ Alert(e) /\ Alert(p) /\ Initiative
  BY <1>1 DEF Session
<1>8. /\ Intro(e) # Alive /\ Confirm(e) # Alive /\ Alive' = Alive
  BY <1>1, PacketsDiffer DEF Session, Alive
<1>9. Attempt(e)'
  BY <1>1, <1>3, <1>5, <1>7 DEF Attempt, Introduced, Decided, p
<1>10. Attempt(p)'
  BY <1>1, <1>3, <1>5, <1>7, <1>8 DEF Attempt, Introduced, Decided
<1>11. Alert(e)'
  BY <1>1, <1>3, <1>5, <1>7, <1>8 DEF Alert, p
<1>12. Alert(p)'
  BY <1>1, <1>3, <1>5, <1>7, <1>8 DEF Alert
<1>13. Initiative'
  BY <1>3 DEF Initiative, KeepAliveTimer
<1> QED
  BY <1>1, <1>3, <1>6, <1>9, <1>10, <1>11, <1>12, <1>13, SessionKept DEF p

(* Once the network is settled, nothing in flight introduces or confirms,  *)
(* and no keep-alive packet is in flight while a timer sends them.         *)
LEMMA SettledFacts ==
  ASSUME Session, Settled, NEW e \in EndPoint
  PROVE  /\ \A x \in EndPoint : ~Has(net[e], Intro(x)) /\ ~Has(net[e], Confirm(x))
         /\ \A x \in EndPoint : ~Twice(net[e], Intro(x))
         /\ \A x \in EndPoint : channel[x].keepAlive => ~Has(net[e], Alive)
<1>1. \A i \in DOMAIN net[e] :
        net[e][i].type = "KeepAlive" /\ ~ \E p \in EndPoint : channel[p].keepAlive
  BY DEF Settled, Session, Shape
<1>2. \A x \in EndPoint : Intro(x).type # "KeepAlive" /\ Confirm(x).type # "KeepAlive"
  BY DEF Intro, Confirm
<1> QED
  BY <1>1, <1>2 DEF Has, Twice

(* Nobody closes, crashes or sends data, and nothing is lost.              *)
LEMMA NothingDisturbs ==
  ASSUME Session, Undisturbed
  PROVE  /\ ~Lose
         /\ \A e \in EndPoint :
              /\ ~DisconnectFromPeer(e) /\ ~CloseChannel(e) /\ ~SendData(e)
              /\ ~FlushGoodbye(e) /\ ~Crash(e) /\ ~Restart(e)
<1>1. used \in [connects : Nat, closes : Nat, data : Nat, faults : Nat] /\ up = EndPoint
  BY DEF Session, Shape
<1>2. used.closes \in Nat /\ used.data \in Nat /\ used.faults \in Nat
  BY <1>1
<1>3. ~(used.closes < 0) /\ ~(used.data < 0) /\ ~(used.faults < 0)
  BY <1>2
<1>4. ~Lose
  BY DEF Lose, Undisturbed
<1>5. ASSUME NEW e \in EndPoint
      PROVE  ~DisconnectFromPeer(e) /\ ~CloseChannel(e) /\ ~SendData(e)
  BY <1>3 DEF DisconnectFromPeer, CloseChannel, SendData, Call, Undisturbed
<1>6. ASSUME NEW e \in EndPoint PROVE ~FlushGoodbye(e) /\ ~Crash(e) /\ ~Restart(e)
  BY <1>1, <1>3 DEF FlushGoodbye, Crash, Restart, Undisturbed, Session, Shape
<1> QED
  BY <1>4, <1>5, <1>6

(* connectToPeer.                                                          *)
LEMMA ConnectToPeerKeeps ==
  ASSUME Session, Undisturbed, NEW e \in EndPoint, ConnectToPeer(e)
  PROVE  Kept
<1> DEFINE new == [channel[e] EXCEPT !.state = "Connecting", !.connectTicks = ConnectTicks]
<1>1. PICK c \in Channels : c = channel[e]
  BY DEF Session, Shape, Channels
<1>2. /\ Room /\ c.state # "Connected"
      /\ Step(e, net[e], new, IF c.connectTicks = 0 THEN <<Intro(e)>> ELSE <<>>)
  BY <1>1 DEF ConnectToPeer, Call, Handshake, Intro
<1>3. used' \in [connects : Nat, closes : Nat, data : Nat, faults : Nat]
  <2>1. used \in [connects : Nat, closes : Nat, data : Nat, faults : Nat]
    BY DEF Session, Shape
  <2>2. used' = [used EXCEPT !.connects = @ + 1]
    BY DEF ConnectToPeer, Call
  <2> QED
    BY <2>1, <2>2
<1>4. /\ new = [c EXCEPT !.state = "Connecting", !.connectTicks = ConnectTicks]
      /\ c.state \in {"Unconnected", "Connecting"}
  BY <1>1, <1>2 DEF Channels
<1>5. ConnectTicks \in Nat /\ ConnectTicks > 1
  BY Bounds DEF Undisturbed
<1>6. /\ new \in Channels /\ new.state = "Connecting" /\ new.connectTicks = ConnectTicks
      /\ new.myID = c.myID /\ new.peerID = c.peerID /\ new.keepAlive = c.keepAlive
      /\ new.aliveChecks = c.aliveChecks /\ new.beats = c.beats /\ new.heard = c.heard
  <2> HIDE DEF new
  <2> QED
    BY <1>1, <1>4, <1>5 DEF Channels
<1>7. Attempt(e) /\ Alert(e)
  BY DEF Session
<1> HIDE DEF new
<1>8. CASE c.connectTicks = 0
  <2>1. Step(e, net[e], new, <<Intro(e)>>)
    BY <1>2, <1>8
  <2> QED
    <3>1. new.connectTicks > 1 /\ new.connectTicks > 0
      BY <1>5, <1>6
    <3>2. /\ channel[e].state \in {"Unconnected", "Connecting"} /\ new.state = "Connecting"
          /\ new.myID = channel[e].myID /\ new.peerID = channel[e].peerID
          /\ new.keepAlive = channel[e].keepAlive /\ new.aliveChecks = channel[e].aliveChecks
          /\ new.beats = channel[e].beats /\ new.heard = channel[e].heard
      BY <1>1, <1>4, <1>6
    <3> QED
      BY <1>2, <1>3, <1>6, <2>1, <3>1, <3>2, Asking
<1>9. CASE c.connectTicks # 0
  <2>1. Step(e, net[e], new, <<>>)
    BY <1>2, <1>9
  <2>2. c.state = "Connecting"
    BY <1>1, <1>4, <1>7, <1>9 DEF Attempt
  <2>3. ~(new.aliveChecks > 0)
    BY <1>1, <1>6, <1>7, <2>2 DEF Alert
  <2> QED
    BY <1>1, <1>3, <1>5, <1>6, <2>1, <2>2, <2>3, TimersOnly
<1> QED
  BY <1>8, <1>9

(* connectToPeerTimeout.                                                   *)
LEMMA ConnectTimerKeeps ==
  ASSUME Session, Undisturbed, NEW e \in EndPoint, ConnectTimer(e)
  PROVE  Kept
<1>1. PICK c \in Channels : c = channel[e]
  BY DEF Session, Shape, Channels
<1>2. /\ Room /\ c.connectTicks > 0
      /\ used' \in [connects : Nat, closes : Nat, data : Nat, faults : Nat]
  BY <1>1 DEF ConnectTimer, Session, Shape
<1>21. c.state \in {"Unconnected", "Connecting", "Connected"} /\ c.connectTicks \in Nat
  BY <1>1 DEF Channels
<1>3. Attempt(e) /\ Alert(e) /\ Attempt(Peer(e))
  BY Pair DEF Session
<1>4. ASSUME c.state = "Connected", Step(e, net[e], [c EXCEPT !.connectTicks = 0], <<>>)
      PROVE  Kept
  <2> DEFINE new == [c EXCEPT !.connectTicks = 0]
  <2>1. /\ new \in Channels /\ new.state = "Connected"
        /\ new.myID = c.myID /\ new.peerID = c.peerID /\ new.keepAlive = c.keepAlive
        /\ new.beats = c.beats /\ new.heard = c.heard
    BY <1>1, <1>4 DEF Channels
  <2> HIDE DEF new
  <2>2. Step(e, net[e], new, <<>>)
    BY <1>4 DEF new
  <2> QED
    BY <1>1, <1>2, <1>4, <2>1, <2>2, TimersOnly
<1>5. ASSUME c.state # "Connected", c.connectTicks > 1,
             Step(e, net[e], [c EXCEPT !.connectTicks = @ - 1], Handshake(c.myID))
      PROVE  Kept
  <2> DEFINE new == [c EXCEPT !.connectTicks = @ - 1]
  <2>1. c.state = "Connecting"
    BY <1>1, <1>2, <1>21, <1>3, <1>5 DEF Attempt
  <2>2. c.connectTicks \in Nat /\ c.connectTicks - 1 \in Nat /\ c.connectTicks - 1 > 0
    BY <1>21, <1>5
  <2>3. /\ new \in Channels /\ new.state = "Connecting" /\ new.connectTicks > 0
        /\ new.myID = c.myID /\ new.peerID = c.peerID /\ new.keepAlive = c.keepAlive
        /\ new.aliveChecks = c.aliveChecks /\ new.beats = c.beats /\ new.heard = c.heard
    BY <1>1, <2>1, <2>2 DEF Channels
  <2> HIDE DEF new
  <2>4. Step(e, net[e], new, <<Intro(e)>>)
    BY <1>1, <1>5 DEF new, Handshake, Intro
  <2> QED
    BY <1>1, <1>2, <2>1, <2>3, <2>4, Asking
<1>6. ~(c.state # "Connected" /\ c.connectTicks = 1 /\ Settled)
  <2> SUFFICES ASSUME c.state # "Connected", c.connectTicks = 1, Settled PROVE FALSE
    OBVIOUS
  <2>1. c.state = "Connecting"
    BY <1>1, <1>21, <1>3 DEF Attempt
  <2>2. Decided(e)
    BY <1>1, <1>3, <2>1 DEF Attempt
  <2> QED
    BY <2>2, Pair, SettledFacts DEF Decided
<1> QED
  BY <1>1, <1>4, <1>5, <1>6 DEF ConnectTimer

(* checkPeerAliveTimerTimeout: the peer has been heard.                    *)
LEMMA CheckPeerAliveKeeps ==
  ASSUME Session, Undisturbed, NEW e \in EndPoint, CheckPeerAlive(e)
  PROVE  Kept
<1> DEFINE p == Peer(e)
<1>1. p \in EndPoint /\ p # e /\ Peer(p) = e
  BY Pair
<1>2. PICK c \in Channels : c = channel[e]
  BY DEF Session, Shape, Channels
<1>3. /\ Settled /\ c.aliveChecks > 0
      /\ \A x \in EndPoint : channel[x].keepAlive => x \in c.beats
      /\ used' \in [connects : Nat, closes : Nat, data : Nat, faults : Nat]
  BY <1>2 DEF CheckPeerAlive, Session, Shape
<1>4. Attempt(e) /\ Alert(e)
  BY DEF Session
<1>5. c.state = "Connected"
  BY <1>2, <1>3, <1>4 DEF Alert
<1>6. /\ ~Has(net[p], Confirm(e))
      /\ \A x \in EndPoint : channel[x].keepAlive => ~Has(net[e], Alive) /\ ~Has(net[p], Alive)
  BY <1>1, <1>3, SettledFacts
<1>7. c.heard = "KeepAlive"
  <2>1. ASSUME channel[p].keepAlive PROVE c.heard = "KeepAlive"
    BY <1>1, <1>2, <1>3, <1>4, <1>6, <2>1 DEF Alert
  <2>2. ASSUME c.keepAlive PROVE c.heard = "KeepAlive"
    <3>1. c.heard = "KeepAlive" \/ channel[p].keepAlive
      BY <1>2, <1>3, <1>4, <1>6, <2>2 DEF Alert
    <3> QED
      BY <2>1, <3>1
  <2>3. c.keepAlive \/ channel[p].keepAlive
    BY <1>2, <1>4, <1>5, <1>6 DEF Alert
  <2> QED
    BY <2>1, <2>2, <2>3
<1> DEFINE new ==
      [c EXCEPT !.aliveChecks = MaxChecks, !.heard = "nothing", !.beats = {}]
<1>8. Step(e, net[e], new, <<>>)
  BY <1>2, <1>7 DEF CheckPeerAlive
<1>9. /\ new \in Channels /\ new.state = "Connected" /\ new.beats = {}
      /\ new.myID = c.myID /\ new.peerID = c.peerID /\ new.keepAlive = c.keepAlive
  BY <1>2, <1>5, Bounds DEF Channels
<1> HIDE DEF new
<1> QED
  BY <1>2, <1>3, <1>5, <1>8, <1>9, TimersOnly

(* What datagramReceived notes.                                            *)
LEMMA HeardFacts ==
  ASSUME NEW c \in Channels
  PROVE  LET h == Heard(c)
         IN  /\ h \in Channels /\ h.state = c.state /\ h.myID = c.myID /\ h.peerID = c.peerID
             /\ h.connectTicks = c.connectTicks /\ h.keepAlive = c.keepAlive
             /\ h.aliveChecks = c.aliveChecks /\ h.beats = c.beats
             /\ (c.heard = "KeepAlive" => h.heard = "KeepAlive")
  BY DEF Heard, Channels

(* Handshake packets: the identifier of the peer.                          *)
LEMMA IntroReceived ==
  ASSUME Session, NEW e \in EndPoint, 1 \in DOMAIN net[e], net[e][1] = Intro(Peer(e)),
         ReceiveHandshake(e, RemoveAt(net[e], 1), Intro(Peer(e)).id),
         used' \in [connects : Nat, closes : Nat, data : Nat, faults : Nat]
  PROVE  Kept
<1> DEFINE p == Peer(e)
           rest == RemoveAt(net[e], 1)
<1>1. PICK c \in Channels, id \in Nat \ {0} : c = channel[e] /\ id = channel[p].myID
  BY Pair DEF Session, Shape, Channels
<1>2. Intro(p).id = id
  BY <1>1 DEF Intro
<1>3. c.peerID \in {0, id}
  BY <1>1 DEF Session, Shape
<1>4. PICK h \in Channels :
        /\ h = Heard(c) /\ h.state = c.state /\ h.myID = c.myID /\ h.peerID = c.peerID
        /\ h.connectTicks = c.connectTicks /\ h.keepAlive = c.keepAlive
        /\ h.aliveChecks = c.aliveChecks /\ h.beats = c.beats
        /\ (c.heard = "KeepAlive" => h.heard = "KeepAlive")
  BY <1>1, HeardFacts
<1> HIDE DEF p, rest
<1>5. ReceiveHandshake(e, rest, id)
  BY <1>2 DEF p, rest
<1>6. \/ /\ h.peerID = 0
         /\ Step(e, rest, [h EXCEPT !.peerID = id],
                 Handshake(IF h.state = "Connecting" THEN h.myID + 1 ELSE h.myID))
      \/ h.peerID # 0 /\ Step(e, rest, h, Handshake(h.myID + 1))
  BY <1>1, <1>3, <1>4, <1>5 DEF ReceiveHandshake
<1>7. Handshake(c.myID) = <<Intro(e)>> /\ Handshake(c.myID + 1) = <<Confirm(e)>>
  BY <1>1 DEF Handshake, Intro, Confirm
<1>8. Intro(e) \in Packets(e) /\ Confirm(e) \in Packets(e)
  BY DEF Packets
<1>9. ASSUME h.peerID # 0, Step(e, rest, h, <<Confirm(e)>>) PROVE Kept
  BY <1>1, <1>3, <1>4, <1>8, <1>9, IntroArrives DEF p, rest
<1>10. ASSUME h.peerID = 0, NEW m \in Packets(e),
              m = Intro(e) \/ (m = Confirm(e) /\ h.state = "Connecting"),
              Step(e, rest, [h EXCEPT !.peerID = id], <<m>>)
       PROVE  Kept
  <2> DEFINE new == [h EXCEPT !.peerID = id]
  <2>1. /\ new \in Channels /\ new.state = c.state /\ new.myID = c.myID /\ new.peerID = id
        /\ new.connectTicks = c.connectTicks /\ new.keepAlive = c.keepAlive
        /\ new.aliveChecks = c.aliveChecks /\ new.beats = c.beats
        /\ (c.heard = "KeepAlive" => new.heard = "KeepAlive")
    BY ZenonT(30), <1>1, <1>4 DEF Channels
  <2>2. Step(e, rest, new, <<m>>)
    BY <1>10
  <2> HIDE DEF new
  <2> QED
    BY ZenonT(30), <1>1, <1>4, <1>10, <2>1, <2>2, IntroArrives DEF p, rest
<1>11. CASE h.peerID = 0
  <2>1. CASE h.state = "Connecting"
    <3>1. Step(e, rest, [h EXCEPT !.peerID = id], <<Confirm(e)>>)
      BY <1>4, <1>6, <1>7, <1>11, <2>1
    <3> QED
      BY <1>8, <1>10, <1>11, <2>1, <3>1
  <2>2. CASE h.state # "Connecting"
    <3>1. Step(e, rest, [h EXCEPT !.peerID = id], <<Intro(e)>>)
      BY <1>4, <1>6, <1>7, <1>11, <2>2
    <3> QED
      BY <1>8, <1>10, <1>11, <3>1
  <2> QED
    BY <2>1, <2>2
<1>12. CASE h.peerID # 0
  BY <1>4, <1>6, <1>7, <1>9, <1>12
<1> QED
  BY <1>11, <1>12

(* Handshake packets: the confirmation of the peer.                        *)
LEMMA ConfirmReceived ==
  ASSUME Session, NEW e \in EndPoint, 1 \in DOMAIN net[e], net[e][1] = Confirm(Peer(e)),
         ReceiveHandshake(e, RemoveAt(net[e], 1), Confirm(Peer(e)).id),
         used' \in [connects : Nat, closes : Nat, data : Nat, faults : Nat]
  PROVE  Kept
<1> DEFINE p == Peer(e)
           rest == RemoveAt(net[e], 1)
<1>1. PICK c \in Channels, id \in Nat \ {0} : c = channel[e] /\ id = channel[p].myID
  BY Pair DEF Session, Shape, Channels
<1>2. Confirm(p).id = id + 1
  BY <1>1 DEF Confirm
<1>3. c.peerID = id
  <2>1. c.peerID \in {0, id}
    BY <1>1 DEF Session, Shape
  <2>2. ~Led(net[e], Intro(p), Confirm(p))
    BY TakenFacts DEF Session
  <2> QED
    BY <1>1, <2>1, <2>2 DEF Session, Attempt
<1>4. PICK h \in Channels :
        /\ h = Heard(c) /\ h.state = c.state /\ h.myID = c.myID /\ h.peerID = c.peerID
        /\ h.connectTicks = c.connectTicks /\ h.keepAlive = c.keepAlive
        /\ h.aliveChecks = c.aliveChecks /\ h.beats = c.beats
        /\ (c.heard = "KeepAlive" => h.heard = "KeepAlive")
  BY <1>1, HeardFacts
<1> HIDE DEF p, rest
<1> DEFINE connected ==
      [h EXCEPT !.state = "Connected", !.aliveChecks = Checks(@), !.beats = {},
                !.keepAlive = h.keepAlive \/ h.state = "Connecting"]
<1>5. ReceiveHandshake(e, rest, id + 1)
  BY <1>2 DEF p, rest
<1>6. \/ h.state = "Connected" /\ Step(e, rest, h, <<>>)
      \/ /\ h.state # "Connected"
         /\ Step(e, rest, connected,
                 IF h.state = "Unconnected" THEN Handshake(h.myID + 1) ELSE <<>>)
  <2>1. id # 0 /\ id + 1 # id
    BY <1>1
  <2> QED
    BY <1>1, <1>3, <1>4, <1>5, <2>1 DEF ReceiveHandshake
<1>7. Handshake(c.myID + 1) = <<Confirm(e)>>
  BY <1>1 DEF Handshake, Confirm
<1>8. h.state \in {"Unconnected", "Connecting", "Connected"} /\ h.keepAlive \in BOOLEAN
  BY <1>4 DEF Channels
<1>9. /\ connected \in Channels /\ connected.state = "Connected" /\ connected.myID = c.myID
      /\ connected.peerID = c.peerID /\ connected.beats = {}
  <2>1. h.aliveChecks \in Nat
    BY <1>4 DEF Channels
  <2>2. Checks(h.aliveChecks) \in Nat
    BY <2>1, ChecksBound
  <2> QED
    BY <1>4, <2>2 DEF Channels
<1>10. connected.keepAlive = (h.keepAlive \/ h.state = "Connecting")
  BY <1>4 DEF Channels
<1> HIDE DEF connected
<1>11. CASE h.state = "Connected"
  BY <1>1, <1>4, <1>6, <1>11, ConfirmArrives DEF p, rest
<1>12. CASE h.state = "Connecting"
  <2>1. Step(e, rest, connected, <<>>) /\ connected.keepAlive = TRUE
    BY <1>6, <1>10, <1>12
  <2> QED
    BY ZenonT(30), <1>1, <1>4, <1>9, <1>12, <2>1, ConfirmArrives DEF p, rest
<1>13. CASE h.state = "Unconnected"
  <2>1. Step(e, rest, connected, <<Confirm(e)>>)
    BY <1>4, <1>6, <1>7, <1>13
  <2>2. connected.keepAlive = c.keepAlive
    BY <1>4, <1>8, <1>10, <1>13
  <2> QED
    BY <1>1, <1>4, <1>9, <1>13, <2>1, <2>2, ConfirmAnswered DEF p, rest
<1> QED
  BY <1>8, <1>11, <1>12, <1>13

(* KeepAlive packets.                                                      *)
LEMMA AliveReceived ==
  ASSUME Session, NEW e \in EndPoint, 1 \in DOMAIN net[e], net[e][1] = Alive,
         ReceiveKeepAlive(e, RemoveAt(net[e], 1)),
         used' \in [connects : Nat, closes : Nat, data : Nat, faults : Nat]
  PROVE  Kept
<1>1. PICK c \in Channels : c = channel[e]
  BY DEF Session, Shape, Channels
<1> DEFINE new == [c EXCEPT !.heard = "KeepAlive"]
           packets == IF c.keepAlive THEN <<>> ELSE <<Alive>>
<1>2. Step(e, RemoveAt(net[e], 1), new, packets)
  BY <1>1 DEF ReceiveKeepAlive, Control, Alive
<1>3. /\ new \in Channels /\ new.state = c.state /\ new.myID = c.myID /\ new.peerID = c.peerID
      /\ new.connectTicks = c.connectTicks /\ new.keepAlive = c.keepAlive
      /\ new.aliveChecks = c.aliveChecks /\ new.heard = "KeepAlive"
  BY <1>1 DEF Channels
<1>4. (packets = <<>> \/ packets = <<Alive>>) /\ (c.keepAlive \/ packets = <<Alive>>)
  OBVIOUS
<1> HIDE DEF new, packets
<1> QED
  BY <1>1, <1>2, <1>3, <1>4, AliveArrives

LEMMA ArrivalKeeps ==
  ASSUME Session, Undisturbed, NEW e \in EndPoint, NEW i, DatagramReceived(e, i)
  PROVE  Kept
<1> DEFINE p == Peer(e)
           rest == RemoveAt(net[e], 1)
           m == net[e][1]
<1>1. i = 1 /\ 1 \in DOMAIN net[e]
  BY DEF DatagramReceived, Deliverable, Undisturbed
<1>2. AfterDelivery(net[e], 1) = {rest}
  BY DEF AfterDelivery, Undisturbed
<1>3. \/ m.type = "Handshake" /\ ReceiveHandshake(e, rest, m.id)
      \/ m.type = "Reset"
      \/ m.type = "Goodbye"
      \/ m.type = "KeepAlive" /\ ReceiveKeepAlive(e, rest)
      \/ m.type = "Data"
  BY <1>1, <1>2 DEF DatagramReceived
<1>4. m \in {Intro(p), Confirm(p), Alive}
  BY <1>1, TakenFacts DEF Session, Packets
<1>5. /\ Intro(p).type = "Handshake" /\ Confirm(p).type = "Handshake"
      /\ Alive.type = "KeepAlive"
  BY DEF Intro, Confirm, Alive
<1>6. used' \in [connects : Nat, closes : Nat, data : Nat, faults : Nat]
  BY DEF DatagramReceived, Session, Shape
<1>7. CASE m = Intro(p)
  BY <1>1, <1>3, <1>5, <1>6, <1>7, IntroReceived
<1>8. CASE m = Confirm(p)
  BY <1>1, <1>3, <1>5, <1>6, <1>8, ConfirmReceived
<1>9. CASE m = Alive
  BY <1>1, <1>3, <1>5, <1>6, <1>9, AliveReceived
<1> QED
  BY <1>4, <1>7, <1>8, <1>9

LEMMA NextSession == Undisturbed /\ Session /\ [Next]_vars => Kept
<1> SUFFICES ASSUME Undisturbed, Session, [Next]_vars PROVE Kept
  OBVIOUS
<1>1. ASSUME UNCHANGED vars PROVE Kept
  BY <1>1 DEF vars, Session, Shape, Initiative, Quiet, Attempt, Alert, Introduced, Decided,
              Intro, Confirm, Alive, Packets, Kept, StaysUp, State
<1>2. ASSUME NEW e \in EndPoint, Application(e) PROVE Kept
  BY <1>2, ConnectToPeerKeeps, NothingDisturbs DEF Application
<1>3. ASSUME NEW e \in EndPoint,
             \/ ConnectTimer(e) \/ KeepAliveTimer(e) \/ CheckPeerAlive(e) \/ FlushGoodbye(e)
      PROVE  Kept
  BY <1>3, ConnectTimerKeeps, BeatSent, CheckPeerAliveKeeps, NothingDisturbs
<1>4. ASSUME NEW e \in EndPoint, NEW i, DatagramReceived(e, i) PROVE Kept
  BY <1>4, ArrivalKeeps
<1>5. ASSUME NEW e \in EndPoint PROVE ~Crash(e) /\ ~Restart(e) /\ ~Lose
  BY NothingDisturbs
<1> QED
  BY <1>1, <1>2, <1>3, <1>4, <1>5, NothingDisturbs DEF Next

LEMMA InitSession == Init => Session
<1> SUFFICES ASSUME Init PROVE Session
  OBVIOUS
<1>1. PICK first \in EndPoint :
        channel = [e \in EndPoint |-> FreshChannel(IF e = first THEN 3 ELSE 6)]
  <2>1. (CHOOSE e \in EndPoint : TRUE) \in EndPoint
    BY ConnectionAssumption
  <2> QED
    BY <2>1 DEF Init
<1>2. net = [e \in EndPoint |-> <<>>]
  BY DEF Init
<1>3. \A e \in EndPoint :
        /\ channel[e] \in Channels /\ channel[e].state = "Unconnected"
        /\ channel[e].peerID = 0 /\ channel[e].connectTicks = 0
        /\ channel[e].keepAlive = FALSE /\ channel[e].aliveChecks = 0 /\ channel[e].beats = {}
  BY <1>1 DEF FreshChannel, Channels
<1>4. \A e \in EndPoint : net[e] = <<>> /\ Len(net[e]) = 0 /\ DOMAIN net[e] = {}
  BY <1>2
<1>5. \A e \in EndPoint : \A k : ~Has(net[e], k)
  BY <1>4 DEF Has
<1>6. \A e \in EndPoint : \A x, y : Led(net[e], x, y)
  BY <1>4 DEF Led
<1>7. Shape
  <2>1. channel \in [EndPoint -> Channels]
    BY <1>1, <1>3
  <2>2. \A e \in EndPoint : Len(net[e]) + Len(net[Peer(e)]) <= Capacity
    <3>1. \A e \in EndPoint : Len(net[e]) = 0 /\ Len(net[Peer(e)]) = 0
      BY <1>4, Pair
    <3>2. Capacity \in Nat /\ 0 + 0 <= Capacity
      BY NetworkAssumption
    <3> QED
      BY <3>1, <3>2
  <2>3. \A e \in EndPoint : net[e] \in Seq(Packets(Peer(e)))
    <3>1. \A e \in EndPoint : net[e] = <<>>
      BY <1>4
    <3>2. \A e \in EndPoint : <<>> \in Seq(Packets(Peer(e)))
      BY EmptySeq
    <3> QED
      BY <3>1, <3>2
  <2>4. used \in [connects : Nat, closes : Nat, data : Nat, faults : Nat] /\ up = EndPoint
    BY DEF Init
  <2> QED
    BY <1>2, <1>3, <2>1, <2>2, <2>3, <2>4 DEF Shape, Channels
<1>8. Initiative
  BY <1>3, <1>5 DEF Initiative, Quiet
<1>9. \A e \in EndPoint : Attempt(e) /\ Alert(e)
  BY <1>3, <1>6, Pair DEF Attempt, Alert
<1> QED
  BY <1>7, <1>8, <1>9 DEF Session

(* When nothing disturbs a connection, both ends hold the identifier of    *)
(* the other's present channel once they are connected.                    *)
THEOREM SessionThroughout == Undisturbed => (Spec => []SameSession)
<1> SUFFICES ASSUME Undisturbed PROVE Spec => []SameSession
  OBVIOUS
<1>1. Session => SameSession
  BY Pair DEF Session, Shape, Attempt, SameSession, State
<1>2. Session /\ [Next]_vars => Session'
  BY NextSession DEF Kept
<1> QED
  BY InitSession, <1>1, <1>2, PTL DEF Spec

(* An established connection that nothing disturbs has an end that sends   *)
(* keep-alive packets: connectToPeer starts a timer at one end at least,   *)
(* and both ends starting one does no harm.                                *)
THEOREM ConnectionKeptAlive == Undisturbed => (Spec => []KeptAlive)
<1> SUFFICES ASSUME Undisturbed PROVE Spec => []KeptAlive
  OBVIOUS
<1>1. Session => KeptAlive
  BY ConnectionAssumption, Pair DEF Session, Initiative, Quiet, KeptAlive, State
<1>2. Session /\ [Next]_vars => Session'
  BY NextSession DEF Kept
<1> QED
  BY InitSession, <1>1, <1>2, PTL DEF Spec

(* A connected end stays connected.                                        *)
StaysConnected ==
  [][\A e \in EndPoint : State(e) = "Connected" => State(e)' = "Connected"]_vars

(* When nothing disturbs a connection, an end that is connected stays so:  *)
(* neither the timer of its attempt, nor the check of its peer, nor a late *)
(* handshake takes the connection down.                                    *)
THEOREM ConnectionStaysUp == Undisturbed => (Spec => StaysConnected)
<1> SUFFICES ASSUME Undisturbed PROVE Spec => StaysConnected
  OBVIOUS
<1>1. Session /\ [Next]_vars => Session' /\ StaysUp
  BY NextSession DEF Kept
<1>2. Spec => [][StaysUp]_vars
  BY InitSession, <1>1, PTL DEF Spec
<1> QED
  BY <1>2 DEF StaysConnected, StaysUp
=============================================================================

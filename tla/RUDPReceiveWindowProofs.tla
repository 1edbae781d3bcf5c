------------------------ MODULE RUDPReceiveWindowProofs ------------------------
(***************************************************************************)
(* For every stream, every MaxSN and every window it leaves room for, the  *)
(* receiving half delivers the stream in order, refuses no packet it still *)
(* needs and keeps its sender informed.                                    *)
(***************************************************************************)
EXTENDS RUDPReceiveWindow, RUDPReceiverProofs

USE DEF WindowInvariant, ReceiverTypes

LEMMA WindowInvariantStep ==
  WindowInvariant /\ [Next]_receiverVars => WindowInvariant'
  <1> SUFFICES ASSUME WindowInvariant, [Next]_receiverVars PROVE WindowInvariant'
    OBVIOUS
  <1>1. CASE \E n \in 1 .. Stream : Receive(n)
    BY <1>1, ArrivalPreserves DEF Receive
  <1> QED BY <1>1, FeedbackPreserves DEF Next

(* The invariant that relates window, cache and stream holds in every      *)
(* state, whatever the sizes of the window and the serial numbers.         *)
THEOREM WindowCorrect == Spec => []WindowInvariant
  BY ReceiverStarts, WindowInvariantStep, PTL DEF Spec, Init

(* Every variable of the receiving half keeps to its range.                *)
THEOREM TypeCorrect == Spec => []ReceiverTypes
  <1>1. WindowInvariant => ReceiverTypes OBVIOUS
  <1> QED BY <1>1, WindowCorrect, PTL

(* Packets are delivered in order, once, and never in place of another     *)
(* that shares their serial number.                                        *)
THEOREM DeliveryInOrder == Spec => []InOrderDelivery
  <1>1. WindowInvariant => InOrderDelivery OBVIOUS
  <1> QED BY <1>1, WindowCorrect, PTL

(* datagramReceived turns away exactly what was delivered before.          *)
THEOREM OnlyDeliveredRefused == Spec => []RefusesOnlyDelivered
  <1>1. WindowInvariant => RefusesOnlyDelivered
    <2> SUFFICES ASSUME WindowInvariant, NEW n \in 1 .. Stream, Timely(n)
                 PROVE  Accepts(SerialOf(n)) <=> n > Len(delivered)
      BY DEF RefusesOnlyDelivered
    <2> QED BY StreamAssumption, TimelyAccepted
  <1> QED BY <1>1, WindowCorrect, PTL

(* The timer runs while the sender does not know how far the window moved: *)
(* the idle count only stops it once the last ACK carried the window start.*)
THEOREM ProgressReported == Spec => []ProgressIsReported
  <1>1. Init => ProgressIsReported
    BY DEF Init, ReceiverInit, ProgressIsReported
  <1>2. ProgressIsReported /\ [Next]_receiverVars => ProgressIsReported'
    <2> SUFFICES ASSUME ProgressIsReported, [Next]_receiverVars
                 PROVE  ProgressIsReported'
      OBVIOUS
    <2>1. CASE \E n \in 1 .. Stream : Receive(n)
      BY <2>1 DEF Receive, ReceivePacket, ProgressIsReported
    <2>2. CASE SendACK
      BY <2>2 DEF SendACK, ProgressIsReported, windowVars
    <2>3. CASE IdleACKTick
      BY <2>3 DEF IdleACKTick, NothingToAck, ProgressIsReported, windowVars
    <2>4. CASE UNCHANGED receiverVars
      BY <2>4 DEF receiverVars, windowVars, timerVars, ProgressIsReported
    <2> QED BY <2>1, <2>2, <2>3, <2>4 DEF Next, SendNACK
  <1> QED BY <1>1, <1>2, PTL DEF Spec

(* The arrival of the packet the receiver waits for delivers it and all    *)
(* that was cached behind it, and no other arrival delivers anything.      *)
THEOREM WholeRunsDelivered == Spec => DeliversWholeRun
  <1> DEFINE WholeRun(n) ==
        IF n = Len(delivered) + 1
        THEN /\ Len(delivered') > Len(delivered)
             /\ SerialOf(Len(delivered') + 1) \notin DOMAIN cachedReceived'
             /\ \A m \in Len(delivered) + 2 .. Len(delivered') :
                  SerialOf(m) \in DOMAIN cachedReceived
        ELSE UNCHANGED delivered
  <1>1. ASSUME WindowInvariant, NEW n \in 1 .. Stream, Receive(n),
               n = Len(delivered) + 1
        PROVE  WholeRun(n)
    <2>0. Len(delivered) \in Nat /\ n \in Int BY <1>1 DEF WindowTypes
    <2>1. PICK k \in Nat : RunDelivered(k)
      <3>1. Timely(n) /\ ReceivePacket(SerialOf(n), n) BY <1>1 DEF Receive
      <3>2. Accepts(SerialOf(n)) BY <1>1, <2>0, <3>1, TimelyAccepted
      <3>3. SerialOf(n) = firstReceived BY <1>1 DEF WindowFollowsStream
      <3>4. DeliverRun(SerialOf(n), n) BY <3>1, <3>2, <3>3 DEF ReceivePacket
      <3> QED BY <1>1, <3>4, DeliverRunPreserves
    <2> DEFINE a == Len(delivered) + 1
    <2>2. a \in Int /\ firstReceived = SerialOf(a)
      BY <1>1, <2>0 DEF WindowFollowsStream
    <2>3. SerialOf(Len(delivered') + 1) \notin DOMAIN cachedReceived'
      <3>1. Len(delivered') + 1 = a + (k + 1) /\ k + 1 \in Int
        BY <2>0, <2>1 DEF RunDelivered
      <3> HIDE DEF a
      <3>2. Advance(firstReceived, k + 1) = SerialOf(a + (k + 1))
        BY <2>2, <3>1, AdvanceSerial
      <3> QED BY <2>1, <3>1, <3>2 DEF RunDelivered
    <2>4. ASSUME NEW m \in Len(delivered) + 2 .. Len(delivered')
          PROVE  SerialOf(m) \in DOMAIN cachedReceived
      <3> DEFINE i == m - a
      <3>1. i \in 1 .. k /\ i \in Int /\ m = a + i
        BY <2>0, <2>1 DEF RunDelivered
      <3> HIDE DEF a, i
      <3>2. Advance(firstReceived, i) = SerialOf(m) BY <2>2, <3>1, AdvanceSerial
      <3> QED BY <2>1, <3>1, <3>2 DEF RunDelivered
    <2>5. Len(delivered') > Len(delivered) BY <2>0, <2>1 DEF RunDelivered
    <2> QED BY <1>1, <2>3, <2>4, <2>5
  <1>2. ASSUME WindowInvariant, NEW n \in 1 .. Stream, Receive(n),
               n # Len(delivered) + 1
        PROVE  WholeRun(n)
    <2>1. UNCHANGED windowVars \/ Cached(n)
      BY <1>2, ArrivalPreserves DEF Receive
    <2> QED BY <1>2, <2>1 DEF windowVars, Cached
  <1>3. WindowInvariant => [\A n \in 1 .. Stream : Receive(n) => WholeRun(n)]_receiverVars
    <2> HIDE DEF WholeRun
    <2> QED BY <1>1, <1>2
  <1> QED BY <1>3, WindowCorrect, PTL DEF DeliversWholeRun
=============================================================================

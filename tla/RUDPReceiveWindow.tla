--------------------------- MODULE RUDPReceiveWindow ---------------------------
(***************************************************************************)
(* The receiving half of a channel in the most general environment it is   *)
(* made for: any packet of the stream may arrive at any time, in any order *)
(* and any number of times, as long as its datagram is Timely.             *)
(***************************************************************************)
EXTENDS RUDPReceiver

Init == ReceiverInit

Receive(n) == Timely(n) /\ ReceivePacket(SerialOf(n), n)

Next ==
  \/ \E n \in 1 .. Stream : Receive(n)
  \/ SendACK
  \/ IdleACKTick
  \/ SendNACK

Spec == Init /\ [][Next]_receiverVars

-----------------------------------------------------------------------------
(* No timely packet is refused: the window test of datagramReceived turns  *)
(* away exactly the packets that were delivered already, across the wrap   *)
(* of the serial numbers as anywhere else.                                 *)
RefusesOnlyDelivered ==
  \A n \in 1 .. Stream :
    Timely(n) => (Accepts(SerialOf(n)) <=> n > Len(delivered))

(* An arrival of the packet the receiver waits for delivers it and exactly *)
(* the run of cached packets behind it; an arrival of any other packet, of *)
(* the window or not, delivers nothing (the loop of datagramReceived).     *)
DeliversWholeRun ==
  [][\A n \in 1 .. Stream : Receive(n) =>
       IF n = Len(delivered) + 1
       THEN /\ Len(delivered') > Len(delivered)
            /\ SerialOf(Len(delivered') + 1) \notin DOMAIN cachedReceived'
            /\ \A m \in Len(delivered) + 2 .. Len(delivered') :
                 SerialOf(m) \in DOMAIN cachedReceived
       ELSE UNCHANGED delivered]_receiverVars

(* While the sender has not been told how far the window moved, the timer  *)
(* that tells it is running (sendACKTimerTimeout stops it after a time).   *)
ProgressIsReported ==
  receivedAny /\ lastAck # firstReceived => feedbackTimers
=============================================================================

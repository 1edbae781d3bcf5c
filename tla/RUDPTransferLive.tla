---------------------------- MODULE RUDPTransferLive ----------------------------
(***************************************************************************)
(* RUDPTransfer over a network that loses at most MaxLosses datagrams and  *)
(* has room for what the channels write, under the fairness of the event   *)
(* loop: the timers keep firing and the datagrams in flight keep arriving. *)
(* The application is under no obligation to send.                         *)
(***************************************************************************)
EXTENDS RUDPTransfer

CONSTANT MaxLosses   \* bound on the datagrams the network loses

ASSUME LossAssumption == MaxLosses \in Nat

VARIABLE losses

liveVars == <<vars, losses>>

LiveInit == Init /\ losses = 0

BoundedLose == losses < MaxLosses /\ Lose /\ losses' = losses + 1

(* The application and the timers write when the network has room, so that *)
(* none of their datagrams is cut off; a handler of an arriving datagram   *)
(* cannot choose its time.                                                 *)
WithRoom(A) ==
  /\ A
  /\ Len(toPeer') < Capacity /\ Len(toSender') < Capacity
  /\ UNCHANGED losses

Arrival(A) == A /\ UNCHANGED losses

DeliverSomeData == \E i \in DOMAIN toPeer : DeliverData(i)
DeliverSomeFeedback == \E i \in DOMAIN toSender : DeliverFeedback(i)

LiveNext ==
  \/ BoundedLose
  \/ WithRoom(Send)
  \/ WithRoom(Retransmission)
  \/ WithRoom(Flush)
  \/ WithRoom(ACKTimer)
  \/ WithRoom(NACKTimer)
  \/ Arrival(DeliverSomeData)
  \/ Arrival(DeliverSomeFeedback)

(* The timers recur while the network has room; arrivals are always served.*)
Fairness ==
  /\ SF_liveVars(WithRoom(Retransmission))
  /\ SF_liveVars(WithRoom(Flush))
  /\ SF_liveVars(WithRoom(ACKTimer))
  /\ WF_liveVars(Arrival(DeliverSomeData))
  /\ WF_liveVars(Arrival(DeliverSomeFeedback))

LiveSpec == LiveInit /\ [][LiveNext]_liveVars /\ Fairness

-----------------------------------------------------------------------------
(* Every packet the sender accepted is delivered, although datagrams and   *)
(* acknowledgements are lost and although the timer sends cached packets   *)
(* only while nothing waits for an ACK.                                    *)
AllDelivered == Abstract!FairSpec

(* Once the last packet is accepted the sender's lists drain for good: a   *)
(* lost last ACK is made up for by the answer to a retransmission.         *)
Idle == waitingForACK = <<>> /\ DOMAIN toBeSent = {} /\ DOMAIN sentPackets = {}
SenderDrains == (created = Stream) ~> []Idle
=============================================================================

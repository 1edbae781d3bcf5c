------------------------------ MODULE RUDPTransfer ------------------------------
(***************************************************************************)
(* One direction of reliable data transfer over a connected pair of        *)
(* RUDPChannels: a sending half, a receiving half and the two directions   *)
(* of the UDP network between them.                                        *)
(***************************************************************************)
EXTENDS RUDPSender, RUDPReceiver

CONSTANTS
  MaxBurst,       \* most packets one pass of sendDatagram creates
  BeginOrEnd,     \* positions of the stream sent as BeginOrEndDataTransmission
  ControlNumbers  \* serial numbers unreliable packets may draw

ASSUME TransferAssumption ==
  /\ MaxBurst \in Nat \ {0}
  /\ BeginOrEnd \subseteq 1 .. Stream
  /\ ControlNumbers \subseteq SerialNumber

VARIABLE toSender   \* datagrams in flight to the sender

vars == <<senderVars, receiverVars, toSender>>

Init == SenderInit /\ ReceiverInit /\ toSender = <<>>

SenderStep == UNCHANGED <<receiverVars, toSender>>
ReceiverStep == UNCHANGED senderVars

-----------------------------------------------------------------------------
Send ==
  /\ SenderStep
  /\ \/ /\ created + 1 \in BeginOrEnd
        /\ SendBeginOrEnd
     \/ \E k \in 1 .. MaxBurst :
          /\ created + k <= Stream
          /\ (created + 1 .. created + k) \cap BeginOrEnd = {}
          /\ SendDatagram(k)
     \/ created < Stream /\ (SendDatagramNoRoom \/ SendDatagramLost)

SendControl ==
  /\ SenderStep
  /\ \E sn \in ControlNumbers : SendUnreliable(sn)

Retransmission == SenderStep /\ RetransmissionTimer
Flush == SenderStep /\ FlushTimer

DeliverData(i) ==
  /\ i \in Deliverable(toPeer)
  /\ toPeer' \in AfterDelivery(toPeer, i)
  /\ ReceivePacket(toPeer[i].sn, toPeer[i].data)
  /\ toSender' = Written(toSender, DroppedReply(toPeer[i].sn))
  /\ UNCHANGED <<created, firstWaiting, sendWindow, toBeSent, waitingForACK, sentPackets,
                 lostSender, LSSN, EXPCOUNT, flushScheduled, freeSendBuffer>>

Feedback(m) ==
  \/ m.type = "ACK" /\ ReceiveACK(m.first)
  \/ m.type = "PacketDropped" /\ ReceivePacketDropped(m.first)
  \/ m.type = "NACK" /\ ReceiveNACK(m.lost)

DeliverFeedback(i) ==
  /\ i \in Deliverable(toSender)
  /\ toSender' \in AfterDelivery(toSender, i)
  /\ Feedback(toSender[i])
  /\ UNCHANGED receiverVars

ACKTimer ==
  /\ ReceiverStep
  /\ \/ SendACK /\ toSender' = Written(toSender, <<ACKMessage>>)
     \/ IdleACKTick /\ UNCHANGED toSender

NACKTimer ==
  /\ ReceiverStep
  /\ SendNACK
  /\ \E report \in LossReports : toSender' = Written(toSender, <<NACKMessage(report)>>)

Lose ==
  /\ Lossy
  /\ UNCHANGED <<created, firstWaiting, sendWindow, toBeSent, waitingForACK, sentPackets,
                 lostSender, LSSN, EXPCOUNT, flushScheduled, freeSendBuffer, receiverVars>>
  /\ \/ \E i \in DOMAIN toPeer : toPeer' = RemoveAt(toPeer, i) /\ UNCHANGED toSender
     \/ \E i \in DOMAIN toSender : toSender' = RemoveAt(toSender, i) /\ UNCHANGED toPeer

Next ==
  \/ Send
  \/ SendControl
  \/ Retransmission
  \/ Flush
  \/ \E i \in DOMAIN toPeer : DeliverData(i)
  \/ \E i \in DOMAIN toSender : DeliverFeedback(i)
  \/ ACKTimer
  \/ NACKTimer
  \/ Lose

Spec == Init /\ [][Next]_vars

-----------------------------------------------------------------------------
(* Properties                                                              *)

DataPacket == [sn : SerialNumber, data : 1 .. Stream]
IsSeqOf(s, S) == ToSet(s) \subseteq S
IsFeedback(m) ==
  \/ m.type \in {"ACK", "PacketDropped"} /\ m.first \in SerialNumber
  \/ m.type = "NACK" /\ IsSeqOf(m.lost, SerialNumber)

(* Every variable of the two halves and the network keeps to its range.    *)
TypeOK ==
  /\ created \in 0 .. Stream
  /\ {firstWaiting, firstReceived} \subseteq SerialNumber
  /\ sendWindow \in MinWindow .. MaxWindow
  /\ DOMAIN toBeSent \subseteq SerialNumber /\ Range(toBeSent) \subseteq 0 .. Stream
  /\ DOMAIN sentPackets \subseteq SerialNumber /\ Range(sentPackets) \subseteq 1 .. Stream
  /\ IsSeqOf(waitingForACK, SerialNumber) /\ IsSeqOf(lostSender, SerialNumber)
  /\ {LSSN, LRSN, lastAck, lastAckLRSN} \subseteq 0 .. MaxSN
  /\ EXPCOUNT \in 0 .. MaxEXP
  /\ freeSendBuffer \in Nat
  /\ {flushScheduled, receivedAny, feedbackTimers} \subseteq BOOLEAN
  /\ lostReceiver \subseteq SerialNumber
  /\ DOMAIN cachedReceived \subseteq SerialNumber /\ Range(cachedReceived) \subseteq 1 .. Stream
  /\ IsSeqOf(delivered, 1 .. Stream)
  /\ idleTicks \in 0 .. MaxIdleTicks
  /\ IsSeqOf(toPeer, DataPacket) /\ \A i \in DOMAIN toSender : IsFeedback(toSender[i])

(* The sender forgets no packet its peer has not delivered: each is cached *)
(* until the send window reaches it, or kept for retransmission            *)
(* (removeWaitingForACKPackets, addToBeSentPacket).                        *)
Awaited(n) == \E i \in DOMAIN waitingForACK :
                /\ waitingForACK[i] \in DOMAIN sentPackets
                /\ sentPackets[waitingForACK[i]] = n
NothingForgotten ==
  \A n \in Len(delivered) + 1 .. created : n \in Range(toBeSent) \/ Awaited(n)

(* A datagram in flight is never beyond the receive window, nor so old     *)
(* that its serial number has come round to the window again.              *)
DatagramsTimely == \A i \in DOMAIN toPeer : Timely(toPeer[i].data)

(* When nothing is in flight and nothing waits for an ACK, the send window *)
(* has reached the cached packets: only the sender can move on, and the    *)
(* ACKs it ignores then cannot help (updateFirstWaitingForACK...).         *)
NothingStranded ==
  toPeer = <<>> /\ toSender = <<>> /\ waitingForACK = <<>> /\ DOMAIN toBeSent # {}
    => Flushed # <<>>

(* The channel is a reliable stream: see ReliableStream.                   *)
Abstract == INSTANCE ReliableStream WITH accepted <- created
RefinesReliableStream == Abstract!Spec
=============================================================================

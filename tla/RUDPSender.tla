------------------------------ MODULE RUDPSender ------------------------------
(***************************************************************************)
(* The sending half of a connected RUDPChannel: serial numbers, the send   *)
(* window, the packets cached until the window reaches them, the packets   *)
(* waiting for an ACK, the sender's loss list, the retransmission timer    *)
(* and the global send buffer, which is counted in packets.                *)
(***************************************************************************)
EXTENDS SerialNumbers, DatagramNetwork, Functions, FiniteSets

CONSTANTS
  MinWindow,          \* RUDP_MIN_SEND_WINDOW_SIZE (16)
  SlowStart,          \* RUDP_SLOWSTART_THRESHOLD (512)
  MaxEXP,             \* expirations before the timer retransmits (4)
  SendBuffer,         \* the initial m_freeSendBufferSize, in packets; 102400
                      \* bytes are fewer packets than there are serial numbers
  AdvertisedWindows,  \* receive window sizes a PacketDropped may carry
  WriteMayFail        \* writeDatagram may fail

ASSUME SenderAssumption ==
  /\ MinWindow \in Nat \ {0}
  /\ SlowStart \in Nat
  /\ MinWindow <= MaxWindow
  /\ 2 * SlowStart <= MaxWindow
  /\ MaxEXP \in Nat
  /\ SendBuffer \in Nat /\ SendBuffer < MaxSN
  /\ AdvertisedWindows \subseteq Nat
  /\ WriteMayFail \in BOOLEAN

VARIABLES
  created,         \* number of reliable packets created; m_packetSerialNumber
                   \* is the serial number of the last one
  firstWaiting,    \* m_firstWaitingForACKPacketIDInSendWindow
  sendWindow,      \* m_sendWindowSize
  toBeSent,        \* m_ToBeSentPacketsHash: serial number -> data
  waitingForACK,   \* waitingForACKPackets
  sentPackets,     \* sentPackets: serial number -> data
  lostSender,      \* lostPacketsInSenderSide
  LSSN,            \* serial number of the last reliable packet sent
  EXPCOUNT,        \* expirations of the retransmission timer in a row
  flushScheduled,  \* a single shot of sendToBeSentPackets is pending
  freeSendBuffer,  \* m_freeSendBufferSize
  toPeer           \* datagrams in flight to the peer

queueVars == <<toBeSent, waitingForACK, sentPackets, LSSN, toPeer>>
senderVars == <<created, firstWaiting, sendWindow, queueVars, lostSender,
                EXPCOUNT, flushScheduled, freeSendBuffer>>

(* The data of a packet that is not reliable.                              *)
Unreliable == 0

NoPackets == [sn \in {} |-> 0]

SenderInit ==
  /\ created = 0
  /\ firstWaiting = 1
  /\ sendWindow = MinWindow
  /\ toBeSent = NoPackets
  /\ waitingForACK = <<>>
  /\ sentPackets = NoPackets
  /\ lostSender = <<>>
  /\ LSSN = 0
  /\ EXPCOUNT = 0
  /\ flushScheduled = FALSE
  /\ freeSendBuffer = SendBuffer
  /\ toPeer = <<>>

-----------------------------------------------------------------------------
(* Packets are [sn, data] records.                                         *)

Packet(sn, data) == [sn |-> sn, data |-> data]
Created(from, to) == [i \in 1 .. to - from + 1 |->
                        Packet(SerialOf(from + i - 1), from + i - 1)]
Sns(packets) == [i \in DOMAIN packets |-> packets[i].sn]
ByNumber(packets) ==
  [sn \in ToSet(Sns(packets)) |-> (CHOOSE p \in ToSet(packets) : p.sn = sn).data]

Inserted(new, hash) ==
  [sn \in DOMAIN new \cup DOMAIN hash |-> IF sn \in DOMAIN new THEN new[sn] ELSE hash[sn]]
Drop(hash, sns) == Restrict(hash, DOMAIN hash \ sns)
Omit(list, sns) == Selected(list, LAMBDA sn : sn \notin sns)

-----------------------------------------------------------------------------
(* tryingToSendPacket, sendPacket, sendToBeSentPackets                     *)

(* Mutant: packets are sent without regard to the window.                  *)
InAnyWindow(sn) == TRUE

InSendWindow(sn) == InWindow(firstWaiting, sendWindow, sn)
Sendable(packets) == Selected(packets, LAMBDA p : InSendWindow(p.sn))
TooEarly(packets) == Selected(packets, LAMBDA p : ~ InSendWindow(p.sn))

(* sendPacket for each of packets.  A reliable packet that was written     *)
(* waits for its ACK; one whose write failed is forgotten.  Unreliable     *)
(* packets are not followed once they are written.                         *)
Transmit(packets) ==
  \E failed \in IF WriteMayFail THEN SUBSET ToSet(packets) ELSE {{}} :
    LET reliable ==
          Selected(packets, LAMBDA p : p \notin failed /\ p.data # Unreliable)
    IN  /\ toPeer' = Written(toPeer, reliable)
        /\ waitingForACK' = waitingForACK \o Sns(reliable)
        /\ sentPackets' = Inserted(ByNumber(reliable), sentPackets)
        /\ LSSN' = IF reliable = <<>> THEN LSSN ELSE Last(reliable).sn

(* The cached packets the send window has reached, in window order.        *)
Flushed ==
  LET order == [i \in 1 .. sendWindow + 1 |-> Advance(firstWaiting, i - 1)]
      reached == Selected(order, LAMBDA sn : sn \in DOMAIN toBeSent)
  IN  [i \in DOMAIN reached |-> Packet(reached[i], toBeSent[reached[i]])]

(* tryingToSendPacket for each of the new packets, after flushed ones left *)
(* the cache.  The send buffer is charged for every new packet, and again  *)
(* for those that addToBeSentPacket caches; it stops at 0.                 *)
SendNew(flushed, new) ==
  LET charge == Len(new) + Len(TooEarly(new))
  IN  /\ Transmit(flushed \o Sendable(new))
      /\ toBeSent' = Inserted(ByNumber(TooEarly(new)), Drop(toBeSent, ToSet(Sns(flushed))))
      /\ freeSendBuffer' = IF charge < freeSendBuffer THEN freeSendBuffer - charge ELSE 0

-----------------------------------------------------------------------------
(* retransmitLostPacket on the loss list lost                              *)

ShrunkWindow ==
  LET halved == IF sendWindow > SlowStart THEN sendWindow \div 2 ELSE sendWindow
      less == IF halved > MinWindow THEN halved - 1 ELSE halved
  IN  IF less < MinWindow THEN MinWindow ELSE less

Retransmit(lost) ==
  IF lost = <<>>
  THEN lostSender' = lost /\ UNCHANGED <<sendWindow, toPeer>>
  ELSE LET sn == Head(lost)
           rest == Omit(lost, {sn})
       IN  /\ sendWindow' = ShrunkWindow
           /\ \/ /\ sn \notin DOMAIN sentPackets
                 /\ lostSender' = rest
                 /\ UNCHANGED toPeer
              \/ /\ sn \in DOMAIN sentPackets
                 /\ lostSender' = rest
                 /\ toPeer' = Written(toPeer, <<Packet(sn, sentPackets[sn])>>)
              \/ /\ sn \in DOMAIN sentPackets /\ WriteMayFail
                 /\ lostSender' = <<sn>> \o rest
                 /\ UNCHANGED toPeer

-----------------------------------------------------------------------------
(* The application                                                         *)

(* One pass of the loop of sendDatagram that creates k packets: a complete *)
(* packet, or as many fragments as the send buffer has room for.           *)
SendDatagram(k) ==
  /\ lostSender = <<>>
  /\ k <= freeSendBuffer
  /\ created' = created + k
  /\ SendNew(Flushed, Created(created + 1, created + k))
  /\ UNCHANGED <<firstWaiting, sendWindow, lostSender, EXPCOUNT, flushScheduled>>

(* A pass that finds no room in the send buffer only sends cached packets. *)
SendDatagramNoRoom ==
  /\ lostSender = <<>>
  /\ freeSendBuffer = 0
  /\ SendNew(Flushed, <<>>)
  /\ UNCHANGED <<created, firstWaiting, sendWindow, lostSender, EXPCOUNT, flushScheduled>>

(* A pass that finds lost packets only retransmits the first.              *)
SendDatagramLost ==
  /\ lostSender # <<>>
  /\ Retransmit(lostSender)
  /\ UNCHANGED <<created, firstWaiting, toBeSent, waitingForACK, sentPackets, LSSN,
                 EXPCOUNT, flushScheduled, freeSendBuffer>>

(* beginDataTransmission and endDataTransmission send one reliable packet  *)
(* with none of the checks of sendDatagram.                                *)
SendBeginOrEnd ==
  /\ created' = created + 1
  /\ SendNew(<<>>, Created(created + 1, created + 1))
  /\ UNCHANGED <<firstWaiting, sendWindow, lostSender, EXPCOUNT, flushScheduled>>

(* sendUnreliableDataPacket and sendGoodbyePacket: the serial number sn    *)
(* comes from the counter of control packets.                              *)
SendUnreliable(sn) ==
  /\ SendNew(<<>>, <<Packet(sn, Unreliable)>>)
  /\ UNCHANGED <<created, firstWaiting, sendWindow, lostSender, EXPCOUNT, flushScheduled>>

-----------------------------------------------------------------------------
(* The timers                                                              *)

(* Mutant: the timer does not schedule sendToBeSentPackets.                *)
RetransmissionTimerWithoutFlush ==
  LET lost == waitingForACK \o Omit(lostSender, ToSet(waitingForACK))
  IN  /\ UNCHANGED <<created, firstWaiting, toBeSent, waitingForACK, sentPackets,
                     LSSN, freeSendBuffer, flushScheduled>>
      /\ \/ lost = <<>> /\ EXPCOUNT' = 0 /\ UNCHANGED <<lostSender, sendWindow, toPeer>>
         \/ /\ lost # <<>>
            /\ EXPCOUNT' = IF EXPCOUNT = MaxEXP THEN EXPCOUNT ELSE EXPCOUNT + 1
            /\ \/ EXPCOUNT = MaxEXP /\ Retransmit(lost)
               \/ EXPCOUNT < MaxEXP /\ lostSender' = lost
                                     /\ UNCHANGED <<sendWindow, toPeer>>

(* Each expiration with packets outstanding counts; beyond MaxEXP of them  *)
(* it retransmits, and more of them make no difference.                    *)
RetransmissionTimer ==
  LET lost == waitingForACK \o Omit(lostSender, ToSet(waitingForACK))
  IN  /\ UNCHANGED <<created, firstWaiting, toBeSent, waitingForACK, sentPackets,
                     LSSN, freeSendBuffer>>
      /\ \/ /\ lost = <<>>
            /\ EXPCOUNT' = 0
            /\ flushScheduled' = (flushScheduled \/ DOMAIN toBeSent # {})
            /\ UNCHANGED <<lostSender, sendWindow, toPeer>>
         \/ /\ lost # <<>>
            /\ EXPCOUNT' = IF EXPCOUNT = MaxEXP THEN EXPCOUNT ELSE EXPCOUNT + 1
            /\ UNCHANGED flushScheduled
            /\ \/ EXPCOUNT = MaxEXP /\ Retransmit(lost)
               \/ /\ EXPCOUNT < MaxEXP
                  /\ lostSender' = lost
                  /\ UNCHANGED <<sendWindow, toPeer>>

FlushTimer ==
  /\ flushScheduled
  /\ flushScheduled' = FALSE
  /\ Transmit(Flushed)
  /\ toBeSent' = Drop(toBeSent, ToSet(Sns(Flushed)))
  /\ UNCHANGED <<created, firstWaiting, sendWindow, lostSender, EXPCOUNT, freeSendBuffer>>

-----------------------------------------------------------------------------
(* Feedback from the peer                                                  *)

(* Mutant: only the first packet is removed, the loop has become a test.   *)
RemovedOnce(waiting, start, end) ==
  IF start <= end /\ end - start <= MaxWindow THEN {start} ELSE {}

(* removeWaitingForACKPackets(start, end) on the list waiting: it removes  *)
(* start, then the head of the list as long as that lies before end and    *)
(* not further from it than the window.                                    *)
Removed(waiting, start, end) ==
  LET before(sn) == sn <= end /\ end - sn <= MaxWindow
  IN  IF before(start)
      THEN {start} \cup {waiting[i] : i \in {j \in DOMAIN waiting :
                                              \A m \in 1 .. j : before(waiting[m])}}
      ELSE {}

(* Mutant: the packet the peer waits for is removed as well.               *)
AcknowledgedInclusive(first) ==
  IF firstWaiting <= first THEN Removed(waitingForACK, firstWaiting, first) ELSE {}

(* What updateFirstWaitingForACKPacketIDInSendWindow(first) removes.       *)
Acknowledged(first) ==
  IF firstWaiting <= first
  THEN Removed(waitingForACK, firstWaiting, first - 1)
  ELSE IF first - 1 <= LSSN
       THEN LET upToMax == Removed(waitingForACK, firstWaiting, MaxSN)
            IN  upToMax \cup Removed(Omit(waitingForACK, upToMax), 1, first - 1)
       ELSE {}

(* Mutant: the send window does not move.                                  *)
UpdateFirstWaitingUnmoved(first) ==
  LET gone == Acknowledged(first)
  IN  /\ waitingForACK' = Omit(waitingForACK, gone)
      /\ lostSender' = Omit(lostSender, gone)
      /\ sentPackets' = Drop(sentPackets, gone)
      /\ freeSendBuffer' = freeSendBuffer + Cardinality(gone \cap DOMAIN sentPackets)
      /\ UNCHANGED firstWaiting

UpdateFirstWaiting(first) ==
  LET gone == Acknowledged(first)
  IN  /\ waitingForACK' = Omit(waitingForACK, gone)
      /\ lostSender' = Omit(lostSender, gone)
      /\ sentPackets' = Drop(sentPackets, gone)
      /\ freeSendBuffer' = freeSendBuffer + Cardinality(gone \cap DOMAIN sentPackets)
      /\ firstWaiting' = first

(* Mutant: slow start doubles the window without end.                      *)
GrownWithoutLimit == 2 * sendWindow

GrownWindow ==
  LET grown == CASE sendWindow >= MaxWindow -> sendWindow
                 [] sendWindow < MaxWindow /\ sendWindow <= SlowStart -> 2 * sendWindow
                 [] OTHER -> sendWindow + 1
  IN  IF grown < MinWindow THEN MinWindow ELSE grown

(* The free receive buffer the ACK carries is read as 0, so that it never  *)
(* limits the window.                                                      *)
ReceiveACK(first) ==
  /\ sendWindow' = GrownWindow
  /\ \/ waitingForACK # <<>> /\ UpdateFirstWaiting(first)
     \/ /\ waitingForACK = <<>>
        /\ UNCHANGED <<waitingForACK, lostSender, sentPackets, freeSendBuffer, firstWaiting>>
  /\ UNCHANGED <<created, toBeSent, LSSN, EXPCOUNT, flushScheduled, toPeer>>

ReceivePacketDropped(first) ==
  /\ UpdateFirstWaiting(first)
  /\ \E advertised \in AdvertisedWindows :
       LET limited == IF sendWindow > advertised THEN advertised ELSE sendWindow
       IN  sendWindow' = IF limited < MinWindow THEN MinWindow ELSE limited
  /\ UNCHANGED <<created, toBeSent, LSSN, EXPCOUNT, flushScheduled, toPeer>>

(* The qSort of the handler is given its range back to front and does      *)
(* nothing: the losses stay in the order of the report.                    *)
ReceiveNACK(lost) ==
  /\ Retransmit(lost \o Omit(lostSender, ToSet(lost)))
  /\ UNCHANGED <<created, firstWaiting, toBeSent, waitingForACK, sentPackets, LSSN,
                 EXPCOUNT, flushScheduled, freeSendBuffer>>
=============================================================================

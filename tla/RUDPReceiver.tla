----------------------------- MODULE RUDPReceiver -----------------------------
(***************************************************************************)
(* The receiving half of a connected RUDPChannel: the receive window, the  *)
(* out-of-order cache, the receiver's loss list and the ACK and NACK       *)
(* timers.  A reliable packet carries as data its position in the stream   *)
(* of packets its sender created, so that delivered tells order and        *)
(* identity apart and nothing else.                                        *)
(***************************************************************************)
EXTENDS SerialNumbers, NACKCodec, Sequences, Functions

CONSTANTS
  Stream,       \* number of reliable packets the peer creates
  MaxIdleTicks  \* ticks of the ACK timer without news after which it stops (10)

ASSUME StreamAssumption == Stream \in Nat
ASSUME IdleAssumption == MaxIdleTicks \in Nat \ {0}

VARIABLES
  firstReceived,   \* m_firstReceivedPacketIDInReceiveWindow
  LRSN,            \* largest serial number received, 0 before the first
  lostReceiver,    \* lostPacketsSNInReceiverSide
  cachedReceived,  \* m_cachedReceivedPacketsHash: serial number -> data
  delivered,       \* data handed to the packet handler, in order
  receivedAny,     \* receivedDataPacketsHistory.last() is not null
  feedbackTimers,  \* sendACKTimer and sendNACKTimer are active
  idleTicks,       \* count of sendACKTimerTimeout
  lastAck,         \* window start in the last ACK sent, 0 before the first
  lastAckLRSN      \* lastLRSN of sendACKTimerTimeout

windowVars == <<firstReceived, LRSN, lostReceiver, cachedReceived, delivered>>
timerVars == <<receivedAny, feedbackTimers, idleTicks, lastAck, lastAckLRSN>>
receiverVars == <<windowVars, timerVars>>

ReceiverInit ==
  /\ firstReceived = 1
  /\ LRSN = 0
  /\ lostReceiver = {}
  /\ cachedReceived = [sn \in {} |-> 0]
  /\ delivered = <<>>
  /\ receivedAny = FALSE
  /\ feedbackTimers = TRUE
  /\ idleTicks = 0
  /\ lastAck = 0
  /\ lastAckLRSN = 0

-----------------------------------------------------------------------------
(* datagramReceived                                                        *)

(* Mutants: a window that does not wrap, and no window test at all.        *)
AcceptsWithoutWrap(sn) == firstReceived <= sn /\ sn <= firstReceived + MaxWindow
AcceptsEverything(sn) == TRUE

Accepts(sn) == InWindow(firstReceived, MaxWindow, sn)

(* sn lies beyond MaxSN in a window that wraps.                            *)
PastWrap(sn) ==
  /\ Wraps(firstReceived, MaxWindow)
  /\ sn <= RightSide(firstReceived, MaxWindow)

(* LRSN as the window test sees it: outside a wrapping window it starts    *)
(* again at 0 once the largest serial number was received.                 *)
BaseLRSN ==
  IF ~ Wraps(firstReceived, MaxWindow) /\ LRSN = MaxSN THEN 0 ELSE LRSN

(* sn becomes the largest serial number received.                          *)
IsNewest(sn) ==
  IF Wraps(firstReceived, MaxWindow)
  THEN \/ LRSN + 1 = firstReceived
       \/ LRSN + 1 > firstReceived /\ (PastWrap(sn) \/ LRSN < sn)
       \/ LRSN + 1 < firstReceived /\ PastWrap(sn) /\ LRSN < sn
  ELSE BaseLRSN < sn

(* Mutant: the gap is taken from the start of the window, not from LRSN.   *)
SkippedFromFirst(sn) == IF IsNewest(sn) THEN firstReceived .. sn - 1 ELSE {}

(* The serial numbers skipped when sn is received; a gap is not seen when  *)
(* the window wraps and nothing is outstanding, nor when LRSN is 0.        *)
Skipped(sn) ==
  CASE ~ IsNewest(sn) -> {}
    [] Wraps(firstReceived, MaxWindow) /\ LRSN + 1 = firstReceived -> {}
    [] Wraps(firstReceived, MaxWindow) /\ LRSN + 1 > firstReceived /\ PastWrap(sn)
         -> (LRSN + 1 .. MaxSN) \cup (1 .. sn - 1)
    [] ~ Wraps(firstReceived, MaxWindow) /\ BaseLRSN = 0 -> {}
    [] OTHER -> BaseLRSN + 1 .. sn - 1

(* Mutant: the processing loop ends after its first round.                 *)
NoCachedRun(k) == k = 0

(* Exactly the k serial numbers after firstReceived are in the cache.      *)
CachedRun(k) ==
  /\ \A i \in 1 .. k : Advance(firstReceived, i) \in DOMAIN cachedReceived
  /\ Advance(firstReceived, k + 1) \notin DOMAIN cachedReceived

(* Mutant: what is processed stays in the cache (value instead of take).   *)
DeliverRunKeepingCache(sn, data) ==
  \E k \in 0 .. MaxSN :
    /\ CachedRun(k)
    /\ delivered' = delivered \o
         [i \in 1 .. k + 1 |-> IF i = 1 THEN data
                               ELSE cachedReceived[Advance(firstReceived, i - 1)]]
    /\ firstReceived' = NextSN(Advance(firstReceived, k))
    /\ UNCHANGED cachedReceived

(* The packet is the first of the window: it is processed, and after it    *)
(* the run of cached packets that follows.                                 *)
DeliverRun(sn, data) ==
  \E k \in 0 .. MaxSN :
    /\ CachedRun(k)
    /\ delivered' = delivered \o
         [i \in 1 .. k + 1 |-> IF i = 1 THEN data
                               ELSE cachedReceived[Advance(firstReceived, i - 1)]]
    /\ firstReceived' = NextSN(Advance(firstReceived, k))
    /\ cachedReceived' = Restrict(cachedReceived,
         DOMAIN cachedReceived \ {Advance(firstReceived, i) : i \in 1 .. k})

CacheReceived(sn, data) ==
  /\ cachedReceived' = [s \in DOMAIN cachedReceived \cup {sn} |->
                          IF s = sn THEN data ELSE cachedReceived[s]]
  /\ UNCHANGED <<firstReceived, delivered>>

(* Mutant: every packet inside the window is processed as it arrives.      *)
ReceivePacketAtOnce(sn, data) ==
  /\ receivedAny' = TRUE
  /\ feedbackTimers' = TRUE
  /\ UNCHANGED <<idleTicks, lastAck, lastAckLRSN>>
  /\ \/ ~ Accepts(sn) /\ UNCHANGED windowVars
     \/ /\ Accepts(sn)
        /\ LRSN' = IF IsNewest(sn) THEN sn ELSE BaseLRSN
        /\ lostReceiver' = (lostReceiver \cup Skipped(sn)) \ {sn}
        /\ DeliverRun(sn, data)

(* A reliable packet arrives.  Any arrival restarts stopped timers; one    *)
(* outside the window is recycled and answered by DroppedReply.            *)
ReceivePacket(sn, data) ==
  /\ receivedAny' = TRUE
  /\ feedbackTimers' = TRUE
  /\ UNCHANGED <<idleTicks, lastAck, lastAckLRSN>>
  /\ \/ /\ ~ Accepts(sn)
        /\ UNCHANGED windowVars
     \/ /\ Accepts(sn)
        /\ LRSN' = IF IsNewest(sn) THEN sn ELSE BaseLRSN
        /\ lostReceiver' = (lostReceiver \cup Skipped(sn)) \ {sn}
        /\ \/ sn = firstReceived /\ DeliverRun(sn, data)
           \/ sn # firstReceived /\ CacheReceived(sn, data)

(* Mutant: a packet outside the window is dropped silently.                *)
NoDroppedReply(sn) == <<>>

(* sendPacketDroppedInfo: what is sent back for serial number sn.          *)
DroppedReply(sn) ==
  IF Accepts(sn) THEN <<>> ELSE <<[type |-> "PacketDropped", first |-> firstReceived]>>

-----------------------------------------------------------------------------
(* The timers                                                              *)

(* Mutant: the window start of the last ACK is not compared.               *)
NothingToAckByLRSN ==
  \/ ~ receivedAny
  \/ LRSN + 1 = firstReceived
  \/ lastAckLRSN = LRSN

(* sendACKTimerTimeout finds nothing new to tell the sender.               *)
NothingToAck ==
  \/ ~ receivedAny
  \/ /\ lastAck = firstReceived
     /\ \/ LRSN + 1 = firstReceived
        \/ LRSN = MaxSN /\ firstReceived = 1
        \/ lastAckLRSN = LRSN

IdleACKTick ==
  /\ feedbackTimers
  /\ NothingToAck
  /\ idleTicks' = IF idleTicks < MaxIdleTicks THEN idleTicks + 1 ELSE idleTicks
  /\ feedbackTimers' = (idleTicks + 1 < MaxIdleTicks)
  /\ UNCHANGED <<windowVars, receivedAny, lastAck, lastAckLRSN>>

SendACK ==
  /\ feedbackTimers
  /\ ~ NothingToAck
  /\ idleTicks' = 0
  /\ lastAck' = firstReceived
  /\ lastAckLRSN' = LRSN
  /\ UNCHANGED <<windowVars, receivedAny, feedbackTimers>>

ACKMessage == [type |-> "ACK", first |-> firstReceived]

(* sendNACKTimerTimeout sends a report and changes nothing here.           *)
SendNACK ==
  /\ feedbackTimers
  /\ lostReceiver # {}
  /\ UNCHANGED receiverVars

(* The losses a report may list are those whose last report is old enough: *)
(* any of them and none.  They are kept in the order in which they were    *)
(* noticed, any order here; packLostPacket takes a loss together with the  *)
(* losses that follow it by number, wherever the list has these.           *)
LossReports ==
  {report \in SetToAllKPermutations(lostReceiver) :
     \A i, j \in DOMAIN report :
       i < j /\ report[j] = report[i] + 1 => j = i + 1}

(* The message has what its reader makes of the report.                    *)
NACKMessage(report) == [type |-> "NACK", lost |-> Decoded(Encoded(report))]

-----------------------------------------------------------------------------
(* A datagram of the n-th packet can be told from those of other packets   *)
(* with its serial number: n is not beyond the receive window and not so   *)
(* old that its serial number has come round to the window again.          *)
Timely(n) ==
  /\ n <= Len(delivered) + 1 + MaxWindow
  /\ n + MaxSN > Len(delivered) + 1 + MaxWindow

(* Every variable keeps to its range.                                      *)
WindowTypes ==
  /\ firstReceived \in SerialNumber
  /\ LRSN \in 0 .. MaxSN
  /\ lostReceiver \subseteq SerialNumber
  /\ DOMAIN cachedReceived \subseteq SerialNumber
  /\ \A sn \in DOMAIN cachedReceived : cachedReceived[sn] \in 1 .. Stream
  /\ delivered \in Seq(1 .. Stream)
TimerTypes ==
  /\ {receivedAny, feedbackTimers} \subseteq BOOLEAN
  /\ idleTicks \in 0 .. MaxIdleTicks
  /\ lastAck \in 0 .. MaxSN
  /\ lastAckLRSN \in 0 .. MaxSN
ReceiverTypes == WindowTypes /\ TimerTypes

(* firstReceived is the serial number of the packet to deliver next, and   *)
(* each cached packet is one of the window behind it, under its own serial *)
(* number (the processing loop of datagramReceived).                       *)
WindowFollowsStream == firstReceived = SerialOf(Len(delivered) + 1)
CacheWithinWindow ==
  \A sn \in DOMAIN cachedReceived :
    /\ cachedReceived[sn] \in Len(delivered) + 2 .. Len(delivered) + 1 + MaxWindow
    /\ sn = SerialOf(cachedReceived[sn])

(* What was handed to the packet handler is the beginning of the stream:   *)
(* no packet is delivered out of order, twice or in place of another that  *)
(* carries the same serial number (datagramReceived).                      *)
InOrderDelivery == delivered = [i \in 1 .. Len(delivered) |-> i]

(* The inductive invariant behind InOrderDelivery.                         *)
WindowInvariant ==
  /\ ReceiverTypes
  /\ WindowFollowsStream
  /\ CacheWithinWindow
  /\ InOrderDelivery

(* The receiver's loss list never names a packet that was received and     *)
(* waits in the cache (the gaps the window test of datagramReceived sees). *)
LossListExact == lostReceiver \cap DOMAIN cachedReceived = {}
=============================================================================

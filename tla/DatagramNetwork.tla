--------------------------- MODULE DatagramNetwork ---------------------------
(***************************************************************************)
(* UDP as the channels use it (QUdpSocket::writeDatagram and the datagrams *)
(* readPendingDatagrams hands over).  One direction of the network is a    *)
(* sequence of datagrams in flight.  A datagram written while Capacity are *)
(* in flight is dropped; any may be lost; delivery takes the oldest, or    *)
(* any when Reorder, and may leave a copy behind when Duplicate.           *)
(***************************************************************************)
EXTENDS Naturals, Sequences, SequencesExt

CONSTANTS
  Capacity,   \* bound on the datagrams in flight in one direction
  Reorder,    \* a datagram may overtake another
  Duplicate,  \* a delivered datagram may be delivered again
  Lossy       \* a datagram may be lost

ASSUME NetworkAssumption ==
  /\ Capacity \in Nat \ {0}
  /\ {Reorder, Duplicate, Lossy} \subseteq BOOLEAN

Written(net, datagrams) ==
  LET all == net \o datagrams
  IN  SubSeq(all, 1, IF Len(all) < Capacity THEN Len(all) ELSE Capacity)

Deliverable(net) == IF Reorder THEN DOMAIN net ELSE DOMAIN net \cap {1}

(* What may be left in flight once the i-th datagram is delivered.         *)
AfterDelivery(net, i) ==
  {RemoveAt(net, i)} \cup (IF Duplicate THEN {net} ELSE {})
=============================================================================

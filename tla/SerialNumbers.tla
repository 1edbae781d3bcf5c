---------------------------- MODULE SerialNumbers ----------------------------
(***************************************************************************)
(* The 16-bit serial numbers of reliable RUDP packets and the window test  *)
(* that the sender and the receiver of a channel share.  Serial numbers    *)
(* run from 1 to MaxSN and then start again at 1; 0 is never assigned.     *)
(***************************************************************************)
EXTENDS Integers, Selection

CONSTANTS
  MaxSN,      \* RUDP_MAX_PACKET_SN: the largest serial number (65535)
  MaxWindow   \* RUDP_MAX_SEND_WINDOW_SIZE: the receive window (5000)

(* The room RUDP_MAX_PACKET_SN leaves around two windows (65535, 5000).    *)
ASSUME SerialNumberAssumption ==
  /\ MaxSN \in Nat \ {0}
  /\ MaxWindow \in Nat \ {0}
  /\ 2 * MaxWindow + 1 < MaxSN

SerialNumber == 1 .. MaxSN

NextSN(sn) == IF sn = MaxSN THEN 1 ELSE sn + 1

(* The serial number i places after sn.                                    *)
Advance(sn, i) == ((sn - 1 + i) % MaxSN) + 1

(* The serial number of the n-th reliable packet of a connection.          *)
SerialOf(n) == Advance(1, n - 1)

(* The window of size + 1 serial numbers that starts at first.  When it    *)
(* runs past MaxSN it continues at 1, up to the right side.                *)
Wraps(first, size) == first + size > MaxSN
RightSide(first, size) == size - (MaxSN - first)

InWindow(first, size, sn) ==
  IF Wraps(first, size)
  THEN ~ (sn > RightSide(first, size) /\ sn < first)
  ELSE first <= sn /\ sn <= first + size

(* The serial numbers sns in the order of the window that starts at first. *)
InWindowOrder(first, sns) ==
  Selected([i \in 1 .. MaxSN |-> Advance(first, i - 1)], LAMBDA sn : sn \in sns)
=============================================================================

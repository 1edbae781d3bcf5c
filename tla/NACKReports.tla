------------------------------ MODULE NACKReports ------------------------------
(***************************************************************************)
(* Every report of losses a receive window can give rise to, through the   *)
(* codec: the window starts anywhere, the last of its packets was received *)
(* and any of the others may be missing.  A packet that is found missing,  *)
(* or arrives, changes the report that is sent next.                       *)
(***************************************************************************)
EXTENDS NACKCodec, SerialNumbers

CONSTANT WindowStarts   \* serial numbers the window may start with

ASSUME WindowStartsAssumption == WindowStarts \subseteq SerialNumber

VARIABLES
  first,   \* m_firstReceivedPacketIDInReceiveWindow
  lost     \* lostPacketsSNInReceiverSide

vars == <<first, lost>>

Window == {Advance(first, i) : i \in 0 .. MaxWindow - 1}

Init == first \in WindowStarts /\ lost = {}

Missing(sn) == sn \notin lost /\ lost' = lost \cup {sn} /\ UNCHANGED first
Arrives(sn) == sn \in lost /\ lost' = lost \ {sn} /\ UNCHANGED first

Next == \E sn \in Window : Missing(sn) \/ Arrives(sn)

Spec == Init /\ [][Next]_vars

-----------------------------------------------------------------------------
(* The report in the order in which the gaps of one window are noticed.    *)
Report == InWindowOrder(first, lost)

Understood == Decoded(Encoded(Report))

(* The losses up to the end of the first range, or all without a range.    *)
RangeEnds == {i \in 2 .. Len(Report) : ~ Starts(Report, i) /\ Ends(Report, i)}
InStep ==
  SubSeq(Report, 1, CHOOSE m \in 0 .. Len(Report) :
                      IF RangeEnds = {} THEN m = Len(Report)
                      ELSE m \in RangeEnds /\ \A i \in RangeEnds : m <= i)

(* However the report goes on, the sender understands it up to the end of  *)
(* the first range: the packets the window waits for first are sent again. *)
FirstLossesUnderstood == IsPrefix(InStep, Understood)

(* The sender never takes the report to name a packet before the first or  *)
(* behind the last of the losses, although it may read numbers for         *)
(* separators and separators for numbers.                                  *)
Place(sn) == (sn - first) % MaxSN
NothingBeyondReport ==
  \A i \in DOMAIN Understood :
    \E p, q \in lost :
      Place(p) <= Place(Understood[i]) /\ Place(Understood[i]) <= Place(q)
=============================================================================

---------------------------- MODULE ReliableStream ----------------------------
(***************************************************************************)
(* What a connected channel promises its application: the packets the      *)
(* sender accepted are delivered in the order they were accepted, each     *)
(* once, and with weak fairness all of them.  A packet is its position.    *)
(***************************************************************************)
EXTENDS Naturals, Sequences

CONSTANT Stream   \* number of packets the application sends

VARIABLES
  accepted,   \* number of packets accepted from the application
  delivered   \* packets handed to the peer's application

streamVars == <<accepted, delivered>>

Init == accepted = 0 /\ delivered = <<>>

Accept ==
  /\ accepted' \in accepted + 1 .. Stream
  /\ UNCHANGED delivered

(* An arrival may close a gap and release several packets at once.         *)
Deliver ==
  /\ \E k \in 1 .. accepted - Len(delivered) :
       delivered' = delivered \o [i \in 1 .. k |-> Len(delivered) + i]
  /\ UNCHANGED accepted

Next == Accept \/ Deliver

Spec == Init /\ [][Next]_streamVars

FairSpec == Spec /\ WF_streamVars(Deliver)
=============================================================================

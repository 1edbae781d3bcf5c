------------------------------- MODULE NACKCodec -------------------------------
(***************************************************************************)
(* The body of a NACK packet: how packLostPacket writes a list of lost     *)
(* serial numbers and what getLostPacketsFromNACK makes of it.  The body   *)
(* is a sequence of 16-bit units: a number and a comma for a single loss,  *)
(* first number, dash and last number for a range of losses.  The decoder  *)
(* takes them by place, a number and then pairs of separator and number,   *)
(* and so is out of step after a range.                                    *)
(***************************************************************************)
EXTENDS Integers, Sequences, SequencesExt

Comma == 44
Dash == 45

(* A range starts where a loss does not follow the one before and ends     *)
(* where the next loss does not follow.                                    *)
Starts(lost, i) == i = 1 \/ lost[i] # lost[i - 1] + 1
Ends(lost, i) == i = Len(lost) \/ lost[i + 1] # lost[i] + 1

(* What packLostPacket writes for the i-th loss; a range is written at its *)
(* start and its end.                                                      *)
Units(lost, i) ==
  (IF Starts(lost, i) THEN <<lost[i]>> ELSE <<>>)
  \o (IF Ends(lost, i)
      THEN IF Starts(lost, i) THEN <<Comma>> ELSE <<Dash, lost[i]>>
      ELSE <<>>)

(* The body after the first i losses, and when the list is empty.          *)
EncodedUpTo(lost) ==
  LET body[i \in 0 .. Len(lost)] ==
        IF i = 0 THEN <<>> ELSE body[i - 1] \o Units(lost, i)
  IN  body

Encoded(lost) == EncodedUpTo(lost)[Len(lost)]

(* The pairs of units behind the first; a last unit alone reads as no pair.*)
Pairs(body) ==
  [k \in 1 .. (Len(body) - 1) \div 2 |-> [sep |-> body[2 * k], sn |-> body[2 * k + 1]]]

(* The numbers from a to b, or none when a lies behind b.                  *)
FromTo(a, b) == [i \in 1 .. IF a <= b THEN b - a + 1 ELSE 0 |-> a + i - 1]

(* Mutants: a range repeats its first number; any separator is a comma.    *)
DecodedPairFromLast(lost, pair) ==
  CASE pair.sep = Comma -> Append(lost, pair.sn)
    [] pair.sep = Dash  -> lost \o FromTo(Last(lost), pair.sn)
    [] OTHER            -> lost

DecodedPairAnySeparator(lost, pair) ==
  IF pair.sep = Dash
  THEN lost \o FromTo(Last(lost) + 1, pair.sn)
  ELSE Append(lost, pair.sn)

(* getLostPacketsFromNACK on the list lost.  The assertion on ranges does  *)
(* not exist in a release build.                                           *)
DecodedPair(lost, pair) ==
  CASE pair.sep = Comma -> Append(lost, pair.sn)
    [] pair.sep = Dash  -> lost \o FromTo(Last(lost) + 1, pair.sn)
    [] OTHER            -> lost

(* The list after each of the pairs.                                       *)
DecodedPairs(body) ==
  LET lost[k \in 0 .. Len(Pairs(body))] ==
        IF k = 0 THEN <<Head(body)>> ELSE DecodedPair(lost[k - 1], Pairs(body)[k])
  IN  lost

(* The losses the NACK handler reads from the body.                        *)
Decoded(body) == IF body = <<>> THEN <<>> ELSE DecodedPairs(body)[Len(Pairs(body))]
=============================================================================

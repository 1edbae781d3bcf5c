--------------------------- MODULE NACKReportsProofs ---------------------------
(***************************************************************************)
(* What the sender makes of a report of losses, for every window and every *)
(* set of losses in it.                                                    *)
(***************************************************************************)
EXTENDS NACKReports, RUDPReceiverProofs

(* The losses are packets of the window.                                   *)
LossesInWindow == first \in SerialNumber /\ lost \in SUBSET Window

-----------------------------------------------------------------------------
(* Places in the window                                                    *)

(* A serial number is the one of the position with its own number.         *)
LEMMA SerialOfSerial ==
  ASSUME NEW n \in SerialNumber
  PROVE  SerialOf(n) = n
  <1>1. n \in Int /\ n - 1 \in 0 .. MaxSN - 1 /\ MaxSN \in Nat \ {0}
    BY SerialNumberAssumption DEF SerialNumber
  <1>2. n - 1 = MaxSN * 0 + (n - 1) BY <1>1
  <1>3. (n - 1) % MaxSN = n - 1
    <2> DEFINE r == n - 1
    <2>1. r \in 0 .. MaxSN - 1 /\ r \in Int /\ r = MaxSN * 0 + r BY <1>1, <1>2
    <2> HIDE DEF r
    <2>2. r % MaxSN = r BY <1>1, <2>1, RemainderUnique
    <2> QED BY <2>2 DEF r
  <1> QED BY <1>1, <1>3, SerialOfType

(* The place of the serial number c places after the first is c.           *)
LEMMA PlaceAhead ==
  ASSUME first \in SerialNumber, NEW c \in 0 .. MaxSN - 1
  PROVE  Place(SerialOf(first + c)) = c
  <1>1. PICK f \in Int : f = first BY DEF SerialNumber
  <1>2. MaxSN \in Nat \ {0} /\ c \in Int BY SerialNumberAssumption
  <1> DEFINE x == (f + c) - 1
             r == x % MaxSN
             y == 1 - f
  <1>3. x \in Int /\ y \in Int /\ x + y = c BY <1>1, <1>2
  <1>4. SerialOf(f + c) = r + 1 BY <1>1, <1>2, SerialOfType
  <1> HIDE DEF x
  <1>5. r \in Int BY <1>2, <1>3, DivMod
  <1>6. (r + y) % MaxSN = (x + y) % MaxSN
    <2> HIDE DEF y
    <2> QED BY <1>2, <1>3, RemainderOfSum
  <1> HIDE DEF r
  <1>7. (r + 1) - f = r + y BY <1>1, <1>5
  <1>8. c % MaxSN = c
    <2>1. c = MaxSN * 0 + c BY <1>2
    <2> QED BY <1>2, <2>1, RemainderUnique
  <1> QED BY <1>1, <1>3, <1>4, <1>6, <1>7, <1>8 DEF Place

(* A number between two serial numbers of the window, the smaller of which *)
(* comes first in it, has its place between theirs: the window does not    *)
(* wrap between the two.                                                   *)
LEMMA PlaceBetween ==
  ASSUME first \in SerialNumber, NEW a \in 0 .. MaxWindow - 1, NEW b \in 0 .. MaxWindow - 1,
         a <= b, NEW v \in Int,
         Advance(first, a) <= v, v <= Advance(first, b)
  PROVE  /\ Place(Advance(first, a)) <= Place(v)
         /\ Place(v) <= Place(Advance(first, b))
  <1>1. PICK f \in Int : f = first BY DEF SerialNumber
  <1>2. /\ MaxSN \in Nat \ {0} /\ a \in Int /\ b \in Int /\ MaxWindow \in Nat
        /\ 0 <= a /\ b < MaxWindow /\ 2 * MaxWindow + 1 < MaxSN
    BY SerialNumberAssumption
  <1>3. SerialOf(f) = f BY <1>1, SerialOfSerial
  <1>4. \A i \in Int : Advance(f, i) = SerialOf(f + i)
    BY <1>1, <1>3, AdvanceSerial
  <1>5. PICK p \in SerialNumber : p = SerialOf(f + a)
    <2>1. f + a \in Int BY <1>1, <1>2
    <2> QED BY <2>1, SerialOfType
  <1>6. PICK q \in SerialNumber : q = SerialOf(f + b)
    <2>1. f + b \in Int BY <1>1, <1>2
    <2> QED BY <2>1, SerialOfType
  <1>7. p = Advance(first, a) /\ q = Advance(first, b) /\ p <= v /\ v <= q
    BY <1>1, <1>2, <1>4, <1>5, <1>6
  <1>8. p \in Int /\ q \in Int /\ 1 <= p /\ q <= MaxSN BY <1>2, <1>5, <1>6 DEF SerialNumber
  <1>9. SerialOf(p) = p /\ SerialOf(q) = q BY <1>5, <1>6, SerialOfSerial
  <1>10. \A i \in Int : SerialOf(p + i) = SerialOf((f + a) + i)
    <2> TAKE i \in Int
    <2>1. f + a \in Int BY <1>1, <1>2
    <2>2. Advance(SerialOf(f + a), i) = SerialOf((f + a) + i) BY <2>1, AdvanceSerial
    <2>3. Advance(SerialOf(p), i) = SerialOf(p + i) BY <1>8, AdvanceSerial
    <2> QED BY <1>5, <1>9, <2>2, <2>3
  <1>11. PICK d \in Int : d = b - a BY <1>2
  <1>12. q = p + d
    <2>1. (f + a) + d = f + b BY <1>1, <1>2, <1>11
    <2>2. SerialOf(p + d) = SerialOf(q) BY <1>6, <1>9, <1>10, <1>11, <2>1
    <2> DEFINE y == p + d
    <2>3. y \in Int /\ y - q < MaxSN /\ q - y < MaxSN
      BY <1>2, <1>7, <1>8, <1>11
    <2> HIDE DEF y
    <2>4. SerialOf(y) = SerialOf(q) BY <2>2 DEF y
    <2>5. y = q BY <1>8, <2>3, <2>4, SerialOfUnique
    <2> QED BY <2>5 DEF y
  <1>13. PICK t \in Int : t = v - p BY <1>8
  <1>14. 0 <= t /\ t <= d /\ v = p + t BY <1>7, <1>8, <1>11, <1>12, <1>13
  <1>15. v = SerialOf(f + (a + t))
    <2>1. v \in SerialNumber BY <1>7, <1>8, <1>2 DEF SerialNumber
    <2>2. SerialOf(v) = v BY <2>1, SerialOfSerial
    <2>3. (f + a) + t = f + (a + t) BY <1>1, <1>2, <1>13
    <2> QED BY <1>10, <1>13, <1>14, <2>2, <2>3
  <1>16. a \in 0 .. MaxSN - 1 /\ b \in 0 .. MaxSN - 1 /\ a + t \in 0 .. MaxSN - 1
    BY <1>2, <1>11, <1>13, <1>14
  <1>17. Place(p) = a /\ Place(q) = b BY <1>1, <1>5, <1>6, <1>16, PlaceAhead
  <1>18. Place(v) = a + t
    <2> DEFINE c == a + t
    <2>1. c \in 0 .. MaxSN - 1 /\ v = SerialOf(first + c) BY <1>1, <1>15, <1>16
    <2> HIDE DEF c
    <2>2. Place(v) = c BY <2>1, PlaceAhead
    <2> QED BY <2>2 DEF c
  <1>19. a <= a + t /\ a + t <= b BY <1>2, <1>11, <1>13, <1>14
  <1> QED BY <1>7, <1>17, <1>18, <1>19

-----------------------------------------------------------------------------
(* Reports                                                                 *)

(* The picked entries stand in the order of their indices.                 *)
LEMMA PickedInOrder ==
  ASSUME NEW s, NEW n \in Nat, NEW kept \in SUBSET (1 .. n), DOMAIN s = 1 .. n
  PROVE  \E nth \in [1 .. Cardinality(kept) -> kept] :
           /\ \A k \in 1 .. Cardinality(kept) : Picked(s, kept)[k] = s[nth[k]]
           /\ \A k, l \in 1 .. Cardinality(kept) : k <= l => nth[k] <= nth[l]
  <1> DEFINE UpTo(i) == {j \in kept : j <= i}
             c == Cardinality(kept)
  <1>1. IsFiniteSet(kept) /\ c \in Nat
    <2>1. IsFiniteSet(1 .. n) BY FS_Interval
    <2> QED BY <2>1, FS_Subset, FS_CardinalityType
  <1>2. ASSUME NEW k \in 1 .. c PROVE \E i \in kept : Cardinality(UpTo(i)) = k
    BY IndexExists
  <1> DEFINE nth == [k \in 1 .. c |-> CHOOSE i \in kept : Cardinality(UpTo(i)) = k]
  <1>3. \A k \in 1 .. c : Picked(s, kept)[k] = s[nth[k]]
    BY DEF Picked
  <1> HIDE DEF UpTo
  <1>4. \A k \in 1 .. c : nth[k] \in kept /\ Cardinality(UpTo(nth[k])) = k
    BY <1>2
  <1>5. nth \in [1 .. c -> kept]
    <2>1. nth = [k \in 1 .. c |-> nth[k]] OBVIOUS
    <2> HIDE DEF nth
    <2> QED BY <1>4, <2>1
  <1> HIDE DEF nth
  <1>6. ASSUME NEW k \in 1 .. c, NEW l \in 1 .. c, k <= l PROVE nth[k] <= nth[l]
    <2> DEFINE x == nth[k]
               y == nth[l]
    <2>4. \A i \in kept : i \in Int OBVIOUS
    <2>1. x \in kept /\ y \in kept /\ x \in Int /\ y \in Int BY <1>4, <2>4
    <2>5. Cardinality(UpTo(x)) = k /\ Cardinality(UpTo(y)) = l BY <1>4
    <2> HIDE DEF x, y
    <2>2. CASE k = l BY <2>1, <2>2 DEF x, y
    <2>3. CASE k < l
      <3>1. ASSUME y < x PROVE FALSE
        <4>1. \A j \in kept : j <= y => j <= x
          <5> TAKE j \in kept
          <5>1. j \in Int BY <2>4
          <5> QED BY <2>1, <3>1, <5>1
        <4>2. UpTo(y) \in SUBSET UpTo(x) BY <4>1 DEF UpTo
        <4>3. IsFiniteSet(UpTo(x))
          <5>1. UpTo(x) \in SUBSET kept BY DEF UpTo
          <5> QED BY <1>1, <5>1, FS_Subset
        <4>4. Cardinality(UpTo(y)) <= Cardinality(UpTo(x))
          BY <4>2, <4>3, FS_Subset
        <4>5. l <= k BY <2>5, <4>4
        <4> QED BY <2>3, <4>5
      <3>2. x <= y BY <2>1, <3>1
      <3> QED BY <3>2 DEF x, y
    <2> QED BY <1>1, <1>6, <2>2, <2>3
  <1> QED BY <1>3, <1>5, <1>6

(* A report lists losses of the window by their places, nearest first.     *)
ListsByPlace(R, places) ==
  /\ R \in Seq(Int)
  /\ places \in [1 .. Len(R) -> 0 .. MaxWindow - 1]
  /\ \A k \in 1 .. Len(R) : R[k] = Advance(first, places[k]) /\ R[k] \in lost
  /\ \A k, l \in 1 .. Len(R) : k <= l => places[k] <= places[l]

(* Every report is such a list.                                            *)
LEMMA ReportByPlace ==
  ASSUME LossesInWindow
  PROVE  \E places : ListsByPlace(Report, places)
  <1> DEFINE order == [i \in 1 .. MaxSN |-> Advance(first, i - 1)]
             kept == {i \in DOMAIN order : order[i] \in lost}
             c == Cardinality(kept)
             R == Report
  <1>1. /\ MaxSN \in Nat \ {0} /\ MaxWindow \in Nat \ {0} /\ 2 * MaxWindow + 1 < MaxSN
        /\ first \in SerialNumber /\ first \in Int
    BY SerialNumberAssumption DEF LossesInWindow, SerialNumber
  <1>2. R = Picked(order, kept) BY DEF Report, InWindowOrder, Selected
  <1>3. DOMAIN order = 1 .. MaxSN /\ kept \in SUBSET (1 .. MaxSN) OBVIOUS
  <1>4. \A i \in 1 .. MaxSN : order[i] = Advance(first, i - 1) OBVIOUS
  <1>5. \A i \in kept : order[i] \in lost OBVIOUS
  <1> HIDE DEF order, kept
  <1>6. c \in Nat /\ R = [k \in 1 .. c |-> R[k]]
    BY <1>1, <1>2, <1>3, PickedEntries
  <1>7. PICK nth \in [1 .. c -> kept] :
          /\ \A k \in 1 .. c : R[k] = order[nth[k]]
          /\ \A k, l \in 1 .. c : k <= l => nth[k] <= nth[l]
    BY <1>1, <1>2, <1>3, PickedInOrder
  <1> HIDE DEF c, R
  <1>8. ASSUME NEW k \in 1 .. c
        PROVE  /\ nth[k] - 1 \in 0 .. MaxWindow - 1
               /\ R[k] = Advance(first, nth[k] - 1)
               /\ R[k] \in lost
               /\ R[k] \in SerialNumber
    <2>1. nth[k] \in kept /\ nth[k] \in 1 .. MaxSN BY <1>3, <1>7
    <2>2. R[k] = Advance(first, nth[k] - 1) BY <1>4, <1>7, <2>1
    <2>3. R[k] \in lost BY <1>5, <1>7, <2>1
    <2>4. PICK j \in 0 .. MaxWindow - 1 : R[k] = Advance(first, j)
      BY <2>3 DEF LossesInWindow, Window
    <2> DEFINE h == nth[k] - 1
    <2>5. h \in Int /\ 0 <= h /\ h < MaxSN BY <1>1, <2>1
    <2> HIDE DEF h
    <2>6. R[k] = Advance(first, h) BY <2>2 DEF h
    <2>7. SerialOf(first + h) = R[k] /\ SerialOf(first + j) = R[k]
      <3>1. SerialOf(first) = first BY <1>1, SerialOfSerial
      <3>2. \A i \in Int : Advance(SerialOf(first), i) = SerialOf(first + i)
        BY <1>1, AdvanceSerial
      <3>3. j \in Int BY <1>1
      <3> QED BY <2>4, <2>5, <2>6, <3>1, <3>2, <3>3
    <2>8. h = Place(R[k])
      <3>1. h \in 0 .. MaxSN - 1 BY <1>1, <2>5
      <3> QED BY <1>1, <2>7, <3>1, PlaceAhead
    <2>9. j = Place(R[k])
      <3>1. j \in 0 .. MaxSN - 1 BY <1>1
      <3> QED BY <1>1, <2>7, <3>1, PlaceAhead
    <2>10. R[k] \in SerialNumber
      <3>1. first + j \in Int BY <1>1
      <3> QED BY <2>7, <3>1, SerialOfType
    <2> QED BY <2>2, <2>3, <2>8, <2>9, <2>10 DEF h
  <1> DEFINE places == [k \in 1 .. c |-> nth[k] - 1]
  <1>9. /\ \A k \in 1 .. c : places[k] = nth[k] - 1
        /\ places \in [1 .. c -> 0 .. MaxWindow - 1]
    BY <1>8
  <1> HIDE DEF places
  <1>10. R \in Seq(Int) /\ Len(R) = c
    <2>1. \A k \in 1 .. c : R[k] \in Int BY <1>8 DEF SerialNumber
    <2>2. R \in [1 .. c -> Int] BY <1>6, <2>1
    <2> QED BY <1>6, <2>2
  <1>11. \A k, l \in 1 .. c : k <= l => places[k] <= places[l]
    <2> TAKE k, l \in 1 .. c
    <2>1. nth[k] \in kept /\ nth[l] \in kept /\ (k <= l => nth[k] <= nth[l]) BY <1>7
    <2>2. places[k] = nth[k] - 1 /\ places[l] = nth[l] - 1 BY <1>9
    <2>3. PICK x \in Int, y \in Int : x = nth[k] /\ y = nth[l]
      <3>1. \A i \in kept : i \in Int BY <1>3
      <3> QED BY <2>1, <3>1
    <2> QED BY <2>1, <2>2, <2>3
  <1>12. ListsByPlace(R, places)
    BY <1>8, <1>9, <1>10, <1>11 DEF ListsByPlace
  <1> QED BY <1>12 DEF R

-----------------------------------------------------------------------------
(* The losses a report can name.                                           *)
LEMMA LossesStayInWindow == Spec => []LossesInWindow
  <1>1. Init => LossesInWindow
    BY WindowStartsAssumption DEF Init, LossesInWindow
  <1>2. LossesInWindow /\ [Next]_vars => LossesInWindow'
    <2> SUFFICES ASSUME LossesInWindow, [Next]_vars PROVE LossesInWindow'
      OBVIOUS
    <2>1. CASE UNCHANGED vars BY <2>1 DEF LossesInWindow, Window, vars
    <2>2. CASE Next
      <3>1. PICK sn \in Window : Missing(sn) \/ Arrives(sn) BY <2>2 DEF Next
      <3>2. first' = first /\ lost' \in SUBSET (lost \cup {sn})
        BY <3>1 DEF Missing, Arrives
      <3> QED BY <3>1, <3>2 DEF LossesInWindow, Window
    <2> QED BY <2>1, <2>2
  <1> QED BY <1>1, <1>2, PTL DEF Spec

(* What the sender reads from any report lies within it.                   *)
LEMMA WithinReport ==
  ASSUME LossesInWindow
  PROVE  NothingBeyondReport
  <1> DEFINE R == Report
  <1>1. PICK places : ListsByPlace(R, places) BY ReportByPlace
  <1>2. /\ R \in Seq(Int) /\ Len(R) \in Nat
        /\ places \in [1 .. Len(R) -> 0 .. MaxWindow - 1]
        /\ \A k \in 1 .. Len(R) : R[k] = Advance(first, places[k]) /\ R[k] \in lost
        /\ \A k, l \in 1 .. Len(R) : k <= l => places[k] <= places[l]
    BY <1>1, LenProperties DEF ListsByPlace
  <1>3. Understood = Decoded(Encoded(R)) BY DEF Understood
  <1> HIDE DEF R
  <1>4. CASE Len(R) = 0
    <2>1. R = <<>> BY <1>2, <1>4, EmptySeq
    <2>2. Understood = <<>> BY <1>3, <2>1, EmptyReport
    <2>3. DOMAIN Understood = {} BY <2>2
    <2> QED BY <2>3 DEF NothingBeyondReport
  <1>5. CASE Len(R) > 0
    <2>1. /\ Understood \in Seq(Int)
          /\ \A x \in 1 .. Len(Understood) : Within(R, Len(R), Understood[x])
      BY <1>2, <1>3, <1>5, DecodedWithin
    <2>2. DOMAIN Understood = 1 .. Len(Understood) BY <2>1, LenProperties
    <2>3. ASSUME NEW x \in DOMAIN Understood
          PROVE  \E p, q \in lost :
                   /\ Place(p) <= Place(Understood[x])
                   /\ Place(Understood[x]) <= Place(q)
      <3> DEFINE v == Understood[x]
      <3>1. v \in Int /\ Within(R, Len(R), v) BY <2>1, <2>2, ElementOfSeq
      <3> HIDE DEF v
      <3>2. PICK i \in 1 .. Len(R), j \in 1 .. Len(R) : i <= j /\ R[i] <= v /\ v <= R[j]
        BY <3>1 DEF Within
      <3> DEFINE a == places[i]
                 b == places[j]
      <3>3. /\ a \in 0 .. MaxWindow - 1 /\ b \in 0 .. MaxWindow - 1 /\ a <= b
            /\ R[i] = Advance(first, a) /\ R[j] = Advance(first, b)
            /\ R[i] \in lost /\ R[j] \in lost
        BY <1>2, <3>2
      <3>4. first \in SerialNumber BY DEF LossesInWindow
      <3> HIDE DEF a, b
      <3>5. Place(R[i]) <= Place(v) /\ Place(v) <= Place(R[j])
        BY <3>1, <3>2, <3>3, <3>4, PlaceBetween
      <3> QED BY <3>3, <3>5 DEF v
    <2> QED BY <2>3 DEF NothingBeyondReport
  <1> QED BY <1>2, <1>4, <1>5

(* A report never makes the sender repeat a packet before the first or     *)
(* behind the last of its losses (packLostPacket, getLostPacketsFromNACK). *)
THEOREM ReportsStayWithin == Spec => []NothingBeyondReport
  BY LossesStayInWindow, WithinReport, PTL

-----------------------------------------------------------------------------
(* The report up to the end of its first range                             *)

(* t begins with s.                                                        *)
Begins(s, t) == Len(s) <= Len(t) /\ \A i \in 1 .. Len(s) : t[i] = s[i]

(* A beginning of a beginning is a beginning.                              *)
LEMMA BeginsTransitive ==
  ASSUME NEW s \in Seq(Int), NEW t \in Seq(Int), NEW u \in Seq(Int),
         Begins(s, t), Begins(t, u)
  PROVE  Begins(s, u)
  <1>1. PICK l \in Nat, m \in Nat, n \in Nat : l = Len(s) /\ m = Len(t) /\ n = Len(u)
    BY LenProperties
  <1>2. l <= m /\ m <= n BY <1>1 DEF Begins
  <1>3. \A i \in 1 .. l : i \in 1 .. m /\ t[i] = s[i] /\ u[i] = t[i]
    BY <1>1, <1>2 DEF Begins
  <1> QED BY <1>1, <1>2, <1>3 DEF Begins

(* The least number of a set.                                              *)
LEMMA LeastNumber ==
  ASSUME NEW T \in SUBSET Nat, T # {}
  PROVE  \E x \in T : \A y \in T : x <= y
  <1>1. PICK x \in T : \A y \in T : ~ (<<y, x>> \in OpToRel(<, Nat))
    BY WFMin, NatLessThanWellFounded
  <1>2. ASSUME NEW y \in T PROVE x <= y
    <2>1. x \in Nat /\ y \in Nat OBVIOUS
    <2>2. ~ (y < x) BY <1>1, <2>1 DEF OpToRel
    <2> QED BY <2>1, <2>2
  <1> QED BY <1>2

(* In a row of sequences each of which begins with the one before, the     *)
(* later ones begin with the earlier ones.                                 *)
LEMMA RowBegins ==
  ASSUME NEW n \in Nat, NEW F, \A k \in 0 .. n : F[k] \in Seq(Int),
         \A k \in 1 .. n : Begins(F[k - 1], F[k]),
         NEW i \in 0 .. n, NEW k \in i .. n
  PROVE  Begins(F[i], F[k])
  <1> DEFINE T == {d \in Nat : i + d <= n => Begins(F[i], F[i + d])}
  <1>1. 0 \in T
    <2>1. i + 0 = i OBVIOUS
    <2>2. Begins(F[i], F[i])
      <3>1. Len(F[i]) \in Nat BY LenProperties
      <3> QED BY <3>1 DEF Begins
    <2> QED BY <2>1, <2>2
  <1>2. ASSUME NEW d \in T PROVE d + 1 \in T
    <2>1. ASSUME i + (d + 1) <= n PROVE Begins(F[i], F[i + (d + 1)])
      <3> DEFINE p == i + d
                 q == i + (d + 1)
      <3>1. d \in Nat /\ p \in 0 .. n /\ q \in 1 .. n /\ q - 1 = p /\ q \in 0 .. n BY <2>1
      <3>2. Begins(F[i], F[p]) BY <3>1
      <3>3. F[i] \in Seq(Int) /\ F[p] \in Seq(Int) /\ F[q] \in Seq(Int) BY <3>1
      <3>4. Begins(F[q - 1], F[q]) BY <3>1
      <3> HIDE DEF p, q
      <3>5. Begins(F[p], F[q]) BY <3>1, <3>4
      <3>6. Begins(F[i], F[q]) BY <3>2, <3>3, <3>5, BeginsTransitive
      <3> QED BY <3>6 DEF q
    <2> QED BY <2>1
  <1>3. T = Nat
    <2> HIDE DEF T
    <2>1. T \in SUBSET Nat BY DEF T
    <2> QED BY <1>1, <1>2, <2>1, Induction
  <1>4. k - i \in T /\ i + (k - i) = k /\ k <= n
    <2>1. k - i \in Nat /\ i + (k - i) = k /\ k <= n OBVIOUS
    <2> QED BY <1>3, <2>1
  <1> QED BY <1>4

(* The body while the losses are told apart by commas: the first s losses, *)
(* or those up to i, stand in it with a comma behind each; behind the s-th *)
(* loss, with which a range starts, there is none yet.                     *)
BodyOf(R, b, s, i) ==
  /\ b \in Seq(Int)
  /\ Len(b) = IF i < s THEN 2 * i ELSE 2 * s - 1
  /\ \A j \in 1 .. s : 2 * j - 1 <= Len(b) => b[2 * j - 1] = R[j]
  /\ \A j \in 1 .. s : 2 * j <= Len(b) => b[2 * j] = Comma

(* The first s - 1 of the losses up to e stand alone; if there is an s-th, *)
(* a range starts with it that does not end.                               *)
RangeOpens(R, s, e) ==
  \A j \in 1 .. e : /\ Starts(R, j) <=> j <= s
                    /\ Ends(R, j) <=> j < s

(* One unit more in the body.                                              *)
LEMMA UnitAppended ==
  ASSUME NEW b \in Seq(Int), NEW x \in Int
  PROVE  /\ b \o <<x>> \in Seq(Int)
         /\ Len(b \o <<x>>) = Len(b) + 1
         /\ (b \o <<x>>)[Len(b) + 1] = x
         /\ \A u \in 1 .. Len(b) : (b \o <<x>>)[u] = b[u]
  <1>1. PICK n \in Nat : n = Len(b) BY LenProperties
  <1>2. <<x>> \in Seq(Int) /\ Len(<<x>>) = 1 /\ <<x>>[1] = x OBVIOUS
  <1> DEFINE t == <<x>>
  <1> HIDE DEF t
  <1>3. t \in Seq(Int) /\ Len(t) = 1 /\ t[1] = x BY <1>2 DEF t
  <1>4. /\ b \o t \in Seq(Int)
        /\ Len(b \o t) = n + 1
        /\ \A i \in 1 .. n + 1 : (b \o t)[i] = IF i <= n THEN b[i] ELSE t[i - n]
    <2>1. /\ b \o t \in Seq(Int)
          /\ Len(b \o t) = Len(b) + Len(t)
          /\ \A i \in 1 .. Len(b) + Len(t) :
               (b \o t)[i] = IF i <= Len(b) THEN b[i] ELSE t[i - Len(b)]
      BY <1>3, ConcatProperties
    <2> QED BY <1>1, <1>3, <2>1
  <1>5. n + 1 \in 1 .. n + 1 /\ ~ (n + 1 <= n) /\ (n + 1) - n = 1 BY <1>1
  <1>6. (b \o t)[n + 1] = x BY <1>3, <1>4, <1>5
  <1>7. \A u \in 1 .. n : (b \o t)[u] = b[u] BY <1>1, <1>4
  <1> QED BY <1>1, <1>4, <1>6, <1>7 DEF t

(* packLostPacket writes such a body until its first range ends.           *)
LEMMA BodyInStep ==
  ASSUME NEW R \in Seq(Int), NEW e \in 0 .. Len(R), NEW s \in Nat, s > 0,
         RangeOpens(R, s, e)
  PROVE  \A i \in 0 .. e : BodyOf(R, EncodedUpTo(R)[i], s, i)
  <1> DEFINE F == EncodedUpTo(R)
             T == {i \in Nat : i <= e => BodyOf(R, F[i], s, i)}
  <1>1. Len(R) \in Nat /\ e \in Nat /\ e <= Len(R) BY LenProperties
  <1>2. F[0] = <<>> /\ \A i \in 1 .. Len(R) : F[i] = F[i - 1] \o Units(R, i)
    BY EncodedEquation
  <1> HIDE DEF F
  <1>3. 0 \in T
    <2>1. F[0] \in Seq(Int) /\ Len(F[0]) = 0 BY <1>2, EmptySeq
    <2>2. Len(F[0]) = IF 0 < s THEN 2 * 0 ELSE 2 * s - 1 BY <2>1
    <2>3. \A j \in 1 .. s : ~ (2 * j - 1 <= 0) /\ ~ (2 * j <= 0) OBVIOUS
    <2>4. BodyOf(R, F[0], s, 0) BY <2>1, <2>2, <2>3 DEF BodyOf
    <2> QED BY <2>4
  <1>4. ASSUME NEW h \in T PROVE h + 1 \in T
    <2> SUFFICES ASSUME h + 1 <= e PROVE BodyOf(R, F[h + 1], s, h + 1)
      OBVIOUS
    <2> DEFINE i == h + 1
               b == F[h]
               c == F[i]
    <2>1. h \in Nat /\ i \in 1 .. e /\ i \in 1 .. Len(R) /\ i - 1 = h /\ h <= e BY <1>1
    <2>2. BodyOf(R, b, s, h) BY <2>1
    <2>3. c = b \o Units(R, i) BY <1>2, <2>1
    <2>4. (Starts(R, i) <=> i <= s) /\ (Ends(R, i) <=> i < s) BY <2>1 DEF RangeOpens
    <2>5. R[i] \in Int BY <2>1, ElementOfSeq
    <2> HIDE DEF i, b, c
    <2>6. b \in Seq(Int) /\ Len(b) \in Nat BY <2>2, LenProperties DEF BodyOf
    <2>7. CASE i > s
      <3>3. ~ (i <= s) /\ ~ (i < s) BY <2>1, <2>7
      <3>4. ~ Starts(R, i) /\ ~ Ends(R, i) BY <2>4, <3>3
      <3>1. c = b BY <2>1, <2>3, <2>6, <3>4, UnitsCases
      <3>2. ~ (h < s) /\ ~ (i < s) BY <2>1, <2>7
      <3> QED BY <2>2, <3>1, <3>2 DEF BodyOf, c, i
    <2>8. CASE i = s
      <3>1. Starts(R, i) /\ ~ Ends(R, i) BY <2>1, <2>4, <2>8
      <3>2. c = b \o <<R[i]>> BY <2>1, <2>3, <2>6, <3>1, UnitsCases
      <3>3. Len(b) = 2 * h /\ h = s - 1 /\ h < s BY <2>1, <2>2, <2>8 DEF BodyOf
      <3>4. PICK l \in Nat : l = Len(b) /\ l = 2 * h BY <2>6, <3>3
      <3>5. c \in Seq(Int) /\ Len(c) = l + 1 /\ c[l + 1] = R[i]
            /\ \A u \in 1 .. l : c[u] = b[u]
        <4> DEFINE x == R[i]
        <4>1. x \in Int /\ c = b \o <<x>> BY <2>5, <3>2
        <4> HIDE DEF x
        <4>2. /\ b \o <<x>> \in Seq(Int)
              /\ Len(b \o <<x>>) = Len(b) + 1
              /\ (b \o <<x>>)[Len(b) + 1] = x
              /\ \A u \in 1 .. Len(b) : (b \o <<x>>)[u] = b[u]
          BY <2>6, <4>1, UnitAppended
        <4> QED BY <3>4, <4>1, <4>2 DEF x
      <3>6. \A j \in 1 .. s : 2 * j - 1 <= l + 1 => c[2 * j - 1] = R[j]
        <4> TAKE j \in 1 .. s
        <4>1. CASE j = s
          <5>1. 2 * j - 1 = l + 1 /\ j = i BY <2>8, <3>3, <3>4, <4>1
          <5> QED BY <3>5, <5>1
        <4>2. CASE j < s
          <5>1. 2 * j - 1 \in 1 .. l /\ 2 * j - 1 <= l BY <3>3, <3>4, <4>2
          <5>2. b[2 * j - 1] = R[j] BY <2>2, <3>4, <5>1 DEF BodyOf
          <5> QED BY <3>5, <5>1, <5>2
        <4> QED BY <4>1, <4>2
      <3>7. \A j \in 1 .. s : 2 * j <= l + 1 => c[2 * j] = Comma
        <4> SUFFICES ASSUME NEW j \in 1 .. s, 2 * j <= l + 1 PROVE c[2 * j] = Comma
          OBVIOUS
        <4>1. 2 * j <= l /\ 2 * j \in 1 .. l BY <3>4
        <4>2. b[2 * j] = Comma BY <2>2, <3>4, <4>1 DEF BodyOf
        <4> QED BY <3>5, <4>1, <4>2
      <3>8. l + 1 = 2 * s - 1 /\ ~ (i < s) BY <2>1, <2>8, <3>3, <3>4
      <3>9. BodyOf(R, c, s, i) BY <3>5, <3>6, <3>7, <3>8 DEF BodyOf
      <3> QED BY <3>9 DEF c, i
    <2>9. CASE i < s
      <3>1. Starts(R, i) /\ Ends(R, i) BY <2>1, <2>4, <2>9
      <3>2. c = (b \o <<R[i]>>) \o <<Comma>> BY <2>1, <2>3, <2>6, <3>1, UnitsCases
      <3>3. Len(b) = 2 * h /\ h < s BY <2>1, <2>2, <2>9 DEF BodyOf
      <3>4. PICK l \in Nat : l = Len(b) /\ l = 2 * h BY <2>6, <3>3
      <3> DEFINE a == b \o <<R[i]>>
      <3>5. a \in Seq(Int) /\ Len(a) = l + 1 /\ a[l + 1] = R[i]
            /\ \A u \in 1 .. l : a[u] = b[u]
        <4> DEFINE x == R[i]
        <4>1. x \in Int /\ a = b \o <<x>> BY <2>5
        <4> HIDE DEF x, a
        <4>2. /\ b \o <<x>> \in Seq(Int)
              /\ Len(b \o <<x>>) = Len(b) + 1
              /\ (b \o <<x>>)[Len(b) + 1] = x
              /\ \A u \in 1 .. Len(b) : (b \o <<x>>)[u] = b[u]
          BY <2>6, <4>1, UnitAppended
        <4> QED BY <3>4, <4>1, <4>2 DEF x
      <3>6. c = a \o <<Comma>> BY <3>2
      <3> HIDE DEF a
      <3>7. c \in Seq(Int) /\ Len(c) = (l + 1) + 1 /\ c[(l + 1) + 1] = Comma
            /\ \A u \in 1 .. l + 1 : c[u] = a[u]
        <4>1. Comma \in Int BY DEF Comma
        <4> QED BY <3>5, <3>6, <4>1, UnitAppended
      <3>8. Len(c) = l + 2 /\ c[l + 2] = Comma /\ c[l + 1] = R[i]
            /\ \A u \in 1 .. l : c[u] = b[u]
        <4>1. (l + 1) + 1 = l + 2 /\ l + 1 \in 1 .. l + 1 BY <3>4
        <4>2. \A u \in 1 .. l : u \in 1 .. l + 1 BY <3>4
        <4> QED BY <3>5, <3>7, <4>1, <4>2
      <3>9. \A j \in 1 .. s : 2 * j - 1 <= l + 2 => c[2 * j - 1] = R[j]
        <4> SUFFICES ASSUME NEW j \in 1 .. s, 2 * j - 1 <= l + 2
                     PROVE  c[2 * j - 1] = R[j]
          OBVIOUS
        <4>1. CASE j = i
          <5>1. 2 * j - 1 = l + 1 BY <2>1, <3>4, <4>1
          <5> QED BY <3>8, <4>1, <5>1
        <4>2. CASE j # i
          <5>1. j <= h BY <2>1, <3>4, <4>2
          <5>2. 2 * j - 1 \in 1 .. l /\ 2 * j - 1 <= l BY <2>1, <3>4, <5>1
          <5>3. b[2 * j - 1] = R[j] BY <2>2, <3>4, <5>2 DEF BodyOf
          <5> QED BY <3>8, <5>2, <5>3
        <4> QED BY <4>1, <4>2
      <3>10. \A j \in 1 .. s : 2 * j <= l + 2 => c[2 * j] = Comma
        <4> SUFFICES ASSUME NEW j \in 1 .. s, 2 * j <= l + 2 PROVE c[2 * j] = Comma
          OBVIOUS
        <4>1. CASE j = i
          <5>1. 2 * j = l + 2 BY <2>1, <3>4, <4>1
          <5> QED BY <3>8, <5>1
        <4>2. CASE j # i
          <5>1. j <= h BY <2>1, <3>4, <4>2
          <5>2. 2 * j \in 1 .. l /\ 2 * j <= l BY <2>1, <3>4, <5>1
          <5>3. b[2 * j] = Comma BY <2>2, <3>4, <5>2 DEF BodyOf
          <5> QED BY <3>8, <5>2, <5>3
        <4> QED BY <4>1, <4>2
      <3>11. l + 2 = 2 * i BY <2>1, <3>4
      <3>12. BodyOf(R, c, s, i) BY <2>9, <3>7, <3>8, <3>9, <3>10, <3>11 DEF BodyOf
      <3> QED BY <3>12 DEF c, i
    <2> QED BY <2>1, <2>7, <2>8, <2>9
  <1>5. T = Nat
    <2> HIDE DEF T
    <2>1. T \in SUBSET Nat BY DEF T
    <2> QED BY <1>3, <1>4, <2>1, Induction
  <1>6. \A i \in 0 .. e : BodyOf(R, F[i], s, i)
    <2> TAKE i \in 0 .. e
    <2>1. i \in T /\ i <= e BY <1>1, <1>5
    <2> QED BY <2>1
  <1> QED BY <1>6 DEF F

(* As long as the separators are commas the list has the losses.           *)
LEMMA ListInStep ==
  ASSUME NEW R \in Seq(Int), NEW b \in Seq(Int), Len(b) > 0,
         NEW h \in 0 .. PairCount(b), b[1] = R[1],
         \A j \in 1 .. h : b[2 * j] = Comma /\ b[2 * j + 1] = R[j + 1]
  PROVE  /\ Len(DecodedPairs(b)[h]) = h + 1
         /\ \A x \in 1 .. h + 1 : DecodedPairs(b)[h][x] = R[x]
  <1> DEFINE D == DecodedPairs(b)
             K == PairCount(b)
             Has(k) == Len(D[k]) = k + 1 /\ \A x \in 1 .. k + 1 : D[k][x] = R[x]
             T == {k \in Nat : k <= h => Has(k)}
  <1>1. /\ D[0] = <<b[1]>>
        /\ \A k \in 0 .. K : D[k] \in Seq(Int) /\ Len(D[k]) > 0
        /\ \A k \in 1 .. K : AddedByPair(D[k - 1], b[2 * k], b[2 * k + 1], D[k])
    BY ListsGrow
  <1>2. K \in Nat /\ h \in Nat /\ h <= K BY PairsOfBody
  <1> HIDE DEF D, K
  <1>3. 0 \in T
    <2>1. Len(D[0]) = 1 /\ D[0][1] = b[1] BY <1>1
    <2>2. \A x \in 1 .. 0 + 1 : x = 1 OBVIOUS
    <2>3. Has(0) BY <2>1, <2>2
    <2> HIDE DEF Has
    <2> QED BY <2>3
  <1>4. ASSUME NEW k \in T PROVE k + 1 \in T
    <2>1. ASSUME k + 1 <= h PROVE Has(k + 1)
      <3> DEFINE g == k + 1
                 p == D[k]
                 q == D[g]
      <3>1. k \in Nat /\ g \in 1 .. h /\ g \in 1 .. K /\ g - 1 = k /\ k <= h
        BY <1>2, <2>1
      <3>2. Len(p) = k + 1 /\ \A x \in 1 .. k + 1 : p[x] = R[x] BY <3>1
      <3>3. AddedByPair(D[g - 1], b[2 * g], b[2 * g + 1], D[g]) BY <1>1, <3>1
      <3>4. b[2 * g] = Comma /\ b[2 * g + 1] = R[g + 1] BY <3>1
      <3> HIDE DEF g, p, q
      <3>5. AddedByPair(p, Comma, R[g + 1], q) BY <3>1, <3>3, <3>4 DEF p, q
      <3>6. /\ \A x \in 1 .. Len(p) : q[x] = p[x]
            /\ Len(q) = Len(p) + 1 /\ q[Len(q)] = R[g + 1]
        BY <3>5 DEF AddedByPair
      <3>7. g = k + 1 BY DEF g
      <3>8. Len(p) = g /\ Len(q) = g + 1 BY <3>2, <3>6, <3>7
      <3>9. \A x \in 1 .. g + 1 : q[x] = R[x]
        <4> TAKE x \in 1 .. g + 1
        <4>1. CASE x \in 1 .. g BY <3>2, <3>6, <3>7, <3>8, <4>1
        <4>2. CASE x = g + 1 BY <3>6, <3>8, <4>2
        <4> QED BY <3>1, <4>1, <4>2
      <3>10. Has(g) BY <3>8, <3>9 DEF q
      <3> HIDE DEF Has
      <3> QED BY <3>7, <3>10
    <2> HIDE DEF Has
    <2> QED BY <2>1
  <1>5. T = Nat
    <2> HIDE DEF T
    <2>1. T \in SUBSET Nat BY DEF T
    <2> QED BY <1>3, <1>4, <2>1, Induction
  <1>6. Has(h)
    <2>1. h \in T BY <1>2, <1>5
    <2> HIDE DEF Has
    <2> QED BY <1>2, <2>1
  <1> QED BY <1>6 DEF D

(* The numbers of a range follow each other.                               *)
LEMMA RangeNumbers ==
  ASSUME NEW R \in Seq(Int), NEW s \in 1 .. Len(R), NEW m \in s .. Len(R),
         \A j \in s + 1 .. m : ~ Starts(R, j)
  PROVE  \A x \in s .. m : R[x] = R[s] + (x - s)
  <1> DEFINE T == {d \in Nat : s + d <= m => R[s + d] = R[s] + d}
  <1>1. Len(R) \in Nat /\ m \in Nat /\ s \in Nat /\ 1 <= s /\ m <= Len(R)
    <2>1. Len(R) \in Nat BY LenProperties
    <2> QED BY <2>1
  <1>2. R[s] \in Int BY ElementOfSeq
  <1>3. 0 \in T
    <2>1. s + 0 = s BY <1>1
    <2>2. R[s + 0] = R[s] + 0 BY <1>2, <2>1
    <2> QED BY <2>2
  <1>4. ASSUME NEW d \in T PROVE d + 1 \in T
    <2> SUFFICES ASSUME s + (d + 1) <= m PROVE R[s + (d + 1)] = R[s] + (d + 1)
      OBVIOUS
    <2>1. d \in Nat /\ s + d <= m BY <1>1
    <2>2. R[s + d] = R[s] + d BY <2>1
    <2> DEFINE j == s + (d + 1)
    <2>3. j \in s + 1 .. m /\ j - 1 = s + d /\ j # 1 BY <1>1, <2>1
    <2> HIDE DEF j
    <2>4. R[j] = R[j - 1] + 1 BY <2>3 DEF Starts
    <2>5. R[j] = (R[s] + d) + 1 BY <2>2, <2>3, <2>4
    <2> QED BY SMTT(30), <1>2, <2>1, <2>5 DEF j
  <1>5. T = Nat
    <2> HIDE DEF T
    <2>1. T \in SUBSET Nat BY DEF T
    <2> QED BY <1>3, <1>4, <2>1, Induction
  <1>6. \A x \in s .. m : R[x] = R[s] + (x - s)
    <2> TAKE x \in s .. m
    <2> DEFINE d == x - s
    <2>1. d \in Nat /\ s + d = x /\ x <= m BY <1>1
    <2> HIDE DEF d
    <2>2. d \in T BY <1>5, <2>1
    <2> QED BY <2>1, <2>2 DEF d
  <1> QED BY <1>6

(* The list has the first m losses.                                        *)
HasFirst(R, m, list) == m <= Len(list) /\ \A x \in 1 .. m : list[x] = R[x]

(* A report without ranges is understood.                                  *)
LEMMA SinglesUnderstood ==
  ASSUME NEW R \in Seq(Int), Len(R) > 0, RangeOpens(R, Len(R) + 1, Len(R))
  PROVE  HasFirst(R, Len(R), Decoded(Encoded(R)))
  <1>1. PICK n \in Nat : n = Len(R) /\ n > 0 BY LenProperties
  <1> DEFINE b == Encoded(R)
             s == n + 1
  <1>2. BodyOf(R, b, s, n)
    <2>1. s \in Nat /\ s > 0 /\ n \in 0 .. Len(R) /\ n \in 0 .. n BY <1>1
    <2>2. RangeOpens(R, s, n) BY <1>1
    <2> HIDE DEF s
    <2>3. \A i \in 0 .. n : BodyOf(R, EncodedUpTo(R)[i], s, i)
      BY <2>1, <2>2, BodyInStep
    <2> QED BY <1>1, <2>1, <2>3 DEF Encoded
  <1> HIDE DEF b
  <1>3. /\ b \in Seq(Int) /\ Len(b) = 2 * n
        /\ \A j \in 1 .. n + 1 : 2 * j - 1 <= 2 * n => b[2 * j - 1] = R[j]
        /\ \A j \in 1 .. n + 1 : 2 * j <= 2 * n => b[2 * j] = Comma
    BY <1>1, <1>2 DEF BodyOf
  <1>4. Len(b) > 0 BY <1>1, <1>3
  <1>5. PICK K \in Nat : K = PairCount(b) /\ K = n - 1
    <2>1. PICK K \in Nat : K = PairCount(b) /\ 2 * K + 1 <= 2 * n /\ 2 * n <= 2 * K + 2
      BY <1>3, <1>4, PairsOfBody
    <2>2. K = n - 1 BY <1>1, <2>1
    <2> QED BY <2>1, <2>2
  <1>6. b[1] = R[1]
    <2>1. 2 * 1 - 1 = 1 /\ 1 \in 1 .. n + 1 /\ 2 * 1 - 1 <= 2 * n BY <1>1
    <2>2. b[2 * 1 - 1] = R[1] BY <1>3, <2>1
    <2> QED BY <2>1, <2>2
  <1>7. \A j \in 1 .. K : b[2 * j] = Comma /\ b[2 * j + 1] = R[j + 1]
    <2> TAKE j \in 1 .. K
    <2>1. j \in 1 .. n + 1 /\ 2 * j <= 2 * n BY <1>1, <1>5
    <2> DEFINE g == j + 1
    <2>2. g \in 1 .. n + 1 /\ 2 * g - 1 <= 2 * n /\ 2 * g - 1 = 2 * j + 1 BY <1>1, <1>5
    <2> HIDE DEF g
    <2>3. b[2 * j] = Comma BY <1>3, <2>1
    <2>4. b[2 * g - 1] = R[g] BY <1>3, <2>2
    <2> QED BY <2>2, <2>3, <2>4 DEF g
  <1>8. /\ Len(DecodedPairs(b)[K]) = K + 1
        /\ \A x \in 1 .. K + 1 : DecodedPairs(b)[K][x] = R[x]
    <2>1. K \in 0 .. PairCount(b) BY <1>5
    <2> QED BY <1>3, <1>4, <1>6, <1>7, <2>1, ListInStep
  <1>9. Decoded(b) = DecodedPairs(b)[K] BY <1>3, <1>4, <1>5, DecodedEquation
  <1>10. K + 1 = n /\ n <= n BY <1>1, <1>5
  <1> QED BY <1>1, <1>8, <1>9, <1>10 DEF HasFirst, b

(* What stands first in a sequence.                                        *)
LEMMA FirstEntries ==
  ASSUME NEW s \in Seq(Int), NEW m \in 0 .. Len(s)
  PROVE  /\ SubSeq(s, 1, m) \in Seq(Int)
         /\ Len(SubSeq(s, 1, m)) = m
         /\ \A x \in 1 .. m : SubSeq(s, 1, m)[x] = s[x]
  <1>1. PICK n \in Nat : n = Len(s) BY LenProperties
  <1>2. CASE m = 0
    <2>1. SubSeq(s, 1, m) = <<>> BY <1>2, SubSeqEmpty
    <2> QED BY <1>2, <2>1, EmptySeq
  <1>3. CASE m > 0
    <2>1. 1 \in 1 .. Len(s) /\ m \in 0 .. Len(s) /\ m - 1 + 1 = m BY <1>1, <1>3
    <2> QED BY <1>1, <1>3, <2>1, SubSeqProperties
  <1> QED BY <1>1, <1>2, <1>3

(* Later bodies begin with earlier ones.                                   *)
LEMMA BodiesBegin ==
  ASSUME NEW R \in Seq(Int), NEW i \in 0 .. Len(R)
  PROVE  Begins(EncodedUpTo(R)[i], Encoded(R))
  <1> DEFINE F == EncodedUpTo(R)
  <1>1. PICK n \in Nat : n = Len(R) BY LenProperties
  <1>2. \A k \in 0 .. n : F[k] \in Seq(Int) BY <1>1, BodyEncoded
  <1>3. \A k \in 1 .. n : F[k] = F[k - 1] \o Units(R, k) BY <1>1, EncodedEquation
  <1> HIDE DEF F
  <1>4. ASSUME NEW k \in 1 .. n PROVE Begins(F[k - 1], F[k])
    <2> DEFINE s == F[k - 1]
               t == Units(R, k)
    <2>1. s \in Seq(Int) /\ t \in Seq(Int) /\ F[k] = s \o t
      <3>1. k - 1 \in 0 .. n BY <1>1
      <3> QED BY <1>1, <1>2, <1>3, <3>1, UnitsType
    <2> HIDE DEF s, t
    <2>2. PICK l \in Nat, m \in Nat : l = Len(s) /\ m = Len(t) BY <2>1, LenProperties
    <2>3. /\ Len(s \o t) = l + m
          /\ \A u \in 1 .. l + m : (s \o t)[u] = IF u <= l THEN s[u] ELSE t[u - l]
      <3>1. /\ Len(s \o t) = Len(s) + Len(t)
            /\ \A u \in 1 .. Len(s) + Len(t) :
                 (s \o t)[u] = IF u <= Len(s) THEN s[u] ELSE t[u - Len(s)]
        BY <2>1, ConcatProperties
      <3> QED BY <2>2, <3>1
    <2>4. l <= l + m /\ \A u \in 1 .. l : (s \o t)[u] = s[u] BY <2>2, <2>3
    <2>5. Begins(s, s \o t) BY <2>2, <2>3, <2>4 DEF Begins
    <2> QED BY <2>1, <2>5 DEF s
  <1>5. i \in 0 .. n /\ n \in i .. n BY <1>1
  <1>6. Begins(F[i], F[n]) BY <1>1, <1>2, <1>4, <1>5, RowBegins
  <1> QED BY <1>1, <1>6 DEF F, Encoded

(* A report is understood up to the end of its first range.                *)
LEMMA RangeUnderstood ==
  ASSUME NEW R \in Seq(Int), NEW m \in 2 .. Len(R), NEW s \in 1 .. m - 1,
         RangeOpens(R, s, m - 1), ~ Starts(R, m), Ends(R, m)
  PROVE  HasFirst(R, m, Decoded(Encoded(R)))
  <1>1. PICK n \in Nat : n = Len(R) BY LenProperties
  <1>2. /\ m \in Nat /\ s \in Nat /\ s > 0 /\ s < m /\ m <= n
        /\ m - 1 \in Nat /\ m - 1 \in 0 .. n /\ ~ (m - 1 < s)
    BY <1>1
  <1> DEFINE a == EncodedUpTo(R)[m - 1]
             b == Encoded(R)
             c == EncodedUpTo(R)[m]
             x == R[m]
             l == 2 * s - 1
             d == b[1]
  <1>3. x \in Int BY ElementOfSeq
  <1>4. /\ a \in Seq(Int) /\ Len(a) = l
        /\ \A j \in 1 .. s : 2 * j - 1 <= l => a[2 * j - 1] = R[j]
        /\ \A j \in 1 .. s : 2 * j <= l => a[2 * j] = Comma
    <2> DEFINE e == m - 1
    <2>1. e \in 0 .. Len(R) /\ e \in 0 .. e /\ RangeOpens(R, s, e) /\ ~ (e < s)
      BY <1>1, <1>2
    <2> HIDE DEF e
    <2>2. \A i \in 0 .. e : BodyOf(R, EncodedUpTo(R)[i], s, i)
      BY <1>2, <2>1, BodyInStep
    <2>3. BodyOf(R, EncodedUpTo(R)[e], s, e) BY <2>1, <2>2
    <2> QED BY <2>1, <2>3 DEF BodyOf, e
  <1>5. c = (a \o <<Dash>>) \o <<R[m]>>
    <2>1. m \in 1 .. Len(R) BY <1>1, <1>2
    <2>2. c = a \o Units(R, m) BY <2>1, EncodedEquation
    <2> HIDE DEF a, c
    <2> QED BY <1>4, <2>1, <2>2, UnitsCases
  <1>6. Begins(c, b)
    <2>1. m \in 0 .. Len(R) BY <1>1, <1>2
    <2> QED BY <2>1, BodiesBegin
  <1>7. b \in Seq(Int)
    <2>1. Len(R) > 0 BY <1>1, <1>2
    <2> QED BY <2>1, EncodedShape
  <1> HIDE DEF a, b, c
  <1>8. l \in Nat /\ l > 0 BY <1>2
  <1>9. /\ Len(c) = l + 2 /\ c[l + 1] = Dash /\ c[l + 2] = x
        /\ \A u \in 1 .. l : c[u] = a[u]
    <2>1. c = (a \o <<Dash>>) \o <<x>> BY <1>5
    <2> HIDE DEF l, x
    <2> DEFINE g == a \o <<Dash>>
    <2>2. Dash \in Int BY DEF Dash
    <2>3. /\ g \in Seq(Int) /\ Len(g) = l + 1 /\ g[l + 1] = Dash
          /\ \A u \in 1 .. l : g[u] = a[u]
      BY <1>4, <2>2, UnitAppended
    <2>4. c = g \o <<x>> BY <2>1
    <2> HIDE DEF g
    <2>5. /\ Len(c) = (l + 1) + 1 /\ c[(l + 1) + 1] = x
          /\ \A u \in 1 .. l + 1 : c[u] = g[u]
      <3>1. /\ Len(g \o <<x>>) = Len(g) + 1
            /\ (g \o <<x>>)[Len(g) + 1] = x
            /\ \A u \in 1 .. Len(g) : (g \o <<x>>)[u] = g[u]
        BY <1>3, <2>3, UnitAppended
      <3> QED BY <2>3, <2>4, <3>1
    <2>6. (l + 1) + 1 = l + 2 /\ l + 1 \in 1 .. l + 1 /\ \A u \in 1 .. l : u \in 1 .. l + 1
      BY <1>8
    <2> QED BY <2>3, <2>5, <2>6
  <1>10. PICK w \in Nat : w = Len(b) /\ l + 2 <= w
    BY <1>6, <1>7, <1>9, LenProperties DEF Begins
  <1>11. /\ b[l + 1] = Dash /\ b[l + 2] = x
         /\ \A u \in 1 .. l : b[u] = a[u]
    <2>1. \A u \in 1 .. l + 2 : b[u] = c[u] BY <1>6, <1>9 DEF Begins
    <2>2. l + 1 \in 1 .. l + 2 /\ l + 2 \in 1 .. l + 2 /\ \A u \in 1 .. l : u \in 1 .. l + 2
      BY <1>8
    <2> QED BY <1>9, <2>1, <2>2
  <1>12. /\ \A j \in 1 .. s : b[2 * j - 1] = R[j]
         /\ \A j \in 1 .. s - 1 : b[2 * j] = Comma
    <2>1. ASSUME NEW j \in 1 .. s PROVE b[2 * j - 1] = R[j]
      <3>1. 2 * j - 1 \in 1 .. l /\ 2 * j - 1 <= l BY <1>2
      <3> QED BY <1>4, <1>11, <3>1
    <2>2. ASSUME NEW j \in 1 .. s - 1 PROVE b[2 * j] = Comma
      <3>1. 2 * j \in 1 .. l /\ 2 * j <= l /\ j \in 1 .. s BY <1>2
      <3> QED BY <1>4, <1>11, <3>1
    <2> QED BY <2>1, <2>2
  <1>13. Len(b) > 0 BY <1>8, <1>10
  <1>14. PICK K \in Nat : K = PairCount(b) /\ s <= K
    <2>1. PICK K \in Nat : K = PairCount(b) /\ w <= 2 * K + 2
      BY <1>7, <1>10, <1>13, PairsOfBody
    <2>2. 2 * s + 1 <= 2 * K + 2 BY <1>2, <1>10, <2>1
    <2>3. s <= K BY <1>2, <2>1, <2>2
    <2> QED BY <2>1, <2>3
  <1> DEFINE D == DecodedPairs(b)
             h == s - 1
             p == D[h]
             q == D[s]
  <1>15. Len(p) = s /\ \A y \in 1 .. s : p[y] = R[y]
    <2>1. h \in 0 .. PairCount(b) /\ h + 1 = s BY <1>2, <1>14
    <2>2. b[1] = R[1]
      <3>1. 1 \in 1 .. s /\ 2 * 1 - 1 = 1 BY <1>2
      <3> QED BY <1>12, <3>1
    <2>3. \A j \in 1 .. h : b[2 * j] = Comma /\ b[2 * j + 1] = R[j + 1]
      <3> TAKE j \in 1 .. h
      <3> DEFINE g == j + 1
      <3>1. j \in 1 .. s - 1 /\ g \in 1 .. s /\ 2 * g - 1 = 2 * j + 1 BY <1>2
      <3> HIDE DEF g
      <3>2. b[2 * j] = Comma /\ b[2 * g - 1] = R[g] BY <1>12, <3>1
      <3> QED BY <3>1, <3>2 DEF g
    <2> HIDE DEF h
    <2>4. Len(D[h]) = h + 1 /\ \A y \in 1 .. h + 1 : D[h][y] = R[y]
      BY <1>7, <1>13, <2>1, <2>2, <2>3, ListInStep
    <2> QED BY <2>1, <2>4
  <1>16. /\ \A k \in 0 .. K : D[k] \in Seq(Int)
         /\ \A k \in 1 .. K : AddedByPair(D[k - 1], b[2 * k], b[2 * k + 1], D[k])
    BY <1>7, <1>13, <1>14, ListsGrow
  <1> HIDE DEF D
  <1>17. AddedByPair(p, Dash, x, q)
    <2>1. s \in 1 .. K BY <1>2, <1>14
    <2>2. AddedByPair(D[s - 1], b[2 * s], b[2 * s + 1], D[s]) BY <1>16, <2>1
    <2>3. 2 * s = l + 1 /\ 2 * s + 1 = l + 2 BY <1>2
    <2>4. b[2 * s] = Dash /\ b[2 * s + 1] = x BY <1>11, <2>3
    <2> HIDE DEF x
    <2> QED BY <2>2, <2>4
  <1>18. \A y \in s .. m : R[y] = R[s] + (y - s)
    <2>1. s \in 1 .. Len(R) /\ m \in s .. Len(R) BY <1>1, <1>2
    <2>2. \A j \in s + 1 .. m : ~ Starts(R, j)
      <3> TAKE j \in s + 1 .. m
      <3>1. CASE j = m BY <3>1
      <3>2. CASE j # m
        <4>1. j \in 1 .. m - 1 /\ ~ (j <= s) BY <1>2, <3>2
        <4> QED BY <4>1 DEF RangeOpens
      <3> QED BY <3>1, <3>2
    <2> QED BY <2>1, <2>2, RangeNumbers
  <1>19. PICK r \in Int : r = R[s]
    <2>1. s \in 1 .. Len(R) BY <1>1, <1>2
    <2> QED BY <2>1, ElementOfSeq
  <1> HIDE DEF p, q, l
  <1>20. x = r + (m - s) /\ p[Len(p)] = r
    <2>1. m \in s .. m /\ s \in 1 .. s BY <1>2
    <2> QED BY <1>15, <1>18, <1>19, <2>1
  <1>21. /\ Len(q) = m
         /\ \A y \in 1 .. s : q[y] = p[y]
         /\ \A y \in s + 1 .. m : q[y] = r + (y - s)
    <2>1. /\ \A y \in 1 .. s : q[y] = p[y]
          /\ Len(q) = s + (IF r < x THEN x - r ELSE 0)
          /\ \A y \in s + 1 .. Len(q) : q[y] = r + (y - s)
      BY <1>15, <1>17, <1>20 DEF AddedByPair
    <2>2. r < x /\ s + (x - r) = m BY <1>2, <1>19, <1>20
    <2>3. Len(q) = m BY <2>1, <2>2
    <2> QED BY <2>1, <2>3
  <1>22. \A y \in 1 .. m : q[y] = R[y]
    <2> TAKE y \in 1 .. m
    <2>1. CASE y \in 1 .. s BY <1>15, <1>21, <2>1
    <2>2. CASE ~ (y \in 1 .. s)
      <3>1. y \in s + 1 .. m /\ y \in s .. m BY <1>2, <2>2
      <3> QED BY <1>18, <1>19, <1>21, <3>1
    <2> QED BY <2>1, <2>2
  <1>23. Begins(q, D[K])
    <2>1. ASSUME NEW k \in 1 .. K PROVE Begins(D[k - 1], D[k])
      BY <1>16 DEF AddedByPair, Begins
    <2>2. s \in 0 .. K /\ K \in s .. K BY <1>2, <1>14
    <2> QED BY <1>14, <1>16, <2>1, <2>2, RowBegins DEF q
  <1>24. Decoded(b) = D[K] BY <1>7, <1>13, <1>14, DecodedEquation DEF D
  <1>25. m <= Len(D[K]) /\ \A y \in 1 .. m : D[K][y] = R[y]
    BY <1>21, <1>22, <1>23 DEF Begins
  <1> QED BY <1>24, <1>25 DEF HasFirst, b

(* Which losses stand at which end of a range.                             *)
LEMMA StartsAndEnds ==
  ASSUME NEW R \in Seq(Int)
  PROVE  /\ Starts(R, 1)
         /\ Ends(R, Len(R))
         /\ \A i \in 1 .. Len(R) - 1 : Ends(R, i) <=> Starts(R, i + 1)
  <1>1. PICK n \in Nat : n = Len(R) BY LenProperties
  <1>2. ASSUME NEW i \in 1 .. n - 1 PROVE Ends(R, i) <=> Starts(R, i + 1)
    <2>1. i # n /\ i + 1 # 1 /\ (i + 1) - 1 = i BY <1>1
    <2> QED BY <1>1, <2>1 DEF Starts, Ends
  <1> QED BY <1>1, <1>2 DEF Starts, Ends

RangeEndsOf(R) == {i \in 2 .. Len(R) : ~ Starts(R, i) /\ Ends(R, i)}

(* Without the end of a range no range starts.                             *)
LEMMA NoRangeOpens ==
  ASSUME NEW R \in Seq(Int), RangeEndsOf(R) = {}
  PROVE  RangeOpens(R, Len(R) + 1, Len(R))
  <1>1. PICK n \in Nat : n = Len(R) BY LenProperties
  <1> DEFINE T == {d \in Nat : d < n => Starts(R, n - d)}
  <1>2. \A i \in 2 .. n : Ends(R, i) => Starts(R, i) BY <1>1 DEF RangeEndsOf
  <1>3. /\ Starts(R, 1) /\ Ends(R, n)
        /\ \A i \in 1 .. n - 1 : Ends(R, i) <=> Starts(R, i + 1)
    BY <1>1, StartsAndEnds
  <1>4. \A i \in 1 .. n : Ends(R, i) => Starts(R, i)
    <2> TAKE i \in 1 .. n
    <2>1. i = 1 \/ i \in 2 .. n BY <1>1
    <2> QED BY <1>2, <1>3, <2>1
  <1>5. 0 \in T
    <2>1. ASSUME 0 < n PROVE Starts(R, n - 0)
      <3>1. n - 0 = n /\ n \in 1 .. n BY <1>1, <2>1
      <3> QED BY <1>3, <1>4, <3>1
    <2> QED BY <2>1
  <1>6. ASSUME NEW d \in T PROVE d + 1 \in T
    <2> SUFFICES ASSUME d + 1 < n PROVE Starts(R, n - (d + 1))
      OBVIOUS
    <2> DEFINE i == n - (d + 1)
    <2>1. d \in Nat /\ i \in 1 .. n - 1 /\ i + 1 = n - d /\ i \in 1 .. n /\ d < n BY <1>1
    <2>2. Starts(R, n - d) BY <2>1
    <2> HIDE DEF i
    <2>3. Ends(R, i) BY <1>3, <2>1, <2>2
    <2>4. Starts(R, i) BY <1>4, <2>1, <2>3
    <2> QED BY <2>4 DEF i
  <1>7. T = Nat
    <2> HIDE DEF T
    <2>1. T \in SUBSET Nat BY DEF T
    <2> QED BY <1>5, <1>6, <2>1, Induction
  <1>8. \A i \in 1 .. n : Starts(R, i)
    <2> TAKE i \in 1 .. n
    <2> DEFINE d == n - i
    <2>1. d \in Nat /\ d < n /\ n - d = i BY <1>1
    <2> HIDE DEF d
    <2>2. d \in T BY <1>7, <2>1
    <2> QED BY <2>1, <2>2
  <1>9. \A i \in 1 .. n : Ends(R, i)
    <2> TAKE i \in 1 .. n
    <2>1. CASE i = n BY <1>3, <2>1
    <2>2. CASE i # n
      <3>1. i \in 1 .. n - 1 /\ i + 1 \in 1 .. n BY <1>1, <2>2
      <3> QED BY <1>3, <1>8, <3>1
    <2> QED BY <2>1, <2>2
  <1>10. \A i \in 1 .. n : i <= n + 1 /\ i < n + 1 BY <1>1
  <1> QED BY <1>1, <1>8, <1>9, <1>10 DEF RangeOpens

(* The first range that ends has a start.                                  *)
LEMMA FirstRangeOpens ==
  ASSUME NEW R \in Seq(Int), NEW m \in RangeEndsOf(R),
         \A i \in RangeEndsOf(R) : m <= i
  PROVE  \E s \in 1 .. m - 1 : RangeOpens(R, s, m - 1)
  <1>1. PICK n \in Nat : n = Len(R) BY LenProperties
  <1>2. m \in Nat /\ 2 <= m /\ m <= n /\ ~ Starts(R, m) BY <1>1 DEF RangeEndsOf
  <1>3. /\ Starts(R, 1)
        /\ \A i \in 1 .. n - 1 : Ends(R, i) <=> Starts(R, i + 1)
    BY <1>1, StartsAndEnds
  <1> DEFINE later == {i \in 1 .. m : ~ Starts(R, i)}
  <1>4. later \in SUBSET Nat /\ m \in later BY <1>2
  <1>5. PICK f \in later : \A y \in later : f <= y
    <2>1. later # {} BY <1>4
    <2> HIDE DEF later
    <2> QED BY <1>4, <2>1, LeastNumber
  <1>6. f \in 1 .. m /\ f # 1 /\ ~ Starts(R, f) BY <1>3
  <1> DEFINE s == f - 1
  <1>7. s \in 1 .. m - 1 /\ f = s + 1 BY <1>2, <1>6
  <1>8. \A i \in 1 .. s : Starts(R, i)
    <2> TAKE i \in 1 .. s
    <2>1. i \in 1 .. m /\ i < f BY <1>2, <1>6
    <2>2. i \notin later
      <3> HIDE DEF later
      <3>1. i \in Int /\ f \in Int BY <1>6
      <3> QED BY <1>5, <2>1, <3>1
    <2> QED BY <2>1, <2>2
  <1> HIDE DEF later, s
  <1> DEFINE T == {d \in Nat : f + d <= m => ~ Starts(R, f + d)}
  <1>9. 0 \in T
    <2>1. f + 0 = f BY <1>6
    <2> QED BY <1>6, <2>1
  <1>10. ASSUME NEW d \in T PROVE d + 1 \in T
    <2> SUFFICES ASSUME f + (d + 1) <= m PROVE ~ Starts(R, f + (d + 1))
      OBVIOUS
    <2> DEFINE i == f + d
    <2>1. d \in Nat /\ i \in 2 .. n /\ i \in 1 .. n - 1 /\ i + 1 = f + (d + 1)
          /\ i < m /\ i <= m
      BY <1>2, <1>6
    <2>2. ~ Starts(R, i) BY <2>1
    <2> HIDE DEF i
    <2>3. i \notin RangeEndsOf(R)
      <3>1. i \in Int /\ m \in Int /\ ~ (m <= i) BY <1>2, <2>1
      <3> QED BY <3>1
    <2>4. ~ Ends(R, i) BY <1>1, <2>1, <2>2, <2>3 DEF RangeEndsOf
    <2>5. ~ Starts(R, i + 1) BY <1>3, <2>1, <2>4
    <2> QED BY <2>1, <2>5
  <1>11. T = Nat
    <2> HIDE DEF T
    <2>1. T \in SUBSET Nat BY DEF T
    <2> QED BY <1>9, <1>10, <2>1, Induction
  <1>12. \A i \in s + 1 .. m : ~ Starts(R, i)
    <2> TAKE i \in s + 1 .. m
    <2> DEFINE d == i - f
    <2>1. d \in Nat /\ f + d = i /\ i <= m BY <1>2, <1>6, <1>7
    <2> HIDE DEF d
    <2>2. d \in T BY <1>11, <2>1
    <2> QED BY <2>1, <2>2
  <1>13. RangeOpens(R, s, m - 1)
    <2>1. ASSUME NEW j \in 1 .. m - 1
          PROVE  (Starts(R, j) <=> j <= s) /\ (Ends(R, j) <=> j < s)
      <3>1. j \in 1 .. n - 1 /\ j \in Int /\ s \in Int BY <1>2, <1>7
      <3>2. Ends(R, j) <=> Starts(R, j + 1) BY <1>3, <3>1
      <3>3. CASE j < s
        <4>1. j \in 1 .. s /\ j + 1 \in 1 .. s /\ j <= s BY <3>1, <3>3
        <4> QED BY <1>8, <3>2, <3>3, <4>1
      <3>4. CASE j = s
        <4>1. j \in 1 .. s /\ j + 1 \in s + 1 .. m /\ j <= s /\ ~ (j < s)
          BY <1>2, <3>1, <3>4
        <4> QED BY <1>8, <1>12, <3>2, <4>1
      <3>5. CASE j > s
        <4>1. j \in s + 1 .. m /\ j + 1 \in s + 1 .. m /\ ~ (j <= s) /\ ~ (j < s)
          BY <1>2, <3>1, <3>5
        <4> QED BY <1>12, <3>2, <4>1
      <3> QED BY <3>1, <3>3, <3>4, <3>5
    <2> QED BY <2>1 DEF RangeOpens
  <1> QED BY <1>7, <1>13

(* The sender understands the losses up to the end of the first range.     *)
LEMMA FirstUnderstood ==
  ASSUME LossesInWindow
  PROVE  FirstLossesUnderstood
  <1> DEFINE R == Report
             U == Understood
  <1>1. R \in Seq(Int) BY ReportByPlace DEF ListsByPlace
  <1>2. PICK n \in Nat : n = Len(R) BY <1>1, LenProperties
  <1>3. U = Decoded(Encoded(R)) BY DEF Understood
  <1>4. RangeEnds = RangeEndsOf(R) BY DEF RangeEnds, RangeEndsOf
  <1> DEFINE m == CHOOSE m \in 0 .. Len(R) :
                    IF RangeEnds = {} THEN m = Len(R)
                    ELSE m \in RangeEnds /\ \A i \in RangeEnds : m <= i
  <1>5. InStep = SubSeq(R, 1, m) BY DEF InStep
  <1>6. /\ m \in 0 .. n
        /\ RangeEnds = {} => m = n
        /\ RangeEnds # {} => m \in RangeEnds /\ \A i \in RangeEnds : m <= i
    <2>1. CASE RangeEnds = {}
      <3>1. \E k \in 0 .. Len(R) : k = Len(R) BY <1>2
      <3> QED BY <1>2, <2>1, <3>1
    <2>2. CASE RangeEnds # {}
      <3>1. RangeEnds \in SUBSET Nat /\ RangeEnds \in SUBSET (0 .. n)
        BY <1>2, <1>4 DEF RangeEndsOf
      <3>2. \E k \in RangeEnds : \A i \in RangeEnds : k <= i
        BY <2>2, <3>1, LeastNumber
      <3>3. \E k \in 0 .. Len(R) : k \in RangeEnds /\ \A i \in RangeEnds : k <= i
        BY <1>2, <3>1, <3>2
      <3> QED BY <1>2, <2>2, <3>3
    <2> QED BY <2>1, <2>2
  <1> HIDE DEF R, U, m
  <1>7. U \in Seq(Int)
    <2>1. CASE n = 0
      <3>1. R = <<>> BY <1>1, <1>2, <2>1, EmptySeq
      <3>2. U = <<>> BY <1>3, <3>1, EmptyReport
      <3> QED BY <3>2
    <2>2. CASE n > 0 BY <1>1, <1>2, <1>3, <2>2, DecodedWithin
    <2> QED BY <1>2, <2>1, <2>2
  <1>8. HasFirst(R, m, U)
    <2>1. CASE RangeEnds = {} /\ n > 0
      <3>1. RangeOpens(R, Len(R) + 1, Len(R)) BY <1>1, <1>4, <2>1, NoRangeOpens
      <3>2. HasFirst(R, Len(R), Decoded(Encoded(R)))
        BY <1>1, <1>2, <2>1, <3>1, SinglesUnderstood
      <3> QED BY <1>2, <1>3, <1>6, <2>1, <3>2
    <2>2. CASE RangeEnds # {}
      <3>1. /\ m \in RangeEndsOf(R) /\ \A i \in RangeEndsOf(R) : m <= i
        BY <1>4, <1>6, <2>2
      <3>2. PICK s \in 1 .. m - 1 : RangeOpens(R, s, m - 1)
        BY <1>1, <3>1, FirstRangeOpens
      <3>3. m \in 2 .. Len(R) /\ ~ Starts(R, m) /\ Ends(R, m) BY <3>1 DEF RangeEndsOf
      <3> QED BY <1>1, <1>3, <3>2, <3>3, RangeUnderstood
    <2>3. CASE RangeEnds = {} /\ n = 0
      <3>1. m = 0 /\ Len(U) \in Nat BY <1>6, <1>7, <2>3, LenProperties
      <3> QED BY <3>1 DEF HasFirst
    <2> QED BY <1>2, <2>1, <2>2, <2>3
  <1>9. IsPrefix(SubSeq(R, 1, m), U)
    <2> DEFINE s == SubSeq(R, 1, m)
               t == SubSeq(U, 1, m)
    <2>1. PICK l \in Nat : l = Len(U) /\ m <= l /\ \A x \in 1 .. m : U[x] = R[x]
      BY <1>7, <1>8, LenProperties DEF HasFirst
    <2>2. s \in Seq(Int) /\ Len(s) = m /\ \A x \in 1 .. m : s[x] = R[x]
      BY <1>1, <1>2, <1>6, FirstEntries
    <2>3. t \in Seq(Int) /\ Len(t) = m /\ \A x \in 1 .. m : t[x] = U[x]
      BY <1>6, <1>7, <2>1, FirstEntries
    <2> HIDE DEF s, t
    <2>4. s = t BY <2>1, <2>2, <2>3, SeqEqual
    <2>5. Len(s) <= Len(U) /\ SubSeq(s, 1, Len(s)) = SubSeq(U, 1, Len(s))
      <3>1. SubSeq(s, 1, m) = s
        <4> DEFINE v == SubSeq(s, 1, m)
        <4>1. m \in 0 .. Len(s) BY <1>6, <2>2
        <4>2. v \in Seq(Int) /\ Len(v) = m /\ \A x \in 1 .. m : v[x] = s[x]
          BY <2>2, <4>1, FirstEntries
        <4> HIDE DEF v
        <4>3. v = s BY <2>2, <4>2, SeqEqual
        <4> QED BY <4>3 DEF v
      <3> QED BY <2>1, <2>2, <2>4, <3>1 DEF t
    <2> QED BY <2>5 DEF IsPrefix, s
  <1> QED BY <1>5, <1>9 DEF FirstLossesUnderstood, U

(* However a report of losses goes on, the sender understands it up to the *)
(* end of its first range: it repeats the packets the window waits for     *)
(* first (packLostPacket, getLostPacketsFromNACK).                         *)
THEOREM ReportsBeginRight == Spec => []FirstLossesUnderstood
  BY LossesStayInWindow, FirstUnderstood, PTL
=============================================================================

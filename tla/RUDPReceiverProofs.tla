-------------------------- MODULE RUDPReceiverProofs --------------------------
(***************************************************************************)
(* What the receiving half rests on and does, for every stream, every      *)
(* MaxSN and every window it leaves room for: the arithmetic of serial     *)
(* numbers, the window test, the codec of the NACK packets, and what an    *)
(* arrival does to the window.                                             *)
(***************************************************************************)
EXTENDS RUDPReceiver, SequenceTheorems, FiniteSetTheorems, WellFoundedInduction, TLAPS

-----------------------------------------------------------------------------
(* Remainders modulo a positive M.                                         *)

(* Division with remainder.                                                *)
LEMMA DivMod ==
  ASSUME NEW M \in Nat \ {0}, NEW a \in Int
  PROVE  /\ a \div M \in Int
         /\ a % M \in 0 .. M - 1
         /\ a = M * (a \div M) + (a % M)
  OBVIOUS

(* The only multiple of M nearer to 0 than M is 0.                         *)
LEMMA SmallMultiple ==
  ASSUME NEW M \in Nat \ {0}, NEW k \in Int, -M < M * k, M * k < M
  PROVE  k = 0
  <1>1. CASE k >= 1
    <2>1. M * k >= M BY <1>1
    <2> QED BY <2>1
  <1>2. CASE k <= -1
    <2>1. M * k <= -M BY <1>2
    <2> QED BY <2>1
  <1> QED BY <1>1, <1>2

(* Multiplication distributes over addition.                               *)
LEMMA Distribute ==
  ASSUME NEW M \in Int, NEW u \in Int, NEW v \in Int
  PROVE  M * (u + v) = M * u + M * v
  OBVIOUS

(* The remainder is unique.                                                *)
LEMMA RemainderUnique ==
  ASSUME NEW M \in Nat \ {0}, NEW q \in Int, NEW r \in 0 .. M - 1,
         NEW a \in Int, a = M * q + r
  PROVE  a % M = r
  <1> DEFINE k == q - (a \div M)
  <1>1. /\ a = M * (a \div M) + (a % M)
        /\ a % M \in 0 .. M - 1
        /\ a \div M \in Int
    BY DivMod
  <1>2. M * k = (a % M) - r BY <1>1
  <1>3. k = 0 BY <1>1, <1>2, SmallMultiple
  <1> QED BY <1>1, <1>2, <1>3

(* Numbers nearer to each other than M are told apart by their remainders. *)
LEMMA NearRemainders ==
  ASSUME NEW M \in Nat \ {0}, NEW a \in Int, NEW b \in Int,
         a % M = b % M, -M < a - b, a - b < M
  PROVE  a = b
  <1> DEFINE k == (a \div M) - (b \div M)
  <1>1. /\ a = M * (a \div M) + (a % M) /\ a \div M \in Int
        /\ b = M * (b \div M) + (b % M) /\ b \div M \in Int
        /\ a % M \in Int
    BY DivMod
  <1>2. M * k = a - b BY <1>1
  <1>3. k = 0 BY <1>1, <1>2, SmallMultiple
  <1> QED BY <1>1, <1>2, <1>3

(* A remainder may be taken before adding.                                 *)
LEMMA RemainderOfSum ==
  ASSUME NEW M \in Nat \ {0}, NEW a \in Int, NEW b \in Int
  PROVE  ((a % M) + b) % M = (a + b) % M
  <1> DEFINE s == a % M
             c == s + b
             sum == a + b
  <1> DEFINE d == a \div M
  <1>1. d \in Int /\ a = M * d + s /\ s \in Int BY DivMod
  <1> HIDE DEF d, s
  <1>2. PICK q \in Int : a = M * q + s /\ s \in Int BY <1>1
  <1>3. c \in Int /\ sum \in Int /\ sum = M * q + c BY <1>2
  <1> HIDE DEF c, sum
  <1>4. PICK p \in Int, r \in 0 .. M - 1 : c = M * p + r /\ c % M = r
    BY <1>3, DivMod
  <1>5. M * (q + p) = M * q + M * p BY Distribute
  <1>6. PICK k \in Int : k = q + p OBVIOUS
  <1>7. sum = M * k + r BY <1>3, <1>4, <1>5, <1>6
  <1>8. sum % M = r BY <1>7, <1>3, RemainderUnique
  <1> QED BY <1>4, <1>8 DEF c, s, sum

-----------------------------------------------------------------------------
(* Serial numbers.                                                         *)

(* Every position has a serial number.                                     *)
LEMMA SerialOfType ==
  ASSUME NEW n \in Int
  PROVE  SerialOf(n) \in SerialNumber /\ SerialOf(n) = ((n - 1) % MaxSN) + 1
  <1>1. (1 - 1 + (n - 1)) = n - 1 OBVIOUS
  <1>2. (n - 1) % MaxSN \in 0 .. MaxSN - 1
    BY SerialNumberAssumption, DivMod
  <1> QED BY <1>1, <1>2, SerialNumberAssumption DEF SerialOf, Advance, SerialNumber

(* Positions less than MaxSN apart have different serial numbers.          *)
LEMMA SerialOfUnique ==
  ASSUME NEW a \in Int, NEW b \in Int,
         SerialOf(a) = SerialOf(b), a - b < MaxSN, b - a < MaxSN
  PROVE  a = b
  <1>1. (a - 1) % MaxSN = (b - 1) % MaxSN
    <2>1. (a - 1) % MaxSN \in Int /\ (b - 1) % MaxSN \in Int
      BY SerialNumberAssumption, DivMod
    <2> QED BY <2>1, SerialOfType
  <1> DEFINE x == a - 1
             y == b - 1
  <1>2. x \in Int /\ y \in Int /\ x % MaxSN = y % MaxSN /\ -MaxSN < x - y /\ x - y < MaxSN
    BY <1>1, SerialNumberAssumption
  <1> HIDE DEF x, y
  <1>3. x = y BY <1>2, SerialNumberAssumption, NearRemainders
  <1> QED BY <1>3 DEF x, y

(* Advancing by i places leads to the serial number of the i-th packet on. *)
LEMMA AdvanceSerial ==
  ASSUME NEW n \in Int, NEW i \in Int
  PROVE  Advance(SerialOf(n), i) = SerialOf(n + i)
  <1> DEFINE x == n - 1
  <1>1. x \in Int /\ x % MaxSN \in Int BY SerialNumberAssumption, DivMod
  <1>2. Advance(SerialOf(n), i) = (((x % MaxSN) + i) % MaxSN) + 1
    <2>1. SerialOf(n) = (x % MaxSN) + 1 BY SerialOfType
    <2>2. (SerialOf(n) - 1) + i = (x % MaxSN) + i BY <1>1, <2>1
    <2> QED BY <2>2 DEF Advance
  <1>3. x + i = (n + i) - 1 OBVIOUS
  <1> HIDE DEF x
  <1>4. ((x % MaxSN) + i) % MaxSN = (x + i) % MaxSN
    BY <1>1, SerialNumberAssumption, RemainderOfSum
  <1> QED BY <1>2, <1>3, <1>4, SerialOfType

(* The counter of createSerialNumber runs through the serial numbers of    *)
(* the stream.                                                             *)
THEOREM NextSerial ==
  ASSUME NEW n \in Int
  PROVE  NextSN(SerialOf(n)) = SerialOf(n + 1)
  <1> DEFINE x == n - 1
             r == x % MaxSN
  <1>1. x \in Int /\ n = x + 1 OBVIOUS
  <1>2. SerialOf(n) = r + 1 BY SerialOfType
  <1> HIDE DEF x
  <1>3. r \in 0 .. MaxSN - 1 BY <1>1, SerialNumberAssumption, DivMod
  <1>4. SerialOf(n + 1) = ((r + 1) % MaxSN) + 1
    <2>1. \A b \in Int : ((x % MaxSN) + b) % MaxSN = (x + b) % MaxSN
      BY <1>1, SerialNumberAssumption, RemainderOfSum
    <2>2. x + 1 = (n + 1) - 1 BY <1>1
    <2> QED BY <2>1, <2>2, SerialOfType DEF r
  <1> HIDE DEF r
  <1>5. CASE r = MaxSN - 1
    <2>1. (r + 1) % MaxSN = 0
      <3>1. r + 1 = MaxSN * 1 + 0 BY <1>5, SerialNumberAssumption
      <3> QED BY <3>1, <1>3, SerialNumberAssumption, RemainderUnique
    <2> QED BY <2>1, <1>2, <1>4, <1>5, SerialNumberAssumption DEF NextSN
  <1>6. CASE r # MaxSN - 1
    <2>1. (r + 1) % MaxSN = r + 1
      <3>1. r + 1 = MaxSN * 0 + (r + 1) /\ r + 1 \in 0 .. MaxSN - 1
        BY <1>3, <1>6, SerialNumberAssumption
      <3> QED BY <3>1, SerialNumberAssumption, RemainderUnique
    <2> QED BY <2>1, <1>3, <1>2, <1>4, <1>6, SerialNumberAssumption DEF NextSN
  <1> QED BY <1>5, <1>6

-----------------------------------------------------------------------------
(* The window test.                                                        *)

(* The remainder of a number k places on, k smaller than M.                *)
LEMMA RemainderAhead ==
  ASSUME NEW M \in Nat \ {0}, NEW a \in Int, NEW k \in Int, -M < k, k < M
  PROVE  (a + k) % M = CASE (a % M) + k < 0  -> (a % M) + k + M
                         [] (a % M) + k >= M -> (a % M) + k - M
                         [] OTHER            -> (a % M) + k
  <1> DEFINE s == (a % M) + k
  <1>1. a % M \in 0 .. M - 1 BY DivMod
  <1>2. (a + k) % M = s % M BY RemainderOfSum
  <1>3. s \in Int /\ s > -M /\ s < 2 * M BY <1>1
  <1> HIDE DEF s
  <1>4. CASE s < 0
    <2>1. s = M * (-1) + (s + M) /\ s + M \in 0 .. M - 1 BY <1>3, <1>4
    <2>2. s % M = s + M BY <2>1, <1>3, RemainderUnique
    <2> QED BY <2>2, <1>2, <1>3, <1>4 DEF s
  <1>5. CASE s >= M
    <2>1. s = M * 1 + (s - M) /\ s - M \in 0 .. M - 1 BY <1>3, <1>5
    <2>2. s % M = s - M BY <2>1, <1>3, RemainderUnique
    <2> QED BY <2>2, <1>2, <1>3, <1>5 DEF s
  <1>6. CASE s >= 0 /\ s < M
    <2>1. s = M * 0 + s /\ s \in 0 .. M - 1 BY <1>3, <1>6
    <2>2. s % M = s BY <2>1, <1>3, RemainderUnique
    <2> QED BY <2>2, <1>2, <1>3, <1>6 DEF s
  <1> QED BY <1>3, <1>4, <1>5, <1>6

(* The window test of datagramReceived and tryingToSendPacket finds out    *)
(* whether packet b is one of the size + 1 packets from a on, wrapping or  *)
(* not, as long as b is less than a turn ahead of a and less than a turn   *)
(* behind the end of the window.                                           *)
THEOREM WindowTestExact ==
  ASSUME NEW a \in Int, NEW b \in Int, NEW size \in Nat, size < MaxSN,
         a + size - MaxSN < b, b < a + MaxSN
  PROVE  InWindow(SerialOf(a), size, SerialOf(b)) <=> a <= b /\ b <= a + size
  <1> DEFINE k == b - a
             x == a - 1
             y == b - 1
             r == x % MaxSN
             t == y % MaxSN
  <1>1. SerialOf(a) = r + 1 /\ SerialOf(b) = t + 1 BY SerialOfType
  <1>2. a <= b /\ b <= a + size <=> 0 <= k /\ k <= size OBVIOUS
  <1>3. k \in Int /\ size - MaxSN < k /\ k < MaxSN BY SerialNumberAssumption
  <1>4. x \in Int /\ y \in Int /\ y = x + k OBVIOUS
  <1> HIDE DEF k, x, y
  <1>5. r \in 0 .. MaxSN - 1 /\ t \in 0 .. MaxSN - 1
    BY <1>4, SerialNumberAssumption, DivMod
  <1>6. t = CASE r + k < 0 -> r + k + MaxSN
              [] r + k >= MaxSN -> r + k - MaxSN
              [] OTHER -> r + k
    <2>1. -MaxSN < k BY <1>3, SerialNumberAssumption
    <2> QED BY <2>1, <1>3, <1>4, SerialNumberAssumption, RemainderAhead
  <1> HIDE DEF r, t
  <1>7. CASE r + 1 + size > MaxSN
    <2>1. InWindow(r + 1, size, t + 1)
            <=> ~ (t + 1 > size - (MaxSN - (r + 1)) /\ t + 1 < r + 1)
      BY <1>7 DEF InWindow, Wraps, RightSide
    <2> QED BY <2>1, <1>5, <1>1, <1>3, <1>6, <1>2, <1>7, SerialNumberAssumption
  <1>8. CASE ~ (r + 1 + size > MaxSN)
    <2>1. InWindow(r + 1, size, t + 1)
            <=> r + 1 <= t + 1 /\ t + 1 <= r + 1 + size
      BY <1>8 DEF InWindow, Wraps
    <2> QED BY <2>1, <1>5, <1>1, <1>3, <1>6, <1>2, <1>8, SerialNumberAssumption
  <1> QED BY <1>7, <1>8

-----------------------------------------------------------------------------
(* Induction, and the selection of entries.                                *)

(* The principle of induction, for sets.                                   *)
LEMMA Induction ==
  ASSUME NEW T \in SUBSET Nat, 0 \in T, \A n \in T : n + 1 \in T
  PROVE  T = Nat
  <1> SUFFICES ASSUME Nat \ T # {} PROVE FALSE
    OBVIOUS
  <1>1. PICK x \in Nat \ T : \A y \in Nat \ T : ~ (<<y, x>> \in OpToRel(<, Nat))
    BY WFMin, NatLessThanWellFounded
  <1>2. x - 1 \in T
    <2>1. x - 1 \in Nat /\ x - 1 < x OBVIOUS
    <2>2. <<x - 1, x>> \in OpToRel(<, Nat) BY <2>1 DEF OpToRel
    <2> QED BY <1>1, <2>1, <2>2
  <1>3. (x - 1) + 1 = x OBVIOUS
  <1> QED BY <1>2, <1>3

(* An interval of indices picks what stands there.                         *)
LEMMA PickedInterval ==
  ASSUME NEW s, NEW lo \in Int, NEW hi \in Int, lo <= hi + 1, lo .. hi \subseteq DOMAIN s
  PROVE  Picked(s, lo .. hi) = [k \in 1 .. hi - lo + 1 |-> s[lo + k - 1]]
  <1>1. Cardinality(lo .. hi) = hi - lo + 1 BY FS_Interval
  <1>2. ASSUME NEW k \in 1 .. hi - lo + 1
        PROVE  (CHOOSE i \in lo .. hi : Cardinality({j \in lo .. hi : j <= i}) = k)
                 = lo + k - 1
    <2>1. ASSUME NEW i \in lo .. hi
          PROVE  Cardinality({j \in lo .. hi : j <= i}) = i - lo + 1
      <3>1. {j \in lo .. hi : j <= i} = lo .. i OBVIOUS
      <3>2. Cardinality(lo .. i) = i - lo + 1 BY FS_Interval
      <3> QED BY <3>1, <3>2
    <2>2. lo + k - 1 \in lo .. hi /\ (lo + k - 1) - lo + 1 = k OBVIOUS
    <2>3. ASSUME NEW i \in lo .. hi, i - lo + 1 = k PROVE i = lo + k - 1
      BY <2>3
    <2> QED BY <2>1, <2>2, <2>3
  <1> DEFINE nth(k) == CHOOSE i \in lo .. hi : Cardinality({j \in lo .. hi : j <= i}) = k
  <1>3. Picked(s, lo .. hi) = [k \in 1 .. Cardinality(lo .. hi) |-> s[nth(k)]]
    BY Zenon DEF Picked
  <1>4. \A k \in 1 .. hi - lo + 1 : s[nth(k)] = s[lo + k - 1] BY <1>2
  <1> HIDE DEF nth
  <1> QED BY <1>1, <1>3, <1>4

(* The k-th index of a set of indices exists.                              *)
LEMMA IndexExists ==
  ASSUME NEW n \in Nat, NEW kept \in SUBSET (1 .. n), NEW at \in 1 .. Cardinality(kept)
  PROVE  \E i \in kept : Cardinality({j \in kept : j <= i}) = at
  <1> DEFINE Nth(K, i, k) == Cardinality({j \in K : j <= i}) = k
             T == {m \in Nat : \A K \in SUBSET (1 .. m) : \A k \in 1 .. Cardinality(K) :
                                 \E i \in K : Nth(K, i, k)}
  <1>1. 0 \in T
    <2>1. ASSUME NEW K \in SUBSET (1 .. 0) PROVE Cardinality(K) = 0
      <3>1. K = {} OBVIOUS
      <3> QED BY <3>1, FS_EmptySet
    <2> QED BY <2>1
  <1>2. ASSUME NEW m \in T PROVE m + 1 \in T
    <2> SUFFICES ASSUME NEW K \in SUBSET (1 .. m + 1), NEW k \in 1 .. Cardinality(K)
                 PROVE  \E i \in K : Nth(K, i, k)
      <3>1. m + 1 \in Nat OBVIOUS
      <3> HIDE DEF Nth
      <3> QED BY <3>1, Zenon
    <2> DEFINE J == K \ {m + 1}
    <2>1. J \in SUBSET (1 .. m) /\ m \in Nat OBVIOUS
    <2>2. IsFiniteSet(K) /\ IsFiniteSet(J)
      <3>1. IsFiniteSet(1 .. m + 1) BY <2>1, FS_Interval
      <3> QED BY <3>1, FS_Subset
    <2>3. Cardinality(J) = IF m + 1 \in K THEN Cardinality(K) - 1 ELSE Cardinality(K)
      BY <2>2, FS_RemoveElement
    <2>4. Cardinality(J) \in Nat /\ Cardinality(K) \in Nat BY <2>2, FS_CardinalityType
    <2>5. CASE k <= Cardinality(J)
      <3>1. k \in 1 .. Cardinality(J) BY <2>4, <2>5
      <3>2. PICK i \in J : Nth(J, i, k) BY <2>1, <3>1
      <3>3. {j \in J : j <= i} = {j \in K : j <= i} BY <2>1
      <3> QED BY <3>2, <3>3
    <2>6. CASE ~ (k <= Cardinality(J))
      <3>1. m + 1 \in K /\ k = Cardinality(K) BY <2>3, <2>4, <2>6
      <3>2. {j \in K : j <= m + 1} = K
        <4>1. \A j \in K : j <= m + 1 OBVIOUS
        <4> QED BY <4>1
      <3> QED BY <3>1, <3>2
    <2> QED BY <2>5, <2>6
  <1>3. T = Nat
    <2> HIDE DEF T
    <2>1. T \in SUBSET Nat BY DEF T
    <2> QED BY <1>1, <1>2, <2>1, Induction
  <1> QED BY <1>3

(* Any set of indices picks entries that stand there.                      *)
LEMMA PickedEntries ==
  ASSUME NEW s, NEW n \in Nat, NEW kept \in SUBSET (1 .. n), DOMAIN s = 1 .. n
  PROVE  /\ Cardinality(kept) \in Nat
         /\ Picked(s, kept) = [k \in 1 .. Cardinality(kept) |-> Picked(s, kept)[k]]
         /\ \A k \in 1 .. Cardinality(kept) : \E i \in kept : Picked(s, kept)[k] = s[i]
  <1> DEFINE Nth(K, i, k) == Cardinality({j \in K : j <= i}) = k
  <1>4. IsFiniteSet(kept) /\ Cardinality(kept) \in Nat
    <2>1. IsFiniteSet(1 .. n) BY FS_Interval
    <2> QED BY <2>1, FS_Subset, FS_CardinalityType
  <1>5. ASSUME NEW k \in 1 .. Cardinality(kept)
        PROVE  \E i \in kept : Picked(s, kept)[k] = s[i]
    <2>1. \E i \in kept : Nth(kept, i, k) BY IndexExists
    <2>2. (CHOOSE i \in kept : Nth(kept, i, k)) \in kept BY <2>1
    <2>3. Picked(s, kept)[k] = s[CHOOSE i \in kept : Nth(kept, i, k)] BY DEF Picked
    <2> QED BY <2>2, <2>3
  <1> QED BY ZenonT(30), <1>4, <1>5 DEF Picked

(* The picked entries are entries.                                         *)
LEMMA PickedIn ==
  ASSUME NEW Q, NEW s \in Seq(Q), NEW kept \in SUBSET DOMAIN s,
         NEW R, \A i \in kept : s[i] \in R
  PROVE  Picked(s, kept) \in Seq(R)
  <1>1. DOMAIN s = 1 .. Len(s) /\ Len(s) \in Nat BY LenProperties
  <1>2. kept \in SUBSET (1 .. Len(s)) BY <1>1
  <1>3. /\ Cardinality(kept) \in Nat
        /\ Picked(s, kept) = [k \in 1 .. Cardinality(kept) |-> Picked(s, kept)[k]]
        /\ \A k \in 1 .. Cardinality(kept) : \E i \in kept : Picked(s, kept)[k] = s[i]
    BY <1>1, <1>2, PickedEntries
  <1> DEFINE p == Picked(s, kept)
             n == Cardinality(kept)
  <1>4. n \in Nat /\ p = [k \in 1 .. n |-> p[k]] /\ \A k \in 1 .. n : p[k] \in R
    BY <1>3
  <1> HIDE DEF p, n
  <1>5. p \in Seq(R) BY <1>4
  <1> QED BY <1>5 DEF p

-----------------------------------------------------------------------------
(* The NACK codec.                                                         *)

(* A recursion over 0 .. n has a solution: there is a function that starts *)
(* with base and whose every value comes from the one before through step. *)
Solvable(n, X, base, step) ==
  \E g \in [0 .. n -> X] : g[0] = base /\ \A i \in 1 .. n : g[i] = step[i][g[i - 1]]

(* Such a recursion always has a solution, by induction over n.            *)
LEMMA RecursionSolved ==
  ASSUME NEW n \in Nat, NEW X, NEW base \in X, NEW step \in [1 .. n -> [X -> X]]
  PROVE  Solvable(n, X, base, step)
  <1> DEFINE Solves(g, m) ==
               /\ g \in [0 .. m -> X]
               /\ g[0] = base
               /\ \A i \in 1 .. m : i <= n => g[i] = step[i][g[i - 1]]
             T == {m \in Nat : m <= n => \E g : Solves(g, m)}
  <1>1. 0 \in T
    <2> DEFINE g == [i \in 0 .. 0 |-> base]
    <2>1. Solves(g, 0) OBVIOUS
    <2> HIDE DEF Solves
    <2> QED BY <2>1
  <1>2. ASSUME NEW m \in T PROVE m + 1 \in T
    <2>1. m \in Nat /\ (m <= n => \E g : Solves(g, m))
      <3> HIDE DEF Solves
      <3> QED OBVIOUS
    <2>2. ASSUME m + 1 <= n PROVE \E g : Solves(g, m + 1)
      <3>1. m <= n BY <2>1, <2>2
      <3>2. PICK g : Solves(g, m)
        <4> HIDE DEF Solves
        <4> QED BY <2>1, <3>1
      <3> DEFINE new == step[m + 1][g[m]]
                 h == [i \in 0 .. m + 1 |-> IF i <= m THEN g[i] ELSE new]
      <3>3. new \in X
        <4>1. g[m] \in X /\ m + 1 \in 1 .. n BY <2>1, <2>2, <3>2
        <4> HIDE DEF Solves
        <4> QED BY <4>1
      <3> HIDE DEF new
      <3>4. h \in [0 .. m + 1 -> X] /\ h[0] = base BY <2>1, <3>2, <3>3
      <3>5. ASSUME NEW i \in 1 .. m + 1 PROVE h[i] = step[i][h[i - 1]]
        <4>1. CASE i <= m
          <5>1. h[i] = g[i] /\ h[i - 1] = g[i - 1] BY <2>1, <4>1
          <5>2. i \in 1 .. m /\ i <= n BY <2>1, <3>1, <4>1
          <5>3. g[i] = step[i][g[i - 1]] BY <3>2, <5>2
          <5> QED BY <5>1, <5>3
        <4>2. CASE ~ (i <= m)
          <5>1. i = m + 1 /\ h[i] = new /\ h[i - 1] = g[m] BY <2>1, <4>2
          <5> QED BY <5>1 DEF new
        <4> QED BY <4>1, <4>2
      <3> HIDE DEF h
      <3>6. Solves(h, m + 1) BY <3>4, <3>5
      <3> HIDE DEF Solves
      <3> QED BY <3>6
    <2> HIDE DEF Solves
    <2> QED BY <2>1, <2>2
  <1>3. T = Nat
    <2> HIDE DEF T
    <2>1. T \in SUBSET Nat BY DEF T
    <2> QED BY <1>1, <1>2, <2>1, Induction
  <1>4. \E g : Solves(g, n)
    <2>1. n \in T
      <3> HIDE DEF T
      <3> QED BY <1>3
    <2> HIDE DEF Solves
    <2> QED BY <2>1
  <1> QED BY <1>4 DEF Solvable

-----------------------------------------------------------------------------
(* The encoder                                                             *)

(* What packLostPacket writes for a loss are 16-bit units, numbers all.    *)
LEMMA UnitsType ==
  ASSUME NEW R \in Seq(Int), NEW i \in 1 .. Len(R)
  PROVE  Units(R, i) \in Seq(Int)
  <1>1. R[i] \in Int BY ElementOfSeq
  <1>2. /\ <<R[i]>> \in Seq(Int) /\ <<Comma>> \in Seq(Int)
        /\ <<Dash, R[i]>> \in Seq(Int) /\ <<>> \in Seq(Int)
    BY <1>1 DEF Comma, Dash
  <1> DEFINE a == IF Starts(R, i) THEN <<R[i]>> ELSE <<>>
             b == IF Ends(R, i)
                  THEN IF Starts(R, i) THEN <<Comma>> ELSE <<Dash, R[i]>>
                  ELSE <<>>
  <1>3. a \in Seq(Int) /\ b \in Seq(Int) BY <1>2
  <1>4. Units(R, i) = a \o b BY DEF Units
  <1> HIDE DEF a, b
  <1> QED BY <1>3, <1>4, ConcatProperties

(* The body grows by the units of each loss.                               *)
LEMMA EncodedEquation ==
  ASSUME NEW R \in Seq(Int)
  PROVE  /\ EncodedUpTo(R)[0] = <<>>
         /\ \A i \in 1 .. Len(R) :
              EncodedUpTo(R)[i] = EncodedUpTo(R)[i - 1] \o Units(R, i)
  <1> DEFINE n == Len(R)
             X == Seq(Int)
             step == [i \in 1 .. n |-> [x \in X |-> x \o Units(R, i)]]
             Solves(g) == g = [i \in 0 .. n |-> IF i = 0 THEN <<>>
                                                ELSE g[i - 1] \o Units(R, i)]
  <1>1. n \in Nat /\ <<>> \in X BY LenProperties, EmptySeq
  <1>2. \A i \in 1 .. n : Units(R, i) \in X BY UnitsType
  <1>3. step \in [1 .. n -> [X -> X]]
    <2>1. \A i \in 1 .. n : \A x \in X : x \o Units(R, i) \in X
      BY <1>2, ConcatProperties
    <2> HIDE DEF X
    <2> QED BY <2>1
  <1>4. \A i \in 1 .. n : \A x \in X : step[i][x] = x \o Units(R, i)
    <2> HIDE DEF X, n
    <2> QED OBVIOUS
  <1> HIDE DEF step
  <1>5. PICK g \in [0 .. n -> X] :
               g[0] = <<>> /\ \A i \in 1 .. n : g[i] = step[i][g[i - 1]]
    <2> DEFINE base == <<>>
    <2> HIDE DEF X, n, base
    <2>1. base \in X BY <1>1 DEF base
    <2>2. Solvable(n, X, base, step) BY <1>1, <1>3, <2>1, RecursionSolved
    <2> QED BY <2>2 DEF base, Solvable
  <1>6. \A i \in 0 .. n : g[i] = IF i = 0 THEN <<>> ELSE g[i - 1] \o Units(R, i)
    <2> TAKE i \in 0 .. n
    <2>1. CASE i = 0 BY <1>5, <2>1
    <2>2. CASE i # 0
      <3>1. i \in 1 .. n /\ i - 1 \in 0 .. n BY <1>1, <2>2
      <3>2. g[i - 1] \in X
        <4> HIDE DEF X, n
        <4> QED BY <3>1
      <3>3. g[i] = g[i - 1] \o Units(R, i) BY <1>4, <1>5, <3>1, <3>2
      <3> QED BY <2>2, <3>3
    <2> QED BY <2>1, <2>2
  <1>7. Solves(g)
    <2>1. g = [i \in 0 .. n |-> g[i]]
      <3> HIDE DEF X, n
      <3> QED OBVIOUS
    <2> HIDE DEF X, n
    <2> QED BY <1>6, <2>1
  <1>8. EncodedUpTo(R) = CHOOSE f : Solves(f) BY Zenon DEF EncodedUpTo
  <1>9. Solves(EncodedUpTo(R))
    <2> HIDE DEF Solves
    <2> QED BY <1>7, <1>8
  <1> DEFINE F == EncodedUpTo(R)
  <1>10. F = [i \in 0 .. n |-> IF i = 0 THEN <<>> ELSE F[i - 1] \o Units(R, i)]
    BY <1>9
  <1> HIDE DEF F
  <1>11. \A i \in 0 .. n : F[i] = IF i = 0 THEN <<>> ELSE F[i - 1] \o Units(R, i)
    <2> HIDE DEF n
    <2> QED BY <1>10
  <1>12. 0 \in 0 .. n /\ \A i \in 1 .. n : i \in 0 .. n /\ i # 0 BY <1>1
  <1> HIDE DEF n
  <1>13. F[0] = <<>> /\ \A i \in 1 .. n : F[i] = F[i - 1] \o Units(R, i)
    BY <1>11, <1>12, Zenon
  <1> QED BY <1>13 DEF F, n

(* What each loss adds to the body.                                        *)
LEMMA UnitsCases ==
  ASSUME NEW R \in Seq(Int), NEW i \in 1 .. Len(R), NEW b \in Seq(Int)
  PROVE  /\ Starts(R, i) /\ Ends(R, i)
              => b \o Units(R, i) = (b \o <<R[i]>>) \o <<Comma>>
         /\ Starts(R, i) /\ ~ Ends(R, i) => b \o Units(R, i) = b \o <<R[i]>>
         /\ ~ Starts(R, i) /\ Ends(R, i)
              => b \o Units(R, i) = (b \o <<Dash>>) \o <<R[i]>>
         /\ ~ Starts(R, i) /\ ~ Ends(R, i) => b \o Units(R, i) = b
  <1> DEFINE x == R[i]
  <1>1. x \in Int BY ElementOfSeq
  <1> HIDE DEF x
  <1>2. /\ <<x>> \in Seq(Int) /\ <<Comma>> \in Seq(Int) /\ <<Dash>> \in Seq(Int)
        /\ <<>> \in Seq(Int)
    BY <1>1 DEF Comma, Dash
  <1>3. (b \o <<x>>) \o <<Comma>> = b \o (<<x>> \o <<Comma>>)
    BY SMTT(30), <1>2, ConcatAssociative
  <1>4. (b \o <<Dash>>) \o <<x>> = b \o (<<Dash>> \o <<x>>)
    BY SMTT(30), <1>2, ConcatAssociative
  <1>5. <<Dash>> \o <<x>> = <<Dash, x>> /\ <<>> \o <<Dash, x>> = <<Dash, x>>
    <2>1. <<Dash>> \o <<x>> = <<Dash, x>>
      <3> DEFINE d == Dash
      <3>1. d \in Int BY DEF Dash
      <3> HIDE DEF d
      <3> DEFINE s == <<d>>
                 u == <<x>>
                 both == <<d, x>>
      <3>2. /\ s \in Seq(Int) /\ Len(s) = 1 /\ s[1] = d
            /\ u \in Seq(Int) /\ Len(u) = 1 /\ u[1] = x
            /\ both \in Seq(Int) /\ Len(both) = 2 /\ both[1] = d /\ both[2] = x
        BY <1>1, <3>1
      <3> HIDE DEF s, u, both
      <3>3. /\ s \o u \in Seq(Int) /\ Len(s \o u) = Len(s) + Len(u)
            /\ \A v \in 1 .. Len(s) + Len(u) :
                 (s \o u)[v] = IF v <= Len(s) THEN s[v] ELSE u[v - Len(s)]
        BY <3>2, ConcatProperties
      <3>4. Len(s \o u) = 2 /\ (s \o u)[1] = d /\ (s \o u)[2] = x BY <3>2, <3>3
      <3>5. s \o u = both
        <4>1. \A v \in 1 .. 2 : (s \o u)[v] = both[v] BY <3>2, <3>4
        <4> QED BY <3>2, <3>3, <3>4, <4>1, SeqEqual
      <3> QED BY <3>5 DEF d, s, u, both
    <2>2. <<Dash, x>> \in Seq(Int) BY <1>1 DEF Dash
    <2> QED BY <2>1, <2>2, ConcatEmptySeq
  <1>6. <<x>> \o <<>> = <<x>> /\ <<>> \o <<>> = <<>> /\ b \o <<>> = b
    BY <1>2, ConcatEmptySeq
  <1> QED BY <1>3, <1>4, <1>5, <1>6 DEF Units, x

(* How the units of a body stand for losses: a unit is the number of a     *)
(* loss, the comma behind one or the dash behind one that the next loss    *)
(* follows, and of two neighbours one is a number.                         *)
Kinds == {"number", "comma", "dash"}

Marked(R, b, at, kind) ==
  /\ \A u \in 1 .. Len(b) :
       /\ at[u] \in 1 .. Len(R) /\ kind[u] \in Kinds
       /\ kind[u] = "number" => b[u] = R[at[u]]
       /\ kind[u] = "comma" => b[u] = Comma
       /\ kind[u] = "dash" => b[u] = Dash
  /\ Len(b) > 0 => kind[1] = "number"
  /\ \A u \in 1 .. Len(b) - 1 :
       /\ at[u] <= at[u + 1]
       /\ kind[u] = "number" \/ kind[u + 1] = "number"
       /\ kind[u + 1] = "dash" => R[at[u + 1]] = R[at[u]] + 1

(* Another unit of kind k that stands for the loss a.                      *)
Grown(R, b, at, x, k, a) ==
  \E at2, kind2 :
    /\ Marked(R, b \o <<x>>, at2, kind2)
    /\ at2[Len(b) + 1] = a /\ kind2[Len(b) + 1] = k
    /\ \A u \in 1 .. Len(b) : at2[u] = at[u]

(* A unit that fits behind the last one extends what the body stands for.  *)
LEMMA MarkedGrows ==
  ASSUME NEW R \in Seq(Int), NEW b \in Seq(Int), NEW at, NEW kind, Marked(R, b, at, kind),
         NEW x \in Int, NEW k \in Kinds, NEW a \in 1 .. Len(R),
         k = "number" => x = R[a], k = "comma" => x = Comma, k = "dash" => x = Dash,
         Len(b) = 0 => k = "number",
         Len(b) > 0 => /\ at[Len(b)] <= a
                       /\ kind[Len(b)] = "number" \/ k = "number"
                       /\ k = "dash" => R[a] = R[at[Len(b)]] + 1
  PROVE  Grown(R, b, at, x, k, a)
  <1>1. PICK n \in Nat : n = Len(b) BY LenProperties
  <1> DEFINE c == b \o <<x>>
             at2 == [u \in 1 .. n + 1 |-> IF u = n + 1 THEN a ELSE at[u]]
             kind2 == [u \in 1 .. n + 1 |-> IF u = n + 1 THEN k ELSE kind[u]]
  <1>2. Len(c) = n + 1 /\ c[n + 1] = x /\ \A u \in 1 .. n : c[u] = b[u]
    <2>1. <<x>> \in Seq(Int) /\ Len(<<x>>) = 1 /\ <<x>>[1] = x OBVIOUS
    <2> DEFINE t == <<x>>
    <2> HIDE DEF t
    <2>2. /\ Len(b \o t) = Len(b) + Len(t)
          /\ \A i \in 1 .. Len(b) + Len(t) :
               (b \o t)[i] = IF i <= Len(b) THEN b[i] ELSE t[i - Len(b)]
      BY <2>1, ConcatProperties DEF t
    <2>3. Len(t) = 1 /\ t[1] = x BY <2>1 DEF t
    <2> QED BY <1>1, <2>2, <2>3 DEF t
  <1> HIDE DEF c
  <1>3. /\ at2[n + 1] = a /\ kind2[n + 1] = k
        /\ \A u \in 1 .. n : at2[u] = at[u] /\ kind2[u] = kind[u]
    BY <1>1
  <1> HIDE DEF at2, kind2
  <1>4. \A u \in 1 .. n + 1 :
          /\ at2[u] \in 1 .. Len(R) /\ kind2[u] \in Kinds
          /\ kind2[u] = "number" => c[u] = R[at2[u]]
          /\ kind2[u] = "comma" => c[u] = Comma
          /\ kind2[u] = "dash" => c[u] = Dash
    <2> TAKE u \in 1 .. n + 1
    <2>1. CASE u \in 1 .. n BY ZenonT(30), <1>1, <1>2, <1>3, <2>1 DEF Marked
    <2>2. CASE u = n + 1 BY <1>2, <1>3, <2>2
    <2> QED BY <1>1, <2>1, <2>2
  <1>5. kind2[1] = "number" BY SMTT(30), <1>1, <1>3 DEF Marked
  <1>6. \A u \in 1 .. n :
          /\ at2[u] <= at2[u + 1]
          /\ kind2[u] = "number" \/ kind2[u + 1] = "number"
          /\ kind2[u + 1] = "dash" => R[at2[u + 1]] = R[at2[u]] + 1
    <2> TAKE u \in 1 .. n
    <2>1. CASE u \in 1 .. n - 1
      <3>1. u \in 1 .. n /\ u + 1 \in 1 .. n BY <1>1, <2>1
      <3> QED BY <1>1, <1>3, <2>1, <3>1 DEF Marked
    <2>2. CASE u = n BY SMTT(30), <1>1, <1>3, <2>2
    <2> QED BY <1>1, <2>1, <2>2
  <1>7. (n + 1) - 1 = n BY <1>1
  <1>8. Marked(R, c, at2, kind2) BY <1>2, <1>4, <1>5, <1>6, <1>7 DEF Marked
  <1>9. \A u \in 1 .. Len(b) : at2[u] = at[u] BY <1>1, <1>3
  <1> QED BY <1>1, <1>3, <1>8, <1>9 DEF Grown, c

(* The body after the first i losses; an open range ends in the number of  *)
(* its first loss.                                                         *)
EncodedTo(R, b, i) ==
  \E at, kind :
    /\ Marked(R, b, at, kind)
    /\ \A u \in 1 .. Len(b) : at[u] <= i
    /\ i > 0 => Len(b) > 0
    /\ i > 0 /\ ~ Ends(R, i)
         => /\ kind[Len(b)] = "number"
            /\ at[Len(b)] < Len(R)
            /\ R[at[Len(b)] + 1] = R[at[Len(b)]] + 1

(* One more unit, when all before stands for losses up to i.               *)
Added(R, b, i, x, k, a) ==
  /\ b \o <<x>> \in Seq(Int)
  /\ Len(b \o <<x>>) = Len(b) + 1
  /\ \E at2, kind2 :
       /\ Marked(R, b \o <<x>>, at2, kind2)
       /\ at2[Len(b) + 1] = a /\ kind2[Len(b) + 1] = k
       /\ \A u \in 1 .. Len(b) + 1 : at2[u] <= i

(* The same, keeping to the losses up to i.                                *)
LEMMA UnitAdded ==
  ASSUME NEW R \in Seq(Int), NEW b \in Seq(Int), NEW at, NEW kind, Marked(R, b, at, kind),
         NEW i \in 1 .. Len(R), \A u \in 1 .. Len(b) : at[u] <= i,
         NEW x \in Int, NEW k \in Kinds, NEW a \in 1 .. i,
         k = "number" => x = R[a], k = "comma" => x = Comma, k = "dash" => x = Dash,
         Len(b) = 0 => k = "number",
         Len(b) > 0 => /\ at[Len(b)] <= a
                       /\ kind[Len(b)] = "number" \/ k = "number"
                       /\ k = "dash" => R[a] = R[at[Len(b)]] + 1
  PROVE  Added(R, b, i, x, k, a)
  <1>1. PICK n \in Nat : n = Len(b) BY LenProperties
  <1>2. b \o <<x>> \in Seq(Int) /\ Len(b \o <<x>>) = n + 1
    <2>1. <<x>> \in Seq(Int) /\ Len(<<x>>) = 1 OBVIOUS
    <2> DEFINE t == <<x>>
    <2> HIDE DEF t
    <2>2. b \o t \in Seq(Int) /\ Len(b \o t) = Len(b) + Len(t)
      BY <2>1, ConcatProperties DEF t
    <2> QED BY <1>1, <2>1, <2>2 DEF t
  <1>3. a \in 1 .. Len(R)
    <2>1. Len(R) \in Nat BY LenProperties
    <2> QED BY <2>1
  <1>4. Grown(R, b, at, x, k, a) BY <1>3, MarkedGrows
  <1>5. PICK at2, kind2 :
          /\ Marked(R, b \o <<x>>, at2, kind2)
          /\ at2[n + 1] = a /\ kind2[n + 1] = k
          /\ \A u \in 1 .. n : at2[u] = at[u]
    BY <1>1, <1>4 DEF Grown
  <1>6. \A u \in 1 .. n + 1 : at2[u] <= i
    <2> TAKE u \in 1 .. n + 1
    <2>1. CASE u \in 1 .. n BY <1>1, <1>5, <2>1
    <2>2. CASE u = n + 1 BY <1>5, <2>2
    <2> QED BY <1>1, <2>1, <2>2
  <1> QED BY <1>1, <1>2, <1>5, <1>6 DEF Added

(* packLostPacket leaves the body readable after each loss it writes.      *)
LEMMA LossEncoded ==
  ASSUME NEW R \in Seq(Int), NEW i \in 1 .. Len(R), NEW b \in Seq(Int),
         EncodedTo(R, b, i - 1)
  PROVE  b \o Units(R, i) \in Seq(Int) /\ EncodedTo(R, b \o Units(R, i), i)
  <1>1. PICK at, kind :
          /\ Marked(R, b, at, kind)
          /\ \A u \in 1 .. Len(b) : at[u] <= i - 1
          /\ i - 1 > 0 => Len(b) > 0
          /\ i - 1 > 0 /\ ~ Ends(R, i - 1)
               => /\ kind[Len(b)] = "number"
                  /\ at[Len(b)] < Len(R)
                  /\ R[at[Len(b)] + 1] = R[at[Len(b)]] + 1
    BY DEF EncodedTo
  <1>2. PICK n \in Nat : n = Len(b) BY LenProperties
  <1>3. Len(R) \in Nat /\ R[i] \in Int BY LenProperties, ElementOfSeq
  <1>4. \A u \in 1 .. n : at[u] \in Int /\ at[u] <= i /\ at[u] >= 1
    <2> TAKE u \in 1 .. n
    <2>1. at[u] \in 1 .. Len(R) /\ at[u] <= i - 1 BY <1>1, <1>2 DEF Marked
    <2> QED BY <1>3, <2>1
  <1>5. CASE Starts(R, i)
    <2> DEFINE x == R[i]
               c == b \o <<x>>
    <2>1. /\ c \in Seq(Int) /\ Len(c) = n + 1
          /\ \E at2, kind2 :
               /\ Marked(R, c, at2, kind2)
               /\ at2[n + 1] = i /\ kind2[n + 1] = "number"
               /\ \A u \in 1 .. n + 1 : at2[u] <= i
      <3> DEFINE k == "number"
      <3>1. /\ x \in Int /\ k \in Kinds /\ i \in 1 .. i
            /\ k = "number" => x = R[i]
            /\ k = "comma" => x = Comma
            /\ k = "dash" => x = Dash
            /\ Len(b) = 0 => k = "number"
        BY <1>3 DEF Kinds
      <3>2. Len(b) > 0 => /\ at[Len(b)] <= i
                          /\ kind[Len(b)] = "number" \/ k = "number"
                          /\ k = "dash" => R[i] = R[at[Len(b)]] + 1
        BY <1>2, <1>4
      <3>3. \A u \in 1 .. Len(b) : at[u] <= i BY <1>2, <1>4
      <3> HIDE DEF x
      <3>4. k = "number" OBVIOUS
      <3> HIDE DEF k
      <3>5. Added(R, b, i, x, k, i) BY <1>1, <3>1, <3>2, <3>3, UnitAdded
      <3> QED BY <1>2, <3>4, <3>5 DEF Added
    <2>2. PICK at2, kind2 :
            /\ Marked(R, c, at2, kind2)
            /\ at2[n + 1] = i /\ kind2[n + 1] = "number"
            /\ \A u \in 1 .. n + 1 : at2[u] <= i
      BY <2>1
    <2> HIDE DEF c
    <2>3. CASE ~ Ends(R, i)
      <3>1. b \o Units(R, i) = c BY <1>5, <2>3, UnitsCases DEF c
      <3>2. i < Len(R) /\ R[i + 1] = R[i] + 1 BY <1>3, <2>3 DEF Ends
      <3>3. EncodedTo(R, c, i)
        <4>1. Len(c) = n + 1 /\ n + 1 > 0 BY <1>2, <2>1
        <4> HIDE DEF x
        <4> QED BY <2>2, <3>2, <4>1 DEF EncodedTo
      <3> QED BY <2>1, <3>1, <3>3
    <2>4. CASE Ends(R, i)
      <3>1. b \o Units(R, i) = c \o <<Comma>> BY <1>5, <2>4, UnitsCases DEF c
      <3> DEFINE k == "comma"
                 y == Comma
      <3>2. /\ y \in Int /\ k \in Kinds /\ i \in 1 .. i
            /\ k = "number" => y = R[i]
            /\ k = "comma" => y = Comma
            /\ k = "dash" => y = Dash
            /\ Len(c) # 0
        BY <1>2, <2>1 DEF Kinds, Comma
      <3>3. Len(c) > 0 => /\ at2[Len(c)] <= i
                          /\ kind2[Len(c)] = "number" \/ k = "number"
                          /\ k = "dash" => R[i] = R[at2[Len(c)]] + 1
        BY <1>2, <2>1, <2>2
      <3>4. \A u \in 1 .. Len(c) : at2[u] <= i BY <2>1, <2>2
      <3> HIDE DEF k, y
      <3>5. Added(R, c, i, y, k, i) BY <2>1, <2>2, <3>2, <3>3, <3>4, UnitAdded
      <3> DEFINE e == c \o <<y>>
      <3>6. e \in Seq(Int) /\ Len(e) = n + 2 /\ Len(c) + 1 = n + 2
        BY <1>2, <2>1, <3>5 DEF Added
      <3>7. EncodedTo(R, e, i)
        <4>1. PICK at3, kind3 :
                Marked(R, e, at3, kind3) /\ \A u \in 1 .. n + 2 : at3[u] <= i
          BY <3>5, <3>6 DEF Added
        <4> HIDE DEF e
        <4> QED BY <2>4, <3>6, <4>1 DEF EncodedTo
      <3> QED BY <3>1, <3>6, <3>7 DEF y
    <2> QED BY <2>3, <2>4
  <1>6. CASE ~ Starts(R, i)
    <2>1. i # 1 /\ R[i] = R[i - 1] + 1 BY <1>6 DEF Starts
    <2>2. i - 1 > 0 /\ ~ Ends(R, i - 1) BY <1>3, <2>1 DEF Ends
    <2>3. /\ n > 0 /\ kind[n] = "number" /\ at[n] < Len(R)
          /\ R[at[n] + 1] = R[at[n]] + 1 /\ at[n] \in Int /\ at[n] + 1 <= i /\ at[n] >= 1
      BY SMTT(30), <1>1, <1>2, <1>4, <2>2
    <2>4. CASE ~ Ends(R, i)
      <3>1. b \o Units(R, i) = b BY <1>6, <2>4, UnitsCases
      <3>2. EncodedTo(R, b, i) BY <1>1, <1>2, <1>4, <2>3 DEF EncodedTo
      <3> QED BY <3>1, <3>2
    <2>5. CASE Ends(R, i)
      <3> DEFINE x == R[i]
                 y == Dash
                 s == at[n] + 1
                 c == b \o <<y>>
                 d == "dash"
      <3>1. b \o Units(R, i) = c \o <<x>> BY <1>6, <2>5, UnitsCases
      <3>2. /\ y \in Int /\ d \in Kinds /\ s \in 1 .. i
            /\ d = "number" => y = R[s]
            /\ d = "comma" => y = Comma
            /\ d = "dash" => y = Dash
            /\ Len(b) # 0
        <4>1. PICK g \in Int : g = at[n] BY <2>3
        <4>2. g + 1 \in 1 .. i BY SMTT(30), <2>3, <4>1
        <4>3. y \in Int /\ d \in Kinds BY DEF Kinds, Dash
        <4>4. d = "dash" /\ Len(b) # 0 BY <1>2, <2>3
        <4> QED BY <4>1, <4>2, <4>3, <4>4
      <3>3. Len(b) > 0 => /\ at[Len(b)] <= s
                          /\ kind[Len(b)] = "number" \/ d = "number"
                          /\ d = "dash" => R[s] = R[at[Len(b)]] + 1
        BY <1>2, <2>3
      <3>4. \A u \in 1 .. Len(b) : at[u] <= i BY <1>2, <1>4
      <3> HIDE DEF y, s, d
      <3>5. Added(R, b, i, y, d, s)
        <4> HIDE DEF c
        <4> QED BY <1>1, <3>2, <3>3, <3>4, UnitAdded
      <3>6. PICK at2, kind2 :
              /\ Marked(R, c, at2, kind2)
              /\ at2[n + 1] = s /\ kind2[n + 1] = d
              /\ \A u \in 1 .. n + 1 : at2[u] <= i
        BY <1>2, <3>5 DEF Added
      <3>14. c \in Seq(Int) /\ Len(c) = Len(b) + 1 BY <3>5 DEF Added
      <3> HIDE DEF c
      <3> DEFINE k == "number"
      <3>7. /\ x \in Int /\ k \in Kinds /\ i \in 1 .. i
            /\ k = "number" => x = R[i]
            /\ k = "comma" => x = Comma
            /\ k = "dash" => x = Dash
            /\ Len(c) = 0 => k = "number"
            /\ k = "number"
        BY <1>3 DEF Kinds
      <3>8. Len(c) = n + 1 /\ Len(c) > 0 BY <1>2, <3>14
      <3>9. Len(c) > 0 => /\ at2[Len(c)] <= i
                          /\ kind2[Len(c)] = "number" \/ k = "number"
                          /\ k = "dash" => R[i] = R[at2[Len(c)]] + 1
        BY <3>2, <3>6, <3>8
      <3>10. \A u \in 1 .. Len(c) : at2[u] <= i BY <3>6, <3>8
      <3> HIDE DEF k, x
      <3>11. Added(R, c, i, x, k, i)
        BY <3>6, <3>7, <3>9, <3>10, <3>14, UnitAdded
      <3> DEFINE e == c \o <<x>>
      <3>12. e \in Seq(Int) /\ Len(e) = n + 2 /\ Len(c) + 1 = n + 2
        BY <1>2, <3>8, <3>11 DEF Added
      <3>13. EncodedTo(R, e, i)
        <4>1. PICK at3, kind3 :
                Marked(R, e, at3, kind3) /\ \A u \in 1 .. n + 2 : at3[u] <= i
          BY <3>11, <3>12 DEF Added
        <4> HIDE DEF e
        <4> QED BY <2>5, <3>12, <4>1 DEF EncodedTo
      <3> QED BY <3>1, <3>12, <3>13
    <2> QED BY <2>4, <2>5
  <1> QED BY <1>5, <1>6

(* Every body is made this way.                                            *)
LEMMA BodyEncoded ==
  ASSUME NEW R \in Seq(Int), NEW i \in 0 .. Len(R)
  PROVE  EncodedUpTo(R)[i] \in Seq(Int) /\ EncodedTo(R, EncodedUpTo(R)[i], i)
  <1> DEFINE F == EncodedUpTo(R)
             P(j) == F[j] \in Seq(Int) /\ EncodedTo(R, F[j], j)
             T == {j \in Nat : j <= Len(R) => P(j)}
  <1>1. Len(R) \in Nat BY LenProperties
  <1>2. 0 \in T
    <2>1. F[0] = <<>> BY EncodedEquation
    <2>2. <<>> \in Seq(Int) /\ Len(<<>>) = 0 BY EmptySeq
    <2> HIDE DEF F
    <2>3. EncodedTo(R, F[0], 0)
      <3>1. \A at, kind : Marked(R, F[0], at, kind) BY <2>1, <2>2 DEF Marked
      <3> QED BY <2>1, <2>2, <3>1 DEF EncodedTo
    <2>4. P(0) BY <2>1, <2>2, <2>3
    <2> HIDE DEF P
    <2> QED BY <2>4
  <1>3. ASSUME NEW j \in T PROVE j + 1 \in T
    <2>1. ASSUME j + 1 <= Len(R) PROVE P(j + 1)
      <3>1. j \in Nat /\ j + 1 \in 1 .. Len(R) /\ (j + 1) - 1 = j /\ j <= Len(R)
        BY <1>1, <2>1
      <3>2. P(j)
        <4> HIDE DEF P
        <4> QED BY <3>1
      <3>3. F[j + 1] = F[j] \o Units(R, j + 1) BY <3>1, EncodedEquation
      <3> HIDE DEF F
      <3>4. EncodedTo(R, F[j], (j + 1) - 1) BY <3>1, <3>2
      <3> DEFINE m == j + 1
      <3>5. m \in 1 .. Len(R) /\ EncodedTo(R, F[j], m - 1) BY <3>1, <3>4
      <3> HIDE DEF m
      <3>6. F[j] \o Units(R, m) \in Seq(Int) /\ EncodedTo(R, F[j] \o Units(R, m), m)
        BY <3>2, <3>5, LossEncoded
      <3> QED BY <3>3, <3>6 DEF m
    <2> HIDE DEF P
    <2> QED BY <2>1
  <1>4. T = Nat
    <2> HIDE DEF T
    <2>1. T \in SUBSET Nat BY DEF T
    <2> QED BY <1>2, <1>3, <2>1, Induction
  <1>5. i \in T BY <1>1, <1>4
  <1> HIDE DEF P
  <1>6. P(i) BY <1>1, <1>5
  <1> QED BY <1>6 DEF P

-----------------------------------------------------------------------------
(* The decoder                                                             *)

(* What a pair of separator c and number x adds to the list p.             *)
AddedByPair(p, c, x, q) ==
  /\ q \in Seq(Int) /\ Len(p) <= Len(q)
  /\ \A i \in 1 .. Len(p) : q[i] = p[i]
  /\ c = Comma => Len(q) = Len(p) + 1 /\ q[Len(q)] = x
  /\ c = Dash => /\ Len(q) = Len(p) + (IF p[Len(p)] < x THEN x - p[Len(p)] ELSE 0)
                 /\ \A i \in Len(p) + 1 .. Len(q) : q[i] = p[Len(p)] + (i - Len(p))
  /\ c # Comma /\ c # Dash => q = p

(* getLostPacketsFromNACK adds for a pair what AddedByPair says.           *)
LEMMA PairDecoded ==
  ASSUME NEW p \in Seq(Int), Len(p) > 0, NEW pair, pair.sn \in Int
  PROVE  AddedByPair(p, pair.sep, pair.sn, DecodedPair(p, pair))
  <1> DEFINE c == pair.sep
             x == pair.sn
             q == DecodedPair(p, pair)
  <1>1. PICK n \in Nat : n = Len(p) BY LenProperties
  <1>2. n > 0 /\ p[n] \in Int BY <1>1, ElementOfSeq
  <1>3. x \in Int OBVIOUS
  <1>4. /\ c = Comma => q = Append(p, x)
        /\ c = Dash => q = p \o FromTo(p[n] + 1, x)
        /\ c # Comma /\ c # Dash => q = p
    BY <1>1 DEF DecodedPair, Last, Comma, Dash
  <1> HIDE DEF c, x, q
  <1>5. ASSUME c = Comma PROVE AddedByPair(p, c, x, q)
    <2>1. /\ q \in Seq(Int) /\ Len(q) = n + 1 /\ q[n + 1] = x
          /\ \A i \in 1 .. n : q[i] = p[i]
      BY SMTT(30), <1>1, <1>3, <1>4, <1>5
    <2>2. Len(p) <= Len(q) BY <1>1, <2>1
    <2> QED BY <1>1, <1>5, <2>1, <2>2 DEF AddedByPair, Comma, Dash
  <1>6. ASSUME c = Dash PROVE AddedByPair(p, c, x, q)
    <2> DEFINE last == p[n]
               m == IF last + 1 <= x THEN x - (last + 1) + 1 ELSE 0
               t == [i \in 1 .. m |-> (last + 1) + i - 1]
    <2>1. q = p \o t BY <1>4, <1>6 DEF FromTo
    <2>2. last \in Int BY <1>2
    <2> HIDE DEF last
    <2>3. m \in Nat /\ m = IF last < x THEN x - last ELSE 0 BY <1>3, <2>2
    <2> HIDE DEF m
    <2>4. t \in Seq(Int) /\ Len(t) = m /\ \A i \in 1 .. m : t[i] = last + i
      <3>1. \A i \in 1 .. m : (last + 1) + i - 1 = last + i /\ last + i \in Int
        BY <2>2, <2>3
      <3>2. \A i \in 1 .. m : t[i] = last + i BY <3>1
      <3>3. t \in [1 .. m -> Int] BY <3>1
      <3> HIDE DEF t
      <3>4. t \in Seq(Int) /\ Len(t) = m BY <2>3, <3>3
      <3> QED BY <3>2, <3>4
    <2> HIDE DEF t
    <2>5. /\ q \in Seq(Int) /\ Len(q) = n + m
          /\ \A i \in 1 .. n + m : q[i] = IF i <= n THEN p[i] ELSE t[i - n]
      BY <1>1, <2>1, <2>4, ConcatProperties
    <2>6. Len(p) <= Len(q) /\ \A i \in 1 .. n : q[i] = p[i]
      <3> HIDE DEF t
      <3>1. Len(p) <= Len(q) BY <1>1, <2>3, <2>5
      <3>2. \A i \in 1 .. n : i \in 1 .. n + m /\ i <= n BY <1>1, <2>3
      <3> QED BY <2>5, <3>1, <3>2
    <2>7. \A i \in n + 1 .. n + m : q[i] = last + (i - n)
      <3> TAKE i \in n + 1 .. n + m
      <3>1. i - n \in 1 .. m /\ i \in 1 .. n + m /\ ~ (i <= n) BY <1>1, <2>3
      <3> QED BY <2>4, <2>5, <3>1
    <2>8. last = p[Len(p)] BY <1>1 DEF last
    <2> QED BY <1>1, <1>6, <2>3, <2>5, <2>6, <2>7, <2>8 DEF AddedByPair, Comma, Dash
  <1>7. ASSUME c # Comma, c # Dash PROVE AddedByPair(p, c, x, q)
    BY <1>1, <1>4, <1>7 DEF AddedByPair
  <1>8. AddedByPair(p, c, x, q) BY <1>5, <1>6, <1>7
  <1> QED BY <1>8 DEF c, x, q

(* The list starts with the first unit and goes through the pairs.         *)
PairCount(body) == (Len(body) - 1) \div 2

(* The pairs getLostPacketsFromNACK takes behind the first number.         *)
LEMMA PairsOfBody ==
  ASSUME NEW body \in Seq(Int), Len(body) > 0
  PROVE  /\ PairCount(body) \in Nat
         /\ 2 * PairCount(body) + 1 <= Len(body)
         /\ Len(body) <= 2 * PairCount(body) + 2
         /\ Len(Pairs(body)) = PairCount(body)
         /\ \A k \in 1 .. PairCount(body) :
              /\ Pairs(body)[k].sep = body[2 * k] /\ Pairs(body)[k].sn = body[2 * k + 1]
              /\ 2 * k \in 1 .. Len(body) /\ 2 * k + 1 \in 1 .. Len(body)
              /\ body[2 * k] \in Int /\ body[2 * k + 1] \in Int
  <1>1. PICK n \in Nat : n = Len(body) BY LenProperties
  <1>2. PICK m \in Nat : m = (n - 1) \div 2 /\ 2 * m + 1 <= n /\ n <= 2 * m + 2
    BY <1>1
  <1>3. PairCount(body) = m BY <1>1, <1>2 DEF PairCount
  <1>4. Pairs(body) = [k \in 1 .. m |-> [sep |-> body[2 * k], sn |-> body[2 * k + 1]]]
    BY <1>1, <1>2 DEF Pairs
  <1>5. Len(Pairs(body)) = m BY <1>2, <1>4
  <1>6. ASSUME NEW k \in 1 .. m
        PROVE  /\ Pairs(body)[k].sep = body[2 * k] /\ Pairs(body)[k].sn = body[2 * k + 1]
               /\ 2 * k \in 1 .. Len(body) /\ 2 * k + 1 \in 1 .. Len(body)
               /\ body[2 * k] \in Int /\ body[2 * k + 1] \in Int
    <2>1. 2 * k \in 1 .. n /\ 2 * k + 1 \in 1 .. n BY <1>2
    <2>2. Pairs(body)[k] = [sep |-> body[2 * k], sn |-> body[2 * k + 1]] BY <1>4
    <2>3. body[2 * k] \in Int /\ body[2 * k + 1] \in Int BY <1>1, <2>1, ElementOfSeq
    <2> QED BY <1>1, <2>1, <2>2, <2>3
  <1> QED BY <1>1, <1>2, <1>3, <1>5, <1>6

(* Its loop is the recursion over the pairs that it appears to be.         *)
LEMMA DecodedEquation ==
  ASSUME NEW body \in Seq(Int), Len(body) > 0
  PROVE  /\ DecodedPairs(body)[0] = <<body[1]>>
         /\ \A k \in 1 .. PairCount(body) :
              DecodedPairs(body)[k] = DecodedPair(DecodedPairs(body)[k - 1], Pairs(body)[k])
         /\ Decoded(body) = DecodedPairs(body)[PairCount(body)]
  <1> DEFINE n == Len(Pairs(body))
             X == {s \in Seq(Int) : Len(s) > 0}
             base == <<Head(body)>>
             pairs == Pairs(body)
             step == [i \in 1 .. n |-> [x \in X |-> DecodedPair(x, pairs[i])]]
             Solves(g) == g = [i \in 0 .. n |-> IF i = 0 THEN base
                                                ELSE DecodedPair(g[i - 1], pairs[i])]
  <1>1. /\ n \in Nat /\ n = PairCount(body)
        /\ \A i \in 1 .. n : pairs[i].sn \in Int
    BY PairsOfBody
  <1>2. body[1] \in Int /\ body # <<>> /\ Head(body) = body[1]
    <2>1. Len(body) \in Nat BY LenProperties
    <2>2. 1 \in 1 .. Len(body) BY <2>1
    <2>3. body[1] \in Int BY <2>2, ElementOfSeq
    <2>4. body # <<>> BY EmptySeq
    <2> QED BY <2>3, <2>4
  <1>3. base \in X /\ base = <<body[1]>>
    <2> DEFINE x == body[1]
    <2>1. x \in Int BY <1>2
    <2> HIDE DEF x
    <2>2. <<x>> \in Seq(Int) /\ Len(<<x>>) = 1 BY <2>1
    <2>3. base = <<x>> BY <1>2 DEF x
    <2> QED BY <2>2, <2>3 DEF x
  <1> HIDE DEF base, n, pairs
  <1>4. \A i \in 1 .. n : \A x \in X : DecodedPair(x, pairs[i]) \in X
    <2> TAKE i \in 1 .. n
    <2> TAKE x \in X
    <2> DEFINE pair == pairs[i]
               q == DecodedPair(x, pair)
    <2>1. x \in Seq(Int) /\ Len(x) > 0 /\ pair.sn \in Int BY <1>1
    <2> HIDE DEF pair
    <2>2. AddedByPair(x, pair.sep, pair.sn, q) BY <2>1, PairDecoded
    <2> HIDE DEF q
    <2>3. q \in Seq(Int) /\ Len(x) <= Len(q) BY <2>2 DEF AddedByPair
    <2>4. Len(x) \in Nat /\ Len(q) \in Nat BY <2>1, <2>3, LenProperties
    <2>5. q \in X BY <2>1, <2>3, <2>4
    <2> QED BY <2>5 DEF q, pair
  <1> HIDE DEF X
  <1>5. step \in [1 .. n -> [X -> X]] BY <1>4
  <1>6. \A i \in 1 .. n : \A x \in X : step[i][x] = DecodedPair(x, pairs[i]) OBVIOUS
  <1> HIDE DEF step
  <1>7. PICK g \in [0 .. n -> X] :
               g[0] = base /\ \A i \in 1 .. n : g[i] = step[i][g[i - 1]]
    <2>1. Solvable(n, X, base, step) BY <1>1, <1>3, <1>5, RecursionSolved
    <2> QED BY <2>1 DEF Solvable
  <1>8. \A i \in 0 .. n : g[i] = IF i = 0 THEN base ELSE DecodedPair(g[i - 1], pairs[i])
    <2> TAKE i \in 0 .. n
    <2>1. CASE i = 0 BY <1>7, <2>1
    <2>2. CASE i # 0
      <3>1. i \in 1 .. n /\ i - 1 \in 0 .. n BY <1>1, <2>2
      <3>2. g[i - 1] \in X BY <3>1
      <3>3. g[i] = DecodedPair(g[i - 1], pairs[i]) BY <1>6, <1>7, <3>1, <3>2
      <3> QED BY <2>2, <3>3
    <2> QED BY <2>1, <2>2
  <1>9. Solves(g)
    <2>1. g = [i \in 0 .. n |-> g[i]] OBVIOUS
    <2> QED BY <1>8, <2>1
  <1>10. DecodedPairs(body) = CHOOSE f : Solves(f)
    BY Zenon DEF DecodedPairs, n, base, pairs
  <1>11. Solves(DecodedPairs(body))
    <2> HIDE DEF Solves
    <2> QED BY <1>9, <1>10
  <1> DEFINE F == DecodedPairs(body)
  <1>12. F = [i \in 0 .. n |-> IF i = 0 THEN base ELSE DecodedPair(F[i - 1], pairs[i])]
    BY <1>11
  <1> HIDE DEF F
  <1>13. \A i \in 0 .. n : F[i] = IF i = 0 THEN base ELSE DecodedPair(F[i - 1], pairs[i])
    BY <1>12
  <1>14. 0 \in 0 .. n /\ \A i \in 1 .. n : i \in 0 .. n /\ i # 0 BY <1>1
  <1>15. F[0] = base /\ \A i \in 1 .. n : F[i] = DecodedPair(F[i - 1], pairs[i])
    BY <1>13, <1>14, Zenon
  <1>16. Decoded(body) = F[n] BY <1>2 DEF Decoded, F, n
  <1> QED BY <1>1, <1>3, <1>15, <1>16 DEF F, pairs

(* Each pair adds to the list before.                                      *)
LEMMA ListsGrow ==
  ASSUME NEW body \in Seq(Int), Len(body) > 0
  PROVE  /\ DecodedPairs(body)[0] = <<body[1]>>
         /\ \A k \in 0 .. PairCount(body) :
              DecodedPairs(body)[k] \in Seq(Int) /\ Len(DecodedPairs(body)[k]) > 0
         /\ \A k \in 1 .. PairCount(body) :
              AddedByPair(DecodedPairs(body)[k - 1], body[2 * k], body[2 * k + 1],
                          DecodedPairs(body)[k])
  <1> DEFINE n == PairCount(body)
             D == DecodedPairs(body)
             IsList(s) == s \in Seq(Int) /\ Len(s) > 0
             T == {k \in Nat : k <= n => IsList(D[k])}
  <1>1. /\ D[0] = <<body[1]>>
        /\ \A k \in 1 .. n : D[k] = DecodedPair(D[k - 1], Pairs(body)[k])
    BY DecodedEquation
  <1>2. /\ n \in Nat
        /\ \A k \in 1 .. n : /\ Pairs(body)[k].sep = body[2 * k]
                             /\ Pairs(body)[k].sn = body[2 * k + 1]
                             /\ body[2 * k + 1] \in Int
    BY PairsOfBody
  <1>3. D[0] = <<body[1]>> /\ IsList(D[0])
    <2> DEFINE x == body[1]
    <2>1. x \in Int
      <3>1. Len(body) \in Nat BY LenProperties
      <3>2. 1 \in 1 .. Len(body) BY <3>1
      <3> QED BY <3>2, ElementOfSeq
    <2> HIDE DEF x, D
    <2>2. D[0] = <<x>> BY <1>1 DEF x
    <2> QED BY <1>1, <2>1, <2>2
  <1> HIDE DEF D, n
  <1>4. ASSUME NEW k \in 1 .. n, IsList(D[k - 1])
        PROVE  IsList(D[k]) /\ AddedByPair(D[k - 1], body[2 * k], body[2 * k + 1], D[k])
    <2> DEFINE p == D[k - 1]
               q == D[k]
               pair == Pairs(body)[k]
    <2>1. p \in Seq(Int) /\ Len(p) > 0 BY <1>4
    <2>2. /\ q = DecodedPair(p, pair)
          /\ pair.sep = body[2 * k] /\ pair.sn = body[2 * k + 1] /\ pair.sn \in Int
      BY <1>1, <1>2
    <2> HIDE DEF p, q, pair
    <2>3. AddedByPair(p, pair.sep, pair.sn, q) BY <2>1, <2>2, PairDecoded
    <2>4. q \in Seq(Int) /\ Len(p) <= Len(q) BY <2>3 DEF AddedByPair
    <2>5. Len(p) \in Nat /\ Len(q) \in Nat BY <2>1, <2>4, LenProperties
    <2> QED BY <2>1, <2>2, <2>3, <2>4, <2>5 DEF p, q
  <1>5. 0 \in T
    <2> HIDE DEF IsList
    <2> QED BY <1>3
  <1>6. ASSUME NEW k \in T PROVE k + 1 \in T
    <2> HIDE DEF IsList
    <2>1. k \in Nat /\ (k <= n => IsList(D[k])) OBVIOUS
    <2>2. ASSUME k + 1 <= n PROVE IsList(D[k + 1])
      <3> DEFINE j == k + 1
      <3>1. j \in 1 .. n /\ j - 1 = k /\ k <= n BY <1>2, <2>1, <2>2
      <3> HIDE DEF j
      <3>2. IsList(D[j - 1]) BY <2>1, <3>1
      <3> QED BY <1>4, <3>1, <3>2 DEF j
    <2> QED BY <2>1, <2>2
  <1>7. T = Nat
    <2> HIDE DEF T
    <2>1. T \in SUBSET Nat BY DEF T
    <2> QED BY <1>5, <1>6, <2>1, Induction
  <1>8. \A k \in 0 .. n : IsList(D[k])
    <2> TAKE k \in 0 .. n
    <2>1. k \in T /\ k <= n BY <1>2, <1>7
    <2> HIDE DEF IsList
    <2> QED BY <2>1
  <1>9. \A k \in 1 .. n : AddedByPair(D[k - 1], body[2 * k], body[2 * k + 1], D[k])
    <2> TAKE k \in 1 .. n
    <2>1. k - 1 \in 0 .. n BY <1>2
    <2>2. IsList(D[k - 1]) BY <1>8, <2>1
    <2> HIDE DEF IsList
    <2> QED BY <1>4, <2>2
  <1> QED BY <1>3, <1>8, <1>9 DEF D, n

-----------------------------------------------------------------------------
(* Nothing beyond the report                                               *)

(* v lies between two of the first m numbers, the smaller of which is not  *)
(* the later one.                                                          *)
Within(R, m, v) == \E i, j \in 1 .. m : i <= j /\ R[i] <= v /\ v <= R[j]

(* Two reported numbers around v.                                          *)
LEMMA WithinBy ==
  ASSUME NEW R, NEW m, NEW v, NEW i \in 1 .. m, NEW j \in 1 .. m,
         i <= j, R[i] <= v, v <= R[j]
  PROVE  Within(R, m, v)
  BY DEF Within

(* Arithmetic, stated apart for the sake of the provers.                   *)
LEMMA Transitive ==
  ASSUME NEW x \in Int, NEW y \in Int, NEW z \in Int, x <= y, y <= z
  PROVE  x <= z
  OBVIOUS

(* An entry of a range lies between the numbers the range was made from.   *)
LEMMA RangeEntry ==
  ASSUME NEW y \in Int, NEW w \in Int, NEW l \in Int, NEW x \in Int,
         l + 1 <= x, x <= l + (w - y)
  PROVE  y + (x - l) \in Int /\ y <= y + (x - l) /\ y + (x - l) <= w
  OBVIOUS

(* A pair adds nothing beyond the losses its units stand for, not even     *)
(* when the dash that follows it is taken for a separator.                 *)
LEMMA PairWithin ==
  ASSUME NEW R \in Seq(Int), NEW b \in Seq(Int), NEW at, NEW kind, Marked(R, b, at, kind),
         NEW u \in 2 .. Len(b) - 1,
         NEW p \in Seq(Int), Len(p) > 0, \A x \in 1 .. Len(p) : Within(R, at[u - 1], p[x]),
         NEW q, AddedByPair(p, b[u], b[u + 1], q)
  PROVE  \A x \in 1 .. Len(q) : Within(R, at[u + 1], q[x])
  <1>1. PICK n \in Nat : n = Len(b) BY LenProperties
  <1>2. PICK r \in Nat : r = Len(R) BY LenProperties
  <1>3. \A i \in 1 .. r : R[i] \in Int BY <1>2, ElementOfSeq
  <1> DEFINE a == at[u - 1]
             m == at[u]
             c == at[u + 1]
  <1>4. /\ u \in 1 .. n /\ u - 1 \in 1 .. n /\ u + 1 \in 1 .. n
        /\ u - 1 \in 1 .. n - 1 /\ u \in 1 .. n - 1
    BY <1>1
  <1>5. a \in 1 .. r /\ m \in 1 .. r /\ c \in 1 .. r
    BY <1>1, <1>2, <1>4 DEF Marked
  <1>6. a <= m /\ m <= c
    <2>1. (u - 1) + 1 = u OBVIOUS
    <2> QED BY <1>1, <1>4, <2>1 DEF Marked
  <1>7. /\ kind[u] = "number" => b[u] = R[m]
        /\ kind[u + 1] = "number" => b[u + 1] = R[c]
        /\ kind[u + 1] = "comma" => b[u + 1] = 44
        /\ kind[u + 1] = "dash" => b[u + 1] = 45
        /\ kind[u + 1] \in {"number", "comma", "dash"}
        /\ kind[u] = "number" \/ kind[u + 1] = "number"
        /\ kind[u + 1] = "dash" => R[c] = R[m] + 1
    BY <1>1, <1>2, <1>4 DEF Marked, Kinds, Comma, Dash
  <1>8. b[u] \in Int /\ b[u + 1] \in Int BY <1>1, <1>4, ElementOfSeq
  <1>9. PICK l \in Nat : l = Len(p) BY LenProperties
  <1>10. l > 0 /\ p[l] \in Int /\ Within(R, a, p[l]) BY SMTT(30), <1>9, ElementOfSeq
  <1>11. PICK i \in 1 .. a : R[i] <= p[l]
    BY <1>10 DEF Within
  <1>19. \A x \in 1 .. l : Within(R, a, p[x])
    BY <1>9
  <1> HIDE DEF a, m, c
  <1>25. /\ i \in 1 .. r /\ i \in 1 .. c /\ m \in 1 .. c /\ c \in 1 .. c
         /\ i <= m /\ i <= c /\ m <= m /\ c <= c
    <2>1. PICK a0 \in Int, m0 \in Int, c0 \in Int : a0 = a /\ m0 = m /\ c0 = c
      BY <1>5
    <2>2. 1 <= a0 /\ a0 <= m0 /\ m0 <= c0 /\ c0 <= r BY <1>5, <1>6, <2>1
    <2>3. i \in Int /\ 1 <= i /\ i <= a0 BY <1>11, <2>1
    <2>4. i <= m0 /\ i <= c0 /\ i <= r BY <2>1, <2>2, <2>3
    <2>5. i \in 1 .. r /\ i \in 1 .. c0 /\ m0 \in 1 .. c0 /\ c0 \in 1 .. c0
      BY <2>1, <2>2, <2>3, <2>4
    <2> QED BY <2>1, <2>4, <2>5
  <1>12. R[i] \in Int /\ R[m] \in Int /\ R[c] \in Int BY <1>3, <1>5, <1>25
  <1>13. ASSUME NEW x \in 1 .. l PROVE Within(R, c, q[x])
    <2>1. q[x] = p[x] /\ Within(R, a, p[x]) BY <1>9, <1>19 DEF AddedByPair
    <2>2. 1 .. a \subseteq 1 .. c BY <1>5, <1>6
    <2> QED BY <2>1, <2>2 DEF Within
  <1>14. Len(q) \in Nat /\ l <= Len(q)
    <2>1. q \in Seq(Int) BY DEF AddedByPair
    <2>2. Len(q) \in Nat BY <2>1, LenProperties
    <2> QED BY <1>9, <2>2 DEF AddedByPair
  <1>20. PICK w \in Int : w = b[u + 1] BY <1>8
  <1>21. PICK y \in Int : y = p[l] BY <1>10
  <1>22. PICK ri \in Int : ri = R[i] BY <1>12
  <1>23. PICK rm \in Int : rm = R[m] BY <1>12
  <1>24. PICK rc \in Int : rc = R[c] BY <1>12
  <1>26. /\ kind[u] = "number" => b[u] = rm
         /\ kind[u + 1] = "number" => w = rc
         /\ kind[u + 1] = "comma" => w = 44
         /\ kind[u + 1] = "dash" => w = 45
    BY <1>7, <1>20, <1>23, <1>24
  <1>15. ASSUME b[u] = 44, NEW x \in l + 1 .. Len(q) PROVE Within(R, c, q[x])
    <2>1. Len(q) = l + 1 /\ q[l + 1] = b[u + 1] BY <1>9, <1>15 DEF AddedByPair, Comma
    <2>2. q[x] = w
      <3>1. x = l + 1 BY <2>1, <1>9
      <3> QED BY <2>1, <3>1, <1>20
    <2>3. CASE kind[u + 1] = "number"
      <3>1. R[c] <= q[x] /\ q[x] <= R[c] BY <1>20, <1>24, <1>26, <2>2, <2>3
      <3> QED BY <1>25, <3>1, WithinBy
    <2>4. CASE kind[u + 1] = "comma"
      <3>1. rm = 44 BY <1>7, <1>15, <1>26, <2>4
      <3>2. R[m] <= q[x] /\ q[x] <= R[m] BY <1>23, <1>26, <2>2, <2>4, <3>1
      <3> QED BY <1>25, <3>2, WithinBy
    <2>5. CASE kind[u + 1] = "dash"
      <3>1. rm = 44 BY <1>7, <1>15, <1>26, <2>5
      <3>2. rc = 45 BY <1>7, <1>23, <1>24, <2>5, <3>1
      <3>3. R[c] <= q[x] /\ q[x] <= R[c] BY <1>24, <1>26, <2>2, <2>5, <3>2
      <3> QED BY <1>25, <3>3, WithinBy
    <2> QED BY <1>7, <2>3, <2>4, <2>5
  <1>16. ASSUME b[u] = 45, NEW x \in l + 1 .. Len(q) PROVE Within(R, c, q[x])
    <2>1. /\ Len(q) = l + (IF y < w THEN w - y ELSE 0)
          /\ q[x] = y + (x - l)
      BY <1>9, <1>16, <1>20, <1>21 DEF AddedByPair, Dash
    <2>2. PICK z \in Int : z = q[x] /\ y <= z /\ z <= w
      <3>1. l + 1 <= x /\ x <= Len(q) /\ x \in Int BY <1>9, <1>14
      <3>2. y < w BY <1>9, <2>1, <3>1, <1>20, <1>21
      <3>3. x <= l + (w - y) BY <2>1, <3>1, <3>2
      <3>4. l \in Int BY <1>9
      <3>5. y + (x - l) \in Int /\ y <= y + (x - l) /\ y + (x - l) <= w
        BY <1>20, <1>21, <3>1, <3>3, <3>4, RangeEntry
      <3> QED BY <2>1, <3>5
    <2>3. R[i] <= q[x]
      <3>1. ri <= y BY <1>11, <1>21, <1>22
      <3>2. ri <= z BY <1>21, <1>22, <2>2, <3>1, Transitive
      <3> QED BY <1>22, <2>2, <3>2
    <2>4. CASE kind[u + 1] = "number"
      <3>1. w = rc BY <1>26, <2>4
      <3>2. q[x] <= R[c] BY <1>24, <2>2, <3>1
      <3> QED BY <1>25, <2>3, <3>2, WithinBy
    <2>5. CASE kind[u + 1] = "comma" \/ kind[u + 1] = "dash"
      <3>1. rm = 45 BY <1>7, <1>16, <1>26, <2>5
      <3>2. w <= 45 BY <1>26, <2>5
      <3>3. z <= rm BY SMTT(30), <1>20, <1>23, <2>2, <3>1, <3>2, Transitive
      <3>4. q[x] <= R[m] BY <1>23, <2>2, <3>3
      <3> QED BY <1>25, <2>3, <3>4, WithinBy
    <2> QED BY <1>7, <2>4, <2>5
  <1>17. ASSUME b[u] # 44, b[u] # 45, NEW x \in l + 1 .. Len(q) PROVE Within(R, c, q[x])
    <2>1. q = p BY <1>17 DEF AddedByPair, Comma, Dash
    <2> QED BY <1>9, <1>17, <2>1
  <1>18. \A x \in 1 .. Len(q) : x \in 1 .. l \/ x \in l + 1 .. Len(q) BY <1>14
  <1> QED BY <1>13, <1>15, <1>16, <1>17, <1>18 DEF c

(* The body of a report is not empty and stands for its losses.            *)
LEMMA EncodedShape ==
  ASSUME NEW R \in Seq(Int), Len(R) > 0
  PROVE  /\ Encoded(R) \in Seq(Int)
         /\ Len(Encoded(R)) > 0
         /\ \E at, kind : Marked(R, Encoded(R), at, kind)
  <1>1. Len(R) \in 0 .. Len(R)
    <2>1. Len(R) \in Nat BY LenProperties
    <2> QED BY <2>1
  <1>2. Encoded(R) \in Seq(Int) /\ EncodedTo(R, Encoded(R), Len(R))
    BY <1>1, BodyEncoded DEF Encoded
  <1> QED BY <1>2 DEF EncodedTo

(* What the sender makes of a report of no losses and of one with losses:  *)
(* every number it reads lies between two numbers of the report.           *)
LEMMA EmptyReport == Decoded(Encoded(<<>>)) = <<>>
  <1>1. <<>> \in Seq(Int) /\ Len(<<>>) = 0 BY EmptySeq
  <1> DEFINE R == <<>>
  <1>2. R \in Seq(Int) /\ Len(R) = 0 BY <1>1
  <1> HIDE DEF R
  <1>3. EncodedUpTo(R)[0] = <<>> BY <1>2, EncodedEquation
  <1>4. Encoded(R) = <<>> BY <1>2, <1>3 DEF Encoded
  <1> QED BY <1>4 DEF Decoded, R

(* What is read from a report lies between two losses it was made from     *)
(* (packLostPacket, getLostPacketsFromNACK).                               *)
LEMMA DecodedWithin ==
  ASSUME NEW R \in Seq(Int), Len(R) > 0
  PROVE  /\ Decoded(Encoded(R)) \in Seq(Int)
         /\ \A x \in 1 .. Len(Decoded(Encoded(R))) :
              Within(R, Len(R), Decoded(Encoded(R))[x])
  <1> DEFINE b == Encoded(R)
             K == PairCount(b)
             D == DecodedPairs(b)
  <1>1. b \in Seq(Int) /\ Len(b) > 0 /\ \E at, kind : Marked(R, b, at, kind)
    BY EncodedShape
  <1> HIDE DEF b
  <1>2. PICK at, kind : Marked(R, b, at, kind) BY <1>1
  <1>3. K \in Nat /\ 2 * K + 1 <= Len(b) /\ Len(b) \in Nat
    BY <1>1, PairsOfBody, LenProperties
  <1>4. /\ D[0] = <<b[1]>>
        /\ \A k \in 0 .. K : D[k] \in Seq(Int) /\ Len(D[k]) > 0
        /\ \A k \in 1 .. K : AddedByPair(D[k - 1], b[2 * k], b[2 * k + 1], D[k])
    BY <1>1, ListsGrow
  <1>5. Decoded(b) = D[K] BY <1>1, DecodedEquation
  <1> HIDE DEF K, D
  <1> DEFINE P(k) == \A x \in 1 .. Len(D[k]) : Within(R, at[2 * k + 1], D[k][x])
             T == {k \in Nat : k <= K => P(k)}
  <1>6. 0 \in T
    <2>1. 1 \in 1 .. Len(b) BY <1>1, <1>3
    <2>2. b[1] = R[at[1]] /\ at[1] \in 1 .. Len(R) BY <1>1, <2>1, <1>2 DEF Marked
    <2>3. R[at[1]] \in Int BY <2>2, ElementOfSeq
    <2>4. Within(R, at[1], b[1])
      <3>1. at[1] \in 1 .. at[1] /\ at[1] \in Int
        <4>1. Len(R) \in Nat BY LenProperties
        <4> QED BY <2>2, <4>1
      <3> QED BY <2>2, <2>3, <3>1 DEF Within
    <2>5. Len(D[0]) = 1 /\ D[0][1] = b[1] BY <1>4
    <2>6. P(0)
      <3>1. 2 * 0 + 1 = 1 OBVIOUS
      <3>2. \A x \in 1 .. Len(D[0]) : x = 1 BY <2>5
      <3> QED BY <2>4, <2>5, <3>1, <3>2
    <2> HIDE DEF P
    <2> QED BY <2>6
  <1>7. ASSUME NEW k \in T PROVE k + 1 \in T
    <2>1. ASSUME k + 1 <= K PROVE P(k + 1)
      <3>1. k \in Nat /\ k + 1 \in 1 .. K /\ k \in 0 .. K /\ k <= K BY <1>3, <2>1
      <3>2. P(k)
        <4> HIDE DEF P
        <4> QED BY <3>1
      <3> DEFINE u == 2 * (k + 1)
                 p == D[k]
                 q == D[k + 1]
      <3>3. u \in 2 .. Len(b) - 1 /\ u - 1 = 2 * k + 1 /\ u + 1 = 2 * (k + 1) + 1
            /\ (k + 1) - 1 = k
        <4>1. PICK h \in Nat : h = Len(b) BY <1>3
        <4>2. k \in Nat /\ K \in Nat /\ k + 1 <= K /\ 2 * K + 1 <= h BY <1>3, <2>1, <3>1, <4>1
        <4>3. u = 2 * k + 2 BY <4>2
        <4> HIDE DEF u
        <4>4. 2 <= u /\ u <= h - 1 /\ u \in Int BY <4>1, <4>2, <4>3
        <4>5. u - 1 = 2 * k + 1 /\ (k + 1) - 1 = k BY <4>2, <4>3
        <4>6. u + 1 = 2 * (k + 1) + 1 BY <4>2, <4>3
        <4> QED BY <4>1, <4>4, <4>5, <4>6
      <3>4. p \in Seq(Int) /\ Len(p) > 0 BY <1>4, <3>1
      <3>5. AddedByPair(p, b[u], b[u + 1], q)
        <4>1. \A j \in 1 .. K : AddedByPair(D[j - 1], b[2 * j], b[2 * j + 1], D[j]) BY <1>4
        <4>2. AddedByPair(D[(k + 1) - 1], b[2 * (k + 1)], b[2 * (k + 1) + 1], D[k + 1])
          BY <3>1, <4>1
        <4> QED BY <3>3, <4>2
      <3>6. \A x \in 1 .. Len(p) : Within(R, at[u - 1], p[x]) BY <3>2, <3>3
      <3> HIDE DEF u, p, q
      <3>7. \A x \in 1 .. Len(q) : Within(R, at[u + 1], q[x])
        BY <1>1, <1>2, <3>3, <3>4, <3>5, <3>6, PairWithin
      <3> QED BY <3>3, <3>7 DEF q
    <2> HIDE DEF P
    <2> QED BY <2>1
  <1>8. T = Nat
    <2> HIDE DEF T
    <2>1. T \in SUBSET Nat BY DEF T
    <2> QED BY <1>6, <1>7, <2>1, Induction
  <1>9. P(K)
    <2>1. K \in T BY <1>3, <1>8
    <2> HIDE DEF P
    <2> QED BY <1>3, <2>1
  <1>10. at[2 * K + 1] \in 1 .. Len(R)
    <2>1. 2 * K + 1 \in 1 .. Len(b) BY <1>3
    <2> QED BY <1>2, <2>1 DEF Marked
  <1>11. 1 .. at[2 * K + 1] \subseteq 1 .. Len(R)
    <2>1. Len(R) \in Nat BY LenProperties
    <2> QED BY <1>10, <2>1
  <1>12. \A x \in 1 .. Len(D[K]) : Within(R, Len(R), D[K][x])
    BY <1>9, <1>11 DEF Within
  <1>13. D[K] \in Seq(Int) BY <1>3, <1>4
  <1> QED BY <1>5, <1>12, <1>13 DEF b

-----------------------------------------------------------------------------
(* The receiving half.                                                     *)

USE DEF WindowInvariant, ReceiverTypes

(* A timely packet passes the window test of datagramReceived exactly when *)
(* it was not delivered.                                                   *)
LEMMA TimelyAccepted ==
  ASSUME WindowTypes, WindowFollowsStream, NEW n \in Int, Timely(n)
  PROVE  Accepts(SerialOf(n)) <=> n > Len(delivered)
  <1> DEFINE a == Len(delivered) + 1
  <1>1. Len(delivered) \in Nat BY DEF WindowTypes
  <1>2. /\ a \in Int /\ a + MaxWindow - MaxSN < n
        /\ n <= a + MaxWindow /\ n < a + MaxSN
    BY <1>1, SerialNumberAssumption DEF Timely
  <1>3. n > Len(delivered) <=> a <= n BY <1>1
  <1>4. firstReceived = SerialOf(a) BY DEF WindowFollowsStream
  <1> HIDE DEF a
  <1>5. InWindow(SerialOf(a), MaxWindow, SerialOf(n)) <=> a <= n /\ n <= a + MaxWindow
    <2>1. MaxWindow \in Nat /\ MaxWindow < MaxSN BY SerialNumberAssumption
    <2> QED BY <1>2, <2>1, WindowTestExact
  <1> QED BY <1>2, <1>3, <1>4, <1>5 DEF Accepts

(* The packet whose serial number is first in the window is the next one.  *)
LEMMA FirstIsNext ==
  ASSUME WindowTypes, WindowFollowsStream, NEW n \in Int, Timely(n),
         n > Len(delivered)
  PROVE  SerialOf(n) = firstReceived <=> n = Len(delivered) + 1
  <1> DEFINE a == Len(delivered) + 1
  <1>1. Len(delivered) \in Nat BY DEF WindowTypes
  <1>2. a \in Int /\ n - a < MaxSN /\ a - n < MaxSN
    BY <1>1, SerialNumberAssumption DEF Timely
  <1>3. firstReceived = SerialOf(a) BY DEF WindowFollowsStream
  <1> HIDE DEF a
  <1>4. SerialOf(n) = SerialOf(a) => n = a BY <1>2, SerialOfUnique
  <1> QED BY <1>3, <1>4 DEF a

(* A cached packet i places behind the first of the window is the i-th     *)
(* packet after the next one.                                              *)
LEMMA CachedPosition ==
  ASSUME WindowInvariant, NEW i \in 1 .. MaxSN,
         Advance(firstReceived, i) \in DOMAIN cachedReceived
  PROVE  cachedReceived[Advance(firstReceived, i)] = Len(delivered) + 1 + i
  <1> DEFINE sn == Advance(firstReceived, i)
             d == Len(delivered)
  <1>1. d \in Nat BY DEF WindowTypes
  <1> DEFINE a == d + 1
             b == a + i
             v == cachedReceived[sn]
  <1>2. firstReceived = SerialOf(a) BY DEF WindowFollowsStream
  <1>3. a \in Int /\ b \in Int /\ i \in Int BY <1>1, SerialNumberAssumption
  <1>4. v \in d + 2 .. d + 1 + MaxWindow /\ sn = SerialOf(v)
    BY DEF CacheWithinWindow
  <1>5. v - b < MaxSN /\ b - v < MaxSN /\ v \in Int
    BY <1>1, <1>4, SerialNumberAssumption
  <1>6. sn = SerialOf(b)
    <2> HIDE DEF a
    <2> QED BY <1>2, <1>3, AdvanceSerial
  <1> HIDE DEF sn, b, v
  <1>7. v = b BY <1>3, <1>4, <1>5, <1>6, SerialOfUnique
  <1> QED BY <1>7 DEF b, v, sn

-----------------------------------------------------------------------------
(* The processing loop hands over the next packet and the run behind it.   *)
RunDelivered(k) ==
  /\ delivered' = delivered \o [i \in 1 .. k + 1 |-> Len(delivered) + i]
  /\ Len(delivered') = Len(delivered) + k + 1
  /\ \A i \in 1 .. k :
       /\ Advance(firstReceived, i) \in DOMAIN cachedReceived
       /\ cachedReceived[Advance(firstReceived, i)] = Len(delivered) + 1 + i
  /\ Advance(firstReceived, k + 1) \notin DOMAIN cachedReceived
  /\ DOMAIN cachedReceived' \subseteq DOMAIN cachedReceived
  /\ \A sn \in DOMAIN cachedReceived' : cachedReceived'[sn] = cachedReceived[sn]

(* The processing loop of datagramReceived delivers a run of the stream.   *)
LEMMA DeliverRunPreserves ==
  ASSUME WindowInvariant, NEW n \in 1 .. Stream, n = Len(delivered) + 1,
         DeliverRun(SerialOf(n), n)
  PROVE  /\ firstReceived' \in SerialNumber
         /\ DOMAIN cachedReceived' \subseteq DOMAIN cachedReceived
         /\ \A sn \in DOMAIN cachedReceived' : cachedReceived'[sn] = cachedReceived[sn]
         /\ delivered' \in Seq(1 .. Stream)
         /\ WindowFollowsStream'
         /\ CacheWithinWindow'
         /\ InOrderDelivery'
         /\ \E k \in Nat : RunDelivered(k)
  <1> DEFINE d == Len(delivered)
  <1>1. d \in Nat BY DEF WindowTypes
  <1>2. PICK k \in 0 .. MaxSN :
          /\ CachedRun(k)
          /\ delivered' = delivered \o
               [i \in 1 .. k + 1 |-> IF i = 1 THEN n
                                     ELSE cachedReceived[Advance(firstReceived, i - 1)]]
          /\ firstReceived' = NextSN(Advance(firstReceived, k))
          /\ cachedReceived' = Restrict(cachedReceived,
               DOMAIN cachedReceived \ {Advance(firstReceived, i) : i \in 1 .. k})
    BY DEF DeliverRun
  <1>3. k \in Nat /\ k <= MaxSN BY <1>2, SerialNumberAssumption
  <1>4. \A i \in 1 .. k : cachedReceived[Advance(firstReceived, i)] = d + 1 + i
    <2> TAKE i \in 1 .. k
    <2>1. i \in 1 .. MaxSN BY <1>3, SerialNumberAssumption
    <2>2. Advance(firstReceived, i) \in DOMAIN cachedReceived BY <1>2 DEF CachedRun
    <2> QED BY <2>1, <2>2, CachedPosition
  <1>5. delivered' = delivered \o [i \in 1 .. k + 1 |-> d + i]
    <2>1. \A i \in 1 .. k + 1 :
            (IF i = 1 THEN n ELSE cachedReceived[Advance(firstReceived, i - 1)]) = d + i
      <3> TAKE i \in 1 .. k + 1
      <3>1. CASE i = 1 BY <3>1, <1>1
      <3>2. CASE i # 1
        <4>1. i - 1 \in 1 .. k BY <3>2, <1>3
        <4>2. cachedReceived[Advance(firstReceived, i - 1)] = d + 1 + (i - 1)
          BY <4>1, <1>4
        <4> QED BY <4>2, <3>2, <1>1
      <3> QED BY <3>1, <3>2
    <2> QED BY <2>1, <1>2
  <1>6. d + k + 1 <= Stream
    <2>1. CASE k = 0 BY <2>1, <1>1, StreamAssumption
    <2>2. CASE k > 0
      <3>1. k \in 1 .. k BY <2>2, <1>3
      <3>2. Advance(firstReceived, k) \in DOMAIN cachedReceived
        BY <3>1, <1>2 DEF CachedRun
      <3>3. d + 1 + k \in 1 .. Stream BY <3>1, <3>2, <1>4 DEF WindowTypes
      <3> QED BY <3>3, <1>1, <1>3
    <2> QED BY <2>1, <2>2, <1>3
  <1>7. /\ delivered' \in Seq(1 .. Stream)
        /\ Len(delivered') = d + k + 1
        /\ InOrderDelivery'
    <2> DEFINE run == [i \in 1 .. k + 1 |-> d + i]
    <2>1. run \in Seq(1 .. Stream) /\ Len(run) = k + 1
      BY <1>1, <1>3, <1>6, StreamAssumption
    <2>2. delivered \in Seq(1 .. Stream) /\ delivered' = delivered \o run
      BY <1>5 DEF WindowTypes
    <2>3. delivered' \in Seq(1 .. Stream) /\ Len(delivered') = d + k + 1
      <3> DEFINE S == 1 .. Stream
      <3>1. run \in Seq(S) /\ delivered \in Seq(S) BY <2>1, <2>2
      <3> HIDE DEF run, S
      <3>2. delivered' \in Seq(S) /\ Len(delivered') = Len(delivered) + Len(run)
        BY <2>2, <3>1
      <3> QED BY <2>1, <3>2, <1>1, <1>3 DEF S
    <2>4. \A i \in 1 .. Len(delivered') : delivered'[i] = i
      <3> TAKE i \in 1 .. Len(delivered')
      <3>1. CASE i <= d
        <4>1. i \in 1 .. Len(delivered) BY <3>1, <2>3, <1>1, <1>3
        <4>2. delivered[i] = i BY <4>1 DEF InOrderDelivery
        <4>3. delivered'[i] = delivered[i] BY <4>1, <2>1, <2>2
        <4> QED BY <4>2, <4>3
      <3>2. CASE i > d
        <4>1. i - d \in 1 .. k + 1 BY <3>2, <2>3, <1>1, <1>3
        <4>2. run[i - d] = i BY <4>1, <1>1
        <4> HIDE DEF run
        <4>3. delivered'[i] = run[i - d] BY <2>1, <2>2, <2>3, <3>2
        <4> QED BY <4>2, <4>3
      <3> QED BY <3>1, <3>2, <2>3, <1>1
    <2>5. delivered' = [i \in 1 .. Len(delivered') |-> i] BY <2>3, <2>4
    <2> QED BY <2>3, <2>5 DEF InOrderDelivery
  <1>8. firstReceived' = SerialOf(d + k + 2) /\ firstReceived' \in SerialNumber
    <2> DEFINE a == d + 1
    <2>1. a \in Int /\ firstReceived = SerialOf(a)
      BY <1>1 DEF WindowFollowsStream
    <2> DEFINE b == a + k
    <2>2. b \in Int /\ b + 1 = d + k + 2 /\ b + 1 \in Int BY <1>1, <1>3
    <2> HIDE DEF a
    <2>3. Advance(firstReceived, k) = SerialOf(b) BY <2>1, <1>3, AdvanceSerial
    <2> HIDE DEF b
    <2>4. NextSN(SerialOf(b)) = SerialOf(b + 1) BY <2>2, NextSerial
    <2>5. SerialOf(b + 1) \in SerialNumber BY <2>2, SerialOfType
    <2> QED BY <2>2, <2>3, <2>4, <2>5, <1>2
  <1>9. WindowFollowsStream'
    <2>1. Len(delivered') + 1 = d + k + 2 BY <1>1, <1>3, <1>7
    <2> QED BY <2>1, <1>8 DEF WindowFollowsStream
  <1> DEFINE kept == DOMAIN cachedReceived \ {Advance(firstReceived, i) : i \in 1 .. k}
  <1>10. /\ DOMAIN cachedReceived' = kept
         /\ \A sn \in kept : cachedReceived'[sn] = cachedReceived[sn]
    BY <1>2 DEF Restrict
  <1>11. CacheWithinWindow'
    <2>1. SUFFICES ASSUME NEW sn \in kept
                   PROVE  /\ cachedReceived[sn] \in d + k + 3 .. d + k + 2 + MaxWindow
                          /\ sn = SerialOf(cachedReceived[sn])
      <3>1. Len(delivered') + 2 = d + k + 3 /\ Len(delivered') + 1 = d + k + 2
        BY <1>1, <1>3, <1>7
      <3> QED BY <3>1, <1>10 DEF CacheWithinWindow
    <2> DEFINE v == cachedReceived[sn]
               j == v - (d + 1)
    <2>2. v \in d + 2 .. d + 1 + MaxWindow /\ sn = SerialOf(v)
      BY <2>1 DEF CacheWithinWindow
    <2>3. j \in 1 .. MaxWindow /\ j \in Int /\ v = (d + 1) + j
      BY <2>2, <1>1, SerialNumberAssumption
    <2>4. sn = Advance(firstReceived, j)
      <3> DEFINE a == d + 1
      <3>1. a \in Int /\ firstReceived = SerialOf(a) /\ v = a + j
        BY <1>1, <2>3 DEF WindowFollowsStream
      <3> HIDE DEF a, j, v
      <3> QED BY <3>1, <2>2, <2>3, AdvanceSerial
    <2> HIDE DEF j, v
    <2>5. ~ (j <= k) BY <2>1, <2>3, <2>4, <1>3, SerialNumberAssumption
    <2>6. j # k + 1 BY <2>1, <2>4, <1>2 DEF CachedRun
    <2>7. v >= d + k + 3 BY <2>3, <2>5, <2>6, <1>1, <1>3
    <2>8. v \in d + k + 3 .. d + k + 2 + MaxWindow
      BY <2>2, <2>7, <1>1, <1>3, SerialNumberAssumption
    <2> QED BY <2>8, <2>2 DEF v
  <1>12. RunDelivered(k)
    <2>1. \A i \in 1 .. k : Advance(firstReceived, i) \in DOMAIN cachedReceived
      BY <1>2 DEF CachedRun
    <2>2. Advance(firstReceived, k + 1) \notin DOMAIN cachedReceived
      BY <1>2 DEF CachedRun
    <2> QED BY <1>4, <1>5, <1>7, <1>10, <2>1, <2>2 DEF RunDelivered
  <1> QED BY <1>3, <1>7, <1>8, <1>9, <1>10, <1>11, <1>12

(* Serial numbers received or skipped stay serial numbers.                 *)
LEMMA LossListType ==
  ASSUME WindowTypes, NEW sn \in SerialNumber
  PROVE  /\ (IF IsNewest(sn) THEN sn ELSE BaseLRSN) \in 0 .. MaxSN
         /\ Skipped(sn) \subseteq SerialNumber
  <1>1. BaseLRSN \in 0 .. MaxSN
    BY SerialNumberAssumption DEF BaseLRSN, WindowTypes
  <1>2. Skipped(sn) \subseteq SerialNumber
    <2>1. /\ LRSN + 1 .. MaxSN \subseteq SerialNumber
          /\ 1 .. sn - 1 \subseteq SerialNumber
          /\ BaseLRSN + 1 .. sn - 1 \subseteq SerialNumber
      BY <1>1, SerialNumberAssumption DEF SerialNumber, WindowTypes
    <2> QED BY <2>1 DEF Skipped
  <1> QED BY <1>1, <1>2, SerialNumberAssumption DEF SerialNumber

(* A packet ahead of the next one waits in the cache.                      *)
Cached(n) ==
  /\ UNCHANGED delivered
  /\ DOMAIN cachedReceived' = DOMAIN cachedReceived \cup {SerialOf(n)}
  /\ \A s \in DOMAIN cachedReceived' :
       cachedReceived'[s] = IF s = SerialOf(n) THEN n ELSE cachedReceived[s]

(* The arrival of the n-th packet.                                         *)
LEMMA ArrivalPreserves ==
  ASSUME WindowInvariant, NEW n \in 1 .. Stream, Timely(n),
         ReceivePacket(SerialOf(n), n)
  PROVE  /\ WindowInvariant'
         /\ \/ UNCHANGED windowVars
            \/ n = Len(delivered) + 1 /\ \E k \in Nat : RunDelivered(k)
            \/ Cached(n)
  <1> DEFINE sn == SerialOf(n)
  <1>1. n \in Int /\ Timely(n) /\ ReceivePacket(sn, n)
    BY StreamAssumption
  <1>2. sn \in SerialNumber BY <1>1, SerialOfType
  <1>3. TimerTypes'
    BY <1>1 DEF ReceivePacket, TimerTypes
  <1>4. CASE UNCHANGED windowVars
    BY <1>3, <1>4 DEF windowVars, WindowTypes, WindowFollowsStream, CacheWithinWindow,
                      InOrderDelivery
  <1>5. CASE /\ Accepts(sn)
             /\ LRSN' = IF IsNewest(sn) THEN sn ELSE BaseLRSN
             /\ lostReceiver' = (lostReceiver \cup Skipped(sn)) \ {sn}
             /\ \/ sn = firstReceived /\ DeliverRun(sn, n)
                \/ sn # firstReceived /\ CacheReceived(sn, n)
    <2>1. n > Len(delivered) BY <1>1, <1>5, TimelyAccepted
    <2>2. sn = firstReceived <=> n = Len(delivered) + 1
      BY <1>1, <2>1, FirstIsNext
    <2>3. LRSN' \in 0 .. MaxSN /\ lostReceiver' \subseteq SerialNumber
      BY <1>2, <1>5, LossListType DEF WindowTypes
    <2>4. CASE sn = firstReceived /\ DeliverRun(sn, n)
      <3>1. /\ firstReceived' \in SerialNumber
            /\ DOMAIN cachedReceived' \subseteq DOMAIN cachedReceived
            /\ \A s \in DOMAIN cachedReceived' : cachedReceived'[s] = cachedReceived[s]
            /\ delivered' \in Seq(1 .. Stream)
            /\ WindowFollowsStream'
            /\ CacheWithinWindow'
            /\ InOrderDelivery'
            /\ \E k \in Nat : RunDelivered(k)
        BY <2>2, <2>4, DeliverRunPreserves
      <3>2. WindowTypes' BY <3>1, <2>3 DEF WindowTypes
      <3> QED BY <1>3, <2>2, <2>4, <3>1, <3>2
    <2>5. CASE sn # firstReceived /\ CacheReceived(sn, n)
      <3>1. /\ UNCHANGED <<firstReceived, delivered>>
            /\ DOMAIN cachedReceived' = DOMAIN cachedReceived \cup {sn}
            /\ \A s \in DOMAIN cachedReceived' :
                 cachedReceived'[s] = IF s = sn THEN n ELSE cachedReceived[s]
        BY <2>5 DEF CacheReceived
      <3>2. WindowTypes' BY <3>1, <2>3, <1>2 DEF WindowTypes
      <3>3. n \in Len(delivered) + 2 .. Len(delivered) + 1 + MaxWindow
        <4>1. Len(delivered) \in Nat BY DEF WindowTypes
        <4> QED BY <4>1, <1>1, <2>1, <2>2, <2>5, SerialNumberAssumption DEF Timely
      <3>4. CacheWithinWindow' BY <3>1, <3>3 DEF CacheWithinWindow
      <3>5. WindowFollowsStream' /\ InOrderDelivery'
        BY <3>1 DEF WindowFollowsStream, InOrderDelivery
      <3>6. Cached(n) BY <3>1 DEF Cached
      <3> QED BY <1>3, <3>2, <3>4, <3>5, <3>6
    <2> QED BY <1>5, <2>4, <2>5
  <1> QED BY <1>1, <1>4, <1>5 DEF ReceivePacket


(* Whatever else happens to the receiver leaves the window alone.          *)
LEMMA TimersPreserve ==
  ASSUME WindowInvariant, UNCHANGED windowVars, TimerTypes'
  PROVE  WindowInvariant'
  BY DEF windowVars, WindowTypes, WindowFollowsStream, CacheWithinWindow, InOrderDelivery

(* The timers of the receiving half leave its window alone.                *)
LEMMA FeedbackPreserves ==
  ASSUME WindowInvariant,
         \/ SendACK
         \/ IdleACKTick
         \/ SendNACK
         \/ UNCHANGED receiverVars
  PROVE  WindowInvariant' /\ UNCHANGED windowVars
  <1>1. CASE SendACK
    <2>1. /\ UNCHANGED windowVars /\ UNCHANGED <<receivedAny, feedbackTimers>>
          /\ idleTicks' = 0 /\ lastAck' = firstReceived /\ lastAckLRSN' = LRSN
      BY <1>1 DEF SendACK
    <2>2. idleTicks' \in 0 .. MaxIdleTicks BY <2>1, IdleAssumption
    <2>3. TimerTypes' BY <2>1, <2>2 DEF TimerTypes, WindowTypes, SerialNumber
    <2> QED BY <2>1, <2>3, TimersPreserve
  <1>2. CASE IdleACKTick
    <2>1. /\ UNCHANGED windowVars /\ UNCHANGED <<receivedAny, lastAck, lastAckLRSN>>
          /\ feedbackTimers' \in BOOLEAN
          /\ idleTicks' = IF idleTicks < MaxIdleTicks THEN idleTicks + 1 ELSE idleTicks
      BY <1>2 DEF IdleACKTick
    <2>2. idleTicks' \in 0 .. MaxIdleTicks BY <2>1, IdleAssumption DEF TimerTypes
    <2>3. TimerTypes' BY <2>1, <2>2 DEF TimerTypes
    <2> QED BY <2>1, <2>3, TimersPreserve
  <1>3. CASE UNCHANGED receiverVars
    <2>1. UNCHANGED windowVars /\ UNCHANGED timerVars BY <1>3 DEF receiverVars
    <2>2. TimerTypes' BY <2>1 DEF timerVars, TimerTypes
    <2> QED BY <2>1, <2>2, TimersPreserve
  <1> QED BY <1>1, <1>2, <1>3 DEF SendNACK

(* The start of a connection.                                              *)
LEMMA ReceiverStarts == ReceiverInit => WindowInvariant
  <1> SUFFICES ASSUME ReceiverInit PROVE WindowInvariant
    OBVIOUS
  <1>1. SerialOf(1) = 1
    <2>1. (1 - 1) % MaxSN = 0
      <3>1. 1 - 1 = MaxSN * 0 + 0 /\ 0 \in 0 .. MaxSN - 1
        BY SerialNumberAssumption
      <3> QED BY <3>1, SerialNumberAssumption, RemainderUnique
    <2> QED BY <2>1, SerialOfType
  <1>2. Len(delivered) = 0 /\ delivered \in Seq(1 .. Stream)
    BY DEF ReceiverInit
  <1>3. DOMAIN cachedReceived = {} BY DEF ReceiverInit
  <1>4. ReceiverTypes
    <2>1. /\ firstReceived = 1 /\ LRSN = 0 /\ lostReceiver = {}
          /\ receivedAny = FALSE /\ feedbackTimers = TRUE
          /\ idleTicks = 0 /\ lastAck = 0 /\ lastAckLRSN = 0
      BY DEF ReceiverInit
    <2>2. /\ 1 \in SerialNumber /\ 0 \in 0 .. MaxSN /\ 0 \in 0 .. MaxIdleTicks
          /\ {} \subseteq SerialNumber
      BY SerialNumberAssumption, IdleAssumption DEF SerialNumber
    <2>3. \A sn \in DOMAIN cachedReceived : cachedReceived[sn] \in 1 .. Stream
      BY <1>3
    <2> QED BY <2>1, <2>2, <2>3, <1>2, <1>3 DEF WindowTypes, TimerTypes
  <1>5. WindowFollowsStream BY <1>1, <1>2 DEF ReceiverInit, WindowFollowsStream
  <1>6. CacheWithinWindow BY <1>3 DEF CacheWithinWindow
  <1>7. InOrderDelivery BY <1>2 DEF ReceiverInit, InOrderDelivery
  <1> QED BY <1>4, <1>5, <1>6, <1>7
=============================================================================

--------------------------- MODULE RUDPTransferProofs ---------------------------
(***************************************************************************)
(* One direction of data transfer is a reliable stream: for every stream,  *)
(* window, send buffer and number of datagrams in flight, across any       *)
(* number of turns of the serial numbers when the network keeps datagrams  *)
(* in order, and within the first turn whatever the network does.          *)
(***************************************************************************)
EXTENDS RUDPTransferLive, RUDPReceiverProofs

-----------------------------------------------------------------------------
(* Sequences                                                               *)

LEMMA SubSeqEntries ==
  ASSUME NEW S, NEW s \in Seq(S), NEW m \in 1 .. Len(s) + 1, NEW n \in m - 1 .. Len(s)
  PROVE  /\ SubSeq(s, m, n) \in Seq(S)
         /\ Len(SubSeq(s, m, n)) = n - m + 1
         /\ \A i \in 1 .. n - m + 1 : SubSeq(s, m, n)[i] = s[m + i - 1]
  <1>1. Len(s) \in Nat BY LenProperties
  <1>2. CASE m <= n
    <2>1. m \in 1 .. Len(s) /\ n \in m - 1 .. Len(s) BY <1>1, <1>2
    <2> QED BY <1>1, <1>2, <2>1, SubSeqProperties
  <1>3. CASE ~ (m <= n)
    <2>1. n = m - 1 /\ m \in Int /\ n \in Int BY <1>1, <1>3
    <2>2. SubSeq(s, m, n) = <<>> BY <2>1, SubSeqEmpty
    <2>3. n - m + 1 = 0 BY <2>1
    <2> QED BY <2>2, <2>3, EmptySeq
  <1> QED BY <1>2, <1>3

(* What is in flight after datagrams t were written behind s.              *)
LEMMA WrittenEntries ==
  ASSUME NEW S, NEW s \in Seq(S), NEW t \in Seq(S)
  PROVE  /\ Written(s, t) \in Seq(S)
         /\ Len(Written(s, t)) =
              IF Len(s) + Len(t) < Capacity THEN Len(s) + Len(t) ELSE Capacity
         /\ \A i \in 1 .. Len(Written(s, t)) :
              Written(s, t)[i] = IF i <= Len(s) THEN s[i] ELSE t[i - Len(s)]
  <1> DEFINE all == s \o t
             len == IF Len(all) < Capacity THEN Len(all) ELSE Capacity
  <1>1. /\ Len(s) \in Nat /\ Len(t) \in Nat
        /\ all \in Seq(S) /\ Len(all) = Len(s) + Len(t)
        /\ \A i \in 1 .. Len(all) : all[i] = IF i <= Len(s) THEN s[i] ELSE t[i - Len(s)]
    BY ConcatProperties, LenProperties
  <1> HIDE DEF all
  <1>2. len \in Nat /\ len <= Len(all) BY <1>1, NetworkAssumption
  <1> HIDE DEF len
  <1>3. 1 \in 1 .. Len(all) + 1 /\ len \in 1 - 1 .. Len(all) BY <1>1, <1>2
  <1>4. /\ SubSeq(all, 1, len) \in Seq(S)
        /\ Len(SubSeq(all, 1, len)) = len - 1 + 1
        /\ \A i \in 1 .. len - 1 + 1 : SubSeq(all, 1, len)[i] = all[1 + i - 1]
    BY <1>1, <1>3, SubSeqEntries
  <1>5. Written(s, t) = SubSeq(all, 1, len) BY DEF Written, all, len
  <1>6. len - 1 + 1 = len /\ \A i \in 1 .. len : 1 + i - 1 = i /\ i \in 1 .. Len(all)
    BY <1>1, <1>2
  <1> QED BY <1>1, <1>4, <1>5, <1>6 DEF len

(* What is in flight after the k-th datagram is taken out.                 *)
LEMMA RemoveAtEntries ==
  ASSUME NEW S, NEW s \in Seq(S), NEW k \in 1 .. Len(s)
  PROVE  /\ RemoveAt(s, k) \in Seq(S)
         /\ Len(RemoveAt(s, k)) = Len(s) - 1
         /\ \A i \in 1 .. Len(s) - 1 :
              RemoveAt(s, k)[i] = s[IF i < k THEN i ELSE i + 1]
  <1> DEFINE u == SubSeq(s, 1, k - 1)
             v == SubSeq(s, k + 1, Len(s))
  <1>1. Len(s) \in Nat BY LenProperties
  <1>2. u \in Seq(S) /\ Len(u) = k - 1 /\ \A i \in 1 .. k - 1 : u[i] = s[i]
    <2>1. 1 \in 1 .. Len(s) + 1 /\ k - 1 \in 1 - 1 .. Len(s) BY <1>1
    <2>2. /\ u \in Seq(S)
          /\ Len(u) = (k - 1) - 1 + 1
          /\ \A i \in 1 .. (k - 1) - 1 + 1 : u[i] = s[1 + i - 1]
      BY <2>1, SubSeqEntries
    <2>3. (k - 1) - 1 + 1 = k - 1 /\ \A i \in 1 .. k - 1 : 1 + i - 1 = i BY <1>1
    <2> HIDE DEF u
    <2> QED BY <2>2, <2>3
  <1>3. v \in Seq(S) /\ Len(v) = Len(s) - k /\ \A i \in 1 .. Len(s) - k : v[i] = s[k + i]
    <2>1. k + 1 \in 1 .. Len(s) + 1 /\ Len(s) \in (k + 1) - 1 .. Len(s) BY <1>1
    <2>2. /\ v \in Seq(S)
          /\ Len(v) = Len(s) - (k + 1) + 1
          /\ \A i \in 1 .. Len(s) - (k + 1) + 1 : v[i] = s[(k + 1) + i - 1]
      BY <2>1, SubSeqEntries
    <2>3. /\ Len(s) - (k + 1) + 1 = Len(s) - k
          /\ \A i \in 1 .. Len(s) - k : (k + 1) + i - 1 = k + i
      BY <1>1
    <2> HIDE DEF v
    <2> QED BY <2>2, <2>3
  <1> HIDE DEF u, v
  <1>4. /\ u \o v \in Seq(S) /\ Len(u \o v) = Len(u) + Len(v)
        /\ \A i \in 1 .. Len(u) + Len(v) :
             (u \o v)[i] = IF i <= Len(u) THEN u[i] ELSE v[i - Len(u)]
    BY <1>2, <1>3, ConcatProperties
  <1>5. RemoveAt(s, k) = u \o v BY DEF RemoveAt, u, v
  <1>6. ASSUME NEW i \in 1 .. Len(s) - 1
        PROVE  (u \o v)[i] = s[IF i < k THEN i ELSE i + 1]
    <2>1. CASE i < k BY <1>1, <1>2, <1>3, <1>4, <2>1
    <2>2. CASE ~ (i < k)
      <3>1. /\ i - Len(u) \in 1 .. Len(s) - k /\ k + (i - Len(u)) = i + 1
            /\ ~ (i <= Len(u)) /\ i \in 1 .. Len(u) + Len(v)
        BY <1>1, <1>2, <1>3, <2>2
      <3>2. (u \o v)[i] = v[i - Len(u)] BY <1>4, <3>1
      <3> QED BY <1>3, <2>2, <3>1, <3>2
    <2> QED BY <2>1, <2>2
  <1>7. Len(u) + Len(v) = Len(s) - 1 BY <1>1, <1>2, <1>3
  <1> QED BY <1>4, <1>5, <1>6, <1>7

-----------------------------------------------------------------------------
(* Runs of consecutive packets, named by the positions x to y.             *)

Run(F, x, y) == [i \in 1 .. y - x + 1 |-> F[x + i - 1]]

Values(F) == {F[n] : n \in Int}

LEMMA RunFacts ==
  ASSUME NEW F, NEW x \in Int, NEW y \in Int, x <= y + 1
  PROVE  /\ Run(F, x, y) \in Seq(Values(F))
         /\ Len(Run(F, x, y)) = y - x + 1
         /\ DOMAIN Run(F, x, y) = 1 .. y - x + 1
         /\ \A i \in 1 .. y - x + 1 : Run(F, x, y)[i] = F[x + i - 1]
  <1>1. \A i \in 1 .. y - x + 1 : x + i - 1 \in Int /\ F[x + i - 1] \in Values(F)
    BY DEF Values
  <1>2. y - x + 1 \in Nat OBVIOUS
  <1> QED BY <1>1, <1>2 DEF Run

(* Two runs that follow each other are one.                                *)
LEMMA RunJoin ==
  ASSUME NEW F,
         NEW x \in Int, NEW m \in Int, NEW y \in Int, x <= m + 1, m <= y
  PROVE  Run(F, x, m) \o Run(F, m + 1, y) = Run(F, x, y)
  <1> DEFINE s == Run(F, x, m)
             t == Run(F, m + 1, y)
             u == Run(F, x, y)
  <1>1. /\ s \in Seq(Values(F)) /\ Len(s) = m - x + 1
        /\ \A i \in 1 .. m - x + 1 : s[i] = F[x + i - 1]
    BY RunFacts
  <1>2. /\ t \in Seq(Values(F)) /\ Len(t) = y - m
        /\ \A i \in 1 .. y - m : t[i] = F[m + i]
    <2> DEFINE z == m + 1
    <2>1. /\ z \in Int /\ z <= y + 1 /\ y - z + 1 = y - m
          /\ \A i \in 1 .. y - m : z + i - 1 = m + i
      OBVIOUS
    <2> HIDE DEF z
    <2>2. /\ Run(F, z, y) \in Seq(Values(F)) /\ Len(Run(F, z, y)) = y - z + 1
          /\ \A i \in 1 .. y - z + 1 : Run(F, z, y)[i] = F[z + i - 1]
      BY <2>1, RunFacts
    <2>3. /\ Run(F, z, y) \in Seq(Values(F)) /\ Len(Run(F, z, y)) = y - m
          /\ \A i \in 1 .. y - m : Run(F, z, y)[i] = F[m + i]
      BY <2>1, <2>2
    <2> QED BY <2>3 DEF z
  <1>3. /\ u \in Seq(Values(F)) /\ Len(u) = y - x + 1
        /\ \A i \in 1 .. y - x + 1 : u[i] = F[x + i - 1]
    <2>1. x <= y + 1 OBVIOUS
    <2> QED BY <2>1, RunFacts
  <1> HIDE DEF s, t, u
  <1>4. /\ s \o t \in Seq(Values(F)) /\ Len(s \o t) = Len(s) + Len(t)
        /\ \A i \in 1 .. Len(s) + Len(t) :
             (s \o t)[i] = IF i <= Len(s) THEN s[i] ELSE t[i - Len(s)]
    BY <1>1, <1>2, ConcatProperties
  <1>5. ASSUME NEW i \in 1 .. y - x + 1 PROVE (s \o t)[i] = u[i]
    <2>1. CASE i <= m - x + 1 BY <1>1, <1>2, <1>3, <1>4, <2>1
    <2>2. CASE ~ (i <= m - x + 1)
      <3>1. i - Len(s) \in 1 .. y - m /\ m + (i - Len(s)) = x + i - 1
        BY <1>1, <2>2
      <3> QED BY <1>1, <1>2, <1>3, <1>4, <2>2, <3>1
    <2> QED BY <2>1, <2>2
  <1>6. Len(s \o t) = Len(u) BY <1>1, <1>2, <1>3, <1>4
  <1>7. s \o t = u
    <2>1. \A i \in 1 .. Len(s \o t) : (s \o t)[i] = u[i] BY <1>3, <1>5, <1>6
    <2> QED BY <1>3, <1>4, <1>6, <2>1, SeqEqual
  <1> QED BY <1>7 DEF s, t, u

(* A part of a run is a run.                                               *)
LEMMA RunPart ==
  ASSUME NEW F,
         NEW x \in Int, NEW y \in Int, NEW u \in Int, NEW v \in Int,
         x <= y + 1, x <= u, u <= v + 1, v <= y \/ v < u
  PROVE  Picked(Run(F, x, y), u - x + 1 .. v - x + 1) = Run(F, u, v)
  <1> DEFINE s == Run(F, x, y)
  <1>1. DOMAIN s = 1 .. y - x + 1 /\ \A i \in 1 .. y - x + 1 : s[i] = F[x + i - 1]
    BY RunFacts
  <1> HIDE DEF s
  <1> DEFINE lo == u - x + 1
             hi == v - x + 1
  <1>2. lo \in Int /\ hi \in Int /\ lo <= hi + 1 /\ hi - lo + 1 = v - u + 1
    OBVIOUS
  <1>3. \A k \in 1 .. v - u + 1 : lo + k - 1 \in 1 .. y - x + 1 /\ x + (lo + k - 1) - 1 = u + k - 1
    OBVIOUS
  <1>7. lo .. hi \subseteq DOMAIN s BY <1>1
  <1> HIDE DEF lo, hi
  <1>4. Picked(s, lo .. hi) = [k \in 1 .. v - u + 1 |-> s[lo + k - 1]]
    BY <1>2, <1>7, PickedInterval
  <1>5. \A k \in 1 .. v - u + 1 : s[lo + k - 1] = F[u + k - 1]
    <2> TAKE k \in 1 .. v - u + 1
    <2>1. lo + k - 1 \in 1 .. y - x + 1 /\ x + (lo + k - 1) - 1 = u + k - 1 BY <1>3
    <2> QED BY <1>1, <2>1
  <1>6. Picked(s, lo .. hi) = Run(F, u, v) BY <1>4, <1>5 DEF Run
  <1> QED BY <1>6 DEF s, lo, hi

(* Runs of packets and runs of serial numbers.                             *)
Serials(x, y) == [i \in 1 .. y - x + 1 |-> SerialOf(x + i - 1)]
SerialSet(x, y) == {SerialOf(n) : n \in x .. y}
Holds(hash, x, y) ==
  /\ DOMAIN hash = SerialSet(x, y)
  /\ \A n \in x .. y : hash[SerialOf(n)] = n
StreamPacket == [sn : SerialNumber, data : Int]
PacketOf == [n \in Int |-> Packet(SerialOf(n), n)]
NumberOf == [n \in Int |-> SerialOf(n)]

LEMMA AsRuns ==
  ASSUME NEW x \in Int, NEW y \in Int
  PROVE  Created(x, y) = Run(PacketOf, x, y) /\ Serials(x, y) = Run(NumberOf, x, y)
  <1>1. \A i \in 1 .. y - x + 1 : x + i - 1 \in Int OBVIOUS
  <1>2. Created(x, y) = Run(PacketOf, x, y) BY <1>1 DEF Created, Run, PacketOf
  <1>3. Serials(x, y) = Run(NumberOf, x, y) BY <1>1 DEF Serials, Run, NumberOf
  <1> QED BY <1>2, <1>3

LEMMA ValuesOfRuns ==
  Values(PacketOf) \subseteq StreamPacket /\ Values(NumberOf) \subseteq SerialNumber
  <1>1. \A n \in Int : SerialOf(n) \in SerialNumber /\ Packet(SerialOf(n), n) \in StreamPacket
    BY SerialOfType DEF Packet, StreamPacket
  <1> QED BY <1>1 DEF Values, PacketOf, NumberOf

LEMMA SerialsFacts ==
  ASSUME NEW x \in Int, NEW y \in Int, x <= y + 1
  PROVE  /\ Serials(x, y) \in Seq(SerialNumber)
         /\ Len(Serials(x, y)) = y - x + 1
         /\ DOMAIN Serials(x, y) = 1 .. y - x + 1
         /\ \A i \in 1 .. y - x + 1 : Serials(x, y)[i] = SerialOf(x + i - 1)
  <1>1. /\ Serials(x, y) \in Seq(Values(NumberOf))
        /\ Len(Serials(x, y)) = y - x + 1
        /\ DOMAIN Serials(x, y) = 1 .. y - x + 1
    BY AsRuns, RunFacts
  <1>2. \A i \in 1 .. y - x + 1 : Serials(x, y)[i] = SerialOf(x + i - 1) BY DEF Serials
  <1> QED BY <1>1, <1>2, ValuesOfRuns, SeqMonotonic

LEMMA CreatedFacts ==
  ASSUME NEW x \in Int, NEW y \in Int, x <= y + 1
  PROVE  /\ Created(x, y) \in Seq(StreamPacket)
         /\ Len(Created(x, y)) = y - x + 1
         /\ DOMAIN Created(x, y) = 1 .. y - x + 1
         /\ \A i \in 1 .. y - x + 1 :
              Created(x, y)[i] = Packet(SerialOf(x + i - 1), x + i - 1)
  <1>1. /\ Created(x, y) \in Seq(Values(PacketOf))
        /\ Len(Created(x, y)) = y - x + 1
        /\ DOMAIN Created(x, y) = 1 .. y - x + 1
    <2>1. /\ Run(PacketOf, x, y) \in Seq(Values(PacketOf))
          /\ Len(Run(PacketOf, x, y)) = y - x + 1
          /\ DOMAIN Run(PacketOf, x, y) = 1 .. y - x + 1
      BY RunFacts
    <2> QED BY <2>1, AsRuns
  <1>2. \A i \in 1 .. y - x + 1 : Created(x, y)[i] = Packet(SerialOf(x + i - 1), x + i - 1)
    BY DEF Created
  <1> QED BY <1>1, <1>2, ValuesOfRuns, SeqMonotonic

LEMMA CreatedJoin ==
  ASSUME NEW x \in Int, NEW m \in Int, NEW y \in Int, x <= m + 1, m <= y
  PROVE  Created(x, m) \o Created(m + 1, y) = Created(x, y)
  <1>1. m + 1 \in Int OBVIOUS
  <1>2. Run(PacketOf, x, m) \o Run(PacketOf, m + 1, y) = Run(PacketOf, x, y) BY RunJoin
  <1> QED BY <1>1, <1>2, AsRuns

LEMMA SerialsJoin ==
  ASSUME NEW x \in Int, NEW m \in Int, NEW y \in Int, x <= m + 1, m <= y
  PROVE  Serials(x, m) \o Serials(m + 1, y) = Serials(x, y)
  <1>1. m + 1 \in Int OBVIOUS
  <1>2. Run(NumberOf, x, m) \o Run(NumberOf, m + 1, y) = Run(NumberOf, x, y) BY RunJoin
  <1> QED BY <1>1, <1>2, AsRuns

LEMMA CreatedPart ==
  ASSUME NEW x \in Int, NEW y \in Int, NEW u \in Int, NEW v \in Int,
         x <= y + 1, x <= u, u <= v + 1, v <= y \/ v < u
  PROVE  Picked(Created(x, y), u - x + 1 .. v - x + 1) = Created(u, v)
  BY AsRuns, RunPart

LEMMA SerialsPart ==
  ASSUME NEW x \in Int, NEW y \in Int, NEW u \in Int, NEW v \in Int,
         x <= y + 1, x <= u, u <= v + 1, v <= y \/ v < u
  PROVE  Picked(Serials(x, y), u - x + 1 .. v - x + 1) = Serials(u, v)
  BY AsRuns, RunPart

(* The serial numbers of a run, and those of its packets.                  *)
LEMMA SnsOfCreated ==
  ASSUME NEW x \in Int, NEW y \in Int, x <= y + 1
  PROVE  /\ Sns(Created(x, y)) = Serials(x, y)
         /\ ToSet(Serials(x, y)) = SerialSet(x, y)
  <1>1. /\ DOMAIN Created(x, y) = 1 .. y - x + 1
        /\ \A i \in 1 .. y - x + 1 : Created(x, y)[i].sn = SerialOf(x + i - 1)
    <2>1. \A sn, data : Packet(sn, data).sn = sn BY DEF Packet
    <2>2. /\ DOMAIN Created(x, y) = 1 .. y - x + 1
          /\ \A i \in 1 .. y - x + 1 :
               Created(x, y)[i] = Packet(SerialOf(x + i - 1), x + i - 1)
      BY CreatedFacts
    <2> QED BY <2>1, <2>2
  <1>2. Sns(Created(x, y)) = Serials(x, y) BY <1>1 DEF Sns, Serials
  <1>3. ToSet(Serials(x, y)) = {SerialOf(x + i - 1) : i \in 1 .. y - x + 1}
    <2> DEFINE s == Serials(x, y)
    <2>1. /\ DOMAIN s = 1 .. y - x + 1
          /\ \A i \in 1 .. y - x + 1 : s[i] = SerialOf(x + i - 1)
      BY SerialsFacts
    <2> HIDE DEF s
    <2>2. {s[i] : i \in DOMAIN s} = {SerialOf(x + i - 1) : i \in 1 .. y - x + 1}
      BY <2>1
    <2> QED BY <2>2 DEF ToSet, s
  <1>4. SerialSet(x, y) \subseteq {SerialOf(x + i - 1) : i \in 1 .. y - x + 1}
    <2> SUFFICES ASSUME NEW n \in x .. y
                 PROVE  \E i \in 1 .. y - x + 1 : SerialOf(n) = SerialOf(x + i - 1)
      BY DEF SerialSet
    <2>1. n - x + 1 \in 1 .. y - x + 1 /\ x + (n - x + 1) - 1 = n OBVIOUS
    <2> QED BY <2>1
  <1>5. {SerialOf(x + i - 1) : i \in 1 .. y - x + 1} \subseteq SerialSet(x, y)
    <2>1. \A i \in 1 .. y - x + 1 : x + i - 1 \in x .. y OBVIOUS
    <2> QED BY <2>1 DEF SerialSet
  <1> QED BY <1>2, <1>3, <1>4, <1>5

LEMMA PacketFields ==
  ASSUME NEW sn, NEW data
  PROVE  Packet(sn, data).sn = sn /\ Packet(sn, data).data = data
  BY DEF Packet

(* The serial numbers of a run are different from each other.              *)
LEMMA SerialSetPositions ==
  ASSUME NEW x \in Int, NEW y \in Int, NEW n \in Int,
         \/ n <= y /\ y < n + MaxSN /\ n < x + MaxSN
         \/ x <= n /\ n < x + MaxSN /\ y < n + MaxSN
         \/ x <= n + MaxSN - 1 /\ n <= x + MaxSN - 1 /\ y <= n + MaxSN - 1
  PROVE  SerialOf(n) \in SerialSet(x, y) <=> n \in x .. y
  <1>1. ASSUME NEW m \in x .. y, SerialOf(n) = SerialOf(m) PROVE n = m
    <2>1. m \in Int /\ n - m < MaxSN /\ m - n < MaxSN BY SerialNumberAssumption
    <2> QED BY <1>1, <2>1, SerialOfUnique
  <1> QED BY <1>1 DEF SerialSet

LEMMA ByNumberOfCreated ==
  ASSUME NEW x \in Int, NEW y \in Int, x <= y + 1, y - x < MaxSN
  PROVE  Holds(ByNumber(Created(x, y)), x, y)
  <1> DEFINE s == Created(x, y)
             one(sn) == CHOOSE p \in ToSet(s) : p.sn = sn
  <1>1. /\ DOMAIN s = 1 .. y - x + 1
        /\ \A i \in 1 .. y - x + 1 : s[i] = Packet(SerialOf(x + i - 1), x + i - 1)
    BY CreatedFacts
  <1>2. ToSet(Sns(s)) = SerialSet(x, y) BY SnsOfCreated
  <1> HIDE DEF s
  <1>3. ASSUME NEW n \in x .. y PROVE one(SerialOf(n)).data = n
    <2> DEFINE p == Packet(SerialOf(n), n)
    <2>1. p \in ToSet(s)
      <3>1. n - x + 1 \in 1 .. y - x + 1 /\ x + (n - x + 1) - 1 = n OBVIOUS
      <3>2. s[n - x + 1] = p BY <1>1, <3>1
      <3> QED BY <1>1, <3>1, <3>2 DEF ToSet
    <2>2. p.sn = SerialOf(n) /\ p.data = n BY PacketFields
    <2>3. ASSUME NEW q \in ToSet(s), q.sn = SerialOf(n) PROVE q.data = n
      <3>1. PICK i \in 1 .. y - x + 1 : q = Packet(SerialOf(x + i - 1), x + i - 1)
        BY <1>1 DEF ToSet
      <3> DEFINE m == x + i - 1
      <3>2. m \in Int /\ n \in Int /\ m - n < MaxSN /\ n - m < MaxSN
        BY SerialNumberAssumption
      <3>3. q.sn = SerialOf(m) /\ q.data = m BY <3>1, PacketFields
      <3> HIDE DEF m
      <3>4. SerialOf(m) = SerialOf(n) BY <2>3, <3>3
      <3>5. m = n BY <3>2, <3>4, SerialOfUnique
      <3> QED BY <3>3, <3>5
    <2> QED BY <2>1, <2>2, <2>3
  <1>4. /\ DOMAIN ByNumber(s) = SerialSet(x, y)
        /\ \A sn \in SerialSet(x, y) : ByNumber(s)[sn] = one(sn).data
    BY <1>2 DEF ByNumber
  <1>5. \A n \in x .. y : SerialOf(n) \in SerialSet(x, y) BY DEF SerialSet
  <1> HIDE DEF one
  <1>6. Holds(ByNumber(s), x, y) BY <1>3, <1>4, <1>5 DEF Holds
  <1> QED BY <1>6 DEF s

(* Two stretches of packets under their numbers, put together.             *)
LEMMA HoldsJoin ==
  ASSUME NEW f, NEW g, NEW x \in Int, NEW m \in Int, NEW y \in Int,
         x <= m + 1, m <= y, y - x < MaxSN,
         \/ Holds(f, m + 1, y) /\ Holds(g, x, m)
         \/ Holds(f, x, m) /\ Holds(g, m + 1, y)
  PROVE  Holds(Inserted(f, g), x, y)
  <1>1. /\ DOMAIN Inserted(f, g) = DOMAIN f \cup DOMAIN g
        /\ \A sn \in DOMAIN f \cup DOMAIN g :
             Inserted(f, g)[sn] = IF sn \in DOMAIN f THEN f[sn] ELSE g[sn]
    BY DEF Inserted
  <1>2. SerialSet(x, y) = SerialSet(x, m) \cup SerialSet(m + 1, y)
    <2>1. x .. y = (x .. m) \cup (m + 1 .. y) OBVIOUS
    <2> QED BY <2>1 DEF SerialSet
  <1>3. DOMAIN Inserted(f, g) = SerialSet(x, y) BY <1>1, <1>2 DEF Holds
  <1>4. ASSUME NEW n \in x .. y PROVE Inserted(f, g)[SerialOf(n)] = n
    <2>1. /\ SerialOf(n) \in SerialSet(x, m) <=> n \in x .. m
          /\ SerialOf(n) \in SerialSet(m + 1, y) <=> n \in m + 1 .. y
      <3>1. n \in Int /\ m + 1 \in Int OBVIOUS
      <3>2. /\ x <= n /\ n < x + MaxSN /\ m < n + MaxSN
            /\ n <= y /\ y < n + MaxSN /\ n < (m + 1) + MaxSN
        BY SerialNumberAssumption
      <3> QED BY <3>1, <3>2, SerialSetPositions
    <2>2. n \in x .. m \/ n \in m + 1 .. y OBVIOUS
    <2>3. ~ (n \in x .. m /\ n \in m + 1 .. y) OBVIOUS
    <2> QED BY <1>1, <2>1, <2>2, <2>3 DEF Holds
  <1> QED BY <1>3, <1>4 DEF Holds

(* A stretch of packets without its beginning, or without its end.         *)
LEMMA HoldsRest ==
  ASSUME NEW f, NEW x \in Int, NEW m \in Int, NEW y \in Int,
         x <= m + 1, m <= y, y - x < MaxSN, Holds(f, x, y)
  PROVE  Holds(Drop(f, SerialSet(x, m)), m + 1, y)
  <1> DEFINE g == Drop(f, SerialSet(x, m))
  <1>1. /\ DOMAIN g = DOMAIN f \ SerialSet(x, m)
        /\ \A sn \in DOMAIN g : g[sn] = f[sn]
    BY DEF Drop, Restrict
  <1> HIDE DEF g
  <1>2. ASSUME NEW n \in x .. y
        PROVE  SerialOf(n) \in SerialSet(x, m) <=> n \in x .. m
    <2>1. n \in Int /\ x <= n /\ n < x + MaxSN /\ m < n + MaxSN
      BY SerialNumberAssumption
    <2> QED BY <2>1, SerialSetPositions
  <1>3. ASSUME NEW sn PROVE sn \in DOMAIN g <=> sn \in SerialSet(m + 1, y)
    <2>1. ASSUME sn \in DOMAIN g PROVE sn \in SerialSet(m + 1, y)
      <3>1. PICK n \in x .. y : sn = SerialOf(n) BY <1>1, <2>1 DEF Holds, SerialSet
      <3>2. n \notin x .. m BY <1>1, <1>2, <2>1, <3>1
      <3>3. n \in m + 1 .. y BY <3>2
      <3> QED BY <3>1, <3>3 DEF SerialSet
    <2>2. ASSUME sn \in SerialSet(m + 1, y) PROVE sn \in DOMAIN g
      <3>1. PICK n \in m + 1 .. y : sn = SerialOf(n) BY <2>2 DEF SerialSet
      <3>2. n \in x .. y /\ n \notin x .. m OBVIOUS
      <3>3. sn \in DOMAIN f BY <3>1, <3>2 DEF Holds, SerialSet
      <3> QED BY <1>1, <1>2, <3>1, <3>2, <3>3
    <2> QED BY <2>1, <2>2
  <1>4. DOMAIN g = SerialSet(m + 1, y)
    <2> DEFINE dg == DOMAIN g
    <2>1. \A sn : sn \in dg <=> sn \in SerialSet(m + 1, y) BY <1>3
    <2> HIDE DEF dg
    <2>2. dg = SerialSet(m + 1, y) BY <2>1
    <2> QED BY <2>2 DEF dg
  <1>5. ASSUME NEW n \in m + 1 .. y PROVE g[SerialOf(n)] = n
    <2>1. n \in x .. y /\ SerialOf(n) \in DOMAIN g BY <1>4 DEF SerialSet
    <2> QED BY <1>1, <2>1 DEF Holds
  <1>6. Holds(g, m + 1, y) BY <1>4, <1>5 DEF Holds
  <1> QED BY <1>6 DEF g

-----------------------------------------------------------------------------
(* The sending half behind a network that keeps datagrams in order.        *)

(* Packets a to hi wait for their ACKs, those behind hi for the window.    *)
Sending(a, hi) ==
  /\ created \in 0 .. Stream
  /\ 1 <= a /\ a <= hi + 1 /\ hi <= created /\ hi <= a + MaxWindow
  /\ freeSendBuffer \in Nat
  /\ created - a + 1 + freeSendBuffer <= SendBuffer
  /\ sendWindow \in MinWindow .. MaxWindow
  /\ firstWaiting = SerialOf(a)
  /\ waitingForACK = Serials(a, hi)
  /\ Holds(sentPackets, a, hi)
  /\ Holds(toBeSent, hi + 1, created)
  /\ LSSN = IF hi = 0 THEN 0 ELSE SerialOf(hi)

(* The last of the packets from to top that the window reaches.            *)
Reached(a, from, top) ==
  IF a + sendWindow < from THEN from
  ELSE IF top < a + sendWindow THEN top ELSE a + sendWindow

LEMMA SendingNumbers ==
  ASSUME NEW a \in Int, NEW hi \in Int, Sending(a, hi)
  PROVE  /\ created \in Nat /\ created <= Stream /\ Stream \in Nat
         /\ sendWindow \in Nat /\ sendWindow <= MaxWindow
         /\ MaxWindow \in Nat /\ MaxSN \in Nat /\ 2 * MaxWindow + 1 < MaxSN
         /\ SendBuffer \in Nat /\ SendBuffer < MaxSN /\ freeSendBuffer \in Nat
         /\ created + freeSendBuffer < a + MaxSN
  BY SerialNumberAssumption, SenderAssumption, StreamAssumption DEF Sending

LEMMA WindowReaches ==
  ASSUME NEW a \in Int, NEW hi \in Int, Sending(a, hi),
         NEW n \in Int, a <= n, n < a + MaxSN
  PROVE  InSendWindow(SerialOf(n)) <=> n <= a + sendWindow
  <1>1. /\ sendWindow \in Nat /\ sendWindow < MaxSN
        /\ a + sendWindow - MaxSN < n
    BY SendingNumbers
  <1>2. InWindow(SerialOf(a), sendWindow, SerialOf(n)) <=> a <= n /\ n <= a + sendWindow
    BY <1>1, WindowTestExact
  <1> QED BY <1>2 DEF InSendWindow, Sending

LEMMA ReachedBounds ==
  ASSUME NEW a \in Int, NEW hi \in Int, Sending(a, hi),
         NEW from \in Int, NEW top \in Int, from <= top
  PROVE  /\ Reached(a, from, top) \in from .. top
         /\ \A n \in Int : from < n /\ n <= top =>
              (n <= a + sendWindow <=> n <= Reached(a, from, top))
  BY SendingNumbers DEF Reached

(* sendToBeSentPackets takes the packets the window reaches out of the     *)
(* cache, in order.                                                        *)
LEMMA FlushedExact ==
  ASSUME NEW a \in Int, NEW hi \in Int, Sending(a, hi)
  PROVE  Flushed = Created(hi + 1, Reached(a, hi, created))
  <1> DEFINE w == a + sendWindow
             order == [i \in 1 .. sendWindow + 1 |-> Advance(firstWaiting, i - 1)]
             kept == {i \in DOMAIN order : order[i] \in DOMAIN toBeSent}
             top == Reached(a, hi, created)
  <1>1. /\ 1 <= a /\ a <= hi + 1 /\ hi <= created /\ firstWaiting = SerialOf(a)
        /\ Holds(toBeSent, hi + 1, created)
    BY DEF Sending
  <1>2. /\ w \in Int /\ w < a + MaxSN /\ a <= w /\ created \in Int /\ created < a + MaxSN
        /\ sendWindow + 1 = w - a + 1
    BY SendingNumbers
  <1>3. /\ top \in hi .. created
        /\ \A n \in Int : hi < n /\ n <= created => (n <= w <=> n <= top)
    BY <1>1, <1>2, ReachedBounds
  <1>4. top \in Int /\ (hi < top => top <= w)
    BY <1>3
  <1>5. order = Serials(a, w)
    <2>1. \A i \in 1 .. sendWindow + 1 : Advance(SerialOf(a), i - 1) = SerialOf(a + i - 1)
      <3> TAKE i \in 1 .. sendWindow + 1
      <3>1. i - 1 \in Int /\ a + (i - 1) = a + i - 1 BY <1>2
      <3> QED BY <3>1, AdvanceSerial
    <2> HIDE DEF w
    <2> QED BY <1>1, <1>2, <2>1 DEF Serials
  <1> HIDE DEF order, w, top
  <1>6. /\ DOMAIN order = 1 .. w - a + 1
        /\ \A i \in 1 .. w - a + 1 : order[i] = SerialOf(a + i - 1)
    <2>1. a <= w + 1 BY <1>2
    <2> QED BY <1>2, <1>5, <2>1, SerialsFacts
  <1>7. ASSUME NEW i \in 1 .. w - a + 1
        PROVE  order[i] \in DOMAIN toBeSent <=> a + i - 1 \in hi + 1 .. created
    <2> DEFINE n == a + i - 1
    <2>1. n \in Int /\ n < hi + 1 + MaxSN /\ hi + 1 <= n + MaxSN - 1 /\ created <= n + MaxSN - 1
      BY <1>1, <1>2, <1>3, SendingNumbers DEF Sending
    <2>2. order[i] = SerialOf(n) BY <1>6
    <2> HIDE DEF n
    <2>3. SerialOf(n) \in SerialSet(hi + 1, created) <=> n \in hi + 1 .. created
      <3>1. hi + 1 \in Int /\ n <= (hi + 1) + MaxSN - 1
        BY <2>1, SerialNumberAssumption
      <3> QED BY <1>2, <2>1, <3>1, SerialSetPositions
    <2> QED BY <1>1, <2>2, <2>3 DEF Holds, n
  <1> DEFINE reached == Picked(order, kept)
  <1>8. kept = (hi + 1) - a + 1 .. top - a + 1
    <2>1. ASSUME NEW i PROVE i \in kept <=> i \in (hi + 1) - a + 1 .. top - a + 1
      <3>1. i \in kept <=> i \in 1 .. w - a + 1 /\ a + i - 1 \in hi + 1 .. created
        BY <1>6, <1>7
      <3>2. i \in Int => (/\ i \in 1 .. w - a + 1 /\ a + i - 1 \in hi + 1 .. created
                          <=> i \in (hi + 1) - a + 1 .. top - a + 1)
        <4> SUFFICES ASSUME i \in Int
                     PROVE  /\ i \in 1 .. w - a + 1 /\ a + i - 1 \in hi + 1 .. created
                            <=> i \in (hi + 1) - a + 1 .. top - a + 1
          OBVIOUS
        <4> DEFINE n == a + i - 1
        <4>1. n \in Int /\ (hi < n /\ n <= created => (n <= w <=> n <= top)) BY <1>3
        <4> QED BY <1>1, <1>2, <1>3, <1>4, <4>1
      <3>3. 1 .. w - a + 1 \subseteq Int /\ (hi + 1) - a + 1 .. top - a + 1 \subseteq Int
        BY <1>2, <1>4
      <3> QED BY <3>1, <3>2, <3>3
    <2> HIDE DEF kept
    <2> QED BY <2>1
  <1>9. reached = Serials(hi + 1, top)
    <2> DEFINE u == hi + 1
    <2>1. u \in Int /\ a <= w + 1 /\ a <= u /\ u <= top + 1 /\ (top <= w \/ top < u)
      BY <1>1, <1>2, <1>3, <1>4
    <2> HIDE DEF u, kept
    <2>2. Picked(Serials(a, w), u - a + 1 .. top - a + 1) = Serials(u, top)
      BY <1>2, <1>4, <2>1, SerialsPart
    <2> QED BY <1>5, <1>8, <2>2 DEF u
  <1>10. Flushed = [i \in DOMAIN reached |-> Packet(reached[i], toBeSent[reached[i]])]
    BY DEF Flushed, Selected, reached, kept, order
  <1>11. /\ DOMAIN reached = 1 .. top - (hi + 1) + 1
         /\ \A i \in 1 .. top - (hi + 1) + 1 : reached[i] = SerialOf(hi + 1 + i - 1)
    <2> HIDE DEF reached
    <2>1. hi + 1 \in Int /\ hi + 1 <= top + 1 BY <1>3
    <2> QED BY <1>4, <1>9, <2>1, SerialsFacts
  <1> HIDE DEF reached
  <1>12. \A i \in 1 .. top - (hi + 1) + 1 : toBeSent[SerialOf(hi + 1 + i - 1)] = hi + 1 + i - 1
    <2> TAKE i \in 1 .. top - (hi + 1) + 1
    <2>1. hi + 1 + i - 1 \in hi + 1 .. created BY <1>2, <1>3
    <2> QED BY <1>1, <2>1 DEF Holds
  <1>13. Flushed = Created(hi + 1, top)
    BY <1>10, <1>11, <1>12 DEF Created
  <1> QED BY <1>13 DEF top

(* The new packets are divided by the end of the window.                   *)
LEMMA NewPackets ==
  ASSUME NEW a \in Int, NEW hi \in Int, Sending(a, hi),
         NEW k \in Nat, created + k < a + MaxSN
  PROVE  LET new == Created(created + 1, created + k)
             top == Reached(a, created, created + k)
         IN  /\ Sendable(new) = Created(created + 1, top)
             /\ TooEarly(new) = Created(top + 1, created + k)
  <1> DEFINE x == created + 1
             y == created + k
             new == Created(x, y)
             top == Reached(a, created, y)
  <1>1. x \in Int /\ y \in Int /\ x <= y + 1 /\ a <= x /\ y < a + MaxSN /\ created \in Int
    BY SendingNumbers DEF Sending
  <1>2. /\ top \in Int /\ x <= top + 1 /\ top <= y
        /\ \A n \in Int : x <= n /\ n <= y => (n <= a + sendWindow <=> n <= top)
    <2> DEFINE c == created
    <2>1. c \in Int /\ y \in Int /\ c <= y /\ x = c + 1 BY <1>1
    <2>2. /\ Reached(a, c, y) \in c .. y
          /\ \A n \in Int : c < n /\ n <= y => (n <= a + sendWindow <=> n <= Reached(a, c, y))
      <3> HIDE DEF c, y
      <3> QED BY <2>1, ReachedBounds
    <2> QED BY <2>1, <2>2
  <1>3. /\ DOMAIN new = 1 .. y - x + 1
        /\ \A i \in 1 .. y - x + 1 : new[i] = Packet(SerialOf(x + i - 1), x + i - 1)
    <2> HIDE DEF x, y
    <2> QED BY <1>1, CreatedFacts
  <1> DEFINE early == {i \in DOMAIN new : InSendWindow(new[i].sn)}
             late == {i \in DOMAIN new : ~ InSendWindow(new[i].sn)}
  <1>4. Sendable(new) = Picked(new, early) /\ TooEarly(new) = Picked(new, late)
    BY DEF Sendable, TooEarly, Selected
  <1> HIDE DEF x, y, new, top
  <1>5. ASSUME NEW i \in 1 .. y - x + 1
        PROVE  InSendWindow(new[i].sn) <=> i <= top - x + 1
    <2> DEFINE n == x + i - 1
    <2>1. n \in Int /\ x <= n /\ n <= y /\ a <= n /\ n < a + MaxSN BY <1>1, SerialNumberAssumption
    <2>2. new[i] = Packet(SerialOf(n), n) BY <1>3
    <2>3. n <= top <=> i <= top - x + 1 BY <1>1, <1>2
    <2> HIDE DEF n
    <2>4. new[i].sn = SerialOf(n) BY <2>2, PacketFields
    <2> QED BY <1>2, <2>1, <2>3, <2>4, WindowReaches
  <1>6. early = x - x + 1 .. top - x + 1
    <2>1. \A i \in Int : i \in 1 .. y - x + 1 /\ i <= top - x + 1
                           <=> i \in x - x + 1 .. top - x + 1
      BY <1>1, <1>2
    <2>2. 1 .. y - x + 1 \subseteq Int /\ x - x + 1 .. top - x + 1 \subseteq Int
      BY <1>1, <1>2
    <2>3. \A i : i \in early <=> i \in x - x + 1 .. top - x + 1
      BY <1>3, <1>5, <2>1, <2>2
    <2> HIDE DEF early
    <2> QED BY <2>3
  <1>7. late = (top + 1) - x + 1 .. y - x + 1
    <2>1. \A i \in Int : i \in 1 .. y - x + 1 /\ ~ (i <= top - x + 1)
                           <=> i \in (top + 1) - x + 1 .. y - x + 1
      BY <1>1, <1>2
    <2>2. 1 .. y - x + 1 \subseteq Int /\ (top + 1) - x + 1 .. y - x + 1 \subseteq Int
      BY <1>1, <1>2
    <2>3. \A i : i \in late <=> i \in (top + 1) - x + 1 .. y - x + 1
      BY <1>3, <1>5, <2>1, <2>2
    <2> HIDE DEF late
    <2> QED BY <2>3
  <1>8. Picked(new, early) = Created(x, top)
    <2>1. Picked(Created(x, y), x - x + 1 .. top - x + 1) = Created(x, top)
      BY <1>1, <1>2, CreatedPart
    <2> QED BY <1>6, <2>1 DEF new
  <1>9. Picked(new, late) = Created(top + 1, y)
    <2> DEFINE u == top + 1
    <2>1. u \in Int /\ x <= u /\ u <= y + 1 /\ (y <= y \/ y < u) BY <1>1, <1>2
    <2> HIDE DEF u
    <2>2. Picked(Created(x, y), u - x + 1 .. y - x + 1) = Created(u, y)
      BY <1>1, <2>1, CreatedPart
    <2> QED BY <1>7, <2>2 DEF new, u
  <1>10. Sendable(new) = Created(x, top) /\ TooEarly(new) = Created(top + 1, y)
    BY <1>4, <1>8, <1>9
  <1> QED BY <1>10 DEF x, y, new, top

(* sendPacket for the packets behind hi.                                   *)
LEMMA Transmitted ==
  ASSUME ~ WriteMayFail, NEW a \in Int, NEW hi \in Int, Sending(a, hi),
         NEW h \in Int, hi <= h, h < a + MaxSN, Transmit(Created(hi + 1, h))
  PROVE  /\ toPeer' = Written(toPeer, Created(hi + 1, h))
         /\ waitingForACK' = Serials(a, h)
         /\ Holds(sentPackets', a, h)
         /\ LSSN' = IF h = 0 THEN 0 ELSE SerialOf(h)
  <1> DEFINE x == hi + 1
             s == Created(x, h)
             all == {i \in DOMAIN s : s[i] \notin {} /\ s[i].data # Unreliable}
  <1>1. /\ x \in Int /\ x <= h + 1 /\ 1 <= x /\ a <= hi + 1 /\ hi \in Int
        /\ Holds(sentPackets, a, hi) /\ waitingForACK = Serials(a, hi)
        /\ LSSN = IF hi = 0 THEN 0 ELSE SerialOf(hi)
    BY DEF Sending
  <1>2. /\ s \in Seq(StreamPacket) /\ Len(s) = h - x + 1 /\ DOMAIN s = 1 .. h - x + 1
        /\ \A i \in 1 .. h - x + 1 : s[i] = Packet(SerialOf(x + i - 1), x + i - 1)
    <2> HIDE DEF x
    <2> QED BY <1>1, CreatedFacts
  <1>3. /\ toPeer' = Written(toPeer, Picked(s, all))
        /\ waitingForACK' = waitingForACK \o Sns(Picked(s, all))
        /\ sentPackets' = Inserted(ByNumber(Picked(s, all)), sentPackets)
        /\ LSSN' = IF Picked(s, all) = <<>> THEN LSSN ELSE Last(Picked(s, all)).sn
    BY DEF Transmit, Selected
  <1> HIDE DEF x, s
  <1>4. all = x - x + 1 .. h - x + 1
    <2>1. \A i \in 1 .. h - x + 1 : s[i].data # Unreliable
      <3> TAKE i \in 1 .. h - x + 1
      <3>1. s[i].data = x + i - 1 BY <1>2, PacketFields
      <3> QED BY <1>1, <3>1 DEF Unreliable
    <2>2. all = DOMAIN s BY <1>2, <2>1
    <2>3. 1 .. h - x + 1 = x - x + 1 .. h - x + 1 BY <1>1
    <2> QED BY <1>2, <2>2, <2>3
  <1>5. Picked(s, all) = s
    <2>1. Picked(Created(x, h), x - x + 1 .. h - x + 1) = Created(x, h)
      <3>1. x <= x /\ (h <= h \/ h < x) BY <1>1
      <3> QED BY <1>1, <3>1, CreatedPart
    <2> QED BY <1>4, <2>1 DEF s
  <1>6. waitingForACK' = Serials(a, h)
    <2>1. Serials(a, hi) \o Serials(hi + 1, h) = Serials(a, h) BY <1>1, SerialsJoin
    <2>2. Sns(s) = Serials(x, h) BY <1>1, SnsOfCreated DEF s
    <2> QED BY <1>1, <1>3, <1>5, <2>1, <2>2 DEF x
  <1>7. Holds(sentPackets', a, h)
    <2>1. Holds(ByNumber(s), hi + 1, h)
      <3>1. h - x < MaxSN BY <1>1, SerialNumberAssumption DEF x
      <3>2. Holds(ByNumber(s), x, h) BY <1>1, <3>1, ByNumberOfCreated DEF s
      <3> QED BY <3>2 DEF x
    <2>2. h - a < MaxSN BY SerialNumberAssumption
    <2> QED BY <1>1, <1>3, <1>5, <2>1, <2>2, HoldsJoin
  <1>8. LSSN' = IF h = 0 THEN 0 ELSE SerialOf(h)
    <2>1. CASE h = hi
      <3>1. s = <<>> BY <1>2, <2>1, EmptySeq DEF x
      <3> QED BY <1>1, <1>3, <1>5, <2>1, <3>1
    <2>2. CASE h # hi
      <3>1. Len(s) = h - hi /\ h - hi \in 1 .. h - x + 1 /\ x + (h - hi) - 1 = h
        BY <1>1, <1>2, <2>2 DEF x
      <3>2. s # <<>> BY <3>1, EmptySeq
      <3>3. Last(s).sn = SerialOf(h) BY <1>2, <3>1, PacketFields DEF Last
      <3>4. h # 0 BY <1>1, <2>2 DEF x
      <3> QED BY <1>3, <1>5, <3>2, <3>3, <3>4
    <2> QED BY <2>1, <2>2
  <1> QED BY <1>3, <1>5, <1>6, <1>7, <1>8 DEF s, x

LEMMA NothingCreated ==
  ASSUME NEW x \in Int, NEW y \in Int, y = x - 1
  PROVE  Created(x, y) = <<>> /\ (\A hash : Holds(hash, x, y) <=> DOMAIN hash = {})
  <1>1. /\ Created(x, y) \in Seq(StreamPacket) /\ Len(Created(x, y)) = y - x + 1
    BY CreatedFacts
  <1>2. y - x + 1 = 0 /\ x .. y = {} OBVIOUS
  <1> QED BY <1>1, <1>2, EmptySeq DEF Holds, SerialSet

(* Cached packets the window has reached leave the cache first; new ones   *)
(* follow only when no packet stays behind.                                *)
LEMMA FlushThenSend ==
  ASSUME NEW a \in Int, NEW hi \in Int, Sending(a, hi),
         NEW k \in Nat, created + k < a + MaxSN
  PROVE  LET new == Created(created + 1, created + k)
             h == Reached(a, hi, created + k)
         IN  /\ h \in hi .. created + k
             /\ Flushed \o Sendable(new) = Created(hi + 1, h)
             /\ Holds(Inserted(ByNumber(TooEarly(new)), Drop(toBeSent, ToSet(Sns(Flushed)))),
                      h + 1, created + k)
  <1> DEFINE c == created
             y == c + k
             new == Created(c + 1, y)
             f == Reached(a, hi, c)
             s == Reached(a, c, y)
             h == Reached(a, hi, y)
             tail == ByNumber(TooEarly(new))
             rest == Drop(toBeSent, ToSet(Sns(Flushed)))
  <1>1. /\ c \in Int /\ y \in Int /\ hi <= c /\ c <= y /\ y < a + MaxSN /\ a <= hi + 1
        /\ a + sendWindow \in Int /\ MaxSN \in Int
        /\ Holds(toBeSent, hi + 1, c)
    BY SendingNumbers DEF Sending
  <1>2. /\ Flushed = Created(hi + 1, f)
        /\ Sendable(new) = Created(c + 1, s)
        /\ TooEarly(new) = Created(s + 1, y)
    BY FlushedExact, NewPackets
  <1>3. /\ f \in hi .. c /\ s \in c .. y /\ h \in hi .. y
        /\ \/ s = c /\ h = f
           \/ f = c /\ h = s
    <2> HIDE DEF c, y
    <2> QED BY <1>1 DEF Reached
  <1>4. f \in Int /\ s \in Int /\ h \in Int BY <1>1, <1>3
  <1> HIDE DEF c, y, new, f, s, h
  <1>5. Flushed \o Sendable(new) = Created(hi + 1, h)
    <2>1. CASE s = c /\ h = f
      <3>1. Created(c + 1, s) = <<>>
        <4>1. c + 1 \in Int /\ s = (c + 1) - 1 BY <1>1, <2>1
        <4> QED BY <1>4, <4>1, NothingCreated
      <3>2. Created(hi + 1, f) \in Seq(StreamPacket)
        <4>1. hi + 1 \in Int /\ hi + 1 <= f + 1 BY <1>3
        <4> QED BY <1>4, <4>1, CreatedFacts
      <3> QED BY <1>2, <2>1, <3>1, <3>2, ConcatEmptySeq
    <2>2. CASE f = c /\ h = s
      <3>1. hi + 1 \in Int /\ hi + 1 <= c + 1 /\ c <= s BY <1>1, <1>3
      <3>2. Created(hi + 1, c) \o Created(c + 1, s) = Created(hi + 1, s)
        BY <1>1, <1>4, <3>1, CreatedJoin
      <3> QED BY <1>2, <2>2, <3>2
    <2> QED BY <1>3, <2>1, <2>2
  <1>6. Holds(tail, s + 1, y)
    <2> DEFINE x == s + 1
    <2>1. x \in Int /\ x <= y + 1 /\ y - x < MaxSN BY <1>1, <1>3, <1>4
    <2> HIDE DEF x
    <2>2. Holds(ByNumber(Created(x, y)), x, y) BY <1>1, <2>1, ByNumberOfCreated
    <2> QED BY <1>2, <2>2 DEF x
  <1>7. Holds(rest, f + 1, c)
    <2> DEFINE x == hi + 1
    <2>1. x \in Int /\ x <= f + 1 /\ f <= c /\ c - x < MaxSN BY <1>1, <1>3, <1>4
    <2>2. ToSet(Sns(Flushed)) = SerialSet(x, f)
      <3> HIDE DEF x
      <3> QED BY <1>2, <1>4, <2>1, SnsOfCreated DEF x
    <2>3. Holds(toBeSent, x, c) BY <1>1
    <2> HIDE DEF x
    <2> QED BY <1>1, <1>4, <2>1, <2>2, <2>3, HoldsRest
  <1> HIDE DEF tail, rest
  <1>8. Holds(Inserted(tail, rest), h + 1, y)
    <2>1. CASE s = c /\ h = f
      <3> DEFINE x == f + 1
      <3>1. x \in Int /\ x <= c + 1 /\ c <= y /\ y - x < MaxSN BY <1>1, <1>3, <1>4
      <3>2. Holds(tail, c + 1, y) /\ Holds(rest, x, c) BY <1>6, <1>7, <2>1
      <3> HIDE DEF x
      <3>3. Holds(Inserted(tail, rest), x, y) BY <1>1, <3>1, <3>2, HoldsJoin
      <3> QED BY <2>1, <3>3 DEF x
    <2>2. CASE f = c /\ h = s
      <3> DEFINE x == s + 1
      <3>1. x \in Int /\ x <= y + 1 /\ y <= y /\ y - x < MaxSN BY <1>1, <1>3, <1>4
      <3>2. Holds(rest, y + 1, y)
        <4>1. c + 1 \in Int /\ c = (c + 1) - 1 /\ y + 1 \in Int /\ y = (y + 1) - 1
          BY <1>1
        <4>2. DOMAIN rest = {} BY <1>1, <1>7, <2>2, <4>1, NothingCreated
        <4> QED BY <1>1, <4>1, <4>2, NothingCreated
      <3>3. Holds(tail, x, y) BY <1>6
      <3> HIDE DEF x
      <3>4. Holds(Inserted(tail, rest), x, y) BY <1>1, <3>1, <3>2, <3>3, HoldsJoin
      <3> QED BY <2>2, <3>4 DEF x
    <2> QED BY <1>3, <2>1, <2>2
  <1> QED BY <1>3, <1>5, <1>8 DEF c, y, new, h, tail, rest

(* One pass of sendDatagram.                                               *)
LEMMA SendNewKeeps ==
  ASSUME ~ WriteMayFail, NEW a \in Int, NEW hi \in Int, Sending(a, hi),
         NEW k \in Nat, k <= freeSendBuffer, created + k <= Stream, created' = created + k,
         SendNew(Flushed, Created(created + 1, created + k)),
         UNCHANGED <<firstWaiting, sendWindow>>
  PROVE  \E h \in hi .. created' :
           Sending(a, h)' /\ toPeer' = Written(toPeer, Created(hi + 1, h))
  <1> DEFINE new == Created(created + 1, created + k)
             charge == Len(new) + Len(TooEarly(new))
  <1>1. /\ created \in Nat /\ created + k < a + MaxSN /\ freeSendBuffer \in Nat
        /\ sendWindow \in Nat /\ sendWindow <= MaxWindow /\ MaxWindow \in Nat
    BY SendingNumbers
  <1>2. PICK h \in hi .. created + k :
        /\ h = Reached(a, hi, created + k)
        /\ Flushed \o Sendable(new) = Created(hi + 1, h)
        /\ Holds(Inserted(ByNumber(TooEarly(new)), Drop(toBeSent, ToSet(Sns(Flushed)))),
                 h + 1, created + k)
    BY <1>1, FlushThenSend
  <1>3. /\ Transmit(Created(hi + 1, h))
        /\ Holds(toBeSent', h + 1, created')
        /\ freeSendBuffer' = IF charge < freeSendBuffer THEN freeSendBuffer - charge ELSE 0
    BY <1>2 DEF SendNew
  <1>4. charge \in Nat /\ charge >= k
    <2> DEFINE x == created + 1
               y == created + k
               top == Reached(a, created, y)
               z == top + 1
    <2>1. TooEarly(new) = Created(z, y) BY <1>1, NewPackets
    <2>2. top \in created .. y
      <3>1. created \in Int /\ y \in Int /\ created <= y BY <1>1
      <3> HIDE DEF y
      <3> QED BY <3>1, ReachedBounds
    <2>3. /\ x \in Int /\ y \in Int /\ x <= y + 1 /\ z \in Int /\ z <= y + 1
          /\ y - x + 1 = k /\ y - z + 1 \in Nat
      BY <1>1, <2>2
    <2> HIDE DEF x, y, z, top
    <2>4. Len(Created(x, y)) = y - x + 1 /\ Len(Created(z, y)) = y - z + 1
      BY <2>3, CreatedFacts
    <2>5. new = Created(x, y) BY DEF x, y
    <2> HIDE DEF new
    <2> QED BY <2>1, <2>3, <2>4, <2>5
  <1>5. /\ freeSendBuffer' \in Nat
        /\ created' - a + 1 + freeSendBuffer' <= SendBuffer
    <2> HIDE DEF charge
    <2> QED BY <1>1, <1>3, <1>4, SenderAssumption DEF Sending
  <1>6. h <= a + MaxWindow /\ a <= h + 1 /\ h \in Int /\ h < a + MaxSN
    <2>1. h <= hi \/ h <= a + sendWindow BY <1>1, <1>2 DEF Reached
    <2> QED BY <1>1, <1>2, <2>1, SerialNumberAssumption DEF Sending
  <1>7. /\ toPeer' = Written(toPeer, Created(hi + 1, h))
        /\ waitingForACK' = Serials(a, h)
        /\ Holds(sentPackets', a, h)
        /\ LSSN' = IF h = 0 THEN 0 ELSE SerialOf(h)
    <2> QED BY <1>2, <1>3, <1>6, Transmitted
  <1>8. created' \in 0 .. Stream BY <1>1, StreamAssumption
  <1>9. Sending(a, h)'
    <2>1. 1 <= a /\ h <= created' /\ firstWaiting' = SerialOf(a) /\ sendWindow' \in MinWindow .. MaxWindow
      BY <1>2 DEF Sending
    <2> QED BY <1>3, <1>5, <1>6, <1>7, <1>8, <2>1 DEF Sending
  <1> QED BY <1>2, <1>7, <1>9

LEMMA FlushTimerKeeps ==
  ASSUME ~ WriteMayFail, NEW a \in Int, NEW hi \in Int, Sending(a, hi), FlushTimer
  PROVE  \E h \in hi .. created' :
           Sending(a, h)' /\ toPeer' = Written(toPeer, Created(hi + 1, h))
  <1> DEFINE x == hi + 1
  <1>1. /\ hi <= created /\ a <= hi + 1 /\ created \in Int
        /\ Holds(toBeSent, hi + 1, created) /\ sendWindow \in Nat /\ sendWindow <= MaxWindow
        /\ created - x < MaxSN /\ MaxWindow < MaxSN /\ MaxWindow \in Nat
    BY SendingNumbers DEF Sending
  <1>2. PICK h \in hi .. created : h = Reached(a, hi, created) BY <1>1, ReachedBounds
  <1>3. Flushed = Created(x, h) /\ h \in hi .. created BY <1>2, FlushedExact
  <1>4. h <= a + MaxWindow /\ a <= h + 1 /\ h \in Int /\ h < a + MaxSN
    <2>1. h <= hi \/ h <= a + sendWindow BY <1>1, <1>2 DEF Reached
    <2> QED BY <1>1, <1>3, <2>1, SerialNumberAssumption DEF Sending
  <1>5. /\ toPeer' = Written(toPeer, Created(hi + 1, h))
        /\ waitingForACK' = Serials(a, h)
        /\ Holds(sentPackets', a, h)
        /\ LSSN' = IF h = 0 THEN 0 ELSE SerialOf(h)
    <2>1. Transmit(Created(hi + 1, h)) BY <1>3 DEF FlushTimer
    <2> QED BY <1>3, <1>4, <2>1, Transmitted
  <1>6. Holds(toBeSent', h + 1, created)
    <2>1. x \in Int /\ x <= h + 1 /\ h <= created BY <1>3, <1>4
    <2>2. ToSet(Sns(Flushed)) = SerialSet(x, h)
      <3> HIDE DEF x
      <3> QED BY <1>3, <1>4, <2>1, SnsOfCreated
    <2>3. toBeSent' = Drop(toBeSent, SerialSet(x, h)) BY <2>2 DEF FlushTimer
    <2>4. Holds(toBeSent, x, created) BY <1>1
    <2> HIDE DEF x
    <2> QED BY <1>1, <1>4, <2>1, <2>3, <2>4, HoldsRest
  <1>7. UNCHANGED <<created, firstWaiting, sendWindow, freeSendBuffer>>
    BY DEF FlushTimer
  <1>8. Sending(a, h)' BY <1>3, <1>4, <1>5, <1>6, <1>7 DEF Sending
  <1> QED BY <1>3, <1>5, <1>7, <1>8

-----------------------------------------------------------------------------
(* Acknowledgements                                                        *)

(* Serial numbers count up from n to the end of the turn and from 1 again. *)
LEMMA SerialAhead ==
  ASSUME NEW n \in Int, NEW m \in Int, n <= m, m < n + MaxSN
  PROVE  /\ SerialOf(n) \in 1 .. MaxSN
         /\ SerialOf(m) = IF SerialOf(n) + (m - n) <= MaxSN
                          THEN SerialOf(n) + (m - n)
                          ELSE SerialOf(n) + (m - n) - MaxSN
  <1> DEFINE x == n - 1
             k == m - n
             r == x % MaxSN
  <1>1. x \in Int /\ k \in Int /\ 0 <= k /\ k < MaxSN /\ x + k = m - 1
        /\ MaxSN \in Nat \ {0} /\ -MaxSN < k
    BY SerialNumberAssumption
  <1>2. SerialOf(n) = r + 1 /\ SerialOf(m) = ((x + k) % MaxSN) + 1
    BY <1>1, SerialOfType
  <1> HIDE DEF x, k
  <1>3. r \in 0 .. MaxSN - 1 BY <1>1, DivMod
  <1>4. (x + k) % MaxSN = CASE r + k < 0 -> r + k + MaxSN
                            [] r + k >= MaxSN -> r + k - MaxSN
                            [] OTHER -> r + k
    BY <1>1, RemainderAhead
  <1> HIDE DEF r
  <1>5. /\ SerialOf(n) \in 1 .. MaxSN
        /\ SerialOf(m) = IF SerialOf(n) + k <= MaxSN THEN SerialOf(n) + k
                         ELSE SerialOf(n) + k - MaxSN
    BY <1>1, <1>2, <1>3, <1>4
  <1> QED BY <1>5 DEF k

(* The loop of removeWaitingForACKPackets stops behind packet e.           *)
LEMMA RemovedRun ==
  ASSUME NEW x \in Int, NEW e \in Int, NEW hi \in Int, x <= e + 1, e <= hi, NEW end \in Int,
         \A n \in x .. e : SerialOf(n) <= end /\ end - SerialOf(n) <= MaxWindow,
         ~ (SerialOf(e + 1) <= end /\ end - SerialOf(e + 1) <= MaxWindow)
  PROVE  Removed(Serials(x, hi), SerialOf(x), end) = SerialSet(x, e)
  <1> DEFINE w == Serials(x, hi)
             before(sn) == sn <= end /\ end - sn <= MaxWindow
             run == {j \in DOMAIN w : \A m \in 1 .. j : before(w[m])}
  <1>1. Removed(w, SerialOf(x), end) =
          IF before(SerialOf(x)) THEN {SerialOf(x)} \cup {w[i] : i \in run} ELSE {}
    BY DEF Removed
  <1>2. /\ DOMAIN w = 1 .. hi - x + 1
        /\ \A i \in 1 .. hi - x + 1 : w[i] = SerialOf(x + i - 1)
    <2>1. x <= hi + 1 OBVIOUS
    <2> QED BY <2>1, SerialsFacts
  <1>3. \A n \in x .. e : before(SerialOf(n)) OBVIOUS
  <1>4. ~ before(SerialOf(e + 1)) OBVIOUS
  <1> HIDE DEF w, before
  <1>5. CASE x = e + 1
    <2>1. ~ before(SerialOf(x)) BY <1>4, <1>5
    <2>2. SerialSet(x, e) = {}
      <3>1. x .. e = {} BY <1>5
      <3> QED BY <3>1 DEF SerialSet
    <2> QED BY <1>1, <2>1, <2>2 DEF w
  <1>6. CASE x <= e
    <2>1. run = 1 .. e - x + 1
      <3>1. ASSUME NEW j \in 1 .. e - x + 1 PROVE j \in run
        <4>1. j \in DOMAIN w BY <1>2
        <4>2. ASSUME NEW m \in 1 .. j PROVE before(w[m])
          <5>1. m \in 1 .. hi - x + 1 /\ x + m - 1 \in x .. e OBVIOUS
          <5> QED BY <1>2, <1>3, <5>1
        <4> QED BY <4>1, <4>2
      <3>2. ASSUME NEW j \in run PROVE j \in 1 .. e - x + 1
        <4>1. j \in 1 .. hi - x + 1 /\ \A m \in 1 .. j : before(w[m]) BY <1>2
        <4>2. SUFFICES ASSUME ~ (j <= e - x + 1) PROVE FALSE BY <4>1
        <4> DEFINE m == e - x + 2
        <4>3. m \in 1 .. j /\ m \in 1 .. hi - x + 1 /\ x + m - 1 = e + 1
          BY <1>6, <4>1, <4>2
        <4>4. w[m] = SerialOf(e + 1) BY <1>2, <4>3
        <4> QED BY <1>4, <4>1, <4>3, <4>4
      <3> HIDE DEF run
      <3> QED BY <3>1, <3>2
    <2>2. {w[i] : i \in run} = SerialSet(x, e)
      <3>1. ASSUME NEW i \in 1 .. e - x + 1 PROVE w[i] \in SerialSet(x, e)
        <4>1. i \in 1 .. hi - x + 1 /\ x + i - 1 \in x .. e OBVIOUS
        <4> QED BY <1>2, <4>1 DEF SerialSet
      <3>2. ASSUME NEW n \in x .. e PROVE \E i \in 1 .. e - x + 1 : w[i] = SerialOf(n)
        <4>1. n - x + 1 \in 1 .. e - x + 1 /\ n - x + 1 \in 1 .. hi - x + 1
              /\ x + (n - x + 1) - 1 = n
          OBVIOUS
        <4> QED BY <1>2, <4>1
      <3> HIDE DEF run
      <3> QED BY <2>1, <3>1, <3>2 DEF SerialSet
    <2>3. SerialOf(x) \in SerialSet(x, e) /\ before(SerialOf(x))
      <3>1. x \in x .. e BY <1>6
      <3> QED BY <1>3, <3>1 DEF SerialSet
    <2> HIDE DEF run
    <2> QED BY <1>1, <2>2, <2>3 DEF w
  <1> QED BY <1>5, <1>6

(* Without the first of its packets a run goes on with the next.           *)
LEMMA OmitRun ==
  ASSUME NEW x \in Int, NEW e \in Int, NEW hi \in Int, x <= e + 1, e <= hi, hi - x < MaxSN
  PROVE  Omit(Serials(x, hi), SerialSet(x, e)) = Serials(e + 1, hi)
  <1> DEFINE w == Serials(x, hi)
             u == e + 1
             kept == {i \in DOMAIN w : w[i] \notin SerialSet(x, e)}
  <1>1. u \in Int /\ x <= u /\ u <= hi + 1 /\ x <= hi + 1 /\ (hi <= hi \/ hi < u) OBVIOUS
  <1>2. /\ DOMAIN w = 1 .. hi - x + 1
        /\ \A i \in 1 .. hi - x + 1 : w[i] = SerialOf(x + i - 1)
    BY <1>1, SerialsFacts
  <1>3. Omit(w, SerialSet(x, e)) = Picked(w, kept) BY DEF Omit, Selected
  <1> HIDE DEF w, u
  <1>4. ASSUME NEW i \in 1 .. hi - x + 1
        PROVE  w[i] \notin SerialSet(x, e) <=> u - x + 1 <= i
    <2> DEFINE n == x + i - 1
    <2>1. n \in Int /\ x <= n /\ n < x + MaxSN /\ e < n + MaxSN
      BY SerialNumberAssumption
    <2>2. w[i] = SerialOf(n) /\ (n <= e <=> ~ (u - x + 1 <= i)) BY <1>2 DEF u
    <2> HIDE DEF n
    <2>3. SerialOf(n) \in SerialSet(x, e) <=> n \in x .. e BY <2>1, SerialSetPositions
    <2> QED BY <2>1, <2>2, <2>3
  <1>5. kept = u - x + 1 .. hi - x + 1
    <2>1. \A i \in Int : i \in 1 .. hi - x + 1 /\ u - x + 1 <= i
                           <=> i \in u - x + 1 .. hi - x + 1
      BY <1>1
    <2>2. 1 .. hi - x + 1 \subseteq Int /\ u - x + 1 .. hi - x + 1 \subseteq Int BY <1>1
    <2>3. \A i : i \in kept <=> i \in u - x + 1 .. hi - x + 1
      BY <1>2, <1>4, <2>1, <2>2
    <2> HIDE DEF kept
    <2> QED BY <2>3
  <1>6. Picked(Serials(x, hi), u - x + 1 .. hi - x + 1) = Serials(u, hi)
    BY <1>1, SerialsPart
  <1> QED BY <1>3, <1>5, <1>6 DEF w, u

(* A window start p acknowledges the packets before it, also when the      *)
(* serial numbers of some lie before the turn and of others behind it.     *)
LEMMA AcknowledgedExact ==
  ASSUME NEW a \in Int, NEW hi \in Int, Sending(a, hi), NEW p \in Int, a <= p, p <= hi + 1
  PROVE  Acknowledged(SerialOf(p)) = SerialSet(a, p - 1)
  <1> DEFINE q == p - 1
             sa == SerialOf(a)
             sp == SerialOf(p)
  <1>1. /\ MaxSN \in Nat /\ MaxWindow \in Nat /\ 2 * MaxWindow + 1 < MaxSN
        /\ 1 <= a /\ hi <= a + MaxWindow /\ a <= hi + 1
        /\ firstWaiting = sa /\ waitingForACK = Serials(a, hi)
        /\ LSSN = IF hi = 0 THEN 0 ELSE SerialOf(hi)
    BY SerialNumberAssumption DEF Sending
  <1>2. q \in Int /\ a <= q + 1 /\ q <= hi /\ p < a + MaxSN /\ q + 1 = p BY <1>1
  <1>3. /\ sa \in 1 .. MaxSN
        /\ sp = IF sa + (p - a) <= MaxSN THEN sa + (p - a) ELSE sa + (p - a) - MaxSN
    BY <1>2, SerialAhead
  <1>4. \A n \in a .. hi : SerialOf(n) = IF sa + (n - a) <= MaxSN THEN sa + (n - a)
                                         ELSE sa + (n - a) - MaxSN
    <2> TAKE n \in a .. hi
    <2>1. n \in Int /\ a <= n /\ n < a + MaxSN BY <1>1
    <2> QED BY <2>1, SerialAhead
  <1>5. sp \in 1 .. MaxSN BY SerialOfType DEF SerialNumber
  <1> HIDE DEF q, sa, sp
  <1>6. CASE sa <= sp
    <2>1. sp = sa + (p - a) BY <1>1, <1>2, <1>3, <1>6
    <2>2. \A n \in a .. q : SerialOf(n) <= sp - 1 /\ (sp - 1) - SerialOf(n) <= MaxWindow
      <3> TAKE n \in a .. q
      <3>1. n \in a .. hi /\ sa + (n - a) <= MaxSN BY <1>1, <1>2, <1>3, <2>1, <1>5
      <3>2. SerialOf(n) = sa + (n - a) BY <1>4, <3>1
      <3> QED BY <1>1, <1>2, <1>3, <2>1, <3>2
    <2>3. ~ (SerialOf(q + 1) <= sp - 1 /\ (sp - 1) - SerialOf(q + 1) <= MaxWindow)
      <3>1. SerialOf(q + 1) = sp BY <1>2 DEF sp
      <3> QED BY <1>5, <3>1
    <2>4. Removed(Serials(a, hi), SerialOf(a), sp - 1) = SerialSet(a, q)
      <3>1. sp - 1 \in Int BY <1>5
      <3> HIDE DEF sp
      <3> QED BY <1>2, <2>2, <2>3, <3>1, RemovedRun
    <2>5. Acknowledged(sp) = Removed(waitingForACK, firstWaiting, sp - 1)
      BY <1>1, <1>6 DEF Acknowledged
    <2> QED BY <1>1, <2>4, <2>5 DEF sp, q, sa
  <1>7. CASE ~ (sa <= sp)
    <2> DEFINE w == a + (MaxSN - sa)
    <2>1. sp = sa + (p - a) - MaxSN BY <1>1, <1>2, <1>3, <1>7
    <2>2. /\ w \in Int /\ a <= w /\ w < p /\ w <= q /\ w <= hi /\ sp = p - w
          /\ sa + (w - a) = MaxSN /\ w - a <= MaxWindow
      BY <1>1, <1>2, <1>3, <1>5, <2>1
    <2> HIDE DEF w
    <2>3. \A n \in a .. w : SerialOf(n) = sa + (n - a)
      <3> TAKE n \in a .. w
      <3>1. n \in a .. hi /\ sa + (n - a) <= MaxSN BY <1>1, <1>3, <2>2
      <3> QED BY <1>4, <3>1
    <2>4. \A n \in w + 1 .. hi : SerialOf(n) = n - w
      <3> TAKE n \in w + 1 .. hi
      <3>1. n \in a .. hi /\ ~ (sa + (n - a) <= MaxSN) /\ sa + (n - a) - MaxSN = n - w
        BY <1>1, <1>3, <2>2
      <3> QED BY <1>4, <3>1
    <2>5. SerialOf(w + 1) = 1
      <3>1. w + 1 = p \/ w + 1 \in w + 1 .. hi BY <1>2, <2>2
      <3>2. CASE w + 1 = p BY <2>2, <3>2 DEF sp
      <3>3. CASE w + 1 \in w + 1 .. hi BY <2>2, <2>4, <3>3
      <3> QED BY <3>1, <3>2, <3>3
    <2>6. sp - 1 <= LSSN
      <3>1. hi # 0 /\ hi \in Int /\ a <= hi BY <1>1, <2>2
      <3>2. CASE hi <= w
        <4>1. SerialOf(hi) = sa + (hi - a) BY <2>3, <3>1, <3>2
        <4> QED BY <1>1, <1>3, <1>5, <1>7, <3>1, <4>1
      <3>3. CASE ~ (hi <= w)
        <4>1. SerialOf(hi) = hi - w BY <2>2, <2>4, <3>1, <3>3
        <4> QED BY <1>1, <1>2, <2>2, <3>1, <4>1
      <3> QED BY <3>2, <3>3
    <2>7. Removed(Serials(a, hi), SerialOf(a), MaxSN) = SerialSet(a, w)
      <3>1. \A n \in a .. w : SerialOf(n) <= MaxSN /\ MaxSN - SerialOf(n) <= MaxWindow
        <4> TAKE n \in a .. w
        <4>1. SerialOf(n) = sa + (n - a) BY <2>3
        <4> QED BY <1>1, <1>3, <2>2, <4>1
      <3>2. ~ (SerialOf(w + 1) <= MaxSN /\ MaxSN - SerialOf(w + 1) <= MaxWindow)
        BY <1>1, <2>5
      <3>3. a <= w + 1 /\ MaxSN \in Int BY <1>1, <2>2
      <3> QED BY <2>2, <3>1, <3>2, <3>3, RemovedRun
    <2>8. Omit(Serials(a, hi), SerialSet(a, w)) = Serials(w + 1, hi)
      <3>1. a <= w + 1 /\ hi - a < MaxSN BY <1>1, <2>2
      <3> QED BY <2>2, <3>1, OmitRun
    <2>9. Removed(Serials(w + 1, hi), 1, sp - 1) = SerialSet(w + 1, q)
      <3> DEFINE x == w + 1
                 end == sp - 1
      <3>1. x \in Int /\ x <= q + 1 /\ end \in Int BY <1>2, <1>5, <2>2
      <3>2. \A n \in x .. q : SerialOf(n) <= end /\ end - SerialOf(n) <= MaxWindow
        <4> TAKE n \in x .. q
        <4>1. n \in w + 1 .. hi BY <1>2, <2>2
        <4>2. SerialOf(n) = n - w BY <2>4, <4>1
        <4> QED BY <1>1, <1>2, <2>2, <4>1, <4>2
      <3>3. ~ (SerialOf(q + 1) <= end /\ end - SerialOf(q + 1) <= MaxWindow)
        <4>1. SerialOf(q + 1) = sp BY <1>2 DEF sp
        <4> QED BY <1>5, <4>1
      <3>4. SerialOf(x) = 1 BY <2>5
      <3> HIDE DEF x, end
      <3>5. Removed(Serials(x, hi), SerialOf(x), end) = SerialSet(x, q)
        BY <1>2, <3>1, <3>2, <3>3, RemovedRun
      <3> QED BY <3>4, <3>5 DEF x, end
    <2>10. SerialSet(a, w) \cup SerialSet(w + 1, q) = SerialSet(a, q)
      <3>1. a .. q = (a .. w) \cup (w + 1 .. q) BY <1>2, <2>2
      <3> QED BY <3>1 DEF SerialSet
    <2>11. Acknowledged(sp) =
             LET upToMax == Removed(waitingForACK, firstWaiting, MaxSN)
             IN  upToMax \cup Removed(Omit(waitingForACK, upToMax), 1, sp - 1)
      BY <1>1, <1>7, <2>6 DEF Acknowledged
    <2>12. Acknowledged(sp) = SerialSet(a, q)
      BY <1>1, <2>7, <2>8, <2>9, <2>10, <2>11 DEF sa
    <2> QED BY <2>12 DEF sp, q
  <1> QED BY <1>6, <1>7

LEMMA FewAcknowledged ==
  ASSUME NEW x \in Int, NEW y \in Int, x <= y + 1, NEW S
  PROVE  Cardinality(SerialSet(x, y) \cap S) \in 0 .. y - x + 1
  <1> DEFINE f == [n \in x .. y |-> SerialOf(n)]
             T == SerialSet(x, y)
  <1>1. IsFiniteSet(x .. y) /\ Cardinality(x .. y) = y - x + 1 BY FS_Interval
  <1>2. f \in Surjection(x .. y, T) BY DEF Surjection, SerialSet
  <1> HIDE DEF f, T
  <1>3. IsFiniteSet(T) /\ Cardinality(T) <= y - x + 1 BY <1>1, <1>2, FS_Surjection
  <1>4. IsFiniteSet(T \cap S) /\ Cardinality(T \cap S) <= Cardinality(T)
    <2>1. T \cap S \in SUBSET T OBVIOUS
    <2> QED BY <1>3, <2>1, FS_Subset
  <1>5. Cardinality(T) \in Nat /\ Cardinality(T \cap S) \in Nat
    BY <1>3, <1>4, FS_CardinalityType
  <1>6. Cardinality(T \cap S) \in 0 .. y - x + 1 BY <1>3, <1>4, <1>5
  <1> QED BY <1>6 DEF T

(* updateFirstWaitingForACKPacketIDInSendWindow moves the window to p.     *)
LEMMA UpdateKeeps ==
  ASSUME NEW a \in Int, NEW hi \in Int, Sending(a, hi), NEW p \in Int, a <= p, p <= hi + 1,
         UpdateFirstWaiting(SerialOf(p)), UNCHANGED <<created, toBeSent, LSSN>>,
         sendWindow' \in MinWindow .. MaxWindow
  PROVE  Sending(p, hi)'
  <1> DEFINE q == p - 1
  <1>1. /\ q \in Int /\ a <= q + 1 /\ q <= hi /\ q + 1 = p /\ hi - a < MaxSN
        /\ waitingForACK = Serials(a, hi) /\ Holds(sentPackets, a, hi)
    BY SerialNumberAssumption DEF Sending
  <1>2. Acknowledged(SerialOf(p)) = SerialSet(a, q) BY AcknowledgedExact
  <1>3. /\ waitingForACK' = Omit(waitingForACK, SerialSet(a, q))
        /\ sentPackets' = Drop(sentPackets, SerialSet(a, q))
        /\ freeSendBuffer' = freeSendBuffer + Cardinality(SerialSet(a, q) \cap DOMAIN sentPackets)
        /\ firstWaiting' = SerialOf(p)
    BY <1>2 DEF UpdateFirstWaiting
  <1> HIDE DEF q
  <1>4. waitingForACK' = Serials(p, hi) BY <1>1, <1>3, OmitRun
  <1>5. Holds(sentPackets', p, hi) BY <1>1, <1>3, HoldsRest
  <1>6. freeSendBuffer' \in Nat /\ created' - p + 1 + freeSendBuffer' <= SendBuffer
    <2>1. Cardinality(SerialSet(a, q) \cap DOMAIN sentPackets) \in 0 .. q - a + 1
      BY <1>1, FewAcknowledged
    <2>2. created \in Int /\ freeSendBuffer \in Nat /\ SendBuffer \in Int
          /\ created - a + 1 + freeSendBuffer <= SendBuffer /\ created' = created
      BY SendingNumbers DEF Sending
    <2> QED BY <1>1, <1>3, <2>1, <2>2
  <1>7. /\ created' \in 0 .. Stream /\ 1 <= p /\ hi <= created' /\ hi <= p + MaxWindow
        /\ Holds(toBeSent', hi + 1, created') /\ LSSN' = IF hi = 0 THEN 0 ELSE SerialOf(hi)
    BY SerialNumberAssumption DEF Sending
  <1> QED BY <1>3, <1>4, <1>5, <1>6, <1>7 DEF Sending

LEMMA WindowSizes ==
  ASSUME sendWindow \in MinWindow .. MaxWindow
  PROVE  /\ GrownWindow \in MinWindow .. MaxWindow
         /\ ShrunkWindow \in MinWindow .. MaxWindow
         /\ \A advertised \in AdvertisedWindows :
              LET limited == IF sendWindow > advertised THEN advertised ELSE sendWindow
              IN  (IF limited < MinWindow THEN MinWindow ELSE limited) \in MinWindow .. MaxWindow
  <1>1. /\ MinWindow \in Nat /\ MaxWindow \in Nat /\ SlowStart \in Nat
        /\ MinWindow <= MaxWindow /\ 2 * SlowStart <= MaxWindow
        /\ \A advertised \in AdvertisedWindows : advertised \in Nat
    BY SenderAssumption, SerialNumberAssumption
  <1>2. GrownWindow \in MinWindow .. MaxWindow BY <1>1 DEF GrownWindow
  <1>3. ShrunkWindow \in MinWindow .. MaxWindow
    <2> DEFINE half == sendWindow \div 2
    <2>1. half \in Int /\ half <= sendWindow BY <1>1
    <2> HIDE DEF half
    <2> QED BY <1>1, <2>1 DEF ShrunkWindow, half
  <1>4. \A advertised \in AdvertisedWindows :
          LET limited == IF sendWindow > advertised THEN advertised ELSE sendWindow
          IN  (IF limited < MinWindow THEN MinWindow ELSE limited) \in MinWindow .. MaxWindow
    BY <1>1
  <1> QED BY <1>2, <1>3, <1>4

LEMMA ReceiveACKKeeps ==
  ASSUME NEW a \in Int, NEW hi \in Int, Sending(a, hi), NEW p \in Int, a <= p, p <= hi + 1,
         ReceiveACK(SerialOf(p)) \/ ReceivePacketDropped(SerialOf(p))
  PROVE  UNCHANGED <<created, toPeer>> /\ \E b \in a .. p : Sending(b, hi)'
  <1>1. sendWindow \in MinWindow .. MaxWindow BY DEF Sending
  <1>2. UNCHANGED <<created, toBeSent, LSSN, toPeer>>
    BY DEF ReceiveACK, ReceivePacketDropped
  <1>3. sendWindow' \in MinWindow .. MaxWindow
    BY <1>1, WindowSizes DEF ReceiveACK, ReceivePacketDropped
  <1>4. CASE UpdateFirstWaiting(SerialOf(p))
    <2>1. Sending(p, hi)' BY <1>2, <1>3, <1>4, UpdateKeeps
    <2> QED BY <1>2, <2>1
  <1>5. CASE UNCHANGED <<waitingForACK, lostSender, sentPackets, freeSendBuffer, firstWaiting>>
    <2>1. Sending(a, hi)' BY <1>2, <1>3, <1>5 DEF Sending
    <2>2. a \in a .. p OBVIOUS
    <2> QED BY <1>2, <2>1, <2>2
  <1> QED BY <1>4, <1>5 DEF ReceiveACK, ReceivePacketDropped

LEMMA RetransmitKeeps ==
  ASSUME NEW a \in Int, NEW hi \in Int, Sending(a, hi), NEW lost, Retransmit(lost),
         UNCHANGED <<created, firstWaiting, toBeSent, waitingForACK, sentPackets, LSSN,
                     freeSendBuffer>>
  PROVE  /\ Sending(a, hi)'
         /\ \/ UNCHANGED toPeer
            \/ \E n \in a .. hi : toPeer' = Written(toPeer, <<Packet(SerialOf(n), n)>>)
  <1>1. sendWindow' = sendWindow \/ sendWindow' = ShrunkWindow BY DEF Retransmit
  <1>2. sendWindow' \in MinWindow .. MaxWindow BY <1>1, WindowSizes DEF Sending
  <1>3. Sending(a, hi)' BY <1>2 DEF Sending
  <1>4. ASSUME NEW sn \in DOMAIN sentPackets
        PROVE  \E n \in a .. hi : sn = SerialOf(n) /\ sentPackets[sn] = n
    BY DEF Sending, Holds, SerialSet
  <1>5. \/ UNCHANGED toPeer
        \/ \E sn \in DOMAIN sentPackets :
             toPeer' = Written(toPeer, <<Packet(sn, sentPackets[sn])>>)
    BY DEF Retransmit
  <1> QED BY <1>3, <1>4, <1>5

-----------------------------------------------------------------------------
(* The network and the receiving half.                                     *)

Receiving(a, hi) ==
  /\ WindowInvariant
  /\ a <= Len(delivered) + 1 /\ Len(delivered) <= hi
  /\ \A sn \in DOMAIN cachedReceived : cachedReceived[sn] <= hi

(* Datagrams for the peer carry packets up to hi, and none was created so  *)
(* long before what has overtaken it that a window lies between them.      *)
Behind(n, m) == n <= m + MaxWindow
InFlight(hi) ==
  /\ toPeer \in Seq(StreamPacket)
  /\ \A i \in 1 .. Len(toPeer) :
       /\ toPeer[i] = Packet(SerialOf(toPeer[i].data), toPeer[i].data)
       /\ 1 <= toPeer[i].data /\ toPeer[i].data <= hi
       /\ \A j \in 1 .. i : Behind(toPeer[j].data, toPeer[i].data)
       /\ Behind(Len(delivered), toPeer[i].data)
       /\ \A sn \in DOMAIN cachedReceived : Behind(cachedReceived[sn], toPeer[i].data)

(* Datagrams for the sender carry window starts, of packets pos, that      *)
(* never decrease.                                                         *)
Reporting(a, pos) ==
  /\ \E S : toSender \in Seq(S)
  /\ Len(pos) = Len(toSender)
  /\ \A i \in 1 .. Len(pos) :
       /\ a <= pos[i] /\ pos[i] <= Len(delivered) + 1
       /\ \A j \in 1 .. i : pos[j] <= pos[i]
       /\ toSender[i].type # "NACK" => toSender[i].first = SerialOf(pos[i])

FlowAt(a, hi, pos) ==
  /\ Sending(a, hi)
  /\ Receiving(a, hi)
  /\ InFlight(hi)
  /\ Reporting(a, pos)
Flow == \E a \in Int, hi \in Int, pos \in Seq(Int) : FlowAt(a, hi, pos)

(* Packets written behind those in flight.                                 *)
Fresh(t, hi, h) ==
  \A i \in 1 .. Len(t) :
    /\ t[i] = Packet(SerialOf(t[i].data), t[i].data)
    /\ 1 <= t[i].data /\ t[i].data <= h
    /\ \A j \in 1 .. i : Behind(t[j].data, t[i].data)
    /\ Behind(hi, t[i].data)

LEMMA WrittenInFlight ==
  ASSUME NEW a \in Int, NEW hi \in Int, NEW h \in Int, hi <= h, Receiving(a, hi), InFlight(hi),
         NEW t \in Seq(StreamPacket), Fresh(t, hi, h), toPeer' = Written(toPeer, t),
         UNCHANGED <<delivered, cachedReceived>>
  PROVE  InFlight(h)'
  <1> DEFINE u == toPeer'
             m == Len(toPeer)
  <1>1. /\ u \in Seq(StreamPacket) /\ Len(u) <= m + Len(t)
        /\ Len(u) \in Nat /\ m \in Nat /\ Len(t) \in Nat
        /\ \A i \in 1 .. Len(u) : u[i] = IF i <= m THEN toPeer[i] ELSE t[i - m]
    <2>1. toPeer \in Seq(StreamPacket) BY DEF InFlight
    <2>2. /\ u \in Seq(StreamPacket)
          /\ Len(u) = IF m + Len(t) < Capacity THEN m + Len(t) ELSE Capacity
          /\ \A i \in 1 .. Len(u) : u[i] = IF i <= m THEN toPeer[i] ELSE t[i - m]
      BY <2>1, WrittenEntries
    <2>3. Len(u) \in Nat /\ m \in Nat /\ Len(t) \in Nat BY <2>1, <2>2, LenProperties
    <2> HIDE DEF u, m
    <2> QED BY <2>2, <2>3, NetworkAssumption
  <1>2. /\ \A i \in 1 .. Len(t) : t[i].data \in Int
        /\ \A i \in 1 .. m : toPeer[i].data \in Int
    <2>1. \A p \in StreamPacket : p.data \in Int BY DEF StreamPacket
    <2>2. toPeer \in Seq(StreamPacket) BY DEF InFlight
    <2>3. /\ \A i \in 1 .. Len(t) : t[i] \in StreamPacket
          /\ \A i \in 1 .. m : toPeer[i] \in StreamPacket
      BY <2>2, ElementOfSeq
    <2> QED BY <2>1, <2>3
  <1>3. /\ Len(delivered) \in Nat /\ MaxWindow \in Nat
        /\ \A sn \in DOMAIN cachedReceived : cachedReceived[sn] \in Int
    BY StreamAssumption, SerialNumberAssumption
    DEF Receiving, WindowInvariant, ReceiverTypes, WindowTypes
  <1> HIDE DEF u, m
  <1>4. ASSUME NEW i \in 1 .. Len(u)
        PROVE  /\ u[i] = Packet(SerialOf(u[i].data), u[i].data)
               /\ 1 <= u[i].data /\ u[i].data <= h
               /\ \A j \in 1 .. i : Behind(u[j].data, u[i].data)
               /\ Behind(Len(delivered), u[i].data)
               /\ \A sn \in DOMAIN cachedReceived : Behind(cachedReceived[sn], u[i].data)
    <2>1. CASE i <= m
      <3>1. i \in 1 .. m /\ u[i] = toPeer[i] /\ \A j \in 1 .. i : u[j] = toPeer[j]
        BY <1>1, <2>1
      <3> QED BY <1>2, <3>1 DEF InFlight, m
    <2>2. CASE ~ (i <= m)
      <3> DEFINE k == i - m
      <3>1. k \in 1 .. Len(t) /\ u[i] = t[k] BY <1>1, <2>2
      <3>2. /\ t[k] = Packet(SerialOf(t[k].data), t[k].data) /\ t[k].data \in Int
            /\ 1 <= t[k].data /\ t[k].data <= h /\ Behind(hi, t[k].data)
            /\ \A j \in 1 .. k : Behind(t[j].data, t[k].data)
        BY <1>2, <3>1 DEF Fresh
      <3>3. ASSUME NEW j \in 1 .. i PROVE Behind(u[j].data, u[i].data)
        <4>1. CASE j <= m
          <5>1. j \in 1 .. m /\ u[j] = toPeer[j] BY <1>1, <4>1
          <5>2. toPeer[j].data <= hi /\ toPeer[j].data \in Int BY <1>2, <5>1 DEF InFlight, m
          <5> HIDE DEF k
          <5> QED BY <1>3, <3>1, <3>2, <5>1, <5>2 DEF Behind
        <4>2. CASE ~ (j <= m)
          <5>1. j - m \in 1 .. k /\ u[j] = t[j - m] BY <1>1, <4>2
          <5> HIDE DEF k
          <5> QED BY <3>1, <3>2, <5>1
        <4> QED BY <4>1, <4>2
      <3>4. Len(delivered) <= hi /\ \A sn \in DOMAIN cachedReceived : cachedReceived[sn] <= hi
        BY DEF Receiving
      <3>5. /\ Behind(Len(delivered), u[i].data)
            /\ \A sn \in DOMAIN cachedReceived : Behind(cachedReceived[sn], u[i].data)
        <4> HIDE DEF k
        <4> QED BY <1>3, <3>1, <3>2, <3>4 DEF Behind
      <3> HIDE DEF k
      <3> QED BY <3>1, <3>2, <3>3, <3>5
    <2> QED BY <2>1, <2>2
  <1> QED BY <1>1, <1>4 DEF InFlight, u

(* A datagram delivered or lost leaves the others as they were.            *)
LEMMA RemovedInFlight ==
  ASSUME NEW hi \in Int, InFlight(hi),
         \A i \in 1 .. Len(toPeer) :
           /\ Behind(Len(delivered'), toPeer[i].data)
           /\ \A sn \in DOMAIN cachedReceived' : Behind(cachedReceived'[sn], toPeer[i].data),
         \/ UNCHANGED toPeer
         \/ \E k \in DOMAIN toPeer : toPeer' = RemoveAt(toPeer, k)
  PROVE  InFlight(hi)'
  <1>1. CASE UNCHANGED toPeer BY <1>1 DEF InFlight
  <1>2. ASSUME NEW k \in DOMAIN toPeer, toPeer' = RemoveAt(toPeer, k) PROVE InFlight(hi)'
    <2> DEFINE u == toPeer'
               m == Len(toPeer)
               old(i) == IF i < k THEN i ELSE i + 1
    <2>1. toPeer \in Seq(StreamPacket) BY DEF InFlight
    <2>2. k \in 1 .. m /\ m \in Nat BY <2>1, LenProperties
    <2>3. /\ u \in Seq(StreamPacket) /\ Len(u) = m - 1
          /\ \A i \in 1 .. m - 1 : u[i] = toPeer[old(i)]
      BY <1>2, <2>1, <2>2, RemoveAtEntries
    <2>4. \A i \in 1 .. m - 1 : old(i) \in 1 .. m /\ \A j \in 1 .. i : old(j) \in 1 .. old(i)
      BY <2>2
    <2> HIDE DEF u, old, m
    <2>5. ASSUME NEW i \in 1 .. Len(u)
          PROVE  /\ u[i] = Packet(SerialOf(u[i].data), u[i].data)
                 /\ 1 <= u[i].data /\ u[i].data <= hi
                 /\ \A j \in 1 .. i : Behind(u[j].data, u[i].data)
                 /\ Behind(Len(delivered'), u[i].data)
                 /\ \A sn \in DOMAIN cachedReceived' : Behind(cachedReceived'[sn], u[i].data)
      <3>1. /\ old(i) \in 1 .. m /\ u[i] = toPeer[old(i)]
            /\ \A j \in 1 .. i : old(j) \in 1 .. old(i) /\ u[j] = toPeer[old(j)]
        BY <2>2, <2>3, <2>4
      <3> QED BY <3>1 DEF InFlight, m
    <2> QED BY <2>3, <2>5 DEF InFlight, u
  <1> QED BY <1>1, <1>2

(* Feedback that tells the window start of now.                            *)
LEMMA WrittenReporting ==
  ASSUME NEW a \in Int, NEW pos \in Seq(Int), Reporting(a, pos),
         delivered \in Seq(1 .. Stream), a <= Len(delivered) + 1,
         NEW T, NEW t \in Seq(T), toSender' = Written(toSender, t),
         \A i \in 1 .. Len(t) : t[i].type # "NACK" => t[i].first = SerialOf(Len(delivered) + 1),
         Len(delivered') \in Nat, Len(delivered') >= Len(delivered)
  PROVE  \E now \in Seq(Int) : Reporting(a, now)'
  <1> DEFINE d == Len(delivered) + 1
             m == Len(toSender)
             ts == [i \in 1 .. Len(t) |-> d]
  <1>1. d \in Int /\ d <= Len(delivered') + 1 /\ a <= d BY LenProperties
  <1>2. Len(t) \in Nat BY LenProperties
  <1>3. ts \in Seq(Int) /\ Len(ts) = Len(t) /\ \A i \in 1 .. Len(t) : ts[i] = d
    <2> HIDE DEF d
    <2> QED BY <1>1, <1>2
  <1> HIDE DEF ts
  <1>4. PICK S : toSender \in Seq(S) BY DEF Reporting
  <1>5. Len(pos) = m /\ m \in Nat BY <1>4, LenProperties DEF Reporting
  <1>6. PICK now \in Seq(Int) : now = Written(pos, ts)
    <2>1. Written(pos, ts) \in Seq(Int) BY <1>3, WrittenEntries
    <2> QED BY <2>1
  <1>7. /\ Len(now) = IF m + Len(t) < Capacity THEN m + Len(t) ELSE Capacity
        /\ \A i \in 1 .. Len(now) : now[i] = IF i <= m THEN pos[i] ELSE ts[i - m]
    <2>1. /\ Len(Written(pos, ts)) =
               IF Len(pos) + Len(ts) < Capacity THEN Len(pos) + Len(ts) ELSE Capacity
          /\ \A i \in 1 .. Len(Written(pos, ts)) :
               Written(pos, ts)[i] = IF i <= Len(pos) THEN pos[i] ELSE ts[i - Len(pos)]
      BY ZenonT(30), <1>3, WrittenEntries
    <2> HIDE DEF m
    <2> QED BY <1>3, <1>5, <1>6, <2>1
  <1>8. /\ toSender' \in Seq(S \cup T)
        /\ Len(toSender') = Len(now)
        /\ \A i \in 1 .. Len(now) : toSender'[i] = IF i <= m THEN toSender[i] ELSE t[i - m]
    <2> DEFINE U == S \cup T
    <2>1. toSender \in Seq(U) /\ t \in Seq(U) BY <1>4, SeqMonotonic
    <2> HIDE DEF U
    <2>2. /\ toSender' \in Seq(U)
          /\ Len(toSender') = IF m + Len(t) < Capacity THEN m + Len(t) ELSE Capacity
          /\ \A i \in 1 .. Len(toSender') : toSender'[i] = IF i <= m THEN toSender[i] ELSE t[i - m]
      BY <2>1, WrittenEntries
    <2> QED BY <1>7, <2>2 DEF U
  <1>9. Len(now) \in Nat /\ Len(now) <= m + Len(t)
    BY <1>2, <1>5, <1>7, NetworkAssumption
  <1>10. ASSUME NEW i \in 1 .. Len(now)
         PROVE  /\ a <= now[i] /\ now[i] <= Len(delivered') + 1
                /\ \A j \in 1 .. i : now[j] <= now[i]
                /\ toSender'[i].type # "NACK" => toSender'[i].first = SerialOf(now[i])
    <2>1. \A j \in 1 .. m : /\ pos[j] \in Int /\ a <= pos[j] /\ pos[j] <= d
                            /\ \A k \in 1 .. j : pos[k] <= pos[j]
                            /\ toSender[j].type # "NACK" => toSender[j].first = SerialOf(pos[j])
      BY <1>5, ElementOfSeq DEF Reporting
    <2> HIDE DEF m, d
    <2>2. CASE i <= m
      <3>1. i \in 1 .. m /\ \A j \in 1 .. i : j <= m /\ j \in 1 .. Len(now) BY <1>5, <1>9, <2>2
      <3>2. /\ now[i] = pos[i] /\ toSender'[i] = toSender[i]
            /\ \A j \in 1 .. i : now[j] = pos[j]
        BY <1>7, <1>8, <2>2, <3>1
      <3> QED BY SMTT(30), <1>1, <2>1, <3>1, <3>2
    <2>3. CASE ~ (i <= m)
      <3>1. i - m \in 1 .. Len(t) BY <1>2, <1>5, <1>9, <2>3
      <3>2. now[i] = d /\ toSender'[i] = t[i - m] BY <1>3, <1>7, <1>8, <2>3, <3>1
      <3>3. ASSUME NEW j \in 1 .. i PROVE now[j] <= d
        <4>1. CASE j <= m
          <5>1. j \in 1 .. m /\ j \in 1 .. Len(now) BY <1>5, <1>9, <4>1
          <5>2. now[j] = pos[j] BY <1>7, <4>1, <5>1
          <5> QED BY <2>1, <5>1, <5>2
        <4>2. CASE ~ (j <= m)
          <5>1. j - m \in 1 .. Len(t) /\ j \in 1 .. Len(now) BY SMTT(30), <1>2, <1>5, <1>9, <4>2
          <5>2. now[j] = d BY <1>3, <1>7, <4>2, <5>1
          <5> QED BY <1>1, <5>2
        <4> QED BY <4>1, <4>2
      <3>4. t[i - m].type # "NACK" => t[i - m].first = SerialOf(d) BY <3>1 DEF d
      <3> QED BY <1>1, <3>2, <3>3, <3>4
    <2> QED BY <2>2, <2>3
  <1>11. Reporting(a, now)' BY <1>8, <1>10 DEF Reporting
  <1> QED BY <1>11

(* Feedback that was read or lost; once the k-th was read the window       *)
(* starts no later than it says.                                           *)
LEMMA RemovedReporting ==
  ASSUME NEW a \in Int, NEW pos \in Seq(Int), Reporting(a, pos), UNCHANGED delivered,
         NEW b \in Int, \A i \in 1 .. Len(pos) : b <= pos[i],
         \/ UNCHANGED toSender
         \/ \E k \in DOMAIN toSender : toSender' = RemoveAt(toSender, k)
  PROVE  \E now \in Seq(Int) : Reporting(b, now)'
  <1>1. CASE UNCHANGED toSender
    <2>1. Reporting(b, pos)' BY <1>1 DEF Reporting
    <2> QED BY <2>1
  <1>2. ASSUME NEW k \in DOMAIN toSender, toSender' = RemoveAt(toSender, k)
        PROVE  \E now \in Seq(Int) : Reporting(b, now)'
    <2> DEFINE m == Len(toSender)
               old(i) == IF i < k THEN i ELSE i + 1
    <2>1. PICK S : toSender \in Seq(S) BY DEF Reporting
    <2>2. k \in 1 .. m /\ m \in Nat /\ Len(pos) = m
      BY <2>1, LenProperties DEF Reporting
    <2>3. /\ toSender' \in Seq(S) /\ Len(toSender') = m - 1
          /\ \A i \in 1 .. m - 1 : toSender'[i] = toSender[old(i)]
      BY <1>2, <2>1, <2>2, RemoveAtEntries
    <2>4. PICK now \in Seq(Int) : now = RemoveAt(pos, k)
      <3>1. RemoveAt(pos, k) \in Seq(Int) BY <2>2, RemoveAtEntries
      <3> QED BY <3>1
    <2>5. Len(now) = m - 1 /\ \A i \in 1 .. m - 1 : now[i] = pos[old(i)]
      <3>1. k \in 1 .. Len(pos) BY <2>2
      <3>2. /\ Len(RemoveAt(pos, k)) = Len(pos) - 1
            /\ \A i \in 1 .. Len(pos) - 1 :
                 RemoveAt(pos, k)[i] = pos[IF i < k THEN i ELSE i + 1]
        BY <3>1, RemoveAtEntries
      <3> QED BY <2>2, <2>4, <3>2
    <2>6. \A i \in 1 .. m - 1 : old(i) \in 1 .. m /\ \A j \in 1 .. i : old(j) \in 1 .. old(i)
      BY <2>2
    <2> HIDE DEF old, m
    <2>7. ASSUME NEW i \in 1 .. Len(now)
          PROVE  /\ b <= now[i] /\ now[i] <= Len(delivered') + 1
                 /\ \A j \in 1 .. i : now[j] <= now[i]
                 /\ toSender'[i].type # "NACK" => toSender'[i].first = SerialOf(now[i])
      <3>1. /\ old(i) \in 1 .. Len(pos) /\ now[i] = pos[old(i)]
            /\ toSender'[i] = toSender[old(i)]
            /\ \A j \in 1 .. i : old(j) \in 1 .. old(i) /\ now[j] = pos[old(j)]
        BY SMTT(30), <2>2, <2>3, <2>5, <2>6
      <3> QED BY <3>1 DEF Reporting
    <2>8. Reporting(b, now)' BY <2>3, <2>5, <2>7 DEF Reporting
    <2> QED BY <2>8
  <1> QED BY <1>1, <1>2

-----------------------------------------------------------------------------
(* The steps                                                               *)

(* What the arrival of packet n does to the stream: no bound on what was   *)
(* delivered, cached and arrives is passed.                                *)
LEMMA ArrivalKeeps ==
  ASSUME WindowInvariant, NEW n \in 1 .. Stream, Timely(n), ReceivePacket(SerialOf(n), n)
  PROVE  /\ WindowInvariant'
         /\ Len(delivered) \in Nat /\ Len(delivered') \in Nat
         /\ Len(delivered) <= Len(delivered')
         /\ \A m \in Int :
              /\ Len(delivered) <= m /\ n <= m
              /\ \A sn \in DOMAIN cachedReceived : cachedReceived[sn] <= m
              => /\ Len(delivered') <= m
                 /\ \A sn \in DOMAIN cachedReceived' : cachedReceived'[sn] <= m
         /\ \/ UNCHANGED delivered
            \/ \E k \in Nat \ {0} :
                 /\ Len(delivered') = Len(delivered) + k
                 /\ delivered' = delivered \o [i \in 1 .. k |-> Len(delivered) + i]
  <1>1. /\ WindowInvariant'
        /\ \/ UNCHANGED windowVars
           \/ n = Len(delivered) + 1 /\ \E k \in Nat : RunDelivered(k)
           \/ Cached(n)
    BY ArrivalPreserves
  <1>2. Len(delivered) \in Nat /\ Len(delivered') \in Nat /\ n \in Int
    <2>1. delivered \in Seq(1 .. Stream) /\ delivered' \in Seq(1 .. Stream)
      BY <1>1 DEF WindowInvariant, ReceiverTypes, WindowTypes
    <2> QED BY <2>1, LenProperties, StreamAssumption
  <1>3. CASE UNCHANGED windowVars
    <2>1. UNCHANGED <<delivered, cachedReceived>> BY <1>3 DEF windowVars
    <2> QED BY <1>1, <1>2, <2>1
  <1>4. ASSUME n = Len(delivered) + 1, NEW k \in Nat, RunDelivered(k)
        PROVE  /\ Len(delivered') = Len(delivered) + k + 1
               /\ delivered' = delivered \o [i \in 1 .. k + 1 |-> Len(delivered) + i]
               /\ \A m \in Int :
                    /\ Len(delivered) <= m /\ n <= m
                    /\ \A sn \in DOMAIN cachedReceived : cachedReceived[sn] <= m
                    => /\ Len(delivered') <= m
                       /\ \A sn \in DOMAIN cachedReceived' : cachedReceived'[sn] <= m
    <2>1. /\ Len(delivered') = Len(delivered) + k + 1
          /\ delivered' = delivered \o [i \in 1 .. k + 1 |-> Len(delivered) + i]
          /\ \A i \in 1 .. k : /\ Advance(firstReceived, i) \in DOMAIN cachedReceived
                               /\ cachedReceived[Advance(firstReceived, i)] = Len(delivered) + 1 + i
          /\ DOMAIN cachedReceived' \subseteq DOMAIN cachedReceived
          /\ \A sn \in DOMAIN cachedReceived' : cachedReceived'[sn] = cachedReceived[sn]
      BY <1>4 DEF RunDelivered
    <2>2. ASSUME NEW m \in Int, n <= m,
                 \A sn \in DOMAIN cachedReceived : cachedReceived[sn] <= m
          PROVE  Len(delivered') <= m
      <3>1. CASE k = 0 BY <1>2, <1>4, <2>1, <2>2, <3>1
      <3>2. CASE k # 0
        <4>1. k \in 1 .. k BY <3>2
        <4>2. Len(delivered) + 1 + k <= m BY <2>1, <2>2, <4>1
        <4> QED BY <1>2, <2>1, <4>2
      <3> QED BY <3>1, <3>2
    <2> QED BY <2>1, <2>2
  <1>5. ASSUME Cached(n)
        PROVE  /\ UNCHANGED delivered
               /\ \A m \in Int :
                    /\ n <= m
                    /\ \A sn \in DOMAIN cachedReceived : cachedReceived[sn] <= m
                    => \A sn \in DOMAIN cachedReceived' : cachedReceived'[sn] <= m
    BY <1>5 DEF Cached
  <1>6. CASE n = Len(delivered) + 1 /\ \E k \in Nat : RunDelivered(k)
    <2>1. PICK k \in Nat : RunDelivered(k) BY <1>6
    <2> DEFINE l == k + 1
    <2>2. /\ l \in Nat \ {0} /\ Len(delivered') = Len(delivered) + l
          /\ delivered' = delivered \o [i \in 1 .. l |-> Len(delivered) + i]
      <3>1. /\ Len(delivered') = Len(delivered) + k + 1
            /\ delivered' = delivered \o [i \in 1 .. k + 1 |-> Len(delivered) + i]
        BY <1>4, <1>6, <2>1
      <3>2. l \in Nat \ {0} /\ Len(delivered) + k + 1 = Len(delivered) + l BY <1>2
      <3> QED BY <3>1, <3>2
    <2> HIDE DEF l
    <2>3. Len(delivered) <= Len(delivered') BY <1>2, <2>2
    <2> QED BY <1>1, <1>2, <1>4, <1>6, <2>1, <2>2, <2>3
  <1>7. CASE Cached(n) BY <1>1, <1>2, <1>5, <1>7
  <1> QED BY <1>1, <1>3, <1>6, <1>7

Orderly ==
  /\ ~ Reorder
  /\ ~ WriteMayFail
  /\ BeginOrEnd = {}
  /\ ControlNumbers = {}

(* Behind an orderly network every packet in flight is timely.             *)
LEMMA FlowTimely ==
  ASSUME NEW a \in Int, NEW hi \in Int, NEW pos \in Seq(Int), FlowAt(a, hi, pos),
         NEW i \in 1 .. Len(toPeer)
  PROVE  /\ Timely(toPeer[i].data) /\ toPeer[i].data \in 1 .. Stream
         /\ toPeer[i].data <= hi /\ toPeer[i].sn = SerialOf(toPeer[i].data)
  <1> DEFINE n == toPeer[i].data
  <1>1. n \in Int /\ toPeer[i].sn = SerialOf(n)
    <2>1. toPeer[i] \in StreamPacket BY ElementOfSeq DEF FlowAt, InFlight
    <2>2. toPeer[i] = Packet(SerialOf(n), n) BY DEF FlowAt, InFlight
    <2> QED BY <2>1, <2>2, PacketFields DEF StreamPacket
  <1>2. 1 <= n /\ n <= hi /\ Len(delivered) <= n + MaxWindow
    BY DEF FlowAt, InFlight, Behind
  <1>3. hi <= a + MaxWindow /\ a <= Len(delivered) + 1 /\ hi <= created /\ created <= Stream
    BY SendingNumbers DEF FlowAt, Sending, Receiving
  <1>4. Len(delivered) \in Nat
    BY DEF FlowAt, Receiving, WindowInvariant, ReceiverTypes, WindowTypes
  <1>5. created \in Int /\ Stream \in Int BY SendingNumbers DEF FlowAt
  <1> HIDE DEF n
  <1>6. Timely(n) BY <1>1, <1>2, <1>3, <1>4, SerialNumberAssumption DEF Timely
  <1> QED BY <1>1, <1>2, <1>3, <1>5, <1>6 DEF n

(* What a step means for the application: packets are created, or the next *)
(* ones are delivered.                                                     *)
StreamStep ==
  \/ UNCHANGED <<created, delivered>>
  \/ created' \in created + 1 .. Stream /\ UNCHANGED delivered
  \/ /\ \E k \in 1 .. created - Len(delivered) :
          delivered' = delivered \o [i \in 1 .. k |-> Len(delivered) + i]
     /\ UNCHANGED created

LEMMA DeliverDataFlows ==
  ASSUME Orderly, NEW a \in Int, NEW hi \in Int, NEW pos \in Seq(Int), FlowAt(a, hi, pos),
         NEW i \in DOMAIN toPeer, DeliverData(i)
  PROVE  Flow' /\ StreamStep
  <1> DEFINE n == toPeer[1].data
  <1>1. i = 1 /\ 1 \in 1 .. Len(toPeer)
    <2>1. i \in DOMAIN toPeer \cap {1} BY DEF DeliverData, Deliverable, Orderly
    <2>2. toPeer \in Seq(StreamPacket) BY DEF FlowAt, InFlight
    <2> QED BY <2>1, <2>2, LenProperties
  <1>2. Timely(n) /\ n \in 1 .. Stream /\ n <= hi /\ toPeer[1].sn = SerialOf(n) /\ n \in Int
    BY <1>1, FlowTimely, StreamAssumption
  <1>3. /\ ReceivePacket(SerialOf(n), n)
        /\ toPeer' = RemoveAt(toPeer, 1) \/ UNCHANGED toPeer
        /\ toSender' = Written(toSender, DroppedReply(SerialOf(n)))
        /\ UNCHANGED <<created, firstWaiting, sendWindow, toBeSent, waitingForACK,
                       sentPackets, LSSN, freeSendBuffer>>
    BY <1>1, <1>2 DEF DeliverData, AfterDelivery
  <1>4. /\ Sending(a, hi) /\ InFlight(hi) /\ Reporting(a, pos)
        /\ WindowInvariant /\ a <= Len(delivered) + 1 /\ Len(delivered) <= hi
        /\ \A sn \in DOMAIN cachedReceived : cachedReceived[sn] <= hi
    BY DEF FlowAt, Receiving
  <1> HIDE DEF n
  <1>5. /\ WindowInvariant'
        /\ Len(delivered) \in Nat /\ Len(delivered') \in Nat
        /\ Len(delivered) <= Len(delivered')
        /\ \A m \in Int :
             /\ Len(delivered) <= m /\ n <= m
             /\ \A sn \in DOMAIN cachedReceived : cachedReceived[sn] <= m
             => /\ Len(delivered') <= m
                /\ \A sn \in DOMAIN cachedReceived' : cachedReceived'[sn] <= m
        /\ \/ UNCHANGED delivered
           \/ \E k \in Nat \ {0} :
                /\ Len(delivered') = Len(delivered) + k
                /\ delivered' = delivered \o [j \in 1 .. k |-> Len(delivered) + j]
    BY <1>2, <1>3, <1>4, ArrivalKeeps
  <1>6. Sending(a, hi)' BY <1>3, <1>4 DEF Sending
  <1>7. Receiving(a, hi)' BY <1>2, <1>4, <1>5 DEF Receiving
  <1>8. InFlight(hi)'
    <2>1. ASSUME NEW j \in 1 .. Len(toPeer)
          PROVE  /\ Behind(Len(delivered'), toPeer[j].data)
                 /\ \A sn \in DOMAIN cachedReceived' :
                      Behind(cachedReceived'[sn], toPeer[j].data)
      <3> DEFINE m == toPeer[j].data + MaxWindow
      <3>1. m \in Int
        <4>1. toPeer[j].data \in 1 .. Stream BY FlowTimely
        <4> QED BY <4>1, SerialNumberAssumption, StreamAssumption
      <3>2. 1 \in 1 .. j BY <1>1
      <3>3. /\ n <= m /\ Len(delivered) <= m
            /\ \A sn \in DOMAIN cachedReceived : cachedReceived[sn] <= m
        BY <1>4, <3>2 DEF InFlight, Behind, n
      <3> HIDE DEF m
      <3>4. /\ Len(delivered') <= m
            /\ \A sn \in DOMAIN cachedReceived' : cachedReceived'[sn] <= m
        BY <1>5, <3>1, <3>3
      <3> QED BY <3>4 DEF Behind, m
    <2> QED BY <1>1, <1>3, <1>4, <2>1, RemovedInFlight
  <1>9. \E now \in Seq(Int) : Reporting(a, now)'
    <2> DEFINE t == DroppedReply(SerialOf(n))
               T == {[type |-> "PacketDropped", first |-> firstReceived]}
    <2>1. firstReceived = SerialOf(Len(delivered) + 1) /\ delivered \in Seq(1 .. Stream)
      BY <1>4 DEF WindowInvariant, ReceiverTypes, WindowFollowsStream, WindowTypes
    <2>2. /\ t \in Seq(T)
          /\ \A j \in 1 .. Len(t) : t[j].type # "NACK" => t[j].first = SerialOf(Len(delivered) + 1)
      <3> DEFINE m == [type |-> "PacketDropped", first |-> firstReceived]
      <3>1. m \in T /\ m.first = SerialOf(Len(delivered) + 1) BY <2>1
      <3>2. t = <<>> \/ t = <<m>> BY DEF DroppedReply
      <3> HIDE DEF m, t, T
      <3>3. CASE t = <<>> BY <3>3
      <3>4. CASE t = <<m>> BY <3>1, <3>4
      <3> QED BY <3>2, <3>3, <3>4
    <2> HIDE DEF t, T
    <2>3. toSender' = Written(toSender, t) BY <1>3 DEF t
    <2> QED BY <1>4, <1>5, <2>1, <2>2, <2>3, WrittenReporting
  <1>10. Flow'
    <2>1. PICK now \in Seq(Int) : Reporting(a, now)' BY <1>9
    <2>2. FlowAt(a, hi, now)' BY <1>6, <1>7, <1>8, <2>1 DEF FlowAt
    <2> QED BY <2>2 DEF Flow
  <1>11. StreamStep
    <2>1. Len(delivered') <= created
      BY <1>2, <1>5, <1>7, SendingNumbers DEF FlowAt, Sending, Receiving
    <2>2. created \in Int /\ created' = created BY <1>3, <1>4, SendingNumbers
    <2>3. CASE UNCHANGED delivered BY <2>2, <2>3 DEF StreamStep
    <2>4. ASSUME NEW k \in Nat \ {0}, Len(delivered') = Len(delivered) + k,
                 delivered' = delivered \o [j \in 1 .. k |-> Len(delivered) + j]
          PROVE  StreamStep
      <3>1. k \in 1 .. created - Len(delivered) BY <1>5, <2>1, <2>2, <2>4
      <3> QED BY <2>2, <2>4, <3>1 DEF StreamStep
    <2> QED BY <1>5, <2>3, <2>4
  <1> QED BY <1>10, <1>11

LEMMA SentFlows ==
  ASSUME NEW a \in Int, NEW hi \in Int, NEW pos \in Seq(Int), FlowAt(a, hi, pos),
         NEW h \in Int, hi <= h, Sending(a, h)', UNCHANGED <<receiverVars, toSender>>,
         \/ UNCHANGED toPeer
         \/ \E t \in Seq(StreamPacket) : Fresh(t, hi, h) /\ toPeer' = Written(toPeer, t)
  PROVE  Flow' /\ UNCHANGED delivered
  <1>1. UNCHANGED <<windowVars, timerVars>> BY DEF receiverVars
  <1>2. UNCHANGED <<firstReceived, LRSN, lostReceiver, cachedReceived, delivered>>
    BY <1>1 DEF windowVars
  <1>3. Receiving(a, hi) /\ InFlight(hi) /\ Reporting(a, pos) BY DEF FlowAt
  <1>4. WindowInvariant' BY <1>3, FeedbackPreserves DEF Receiving
  <1>5. Len(delivered) \in Nat /\ \A sn \in DOMAIN cachedReceived : cachedReceived[sn] \in Int
    BY <1>3, StreamAssumption DEF Receiving, WindowInvariant, ReceiverTypes, WindowTypes
  <1>6. Receiving(a, h)' BY <1>2, <1>3, <1>4, <1>5 DEF Receiving
  <1>7. InFlight(h)'
    <2>1. CASE UNCHANGED toPeer
      <3>1. \A i \in 1 .. Len(toPeer) : toPeer[i].data \in Int /\ toPeer[i].data <= h
        <4> TAKE i \in 1 .. Len(toPeer)
        <4>1. toPeer[i].data \in 1 .. Stream /\ toPeer[i].data <= hi BY FlowTimely
        <4> QED BY <4>1, StreamAssumption
      <3> QED BY <1>2, <1>3, <2>1, <3>1 DEF InFlight
    <2>2. ASSUME NEW t \in Seq(StreamPacket), Fresh(t, hi, h), toPeer' = Written(toPeer, t)
          PROVE  InFlight(h)'
      BY <1>2, <1>3, <2>2, WrittenInFlight
    <2> QED BY <2>1, <2>2
  <1>8. Reporting(a, pos)' BY <1>2, <1>3 DEF Reporting
  <1>9. FlowAt(a, h, pos)' BY <1>6, <1>7, <1>8 DEF FlowAt
  <1> QED BY <1>2, <1>9 DEF Flow

LEMMA CreatedFresh ==
  ASSUME NEW hi \in Int, NEW h \in Int, 0 <= hi, hi <= h
  PROVE  Created(hi + 1, h) \in Seq(StreamPacket) /\ Fresh(Created(hi + 1, h), hi, h)
  <1> DEFINE x == hi + 1
             t == Created(x, h)
  <1>1. x \in Int /\ x <= h + 1 OBVIOUS
  <1> HIDE DEF x
  <1>2. /\ t \in Seq(StreamPacket) /\ Len(t) = h - x + 1
        /\ \A i \in 1 .. h - x + 1 : t[i] = Packet(SerialOf(x + i - 1), x + i - 1)
    BY <1>1, CreatedFacts
  <1> HIDE DEF t
  <1>3. ASSUME NEW i \in 1 .. Len(t)
        PROVE  /\ t[i] = Packet(SerialOf(t[i].data), t[i].data)
               /\ 1 <= t[i].data /\ t[i].data <= h
               /\ \A j \in 1 .. i : Behind(t[j].data, t[i].data)
               /\ Behind(hi, t[i].data)
    <2>1. i \in 1 .. h - x + 1 BY <1>2
    <2>2. t[i].data = x + i - 1 BY <1>2, <2>1, PacketFields
    <2>3. ASSUME NEW j \in 1 .. i PROVE Behind(t[j].data, t[i].data)
      <3>1. j \in 1 .. h - x + 1 BY <1>1, <2>1
      <3>2. t[j].data = x + j - 1 BY <1>2, <3>1, PacketFields
      <3> QED BY <1>1, <2>1, <2>2, <3>1, <3>2, SerialNumberAssumption DEF Behind
    <2>4. Behind(hi, t[i].data)
      BY <1>1, <2>1, <2>2, SerialNumberAssumption DEF Behind, x
    <2> QED BY <1>1, <1>2, <2>1, <2>2, <2>3, <2>4 DEF x
  <1>4. Fresh(t, hi, h) BY <1>3 DEF Fresh
  <1> QED BY <1>2, <1>4 DEF t, x

(* The packet retransmitted is one of a to hi.                             *)
LEMMA OneFresh ==
  ASSUME NEW a \in Int, NEW hi \in Int, Sending(a, hi), NEW n \in a .. hi,
         toPeer' = Written(toPeer, <<Packet(SerialOf(n), n)>>)
  PROVE  \E t \in Seq(StreamPacket) : Fresh(t, hi, hi) /\ toPeer' = Written(toPeer, t)
  <1> DEFINE p == Packet(SerialOf(n), n)
             t == <<p>>
  <1>1. p \in StreamPacket /\ p.data = n /\ p = Packet(SerialOf(p.data), p.data)
    BY SerialOfType, PacketFields DEF StreamPacket, Packet
  <1>2. 1 <= n /\ n <= hi /\ Behind(hi, n) /\ Behind(n, n)
    BY SerialNumberAssumption DEF Sending, Behind
  <1> HIDE DEF p
  <1>3. t \in Seq(StreamPacket) /\ Len(t) = 1 /\ t[1] = p BY <1>1
  <1> HIDE DEF t
  <1>4. Fresh(t, hi, hi)
    <2> SUFFICES ASSUME NEW i \in 1 .. Len(t)
                 PROVE  /\ t[i] = Packet(SerialOf(t[i].data), t[i].data)
                        /\ 1 <= t[i].data /\ t[i].data <= hi
                        /\ \A j \in 1 .. i : Behind(t[j].data, t[i].data)
                        /\ Behind(hi, t[i].data)
      BY DEF Fresh
    <2>1. i = 1 /\ \A j \in 1 .. i : j = 1 BY <1>3
    <2> QED BY <1>1, <1>2, <1>3, <2>1
  <1> QED BY <1>3, <1>4 DEF t, p

LEMMA RetransmitFlows ==
  ASSUME NEW a \in Int, NEW hi \in Int, NEW pos \in Seq(Int), FlowAt(a, hi, pos),
         NEW lost, Retransmit(lost), UNCHANGED <<receiverVars, toSender>>,
         UNCHANGED <<created, firstWaiting, toBeSent, waitingForACK, sentPackets, LSSN,
                     freeSendBuffer>>
  PROVE  Flow' /\ UNCHANGED delivered
  <1>1. /\ Sending(a, hi)'
        /\ \/ UNCHANGED toPeer
           \/ \E n \in a .. hi : toPeer' = Written(toPeer, <<Packet(SerialOf(n), n)>>)
    BY RetransmitKeeps DEF FlowAt
  <1>2. ASSUME NEW n \in a .. hi, toPeer' = Written(toPeer, <<Packet(SerialOf(n), n)>>)
        PROVE  \E t \in Seq(StreamPacket) : Fresh(t, hi, hi) /\ toPeer' = Written(toPeer, t)
    BY <1>2, OneFresh DEF FlowAt
  <1>3. hi <= hi OBVIOUS
  <1> QED BY <1>1, <1>2, <1>3, SentFlows

LEMMA SenderFlows ==
  ASSUME Orderly, NEW a \in Int, NEW hi \in Int, NEW pos \in Seq(Int), FlowAt(a, hi, pos),
         Send \/ SendControl \/ Retransmission \/ Flush
  PROVE  Flow' /\ StreamStep
  <1>1. /\ Sending(a, hi) /\ ~ WriteMayFail /\ hi \in Nat /\ created \in Nat
        /\ freeSendBuffer \in Nat
    BY SendingNumbers DEF FlowAt, Orderly, Sending
  <1>2. UNCHANGED <<receiverVars, toSender>>
    BY DEF Send, SendControl, Retransmission, Flush, SenderStep
  <1>3. ASSUME NEW h \in hi .. created', Sending(a, h)', toPeer' = Written(toPeer, Created(hi + 1, h))
        PROVE  Flow' /\ UNCHANGED delivered
    <2>1. h \in Int /\ hi <= h
      <3>1. created' \in 0 .. Stream BY <1>3 DEF Sending
      <3> QED BY <1>1, <3>1, StreamAssumption
    <2>2. Created(hi + 1, h) \in Seq(StreamPacket) /\ Fresh(Created(hi + 1, h), hi, h)
      BY <1>1, <2>1, CreatedFresh
    <2> QED BY <1>2, <1>3, <2>1, <2>2, SentFlows
  <1>4. ASSUME NEW k \in 1 .. MaxBurst, created + k <= Stream, SendDatagram(k)
        PROVE  Flow' /\ StreamStep
    <2>1. /\ k \in Nat /\ k <= freeSendBuffer /\ created' = created + k
          /\ SendNew(Flushed, Created(created + 1, created + k))
          /\ UNCHANGED <<firstWaiting, sendWindow>>
      BY <1>4, TransferAssumption DEF SendDatagram
    <2>2. \E h \in hi .. created' :
            Sending(a, h)' /\ toPeer' = Written(toPeer, Created(hi + 1, h))
      BY <1>1, <1>4, <2>1, SendNewKeeps
    <2>3. Flow' /\ UNCHANGED delivered BY <1>3, <2>2
    <2>4. created' \in created + 1 .. Stream BY <1>1, <1>4, <2>1, StreamAssumption
    <2> QED BY <2>3, <2>4 DEF StreamStep
  <1>5. ASSUME SendDatagramNoRoom PROVE Flow' /\ StreamStep
    <2> DEFINE k == 0
    <2>1. /\ k \in Nat /\ k <= freeSendBuffer /\ created' = created + k /\ created + k <= Stream
          /\ UNCHANGED <<firstWaiting, sendWindow, created>>
      BY <1>1, <1>5 DEF SendDatagramNoRoom, Sending
    <2>2. Created(created + 1, created + k) = <<>>
      <3>1. created + 1 \in Int /\ created + k \in Int /\ created + k = (created + 1) - 1
        BY <1>1
      <3> QED BY <3>1, NothingCreated
    <2>3. SendNew(Flushed, Created(created + 1, created + k))
      BY <1>5, <2>2 DEF SendDatagramNoRoom
    <2> HIDE DEF k
    <2>4. \E h \in hi .. created' :
            Sending(a, h)' /\ toPeer' = Written(toPeer, Created(hi + 1, h))
      BY <1>1, <2>1, <2>3, SendNewKeeps
    <2>5. Flow' /\ UNCHANGED delivered BY <1>3, <2>4
    <2> QED BY <2>1, <2>5 DEF StreamStep
  <1>6. ASSUME NEW lost, Retransmit(lost),
               UNCHANGED <<created, firstWaiting, toBeSent, waitingForACK, sentPackets, LSSN,
                           freeSendBuffer>>
        PROVE  Flow' /\ StreamStep
    <2>1. Flow' /\ UNCHANGED delivered BY <1>2, <1>6, RetransmitFlows
    <2> QED BY <1>6, <2>1 DEF StreamStep
  <1>7. ASSUME UNCHANGED <<created, firstWaiting, sendWindow, toBeSent, waitingForACK,
                           sentPackets, LSSN, freeSendBuffer, toPeer>>
        PROVE  Flow' /\ StreamStep
    <2>1. Sending(a, hi)' BY <1>1, <1>7 DEF Sending
    <2>2. hi <= hi OBVIOUS
    <2>3. Flow' /\ UNCHANGED delivered BY <1>2, <1>7, <2>1, <2>2, SentFlows
    <2> QED BY <1>7, <2>3 DEF StreamStep
  <1>8. CASE Send
    <2>1. \/ \E k \in 1 .. MaxBurst : created + k <= Stream /\ SendDatagram(k)
          \/ SendDatagramNoRoom
          \/ SendDatagramLost
      BY <1>8 DEF Send, Orderly
    <2>2. CASE SendDatagramLost BY <1>6, <2>2 DEF SendDatagramLost
    <2> QED BY <1>4, <1>5, <2>1, <2>2
  <1>9. CASE SendControl BY <1>9 DEF SendControl, Orderly
  <1>10. CASE Retransmission
    <2>1. RetransmissionTimer BY <1>10 DEF Retransmission
    <2>2. UNCHANGED <<created, firstWaiting, toBeSent, waitingForACK, sentPackets, LSSN,
                      freeSendBuffer>>
      BY <2>1 DEF RetransmissionTimer
    <2>3. \/ UNCHANGED <<sendWindow, toPeer>>
          \/ Retransmit(waitingForACK \o Omit(lostSender, ToSet(waitingForACK)))
      BY <2>1 DEF RetransmissionTimer
    <2> QED BY <1>6, <1>7, <2>2, <2>3
  <1>11. CASE Flush
    <2>1. FlushTimer BY <1>11 DEF Flush
    <2>2. \E h \in hi .. created' :
            Sending(a, h)' /\ toPeer' = Written(toPeer, Created(hi + 1, h))
      BY <1>1, <2>1, FlushTimerKeeps
    <2>3. Flow' /\ UNCHANGED delivered BY <1>3, <2>2
    <2>4. UNCHANGED created BY <2>1 DEF FlushTimer
    <2> QED BY <2>3, <2>4 DEF StreamStep
  <1> QED BY <1>8, <1>9, <1>10, <1>11

LEMMA SenderStays ==
  ASSUME NEW a \in Int, NEW hi \in Int, Sending(a, hi), UNCHANGED senderVars
  PROVE  Sending(a, hi)' /\ UNCHANGED <<created, toPeer>>
  <1>1. UNCHANGED <<created, firstWaiting, sendWindow, queueVars, freeSendBuffer>>
    BY DEF senderVars
  <1>2. UNCHANGED <<toBeSent, waitingForACK, sentPackets, LSSN, toPeer>>
    BY <1>1 DEF queueVars
  <1> QED BY <1>1, <1>2 DEF Sending

LEMMA FeedbackFlows ==
  ASSUME Orderly, NEW a \in Int, NEW hi \in Int, NEW pos \in Seq(Int), FlowAt(a, hi, pos),
         NEW i \in DOMAIN toSender, DeliverFeedback(i)
  PROVE  Flow' /\ StreamStep
  <1> DEFINE msg == toSender[1]
  <1>1. i = 1 /\ 1 \in 1 .. Len(pos) /\ 1 \in DOMAIN toSender
    <2>1. i \in DOMAIN toSender \cap {1} BY DEF DeliverFeedback, Deliverable, Orderly
    <2>2. PICK S : toSender \in Seq(S) BY DEF FlowAt, Reporting
    <2> QED BY <2>1, <2>2, LenProperties DEF FlowAt, Reporting
  <1>2. /\ toSender' = RemoveAt(toSender, 1) \/ UNCHANGED toSender
        /\ Feedback(msg)
        /\ UNCHANGED receiverVars
    BY <1>1 DEF DeliverFeedback, AfterDelivery
  <1>3. /\ Sending(a, hi) /\ Receiving(a, hi) /\ InFlight(hi) /\ Reporting(a, pos)
    BY DEF FlowAt
  <1>4. UNCHANGED <<windowVars, timerVars>> BY <1>2 DEF receiverVars
  <1>5. UNCHANGED <<firstReceived, LRSN, lostReceiver, cachedReceived, delivered>>
    BY <1>4 DEF windowVars
  <1>6. WindowInvariant' BY <1>2, <1>3, FeedbackPreserves DEF Receiving
  <1>7. /\ pos[1] \in Int /\ a <= pos[1] /\ pos[1] <= Len(delivered) + 1
        /\ \A j \in 1 .. Len(pos) : pos[1] <= pos[j] /\ a <= pos[j] /\ pos[j] \in Int
        /\ msg.type # "NACK" => msg.first = SerialOf(pos[1])
    <2>1. \A j \in 1 .. Len(pos) : pos[j] \in Int /\ 1 \in 1 .. j
      BY <1>1, ElementOfSeq, LenProperties
    <2> QED BY <1>1, <1>3, <2>1 DEF Reporting
  <1>8. Len(delivered) \in Nat /\ Len(delivered) <= hi
    BY <1>3 DEF Receiving, WindowInvariant, ReceiverTypes, WindowTypes
  <1>9. ASSUME NEW b \in a .. pos[1], Sending(b, hi)',
               \/ UNCHANGED toPeer
               \/ \E t \in Seq(StreamPacket) : Fresh(t, hi, hi) /\ toPeer' = Written(toPeer, t)
        PROVE  Flow'
    <2>1. b \in Int /\ b <= Len(delivered) + 1 /\ \A j \in 1 .. Len(pos) : b <= pos[j]
      BY <1>7, <1>8
    <2>2. PICK now \in Seq(Int) : Reporting(b, now)'
      BY <1>1, <1>2, <1>3, <1>5, <2>1, RemovedReporting
    <2>3. Receiving(b, hi)' BY <1>3, <1>5, <1>6, <2>1 DEF Receiving
    <2>4. InFlight(hi)'
      <3>1. CASE UNCHANGED toPeer BY <1>3, <1>5, <3>1 DEF InFlight
      <3>2. ASSUME NEW t \in Seq(StreamPacket), Fresh(t, hi, hi), toPeer' = Written(toPeer, t)
            PROVE  InFlight(hi)'
        <4>1. hi <= hi OBVIOUS
        <4> QED BY <1>3, <1>5, <3>2, <4>1, WrittenInFlight
      <3> QED BY <1>9, <3>1, <3>2
    <2>5. FlowAt(b, hi, now)' BY <1>9, <2>2, <2>3, <2>4 DEF FlowAt
    <2> QED BY <2>1, <2>5 DEF Flow
  <1>10. CASE msg.type # "NACK" /\ (ReceiveACK(msg.first) \/ ReceivePacketDropped(msg.first))
    <2>1. pos[1] <= hi + 1 BY <1>7, <1>8
    <2>2. UNCHANGED <<created, toPeer>> /\ \E b \in a .. pos[1] : Sending(b, hi)'
      BY <1>3, <1>7, <1>10, <2>1, ReceiveACKKeeps
    <2> QED BY <1>5, <1>9, <2>2 DEF StreamStep
  <1>11. CASE ReceiveNACK(msg.lost)
    <2>1. /\ Retransmit(msg.lost \o Omit(lostSender, ToSet(msg.lost)))
          /\ UNCHANGED <<created, firstWaiting, toBeSent, waitingForACK, sentPackets, LSSN,
                         freeSendBuffer>>
      BY <1>11 DEF ReceiveNACK
    <2>2. /\ Sending(a, hi)'
          /\ \/ UNCHANGED toPeer
             \/ \E n \in a .. hi : toPeer' = Written(toPeer, <<Packet(SerialOf(n), n)>>)
      BY <1>3, <2>1, RetransmitKeeps
    <2>3. a \in a .. pos[1] BY <1>7
    <2>4. \/ UNCHANGED toPeer
          \/ \E t \in Seq(StreamPacket) : Fresh(t, hi, hi) /\ toPeer' = Written(toPeer, t)
      BY <1>3, <2>2, OneFresh
    <2> QED BY <1>5, <1>9, <2>1, <2>2, <2>3, <2>4 DEF StreamStep
  <1> QED BY <1>2, <1>10, <1>11 DEF Feedback

(* The timers of the receiving half report where its window starts.        *)
LEMMA TimersFlow ==
  ASSUME NEW a \in Int, NEW hi \in Int, NEW pos \in Seq(Int), FlowAt(a, hi, pos),
         ACKTimer \/ NACKTimer
  PROVE  Flow' /\ StreamStep
  <1>1. /\ Sending(a, hi) /\ Receiving(a, hi) /\ InFlight(hi) /\ Reporting(a, pos)
        /\ WindowInvariant /\ a <= Len(delivered) + 1
    BY DEF FlowAt, Receiving
  <1>2. firstReceived = SerialOf(Len(delivered) + 1) /\ delivered \in Seq(1 .. Stream)
    BY <1>1 DEF WindowInvariant, ReceiverTypes, WindowFollowsStream, WindowTypes
  <1>3. UNCHANGED senderVars BY DEF ACKTimer, NACKTimer, ReceiverStep
  <1>4. Sending(a, hi)' /\ UNCHANGED <<created, toPeer>> BY <1>1, <1>3, SenderStays
  <1>5. WindowInvariant' /\ UNCHANGED windowVars
    BY <1>1, FeedbackPreserves DEF ACKTimer, NACKTimer
  <1>6. UNCHANGED <<cachedReceived, delivered>> BY <1>5 DEF windowVars
  <1>7. Receiving(a, hi)' BY <1>1, <1>5, <1>6 DEF Receiving
  <1>8. InFlight(hi)' BY <1>1, <1>4, <1>6 DEF InFlight
  <1>9. \E now \in Seq(Int) : Reporting(a, now)'
    <2>1. ASSUME NEW m, m.type # "NACK" => m.first = firstReceived,
                 toSender' = Written(toSender, <<m>>)
          PROVE  \E now \in Seq(Int) : Reporting(a, now)'
      <3> DEFINE t == <<m>>
      <3>1. t \in Seq({m}) /\ Len(t) = 1 /\ t[1] = m OBVIOUS
      <3>2. \A i \in 1 .. Len(t) :
              t[i].type # "NACK" => t[i].first = SerialOf(Len(delivered) + 1)
        <4>1. \A i \in 1 .. Len(t) : t[i] = m BY <3>1
        <4> HIDE DEF t
        <4> QED BY <1>2, <2>1, <4>1
      <3>3. toSender' = Written(toSender, t) BY <2>1
      <3> HIDE DEF t
      <3>4. Len(delivered') \in Nat /\ Len(delivered') >= Len(delivered)
        BY <1>2, <1>6, LenProperties
      <3> QED BY <1>1, <1>2, <3>1, <3>2, <3>3, <3>4, WrittenReporting
    <2>2. CASE ACKTimer
      <3>1. CASE UNCHANGED toSender
        <4>1. Reporting(a, pos)' BY <1>1, <1>6, <3>1 DEF Reporting
        <4> QED BY <4>1
      <3>2. CASE toSender' = Written(toSender, <<ACKMessage>>)
        <4>1. ACKMessage.type # "NACK" => ACKMessage.first = firstReceived BY DEF ACKMessage
        <4> HIDE DEF ACKMessage
        <4> QED BY <2>1, <3>2, <4>1
      <3> QED BY <2>2, <3>1, <3>2 DEF ACKTimer
    <2>3. CASE NACKTimer
      <3>1. PICK report \in LossReports :
              toSender' = Written(toSender, <<NACKMessage(report)>>)
        BY <2>3 DEF NACKTimer
      <3>2. NACKMessage(report).type = "NACK" BY DEF NACKMessage
      <3> QED BY <2>1, <3>1, <3>2
    <2> QED BY <2>2, <2>3
  <1>10. Flow' BY <1>4, <1>7, <1>8, <1>9 DEF FlowAt, Flow
  <1> QED BY <1>4, <1>6, <1>10 DEF StreamStep

(* A lost datagram, and a step that changes nothing.                       *)
LEMMA LossFlows ==
  ASSUME NEW a \in Int, NEW hi \in Int, NEW pos \in Seq(Int), FlowAt(a, hi, pos),
         Lose \/ UNCHANGED vars
  PROVE  Flow' /\ StreamStep
  <1>1. /\ Sending(a, hi) /\ Receiving(a, hi) /\ InFlight(hi) /\ Reporting(a, pos)
        /\ WindowInvariant
    BY DEF FlowAt, Receiving
  <1>2. /\ UNCHANGED <<created, firstWaiting, sendWindow, toBeSent, waitingForACK,
                       sentPackets, LSSN, freeSendBuffer>>
        /\ UNCHANGED receiverVars
    BY DEF Lose, vars, senderVars, queueVars
  <1>3. /\ \/ UNCHANGED toPeer
           \/ \E k \in DOMAIN toPeer : toPeer' = RemoveAt(toPeer, k)
        /\ \/ UNCHANGED toSender
           \/ \E k \in DOMAIN toSender : toSender' = RemoveAt(toSender, k)
    BY DEF Lose, vars, senderVars, queueVars
  <1>4. WindowInvariant' /\ UNCHANGED windowVars BY <1>1, <1>2, FeedbackPreserves
  <1>5. UNCHANGED <<cachedReceived, delivered>> BY <1>4 DEF windowVars
  <1>6. Sending(a, hi)' BY <1>1, <1>2 DEF Sending
  <1>7. Receiving(a, hi)' BY <1>1, <1>4, <1>5 DEF Receiving
  <1>8. InFlight(hi)'
    <2>1. \A i \in 1 .. Len(toPeer) :
            /\ Behind(Len(delivered'), toPeer[i].data)
            /\ \A sn \in DOMAIN cachedReceived' : Behind(cachedReceived'[sn], toPeer[i].data)
      BY <1>1, <1>5 DEF InFlight
    <2> QED BY <1>1, <1>3, <2>1, RemovedInFlight
  <1>9. \E now \in Seq(Int) : Reporting(a, now)'
    <2>1. \A i \in 1 .. Len(pos) : a <= pos[i] BY <1>1 DEF Reporting
    <2> QED BY <1>1, <1>3, <1>5, <2>1, RemovedReporting
  <1>10. Flow' BY <1>6, <1>7, <1>8, <1>9 DEF FlowAt, Flow
  <1> QED BY <1>2, <1>5, <1>10 DEF StreamStep

LEMMA FlowStep ==
  ASSUME Orderly, Flow, [Next]_vars
  PROVE  Flow' /\ StreamStep
  <1>1. PICK a \in Int, hi \in Int, pos \in Seq(Int) : FlowAt(a, hi, pos) BY DEF Flow
  <1>2. CASE Send \/ SendControl \/ Retransmission \/ Flush BY <1>1, <1>2, SenderFlows
  <1>3. ASSUME NEW i \in DOMAIN toPeer, DeliverData(i) PROVE Flow' /\ StreamStep
    BY <1>1, <1>3, DeliverDataFlows
  <1>4. ASSUME NEW i \in DOMAIN toSender, DeliverFeedback(i) PROVE Flow' /\ StreamStep
    BY <1>1, <1>4, FeedbackFlows
  <1>5. CASE ACKTimer \/ NACKTimer BY <1>1, <1>5, TimersFlow
  <1>6. CASE Lose \/ UNCHANGED vars BY <1>1, <1>6, LossFlows
  <1> QED BY <1>2, <1>3, <1>4, <1>5, <1>6 DEF Next

LEMMA FirstSerial == SerialOf(1) = 1
  <1>1. (1 - 1) % MaxSN = 0
    <2>1. 1 - 1 = MaxSN * 0 + 0 /\ 0 \in 0 .. MaxSN - 1 BY SerialNumberAssumption
    <2> QED BY <2>1, SerialNumberAssumption, RemainderUnique
  <1> QED BY <1>1, SerialOfType

LEMMA FlowStarts == ASSUME Init PROVE Flow
  <1>1. SenderInit /\ ReceiverInit /\ toSender = <<>> BY DEF Init
  <1>2. Sending(1, 0)
    <2>1. Serials(1, 0) = <<>>
      <3>1. Len(Serials(1, 0)) = 0 /\ Serials(1, 0) \in Seq(SerialNumber) BY SerialsFacts
      <3> QED BY <3>1, EmptySeq
    <2>2. Holds(NoPackets, 1, 0)
      <3>1. 1 .. 0 = {} OBVIOUS
      <3> QED BY <3>1 DEF Holds, SerialSet, NoPackets
    <2>3. MinWindow \in MinWindow .. MaxWindow /\ SendBuffer \in Nat /\ MaxWindow \in Nat
      BY SenderAssumption, SerialNumberAssumption
    <2> QED BY <1>1, <2>1, <2>2, <2>3, FirstSerial, StreamAssumption DEF SenderInit, Sending
  <1>3. Receiving(1, 0)
    <2>1. WindowInvariant BY <1>1, ReceiverStarts
    <2>2. delivered = <<>> /\ DOMAIN cachedReceived = {} BY <1>1 DEF ReceiverInit
    <2>3. Len(delivered) = 0 BY <2>2
    <2> QED BY <2>1, <2>2, <2>3 DEF Receiving
  <1>4. InFlight(0)
    <2>1. toPeer = <<>> BY <1>1 DEF SenderInit
    <2>2. toPeer \in Seq(StreamPacket) /\ Len(toPeer) = 0 BY <2>1
    <2> QED BY <2>2 DEF InFlight
  <1>5. PICK none \in Seq(Int) : none = <<>>
    <2>1. <<>> \in Seq(Int) OBVIOUS
    <2> QED BY <2>1
  <1>6. Reporting(1, none)
    <2>1. toSender \in Seq({}) /\ Len(toSender) = 0 /\ Len(none) = 0 BY <1>1, <1>5
    <2> QED BY <2>1 DEF Reporting
  <1>7. FlowAt(1, 0, none) BY <1>2, <1>3, <1>4, <1>6 DEF FlowAt
  <1> QED BY <1>7 DEF Flow

-----------------------------------------------------------------------------
(* Across the turns of the serial numbers                                  *)

(* The inductive invariant holds throughout.                               *)
THEOREM FlowCorrect == ASSUME Orderly PROVE Spec => []Flow
  <1>1. Init => Flow BY FlowStarts
  <1>2. Flow /\ [Next]_vars => Flow' BY FlowStep
  <1> QED BY <1>1, <1>2, PTL DEF Spec

(* The receiving half keeps what it promises whenever datagrams arrive in  *)
(* the way the sending half and the network let them.                      *)
THEOREM WindowKept == ASSUME Orderly PROVE Spec => []WindowInvariant
  <1>1. Flow => WindowInvariant BY DEF Flow, FlowAt, Receiving
  <1> QED BY <1>1, FlowCorrect, PTL

(* Packets arrive in the order in which the application handed them over,  *)
(* each once: sendDatagram, datagramReceived and all between them are one  *)
(* reliable stream.                                                        *)
THEOREM ChannelIsReliable == ASSUME Orderly PROVE Spec => RefinesReliableStream
  <1>1. Init => Abstract!Init BY DEF Init, SenderInit, ReceiverInit, Abstract!Init
  <1>2. Flow /\ [Next]_vars => [Abstract!Next]_(Abstract!streamVars)
    <2> SUFFICES ASSUME Flow, [Next]_vars
                 PROVE  [Abstract!Next]_(Abstract!streamVars)
      OBVIOUS
    <2>1. StreamStep BY FlowStep
    <2>2. CASE UNCHANGED <<created, delivered>>
      BY <2>2 DEF Abstract!streamVars
    <2>3. CASE created' \in created + 1 .. Stream /\ UNCHANGED delivered
      BY <2>3 DEF Abstract!Next, Abstract!Accept
    <2>4. CASE /\ \E k \in 1 .. created - Len(delivered) :
                    delivered' = delivered \o [i \in 1 .. k |-> Len(delivered) + i]
               /\ UNCHANGED created
      BY <2>4 DEF Abstract!Next, Abstract!Deliver
    <2> QED BY <2>1, <2>2, <2>3, <2>4 DEF StreamStep
  <1> QED BY <1>1, <1>2, FlowCorrect, PTL DEF Spec, RefinesReliableStream, Abstract!Spec

(* What the peer has not delivered is cached or waits for its ACK: no ACK, *)
(* however late, makes removeWaitingForACKPackets forget a packet that is  *)
(* still to come.                                                          *)
THEOREM NoPacketForgotten == ASSUME Orderly PROVE Spec => []NothingForgotten
  <1>1. Flow => NothingForgotten
    <2> SUFFICES ASSUME Flow, NEW n \in Len(delivered) + 1 .. created
                 PROVE  n \in Range(toBeSent) \/ Awaited(n)
      BY DEF NothingForgotten
    <2>1. PICK a \in Int, hi \in Int, pos \in Seq(Int) : FlowAt(a, hi, pos) BY DEF Flow
    <2>2. /\ Sending(a, hi) /\ a <= Len(delivered) + 1 /\ Len(delivered) \in Nat
          /\ a <= hi + 1 /\ created \in Int
      BY <2>1, SendingNumbers
      DEF FlowAt, Receiving, WindowInvariant, ReceiverTypes, WindowTypes, Sending
    <2>3. n \in Int /\ a <= n /\ n <= created BY <2>2
    <2>4. CASE n <= hi
      <3> DEFINE i == n - a + 1
      <3>1. i \in 1 .. hi - a + 1 /\ a + i - 1 = n /\ n \in a .. hi BY <2>3, <2>4
      <3> HIDE DEF i
      <3>2. /\ i \in DOMAIN waitingForACK /\ waitingForACK[i] = SerialOf(n)
        BY <2>2, <3>1, SerialsFacts DEF Sending
      <3>3. SerialOf(n) \in DOMAIN sentPackets /\ sentPackets[SerialOf(n)] = n
        BY <2>2, <3>1 DEF Sending, Holds, SerialSet
      <3> QED BY <3>2, <3>3 DEF Awaited
    <2>5. CASE ~ (n <= hi)
      <3>1. n \in hi + 1 .. created BY <2>3, <2>5
      <3>2. SerialOf(n) \in DOMAIN toBeSent /\ toBeSent[SerialOf(n)] = n
        BY <2>2, <3>1 DEF Sending, Holds, SerialSet
      <3> QED BY <3>2 DEF Range
    <2> QED BY <2>4, <2>5
  <1> QED BY <1>1, FlowCorrect, PTL

(* While packets are cached and none waits for an ACK the window reaches   *)
(* some of them, so that sendToBeSentPackets has something to send.        *)
THEOREM NoPacketStranded == ASSUME Orderly PROVE Spec => []NothingStranded
  <1>1. Flow => NothingStranded
    <2> SUFFICES ASSUME Flow, waitingForACK = <<>>, DOMAIN toBeSent # {}
                 PROVE  Flushed # <<>>
      BY DEF NothingStranded
    <2>1. PICK a \in Int, hi \in Int, pos \in Seq(Int) : FlowAt(a, hi, pos) BY DEF Flow
    <2>2. Sending(a, hi) BY <2>1 DEF FlowAt
    <2>3. a <= hi + 1 /\ hi <= created /\ created \in Int BY <2>2, SendingNumbers DEF Sending
    <2>4. hi = a - 1
      <3>1. Len(waitingForACK) = hi - a + 1 BY <2>2, <2>3, SerialsFacts DEF Sending
      <3>2. Len(waitingForACK) = 0 OBVIOUS
      <3> QED BY <2>3, <3>1, <3>2
    <2>5. hi < created
      <3>1. PICK n \in hi + 1 .. created : TRUE BY <2>2 DEF Sending, Holds, SerialSet
      <3> QED BY <2>3, <3>1
    <2> DEFINE top == Reached(a, hi, created)
    <2>6. top \in hi .. created /\ (a <= a + sendWindow <=> a <= top)
      <3>1. hi < a /\ a <= created BY <2>3, <2>4, <2>5
      <3> QED BY <2>2, <2>3, <3>1, ReachedBounds
    <2>7. hi + 1 <= top /\ top \in Int BY <2>2, <2>3, <2>4, <2>6, SendingNumbers
    <2> HIDE DEF top
    <2>8. Flushed = Created(hi + 1, top) BY <2>2, FlushedExact DEF top
    <2>9. Len(Created(hi + 1, top)) = top - hi /\ top - hi > 0
      <3> DEFINE x == hi + 1
      <3>1. x \in Int /\ x <= top + 1 /\ top - x + 1 = top - hi BY <2>7
      <3> HIDE DEF x
      <3>2. Len(Created(x, top)) = top - x + 1 BY <2>7, <3>1, CreatedFacts
      <3> QED BY <2>7, <3>1, <3>2 DEF x
    <2>10. Len(<<>>) = 0 OBVIOUS
    <2> QED BY <2>8, <2>9, <2>10
  <1> QED BY <1>1, FlowCorrect, PTL

(* No datagram stays in flight so long that its serial number means        *)
(* another packet: the window test of datagramReceived is never deceived.  *)
THEOREM DatagramsStayTimely == ASSUME Orderly PROVE Spec => []DatagramsTimely
  <1>1. Flow => DatagramsTimely
    <2> SUFFICES ASSUME Flow, NEW i \in DOMAIN toPeer PROVE Timely(toPeer[i].data)
      BY DEF DatagramsTimely
    <2>1. PICK a \in Int, hi \in Int, pos \in Seq(Int) : FlowAt(a, hi, pos) BY DEF Flow
    <2>2. toPeer \in Seq(StreamPacket) BY <2>1 DEF FlowAt, InFlight
    <2>3. i \in 1 .. Len(toPeer) BY <2>2, LenProperties
    <2> QED BY <2>1, <2>3, FlowTimely
  <1> QED BY <1>1, FlowCorrect, PTL

-----------------------------------------------------------------------------
(* Within the first turn of the serial numbers, on any network             *)

(* The stream and a window behind it fit into one turn.                    *)
OneTurn == Stream + MaxWindow < MaxSN

(* The packets that may be under way: created, within the peer's window.   *)
Current ==
  {Packet(n, n) : n \in {m \in 1 .. created : m <= Len(delivered) + 1 + MaxWindow}}
Uncounted == {Packet(sn, Unreliable) : sn \in SerialNumber}
Numbered == {Packet(n, n) : n \in 1 .. created}

SendingEarly ==
  /\ created \in 0 .. Stream
  /\ sendWindow \in MinWindow .. MaxWindow
  /\ firstWaiting \in 1 .. Len(delivered) + 1
  /\ \A sn \in DOMAIN toBeSent : Packet(sn, toBeSent[sn]) \in Uncounted \cup Numbered
  /\ \A sn \in DOMAIN sentPackets : Packet(sn, sentPackets[sn]) \in Current
  /\ toPeer \in Seq(Current)

(* What was received or skipped has been created; no loss is in the cache. *)
ReceivingEarly ==
  /\ WindowInvariant
  /\ Len(delivered) <= created
  /\ LRSN <= created
  /\ \A sn \in DOMAIN cachedReceived : cachedReceived[sn] <= created /\ sn <= LRSN
  /\ \A sn \in lostReceiver : sn <= LRSN
  /\ LossListExact

ReportingEarly ==
  \E S : /\ toSender \in Seq(S)
         /\ \A m \in S : m.type # "NACK" => m.first \in 1 .. Len(delivered) + 1

FirstTurn == SendingEarly /\ ReceivingEarly /\ ReportingEarly

LEMMA SerialIsPosition ==
  ASSUME NEW n \in 1 .. MaxSN
  PROVE  SerialOf(n) = n /\ n \in SerialNumber
  <1> DEFINE r == n - 1
  <1>1. r \in 0 .. MaxSN - 1 /\ r \in Int /\ r = MaxSN * 0 + r /\ n = r + 1 /\ n \in Int
        /\ MaxSN \in Nat \ {0}
    BY SerialNumberAssumption
  <1> HIDE DEF r
  <1>2. r % MaxSN = r BY <1>1, RemainderUnique
  <1>3. (n - 1) % MaxSN = n - 1 BY <1>2 DEF r
  <1> QED BY <1>1, <1>3, SerialOfType DEF SerialNumber

LEMMA EarlyNumbers ==
  ASSUME OneTurn, FirstTurn
  PROVE  /\ created \in Nat /\ created <= Stream /\ Stream \in Nat
         /\ MaxWindow \in Nat /\ MaxSN \in Nat \ {0} /\ Stream + MaxWindow < MaxSN
         /\ Len(delivered) \in Nat /\ Len(delivered) <= created
         /\ sendWindow \in Nat /\ sendWindow <= MaxWindow
         /\ firstWaiting \in Nat /\ 1 <= firstWaiting /\ firstWaiting <= Len(delivered) + 1
         /\ firstReceived = Len(delivered) + 1
         /\ WindowInvariant /\ delivered \in Seq(1 .. Stream)
  <1>1. /\ WindowInvariant /\ Len(delivered) <= created /\ created \in 0 .. Stream
        /\ sendWindow \in MinWindow .. MaxWindow /\ firstWaiting \in 1 .. Len(delivered) + 1
    BY DEF FirstTurn, SendingEarly, ReceivingEarly
  <1>2. delivered \in Seq(1 .. Stream) /\ firstReceived = SerialOf(Len(delivered) + 1)
    BY <1>1 DEF WindowInvariant, ReceiverTypes, WindowTypes, WindowFollowsStream
  <1>3. Len(delivered) \in Nat BY <1>2, LenProperties
  <1> DEFINE next == Len(delivered) + 1
  <1>4. next \in 1 .. MaxSN
    BY <1>1, <1>3, StreamAssumption, SerialNumberAssumption DEF OneTurn
  <1> HIDE DEF next
  <1>5. SerialOf(next) = next BY <1>4, SerialIsPosition
  <1>6. firstReceived = Len(delivered) + 1 BY <1>2, <1>5 DEF next
  <1> QED BY <1>1, <1>2, <1>3, <1>6, StreamAssumption, SenderAssumption, SerialNumberAssumption
          DEF OneTurn

LEMMA CurrentFields ==
  ASSUME OneTurn, FirstTurn, NEW p \in Current
  PROVE  /\ p.data \in 1 .. created /\ p.sn = p.data /\ p.sn = SerialOf(p.data)
         /\ p = Packet(p.data, p.data)
         /\ p.data \in 1 .. Stream /\ Timely(p.data)
  <1>1. PICK n \in 1 .. created : n <= Len(delivered) + 1 + MaxWindow /\ p = Packet(n, n)
    BY DEF Current
  <1>2. p.data = n /\ p.sn = n BY <1>1, PacketFields
  <1>3. n \in 1 .. MaxSN /\ n \in 1 .. Stream BY EarlyNumbers
  <1>4. SerialOf(n) = n BY <1>3, SerialIsPosition
  <1>5. Timely(n) BY <1>1, EarlyNumbers DEF Timely
  <1> QED BY <1>1, <1>2, <1>3, <1>4, <1>5

(* As packets are created and delivered no packet ceases to be current.    *)
LEMMA CurrentGrows ==
  ASSUME OneTurn, FirstTurn, created' \in created .. Stream,
         Len(delivered') \in Nat, Len(delivered) <= Len(delivered')
  PROVE  Current \subseteq Current' /\ Numbered \subseteq Numbered'
  <1>1. ASSUME NEW p \in Current PROVE p \in Current'
    <2>1. PICK n \in 1 .. created : n <= Len(delivered) + 1 + MaxWindow /\ p = Packet(n, n)
      BY DEF Current
    <2>2. n \in 1 .. created' /\ n <= Len(delivered') + 1 + MaxWindow
      BY <2>1, EarlyNumbers
    <2> QED BY <2>1, <2>2 DEF Current
  <1>2. ASSUME NEW p \in Numbered PROVE p \in Numbered'
    <2>1. PICK n \in 1 .. created : p = Packet(n, n) BY DEF Numbered
    <2>2. n \in 1 .. created' BY EarlyNumbers
    <2> QED BY <2>1, <2>2 DEF Numbered
  <1> QED BY <1>1, <1>2

(* Without a turn the window test is a comparison.                         *)
LEMMA WindowWithoutTurn ==
  ASSUME OneTurn, FirstTurn, NEW sn \in Int, InSendWindow(sn)
  PROVE  sn <= Len(delivered) + 1 + MaxWindow
  <1>1. firstWaiting + sendWindow <= MaxSN BY EarlyNumbers
  <1>2. ~ Wraps(firstWaiting, sendWindow) BY <1>1, EarlyNumbers DEF Wraps
  <1>3. sn <= firstWaiting + sendWindow BY <1>2 DEF InSendWindow, InWindow
  <1> QED BY <1>3, EarlyNumbers

LEMMA ByNumberIn ==
  ASSUME NEW R, NEW s \in Seq(R), \A p \in R : p = Packet(p.sn, p.data)
  PROVE  \A sn \in DOMAIN ByNumber(s) : Packet(sn, ByNumber(s)[sn]) \in R
  <1> SUFFICES ASSUME NEW sn \in DOMAIN ByNumber(s) PROVE Packet(sn, ByNumber(s)[sn]) \in R
    OBVIOUS
  <1>1. ToSet(s) \subseteq R
    <2>1. \A i \in DOMAIN s : s[i] \in R BY ElementOfSeq, LenProperties
    <2> QED BY <2>1 DEF ToSet
  <1>2. \E p \in ToSet(s) : p.sn = sn BY DEF ByNumber, Sns, ToSet
  <1> DEFINE p == CHOOSE q \in ToSet(s) : q.sn = sn
  <1>3. p \in ToSet(s) /\ p.sn = sn BY <1>2
  <1>4. ByNumber(s)[sn] = p.data BY DEF ByNumber
  <1> HIDE DEF p
  <1> QED BY <1>1, <1>3, <1>4

(* sendPacket never makes a packet out of one it did not get.              *)
LEMMA TransmitEarly ==
  ASSUME NEW C, \A p \in C : p = Packet(p.sn, p.data),
         NEW packets \in Seq(C \cup Uncounted), Transmit(packets)
  PROVE  /\ \E t \in Seq(C) : toPeer' = Written(toPeer, t)
         /\ \A sn \in DOMAIN sentPackets' :
              \/ Packet(sn, sentPackets'[sn]) \in C
              \/ sn \in DOMAIN sentPackets /\ sentPackets'[sn] = sentPackets[sn]
  <1> DEFINE written(failed) == {i \in DOMAIN packets : packets[i] \notin failed
                                                        /\ packets[i].data # Unreliable}
  <1>1. \E failed :
          /\ toPeer' = Written(toPeer, Picked(packets, written(failed)))
          /\ sentPackets' = Inserted(ByNumber(Picked(packets, written(failed))), sentPackets)
    BY Zenon DEF Transmit, Selected
  <1>2. PICK failed :
          /\ toPeer' = Written(toPeer, Picked(packets, written(failed)))
          /\ sentPackets' = Inserted(ByNumber(Picked(packets, written(failed))), sentPackets)
    BY Zenon, <1>1
  <1> DEFINE kept == written(failed)
             t == Picked(packets, kept)
  <1>3. t \in Seq(C)
    <2>1. \A i \in kept : packets[i] \in C
      <3> TAKE i \in kept
      <3>1. packets[i] \in C \cup Uncounted BY ElementOfSeq, LenProperties
      <3>2. packets[i] \notin Uncounted BY PacketFields DEF Uncounted
      <3> QED BY <3>1, <3>2
    <2>2. kept \in SUBSET DOMAIN packets OBVIOUS
    <2> HIDE DEF kept
    <2> QED BY <2>1, <2>2, PickedIn
  <1>4. toPeer' = Written(toPeer, t) /\ sentPackets' = Inserted(ByNumber(t), sentPackets)
    BY <1>2
  <1> HIDE DEF t
  <1>5. \A sn \in DOMAIN ByNumber(t) : Packet(sn, ByNumber(t)[sn]) \in C
    BY <1>3, ByNumberIn
  <1> QED BY <1>3, <1>4, <1>5 DEF Inserted

LEMMA FlushedEarly ==
  ASSUME OneTurn, FirstTurn
  PROVE  Flushed \in Seq(Current \cup Uncounted)
  <1> DEFINE order == [i \in 1 .. sendWindow + 1 |-> Advance(firstWaiting, i - 1)]
             kept == {i \in DOMAIN order : order[i] \in DOMAIN toBeSent}
             reached == Picked(order, kept)
             R == {sn \in DOMAIN toBeSent : sn <= Len(delivered) + 1 + MaxWindow}
  <1>1. \A i \in 1 .. sendWindow + 1 :
          order[i] = firstWaiting + i - 1 /\ order[i] \in Int
    <2> TAKE i \in 1 .. sendWindow + 1
    <2> DEFINE n == firstWaiting + i - 1
    <2>1. n \in 1 .. MaxSN /\ firstWaiting \in 1 .. MaxSN /\ i - 1 \in Int
          /\ firstWaiting + (i - 1) = n /\ firstWaiting \in Int
      BY EarlyNumbers
    <2>2. SerialOf(firstWaiting) = firstWaiting BY <2>1, SerialIsPosition
    <2>3. Advance(firstWaiting, i - 1) = SerialOf(n) BY <2>1, <2>2, AdvanceSerial
    <2> HIDE DEF n
    <2>4. SerialOf(n) = n BY <2>1, SerialIsPosition
    <2> QED BY <2>1, <2>3, <2>4 DEF n
  <1>2. DOMAIN order = 1 .. sendWindow + 1 /\ sendWindow + 1 \in Nat BY EarlyNumbers
  <1>3. order \in Seq(Int)
    <2> DEFINE m == sendWindow + 1
    <2>1. m \in Nat /\ order = [i \in 1 .. m |-> order[i]] /\ \A i \in 1 .. m : order[i] \in Int
      BY <1>1, <1>2
    <2> HIDE DEF m, order
    <2> QED BY <2>1
  <1>4. \A i \in kept : order[i] \in R BY <1>1, <1>2, EarlyNumbers
  <1>5. reached \in Seq(R)
    <2>1. kept \in SUBSET DOMAIN order OBVIOUS
    <2> HIDE DEF order, kept, R
    <2> QED BY <1>3, <1>4, <2>1, PickedIn
  <1>6. Flushed = [i \in DOMAIN reached |-> Packet(reached[i], toBeSent[reached[i]])]
    BY DEF Flushed, Selected
  <1>7. \A sn \in R : Packet(sn, toBeSent[sn]) \in Current \cup Uncounted
    <2> TAKE sn \in R
    <2>1. Packet(sn, toBeSent[sn]) \in Uncounted \cup Numbered
      BY DEF FirstTurn, SendingEarly
    <2>2. ASSUME Packet(sn, toBeSent[sn]) \in Numbered
          PROVE  Packet(sn, toBeSent[sn]) \in Current
      <3>1. PICK n \in 1 .. created : Packet(sn, toBeSent[sn]) = Packet(n, n)
        BY <2>2 DEF Numbered
      <3>2. sn = n BY <3>1, PacketFields
      <3> QED BY <3>1, <3>2 DEF Current
    <2> QED BY <2>1, <2>2
  <1> HIDE DEF reached, R
  <1>8. Len(reached) \in Nat /\ DOMAIN reached = 1 .. Len(reached)
        /\ \A i \in 1 .. Len(reached) : reached[i] \in R
    BY <1>5, LenProperties, ElementOfSeq
  <1> QED BY <1>6, <1>7, <1>8

(* tryingToSendPacket for new packets.                                     *)
LEMMA SendNewEarly ==
  ASSUME OneTurn, FirstTurn, created' \in created .. Stream, UNCHANGED delivered,
         NEW flushed \in Seq(Current \cup Uncounted),
         NEW new \in Seq(Numbered' \cup Uncounted), SendNew(flushed, new)
  PROVE  /\ \A sn \in DOMAIN toBeSent' : Packet(sn, toBeSent'[sn]) \in Uncounted \cup Numbered'
         /\ \A sn \in DOMAIN sentPackets' : Packet(sn, sentPackets'[sn]) \in Current'
         /\ toPeer' \in Seq(Current')
  <1>1. Current \subseteq Current' /\ Numbered \subseteq Numbered'
    BY EarlyNumbers, CurrentGrows
  <1>2. /\ \A p \in Current' : p = Packet(p.sn, p.data)
        /\ \A p \in Numbered' \cup Uncounted : p = Packet(p.sn, p.data)
    BY PacketFields DEF Current, Numbered, Uncounted
  <1>3. ASSUME NEW kept \in SUBSET DOMAIN new
        PROVE  Picked(new, kept) \in Seq(Numbered' \cup Uncounted)
    <2>1. \A i \in kept : new[i] \in Numbered' \cup Uncounted BY ElementOfSeq, LenProperties
    <2> QED BY <2>1, PickedIn
  <1>4. Sendable(new) \in Seq(Current' \cup Uncounted)
    <2> DEFINE kept == {i \in DOMAIN new : InSendWindow(new[i].sn)}
    <2>1. ASSUME NEW i \in kept PROVE new[i] \in Current' \cup Uncounted
      <3>1. new[i] \in Numbered' \cup Uncounted BY ElementOfSeq, LenProperties
      <3>2. ASSUME new[i] \in Numbered' PROVE new[i] \in Current'
        <4>1. PICK n \in 1 .. created' : new[i] = Packet(n, n) BY <3>2 DEF Numbered
        <4>2. new[i].sn = n /\ n \in Int BY <4>1, PacketFields
        <4>3. n <= Len(delivered) + 1 + MaxWindow BY <4>2, WindowWithoutTurn
        <4> QED BY <4>1, <4>3 DEF Current
      <3> QED BY <3>1, <3>2
    <2>2. Sendable(new) = Picked(new, kept) /\ kept \in SUBSET DOMAIN new
      BY DEF Sendable, Selected
    <2> HIDE DEF kept
    <2> DEFINE R == Current' \cup Uncounted
    <2>3. \A i \in kept : new[i] \in R BY <2>1
    <2> HIDE DEF R
    <2>4. Picked(new, kept) \in Seq(R) BY <2>2, <2>3, PickedIn
    <2> QED BY <2>2, <2>4 DEF R
  <1>5. TooEarly(new) \in Seq(Numbered' \cup Uncounted)
    <2> DEFINE kept == {i \in DOMAIN new : ~ InSendWindow(new[i].sn)}
    <2>1. TooEarly(new) = Picked(new, kept) /\ kept \in SUBSET DOMAIN new
      BY DEF TooEarly, Selected
    <2> HIDE DEF kept
    <2> QED BY <1>3, <2>1
  <1>6. flushed \o Sendable(new) \in Seq(Current' \cup Uncounted)
    <2> DEFINE R == Current' \cup Uncounted
    <2>1. Current \cup Uncounted \subseteq R BY <1>1
    <2>2. Sendable(new) \in Seq(R) BY <1>4
    <2> HIDE DEF R
    <2>3. flushed \in Seq(R) BY <2>1, SeqMonotonic
    <2>4. flushed \o Sendable(new) \in Seq(R) BY <2>2, <2>3, ConcatProperties
    <2> QED BY <2>4 DEF R
  <1>7. /\ \E t \in Seq(Current') : toPeer' = Written(toPeer, t)
        /\ \A sn \in DOMAIN sentPackets' :
             \/ Packet(sn, sentPackets'[sn]) \in Current'
             \/ sn \in DOMAIN sentPackets /\ sentPackets'[sn] = sentPackets[sn]
    BY <1>2, <1>6, TransmitEarly DEF SendNew
  <1>8. /\ \A sn \in DOMAIN sentPackets : Packet(sn, sentPackets[sn]) \in Current
        /\ \A sn \in DOMAIN toBeSent : Packet(sn, toBeSent[sn]) \in Uncounted \cup Numbered
        /\ toPeer \in Seq(Current)
    BY DEF FirstTurn, SendingEarly
  <1>9. toPeer' \in Seq(Current')
    <2>1. toPeer \in Seq(Current') BY <1>1, <1>8, SeqMonotonic
    <2> QED BY <1>7, <2>1, WrittenEntries
  <1>10. \A sn \in DOMAIN sentPackets' : Packet(sn, sentPackets'[sn]) \in Current'
    BY <1>1, <1>7, <1>8
  <1>11. \A sn \in DOMAIN toBeSent' : Packet(sn, toBeSent'[sn]) \in Uncounted \cup Numbered'
    <2>1. \A sn \in DOMAIN ByNumber(TooEarly(new)) :
            Packet(sn, ByNumber(TooEarly(new))[sn]) \in Numbered' \cup Uncounted
      BY <1>2, <1>5, ByNumberIn
    <2>2. toBeSent' = Inserted(ByNumber(TooEarly(new)), Drop(toBeSent, ToSet(Sns(flushed))))
      BY DEF SendNew
    <2> QED BY <1>1, <1>8, <2>1, <2>2 DEF Inserted, Drop, Restrict
  <1> QED BY <1>9, <1>10, <1>11

(* The sending half moved; what it sent or cached is its own.              *)
LEMMA SentEarly ==
  ASSUME OneTurn, FirstTurn, created' \in created .. Stream,
         UNCHANGED <<receiverVars, toSender, firstWaiting>>,
         sendWindow' \in MinWindow .. MaxWindow,
         \A sn \in DOMAIN toBeSent' : Packet(sn, toBeSent'[sn]) \in Uncounted \cup Numbered',
         \A sn \in DOMAIN sentPackets' : Packet(sn, sentPackets'[sn]) \in Current',
         toPeer' \in Seq(Current')
  PROVE  FirstTurn' /\ StreamStep
  <1>1. SendingEarly /\ ReceivingEarly /\ ReportingEarly BY DEF FirstTurn
  <1>2. WindowInvariant' /\ UNCHANGED windowVars
    BY <1>1, FeedbackPreserves DEF ReceivingEarly
  <1>3. UNCHANGED <<delivered, cachedReceived, LRSN, lostReceiver>> BY <1>2 DEF windowVars
  <1>4. created \in Int /\ created' \in 0 .. Stream /\ created <= created'
        /\ Stream \in Nat /\ LRSN \in Int /\ Len(delivered) \in Nat
        /\ \A sn \in DOMAIN cachedReceived : cachedReceived[sn] \in Int
    <2>1. LRSN \in 0 .. MaxSN /\ \A sn \in DOMAIN cachedReceived : cachedReceived[sn] \in 1 .. Stream
      BY <1>1 DEF ReceivingEarly, WindowInvariant, ReceiverTypes, WindowTypes
    <2> QED BY <2>1, EarlyNumbers
  <1>5. SendingEarly' BY <1>1, <1>3, <1>4 DEF SendingEarly
  <1>6. ReceivingEarly' BY <1>1, <1>2, <1>3, <1>4 DEF ReceivingEarly, LossListExact
  <1>7. ReportingEarly' BY <1>1, <1>3 DEF ReportingEarly
  <1>8. StreamStep
    <2>1. created' = created \/ created' \in created + 1 .. Stream BY <1>4
    <2> QED BY <1>3, <2>1 DEF StreamStep
  <1> QED BY <1>5, <1>6, <1>7, <1>8 DEF FirstTurn

LEMMA CreatedEarly ==
  ASSUME OneTurn, FirstTurn, NEW k \in Nat, created' = created + k, created + k <= Stream
  PROVE  Created(created + 1, created + k) \in Seq(Numbered' \cup Uncounted)
  <1> DEFINE x == created + 1
             y == created + k
             s == Created(x, y)
  <1>1. x \in Int /\ y \in Int /\ x <= y + 1 /\ 1 <= x /\ y - x + 1 \in Nat
        /\ y <= MaxSN /\ y = created'
    <2>1. /\ created \in Nat /\ created' = created + k /\ created + k <= Stream
          /\ Stream \in Nat /\ MaxWindow \in Nat /\ MaxSN \in Nat /\ Stream + MaxWindow < MaxSN
      BY EarlyNumbers
    <2> QED BY <2>1
  <1>2. /\ Len(s) = y - x + 1 /\ DOMAIN s = 1 .. y - x + 1
        /\ \A i \in 1 .. y - x + 1 : s[i] = Packet(SerialOf(x + i - 1), x + i - 1)
        /\ s \in Seq(StreamPacket)
    <2> HIDE DEF x, y
    <2> QED BY <1>1, CreatedFacts
  <1> HIDE DEF x, y, s
  <1>3. \A i \in 1 .. y - x + 1 : s[i] \in Numbered' \cup Uncounted
    <2> TAKE i \in 1 .. y - x + 1
    <2> DEFINE n == x + i - 1
    <2>1. n \in 1 .. created' /\ n \in 1 .. MaxSN
      <3>1. MaxSN \in Int BY SerialNumberAssumption
      <3>2. n \in x .. y BY <1>1
      <3> HIDE DEF n
      <3> QED BY <1>1, <3>1, <3>2
    <2>2. s[i] = Packet(SerialOf(n), n) BY <1>2
    <2> HIDE DEF n
    <2>3. SerialOf(n) = n BY <2>1, SerialIsPosition
    <2> QED BY <2>1, <2>2, <2>3 DEF Numbered
  <1> DEFINE R == Numbered' \cup Uncounted
  <1>4. \A i \in 1 .. Len(s) : s[i] \in R BY <1>2, <1>3
  <1> HIDE DEF R
  <1>5. s \in Seq(R) BY <1>2, <1>4, ElementOfSeq, LenProperties
  <1> QED BY <1>5 DEF R, s, x, y

LEMMA NewEarly ==
  ASSUME OneTurn, FirstTurn, created' \in created .. Stream,
         UNCHANGED <<receiverVars, toSender, firstWaiting, sendWindow>>,
         NEW flushed \in {<<>>, Flushed},
         NEW new \in Seq(Numbered' \cup Uncounted), SendNew(flushed, new)
  PROVE  FirstTurn' /\ StreamStep
  <1>1. UNCHANGED delivered BY DEF receiverVars, windowVars
  <1>2. flushed \in Seq(Current \cup Uncounted)
    <2>1. <<>> \in Seq(Current \cup Uncounted) OBVIOUS
    <2> QED BY <2>1, FlushedEarly
  <1>3. sendWindow' \in MinWindow .. MaxWindow BY DEF FirstTurn, SendingEarly
  <1>4. /\ \A sn \in DOMAIN toBeSent' : Packet(sn, toBeSent'[sn]) \in Uncounted \cup Numbered'
        /\ \A sn \in DOMAIN sentPackets' : Packet(sn, sentPackets'[sn]) \in Current'
        /\ toPeer' \in Seq(Current')
    BY <1>1, <1>2, SendNewEarly
  <1> QED BY <1>3, <1>4, SentEarly

LEMMA RetransmitEarly ==
  ASSUME OneTurn, FirstTurn, NEW lost, Retransmit(lost)
  PROVE  sendWindow' \in MinWindow .. MaxWindow /\ toPeer' \in Seq(Current)
  <1>1. /\ sendWindow \in MinWindow .. MaxWindow /\ toPeer \in Seq(Current)
        /\ \A sn \in DOMAIN sentPackets : Packet(sn, sentPackets[sn]) \in Current
    BY DEF FirstTurn, SendingEarly
  <1>2. sendWindow' \in {sendWindow, ShrunkWindow}
        /\ \/ UNCHANGED toPeer
           \/ \E sn \in DOMAIN sentPackets :
                toPeer' = Written(toPeer, <<Packet(sn, sentPackets[sn])>>)
    BY DEF Retransmit
  <1>3. ASSUME NEW p \in Current, toPeer' = Written(toPeer, <<p>>)
        PROVE  toPeer' \in Seq(Current)
    <2>1. <<p>> \in Seq(Current) OBVIOUS
    <2> QED BY <1>1, <1>3, <2>1, WrittenEntries
  <1> QED BY <1>1, <1>2, <1>3, WindowSizes

LEMMA RetransmissionEarly ==
  ASSUME OneTurn, FirstTurn, UNCHANGED <<receiverVars, toSender>>,
         UNCHANGED <<created, firstWaiting, toBeSent, sentPackets>>,
         \/ UNCHANGED <<sendWindow, toPeer>>
         \/ \E lost : Retransmit(lost)
  PROVE  FirstTurn' /\ StreamStep
  <1>1. UNCHANGED delivered BY DEF receiverVars, windowVars
  <1>2. Current' = Current /\ Numbered' = Numbered BY <1>1 DEF Current, Numbered
  <1>3. SendingEarly BY DEF FirstTurn
  <1>4. sendWindow' \in MinWindow .. MaxWindow /\ toPeer' \in Seq(Current')
    BY <1>2, <1>3, RetransmitEarly DEF SendingEarly
  <1>5. created' \in created .. Stream BY EarlyNumbers
  <1> QED BY <1>2, <1>3, <1>4, <1>5, SentEarly DEF SendingEarly

LEMMA SenderEarly ==
  ASSUME OneTurn, FirstTurn, Send \/ SendControl \/ Retransmission \/ Flush
  PROVE  FirstTurn' /\ StreamStep
  <1>1. UNCHANGED <<receiverVars, toSender>>
    BY DEF Send, SendControl, Retransmission, Flush, SenderStep
  <1>2. ASSUME NEW k \in Nat, created' = created + k, created + k <= Stream,
               UNCHANGED <<firstWaiting, sendWindow>>,
               NEW flushed \in {<<>>, Flushed},
               SendNew(flushed, Created(created + 1, created + k))
        PROVE  FirstTurn' /\ StreamStep
    <2>1. created' \in created .. Stream BY <1>2, EarlyNumbers
    <2>2. PICK new \in Seq(Numbered' \cup Uncounted) : new = Created(created + 1, created + k)
      BY <1>2, CreatedEarly
    <2>3. SendNew(flushed, new) BY <1>2, <2>2
    <2> QED BY <1>1, <1>2, <2>1, <2>3, NewEarly
  <1>3. ASSUME UNCHANGED <<created, firstWaiting, sendWindow>>,
               NEW flushed \in {<<>>, Flushed},
               NEW new \in Seq(Uncounted), SendNew(flushed, new)
        PROVE  FirstTurn' /\ StreamStep
    <2>1. created' \in created .. Stream BY <1>3, EarlyNumbers
    <2>2. new \in Seq(Numbered' \cup Uncounted) BY SeqMonotonic
    <2> QED BY <1>1, <1>3, <2>1, <2>2, NewEarly
  <1>4. CASE Send
    <2>1. CASE created + 1 \in BeginOrEnd /\ SendBeginOrEnd
      <3>1. created + 1 <= Stream BY <2>1, TransferAssumption, EarlyNumbers
      <3> QED BY <1>2, <2>1, <3>1 DEF SendBeginOrEnd
    <2>2. CASE \E k \in 1 .. MaxBurst : created + k <= Stream /\ SendDatagram(k)
      <3>1. PICK k \in 1 .. MaxBurst : created + k <= Stream /\ SendDatagram(k) BY <2>2
      <3>2. k \in Nat BY TransferAssumption
      <3> QED BY <1>2, <3>1, <3>2 DEF SendDatagram
    <2>3. CASE SendDatagramNoRoom
      <3>1. <<>> \in Seq(Uncounted) OBVIOUS
      <3> QED BY <1>3, <2>3, <3>1 DEF SendDatagramNoRoom
    <2>4. CASE SendDatagramLost
      BY <1>1, <2>4, RetransmissionEarly DEF SendDatagramLost
    <2> QED BY <1>4, <2>1, <2>2, <2>3, <2>4 DEF Send
  <1>5. CASE SendControl
    <2>1. PICK sn \in ControlNumbers : SendUnreliable(sn) BY <1>5 DEF SendControl
    <2>2. Packet(sn, Unreliable) \in Uncounted BY TransferAssumption DEF Uncounted
    <2>3. <<Packet(sn, Unreliable)>> \in Seq(Uncounted) BY <2>2
    <2> QED BY <1>3, <2>1, <2>3 DEF SendUnreliable
  <1>6. CASE Retransmission
    <2>1. RetransmissionTimer BY <1>6 DEF Retransmission
    <2>2. UNCHANGED <<created, firstWaiting, toBeSent, sentPackets>>
      BY <2>1 DEF RetransmissionTimer
    <2>3. UNCHANGED <<sendWindow, toPeer>> \/ \E lost : Retransmit(lost)
      BY <2>1 DEF RetransmissionTimer
    <2> QED BY <1>1, <2>2, <2>3, RetransmissionEarly
  <1>7. CASE Flush
    <2>1. /\ Transmit(Flushed) /\ toBeSent' = Drop(toBeSent, ToSet(Sns(Flushed)))
          /\ UNCHANGED <<created, firstWaiting, sendWindow>>
      BY <1>7 DEF Flush, FlushTimer
    <2>2. UNCHANGED delivered BY <1>1 DEF receiverVars, windowVars
    <2>3. Current' = Current /\ Numbered' = Numbered BY <2>1, <2>2 DEF Current, Numbered
    <2>4. SendingEarly BY DEF FirstTurn
    <2>5. \A p \in Current : p = Packet(p.sn, p.data) BY PacketFields DEF Current
    <2>6. /\ \E t \in Seq(Current) : toPeer' = Written(toPeer, t)
          /\ \A sn \in DOMAIN sentPackets' :
               \/ Packet(sn, sentPackets'[sn]) \in Current
               \/ sn \in DOMAIN sentPackets /\ sentPackets'[sn] = sentPackets[sn]
      BY <2>1, <2>5, FlushedEarly, TransmitEarly
    <2>7. toPeer' \in Seq(Current) BY <2>4, <2>6, WrittenEntries DEF SendingEarly
    <2>8. \A sn \in DOMAIN sentPackets' : Packet(sn, sentPackets'[sn]) \in Current
      BY <2>4, <2>6 DEF SendingEarly
    <2>9. \A sn \in DOMAIN toBeSent' : Packet(sn, toBeSent'[sn]) \in Uncounted \cup Numbered
      BY <2>1, <2>4 DEF SendingEarly, Drop, Restrict
    <2>10. sendWindow' \in MinWindow .. MaxWindow /\ created' \in created .. Stream
      BY <2>1, <2>4, EarlyNumbers DEF SendingEarly
    <2> QED BY <1>1, <2>1, <2>3, <2>7, <2>8, <2>9, <2>10, SentEarly
  <1> QED BY <1>4, <1>5, <1>6, <1>7

(* Without a turn a gap that datagramReceived notices lies beyond all that *)
(* was received, so that what is in the cache is never taken for lost.     *)
LEMMA LossesEarly ==
  ASSUME OneTurn, FirstTurn, NEW n \in 1 .. created, ReceivePacket(n, n)
  PROVE  /\ LRSN' \in Int /\ LRSN' <= created
         /\ \A sn \in DOMAIN cachedReceived' : sn <= LRSN'
         /\ \A sn \in lostReceiver' : sn <= LRSN'
         /\ LossListExact'
  <1>1. /\ LRSN <= created /\ LossListExact
        /\ \A sn \in DOMAIN cachedReceived : sn <= LRSN
        /\ \A sn \in lostReceiver : sn <= LRSN
    BY DEF FirstTurn, ReceivingEarly
  <1>2. /\ LRSN \in Nat /\ n \in Int /\ created \in Nat /\ created < MaxSN /\ MaxSN \in Nat
        /\ \A sn \in DOMAIN cachedReceived \cup lostReceiver : sn \in Int
        /\ firstReceived + MaxWindow <= MaxSN
        /\ n <= created
    <2>1. /\ LRSN \in 0 .. MaxSN
          /\ DOMAIN cachedReceived \subseteq SerialNumber /\ lostReceiver \subseteq SerialNumber
      BY EarlyNumbers DEF WindowInvariant, ReceiverTypes, WindowTypes
    <2>2. \A sn \in SerialNumber : sn \in Int BY EarlyNumbers DEF SerialNumber
    <2>3. \A sn \in DOMAIN cachedReceived \cup lostReceiver : sn \in Int BY <2>1, <2>2
    <2>4. LRSN \in Nat BY <2>1, EarlyNumbers
    <2> QED BY <2>3, <2>4, EarlyNumbers
  <1>3. CASE UNCHANGED windowVars
    <2>1. /\ UNCHANGED <<LRSN, lostReceiver, cachedReceived>> BY <1>3 DEF windowVars
    <2> QED BY <1>1, <1>2, <2>1 DEF LossListExact
  <1>4. CASE ~ UNCHANGED windowVars
    <2>1. /\ LRSN' = IF IsNewest(n) THEN n ELSE BaseLRSN
          /\ lostReceiver' = (lostReceiver \cup Skipped(n)) \ {n}
          /\ DeliverRun(n, n) \/ CacheReceived(n, n)
      BY <1>4 DEF ReceivePacket
    <2>2. DOMAIN cachedReceived' \subseteq DOMAIN cachedReceived \cup {n}
      BY <2>1 DEF DeliverRun, CacheReceived, Restrict
    <2>3. ~ Wraps(firstReceived, MaxWindow)
      <3>1. firstReceived \in Int /\ MaxWindow \in Int BY EarlyNumbers
      <3> QED BY <1>2, <3>1 DEF Wraps
    <2>4. BaseLRSN = LRSN BY <1>1, <1>2 DEF BaseLRSN
    <2>5. IsNewest(n) <=> LRSN < n BY <2>3, <2>4 DEF IsNewest
    <2>6. Skipped(n) \subseteq LRSN + 1 .. n - 1 /\ (~ IsNewest(n) => Skipped(n) = {})
      BY <2>3, <2>4 DEF Skipped
    <2>7. LRSN' = IF LRSN < n THEN n ELSE LRSN BY <2>1, <2>4, <2>5
    <2>8. ASSUME NEW sn \in lostReceiver'
          PROVE  sn <= LRSN' /\ sn \notin DOMAIN cachedReceived'
      <3>1. sn # n /\ (sn \in lostReceiver \/ sn \in Skipped(n)) BY <2>1
      <3>2. CASE sn \in lostReceiver
        <4>1. sn <= LRSN /\ sn \notin DOMAIN cachedReceived BY <1>1, <3>2 DEF LossListExact
        <4> QED BY <1>2, <2>2, <2>7, <3>1, <3>2, <4>1
      <3>3. CASE sn \in Skipped(n)
        <4>1. sn \in LRSN + 1 .. n - 1 /\ LRSN < n BY <2>5, <2>6, <3>3
        <4>2. sn \notin DOMAIN cachedReceived BY <1>1, <1>2, <4>1
        <4> QED BY <1>2, <2>2, <2>7, <3>1, <4>1, <4>2
      <3> QED BY <3>1, <3>2, <3>3
    <2>9. \A sn \in DOMAIN cachedReceived' : sn <= LRSN' BY <1>1, <1>2, <2>2, <2>7
    <2> QED BY <1>1, <1>2, <2>7, <2>8, <2>9 DEF LossListExact
  <1> QED BY <1>3, <1>4

(* The feedback in flight and what is written or taken out.                *)
LEMMA ReportingEarlyKept ==
  ASSUME ReportingEarly, Len(delivered) \in Nat, Len(delivered') \in Nat,
         Len(delivered) <= Len(delivered'),
         \/ UNCHANGED toSender
         \/ \E k \in DOMAIN toSender : toSender' = RemoveAt(toSender, k)
         \/ \E T : /\ \A m \in T : m.type # "NACK" => m.first = Len(delivered) + 1
                   /\ \E t \in Seq(T) : toSender' = Written(toSender, t)
  PROVE  ReportingEarly'
  <1>1. PICK S : /\ toSender \in Seq(S)
                 /\ \A m \in S : m.type # "NACK" => m.first \in 1 .. Len(delivered) + 1
    BY DEF ReportingEarly
  <1>2. ASSUME NEW f \in 1 .. Len(delivered) + 1 PROVE f \in 1 .. Len(delivered') + 1
    OBVIOUS
  <1>3. \A m \in S : m.type # "NACK" => m.first \in 1 .. Len(delivered') + 1 BY <1>1, <1>2
  <1>4. CASE UNCHANGED toSender BY <1>1, <1>3, <1>4 DEF ReportingEarly
  <1>5. CASE \E k \in DOMAIN toSender : toSender' = RemoveAt(toSender, k)
    <2>1. PICK k \in DOMAIN toSender : toSender' = RemoveAt(toSender, k) BY <1>5
    <2>2. k \in 1 .. Len(toSender) BY <1>1, LenProperties
    <2>3. toSender' \in Seq(S) BY <1>1, <2>1, <2>2, RemoveAtEntries
    <2> QED BY <1>3, <2>3 DEF ReportingEarly
  <1>6. ASSUME NEW T, NEW t \in Seq(T), toSender' = Written(toSender, t),
               \A m \in T : m.type # "NACK" => m.first = Len(delivered) + 1
        PROVE  ReportingEarly'
    <2> DEFINE U == S \cup T
    <2>1. toSender \in Seq(U) /\ t \in Seq(U) BY <1>1, SeqMonotonic
    <2>2. Len(delivered) + 1 \in 1 .. Len(delivered') + 1 OBVIOUS
    <2>3. \A m \in U : m.type # "NACK" => m.first \in 1 .. Len(delivered') + 1
      BY <1>3, <1>6, <2>2
    <2> HIDE DEF U
    <2>4. toSender' \in Seq(U) BY <1>6, <2>1, WrittenEntries
    <2> QED BY <2>3, <2>4 DEF ReportingEarly
  <1> QED BY <1>4, <1>5, <1>6

LEMMA DeliverDataEarly ==
  ASSUME OneTurn, FirstTurn, NEW i \in DOMAIN toPeer, DeliverData(i)
  PROVE  FirstTurn' /\ StreamStep
  <1> DEFINE n == toPeer[i].data
  <1>1. SendingEarly /\ ReceivingEarly /\ ReportingEarly BY DEF FirstTurn
  <1>2. i \in 1 .. Len(toPeer) /\ toPeer \in Seq(Current) /\ toPeer[i] \in Current
    BY <1>1, LenProperties, ElementOfSeq DEF SendingEarly
  <1>3. /\ n \in 1 .. created /\ toPeer[i].sn = n /\ n = SerialOf(n)
        /\ n \in 1 .. Stream /\ Timely(n)
    BY <1>2, CurrentFields
  <1>4. /\ ReceivePacket(n, n) /\ ReceivePacket(SerialOf(n), n)
        /\ toPeer' = RemoveAt(toPeer, i) \/ UNCHANGED toPeer
        /\ toSender' = Written(toSender, DroppedReply(n))
        /\ UNCHANGED <<created, firstWaiting, sendWindow, toBeSent, sentPackets>>
    BY <1>3 DEF DeliverData, AfterDelivery
  <1> HIDE DEF n
  <1>5. /\ WindowInvariant'
        /\ Len(delivered) \in Nat /\ Len(delivered') \in Nat
        /\ Len(delivered) <= Len(delivered')
        /\ \A m \in Int :
             /\ Len(delivered) <= m /\ n <= m
             /\ \A sn \in DOMAIN cachedReceived : cachedReceived[sn] <= m
             => /\ Len(delivered') <= m
                /\ \A sn \in DOMAIN cachedReceived' : cachedReceived'[sn] <= m
        /\ \/ UNCHANGED delivered
           \/ \E k \in Nat \ {0} :
                /\ Len(delivered') = Len(delivered) + k
                /\ delivered' = delivered \o [j \in 1 .. k |-> Len(delivered) + j]
    BY <1>1, <1>3, <1>4, ArrivalKeeps DEF ReceivingEarly
  <1>6. created \in Int /\ created' = created /\ Stream \in Nat /\ created' \in created .. Stream
    BY <1>4, EarlyNumbers
  <1>7. Len(delivered') <= created /\ \A sn \in DOMAIN cachedReceived' : cachedReceived'[sn] <= created
    BY <1>1, <1>3, <1>5, <1>6 DEF ReceivingEarly
  <1>8. ReceivingEarly'
    <2>1. /\ LRSN' <= created
          /\ \A sn \in DOMAIN cachedReceived' : sn <= LRSN'
          /\ \A sn \in lostReceiver' : sn <= LRSN'
          /\ LossListExact'
      BY <1>3, <1>4, LossesEarly
    <2> QED BY <1>5, <1>6, <1>7, <2>1 DEF ReceivingEarly
  <1>9. Current \subseteq Current' /\ Numbered \subseteq Numbered'
    BY <1>5, <1>6, CurrentGrows
  <1>10. SendingEarly'
    <2>1. toPeer' \in Seq(Current)
      BY <1>2, <1>4, RemoveAtEntries
    <2>2. toPeer' \in Seq(Current') BY <1>9, <2>1, SeqMonotonic
    <2>3. firstWaiting \in 1 .. Len(delivered') + 1
      BY <1>1, <1>5 DEF SendingEarly
    <2> QED BY <1>1, <1>4, <1>6, <1>9, <2>2, <2>3 DEF SendingEarly
  <1>11. ReportingEarly'
    <2> DEFINE m == [type |-> "PacketDropped", first |-> firstReceived]
    <2>1. \A q \in {m} : q.type # "NACK" => q.first = Len(delivered) + 1
      BY EarlyNumbers
    <2>2. DroppedReply(n) \in Seq({m})
      <3>1. DroppedReply(n) = <<>> \/ DroppedReply(n) = <<m>> BY DEF DroppedReply
      <3> HIDE DEF m
      <3>2. <<>> \in Seq({m}) /\ <<m>> \in Seq({m}) OBVIOUS
      <3> QED BY <3>1, <3>2
    <2> HIDE DEF m
    <2>3. \E T : /\ \A q \in T : q.type # "NACK" => q.first = Len(delivered) + 1
                 /\ \E t \in Seq(T) : toSender' = Written(toSender, t)
      BY <1>4, <2>1, <2>2
    <2> QED BY <1>1, <1>5, <2>3, ReportingEarlyKept
  <1>12. StreamStep
    <2>1. \A k \in Nat \ {0} : Len(delivered') = Len(delivered) + k
                                 => k \in 1 .. created - Len(delivered)
      BY <1>5, <1>6, <1>7
    <2> QED BY <1>5, <1>6, <2>1 DEF StreamStep
  <1> QED BY <1>8, <1>10, <1>11, <1>12 DEF FirstTurn

(* A step that neither creates nor receives a packet.                      *)
LEMMA StaysEarly ==
  ASSUME OneTurn, FirstTurn, UNCHANGED <<created, toBeSent>>,
         WindowInvariant', UNCHANGED windowVars,
         sendWindow' \in MinWindow .. MaxWindow,
         firstWaiting' \in 1 .. Len(delivered) + 1,
         \A sn \in DOMAIN sentPackets' : Packet(sn, sentPackets'[sn]) \in Current,
         toPeer' \in Seq(Current),
         \/ UNCHANGED toSender
         \/ \E k \in DOMAIN toSender : toSender' = RemoveAt(toSender, k)
         \/ \E T : /\ \A m \in T : m.type # "NACK" => m.first = Len(delivered) + 1
                   /\ \E t \in Seq(T) : toSender' = Written(toSender, t)
  PROVE  FirstTurn' /\ StreamStep
  <1>1. SendingEarly /\ ReceivingEarly /\ ReportingEarly BY DEF FirstTurn
  <1>2. UNCHANGED <<LRSN, lostReceiver, cachedReceived, delivered>> BY DEF windowVars
  <1>3. Current' = Current /\ Numbered' = Numbered BY <1>2 DEF Current, Numbered
  <1>4. SendingEarly' BY <1>1, <1>2, <1>3 DEF SendingEarly
  <1>5. ReceivingEarly' BY <1>1, <1>2 DEF ReceivingEarly, LossListExact
  <1>6. ReportingEarly'
    <2>1. Len(delivered) \in Nat /\ Len(delivered') = Len(delivered) BY <1>2, EarlyNumbers
    <2> QED BY <1>1, <2>1, ReportingEarlyKept
  <1> QED BY <1>2, <1>4, <1>5, <1>6 DEF FirstTurn, StreamStep

LEMMA DeliverFeedbackEarly ==
  ASSUME OneTurn, FirstTurn, NEW i \in DOMAIN toSender, DeliverFeedback(i)
  PROVE  FirstTurn' /\ StreamStep
  <1> DEFINE msg == toSender[i]
  <1>1. /\ SendingEarly /\ ReportingEarly /\ WindowInvariant
        /\ sendWindow \in MinWindow .. MaxWindow
        /\ firstWaiting \in 1 .. Len(delivered) + 1
        /\ \A sn \in DOMAIN sentPackets : Packet(sn, sentPackets[sn]) \in Current
        /\ toPeer \in Seq(Current)
    BY DEF FirstTurn, SendingEarly, ReceivingEarly
  <1>2. /\ toSender' = RemoveAt(toSender, i) \/ UNCHANGED toSender
        /\ Feedback(msg)
        /\ UNCHANGED receiverVars
    BY DEF DeliverFeedback, AfterDelivery
  <1>3. WindowInvariant' /\ UNCHANGED windowVars BY <1>1, <1>2, FeedbackPreserves
  <1>4. msg.type # "NACK" => msg.first \in 1 .. Len(delivered) + 1
    <2>1. PICK S : /\ toSender \in Seq(S)
                   /\ \A m \in S : m.type # "NACK" => m.first \in 1 .. Len(delivered) + 1
      BY <1>1 DEF ReportingEarly
    <2>2. msg \in S BY <2>1, LenProperties, ElementOfSeq
    <2> QED BY <2>1, <2>2
  <1> HIDE DEF msg
  <1>5. ASSUME NEW first \in 1 .. Len(delivered) + 1,
               ReceiveACK(first) \/ ReceivePacketDropped(first)
        PROVE  FirstTurn' /\ StreamStep
    <2>1. UNCHANGED <<created, toBeSent, toPeer>>
      BY <1>5 DEF ReceiveACK, ReceivePacketDropped
    <2>2. sendWindow' \in MinWindow .. MaxWindow
      BY <1>1, <1>5, WindowSizes DEF ReceiveACK, ReceivePacketDropped
    <2>3. UpdateFirstWaiting(first) \/ UNCHANGED <<firstWaiting, sentPackets>>
      BY <1>5 DEF ReceiveACK, ReceivePacketDropped
    <2>4. /\ firstWaiting' \in 1 .. Len(delivered) + 1
          /\ \A sn \in DOMAIN sentPackets' : /\ sn \in DOMAIN sentPackets
                                             /\ sentPackets'[sn] = sentPackets[sn]
      BY <1>1, <2>3 DEF UpdateFirstWaiting, Drop, Restrict
    <2> QED BY <1>1, <1>2, <1>3, <2>1, <2>2, <2>4, StaysEarly
  <1>6. ASSUME NEW lost, ReceiveNACK(lost)
        PROVE  FirstTurn' /\ StreamStep
    <2>1. UNCHANGED <<created, firstWaiting, toBeSent, sentPackets>>
      BY <1>6 DEF ReceiveNACK
    <2>2. sendWindow' \in MinWindow .. MaxWindow /\ toPeer' \in Seq(Current)
      BY <1>6, RetransmitEarly DEF ReceiveNACK
    <2> QED BY <1>1, <1>2, <1>3, <2>1, <2>2, StaysEarly
  <1> QED BY <1>2, <1>4, <1>5, <1>6 DEF Feedback

LEMMA TimersEarly ==
  ASSUME OneTurn, FirstTurn, ACKTimer \/ NACKTimer
  PROVE  FirstTurn' /\ StreamStep
  <1>1. /\ SendingEarly /\ WindowInvariant
        /\ sendWindow \in MinWindow .. MaxWindow
        /\ firstWaiting \in 1 .. Len(delivered) + 1
        /\ \A sn \in DOMAIN sentPackets : Packet(sn, sentPackets[sn]) \in Current
        /\ toPeer \in Seq(Current)
    BY DEF FirstTurn, SendingEarly, ReceivingEarly
  <1>2. UNCHANGED senderVars BY DEF ACKTimer, NACKTimer, ReceiverStep
  <1>3. UNCHANGED <<created, firstWaiting, sendWindow, toBeSent, sentPackets, toPeer>>
    BY <1>2 DEF senderVars, queueVars
  <1>4. WindowInvariant' /\ UNCHANGED windowVars
    BY <1>1, FeedbackPreserves DEF ACKTimer, NACKTimer
  <1>5. ASSUME NEW m, m.type # "NACK" => m.first = firstReceived,
               toSender' = Written(toSender, <<m>>)
        PROVE  FirstTurn' /\ StreamStep
    <2>1. \A q \in {m} : q.type # "NACK" => q.first = Len(delivered) + 1
      BY <1>5, EarlyNumbers
    <2>2. <<m>> \in Seq({m}) OBVIOUS
    <2> QED BY <1>1, <1>3, <1>4, <1>5, <2>1, <2>2, StaysEarly
  <1>6. CASE ACKTimer
    <2>1. CASE UNCHANGED toSender BY <1>1, <1>3, <1>4, <2>1, StaysEarly
    <2>2. CASE toSender' = Written(toSender, <<ACKMessage>>)
      <3>1. ACKMessage.type # "NACK" => ACKMessage.first = firstReceived BY DEF ACKMessage
      <3> HIDE DEF ACKMessage
      <3> QED BY <1>5, <2>2, <3>1
    <2> QED BY <1>6, <2>1, <2>2 DEF ACKTimer
  <1>7. CASE NACKTimer
    <2>1. PICK report \in LossReports :
            toSender' = Written(toSender, <<NACKMessage(report)>>)
      BY <1>7 DEF NACKTimer
    <2>2. NACKMessage(report).type = "NACK" BY DEF NACKMessage
    <2> QED BY <1>5, <2>1, <2>2
  <1> QED BY <1>6, <1>7

LEMMA LossEarly ==
  ASSUME OneTurn, FirstTurn, Lose \/ UNCHANGED vars
  PROVE  FirstTurn' /\ StreamStep
  <1>1. /\ SendingEarly /\ WindowInvariant
        /\ sendWindow \in MinWindow .. MaxWindow
        /\ firstWaiting \in 1 .. Len(delivered) + 1
        /\ \A sn \in DOMAIN sentPackets : Packet(sn, sentPackets[sn]) \in Current
        /\ toPeer \in Seq(Current)
    BY DEF FirstTurn, SendingEarly, ReceivingEarly
  <1>2. /\ UNCHANGED <<created, firstWaiting, sendWindow, toBeSent, sentPackets>>
        /\ UNCHANGED receiverVars
    BY DEF Lose, vars, senderVars, queueVars
  <1>3. /\ \/ UNCHANGED toPeer
           \/ \E k \in DOMAIN toPeer : toPeer' = RemoveAt(toPeer, k)
        /\ \/ UNCHANGED toSender
           \/ \E k \in DOMAIN toSender : toSender' = RemoveAt(toSender, k)
    BY DEF Lose, vars, senderVars, queueVars
  <1>4. WindowInvariant' /\ UNCHANGED windowVars BY <1>1, <1>2, FeedbackPreserves
  <1>5. toPeer' \in Seq(Current)
    <2>1. DOMAIN toPeer = 1 .. Len(toPeer) BY <1>1, LenProperties
    <2> QED BY <1>1, <1>3, <2>1, RemoveAtEntries
  <1> QED BY <1>1, <1>2, <1>3, <1>4, <1>5, StaysEarly

LEMMA EarlyStep ==
  ASSUME OneTurn, FirstTurn, [Next]_vars
  PROVE  FirstTurn' /\ StreamStep
  <1>1. CASE Send \/ SendControl \/ Retransmission \/ Flush BY <1>1, SenderEarly
  <1>2. ASSUME NEW i \in DOMAIN toPeer, DeliverData(i) PROVE FirstTurn' /\ StreamStep
    BY <1>2, DeliverDataEarly
  <1>3. ASSUME NEW i \in DOMAIN toSender, DeliverFeedback(i) PROVE FirstTurn' /\ StreamStep
    BY <1>3, DeliverFeedbackEarly
  <1>4. CASE ACKTimer \/ NACKTimer BY <1>4, TimersEarly
  <1>5. CASE Lose \/ UNCHANGED vars BY <1>5, LossEarly
  <1> QED BY <1>1, <1>2, <1>3, <1>4, <1>5 DEF Next

LEMMA EarlyStarts == ASSUME Init PROVE FirstTurn
  <1>1. SenderInit /\ ReceiverInit /\ toSender = <<>> BY DEF Init
  <1>2. WindowInvariant BY <1>1, ReceiverStarts
  <1>3. /\ delivered = <<>> /\ DOMAIN cachedReceived = {} /\ lostReceiver = {} /\ LRSN = 0
    BY <1>1 DEF ReceiverInit
  <1>4. Len(delivered) = 0 BY <1>3
  <1>5. ReceivingEarly BY <1>1, <1>2, <1>3, <1>4 DEF ReceivingEarly, LossListExact, SenderInit
  <1>6. SendingEarly
    <2>1. MinWindow \in MinWindow .. MaxWindow /\ 0 \in 0 .. Stream
      BY SenderAssumption, SerialNumberAssumption, StreamAssumption
    <2>2. toPeer \in Seq(Current)
      <3>1. toPeer = <<>> BY <1>1 DEF SenderInit
      <3>2. <<>> \in Seq(Current) OBVIOUS
      <3> QED BY <3>1, <3>2
    <2>3. DOMAIN toBeSent = {} /\ DOMAIN sentPackets = {} BY <1>1 DEF SenderInit, NoPackets
    <2> QED BY <1>1, <1>4, <2>1, <2>2, <2>3 DEF SenderInit, SendingEarly
  <1>7. ReportingEarly
    <2>1. toSender \in Seq({}) BY <1>1
    <2> QED BY <2>1 DEF ReportingEarly
  <1> QED BY <1>5, <1>6, <1>7 DEF FirstTurn

(* The inductive invariant of the first turn.                              *)
THEOREM FirstTurnCorrect == ASSUME OneTurn PROVE Spec => []FirstTurn
  <1>1. Init => FirstTurn BY EarlyStarts
  <1>2. FirstTurn /\ [Next]_vars => FirstTurn' BY EarlyStep
  <1> QED BY <1>1, <1>2, PTL DEF Spec

(* Whatever the network loses, duplicates or reorders, whichever writes    *)
(* fail and whatever control packets run into the stream: what arrives is  *)
(* the beginning of what was sent.                                         *)
THEOREM AnyNetworkIsSafe == ASSUME OneTurn PROVE Spec => RefinesReliableStream
  <1>1. Init => Abstract!Init BY DEF Init, SenderInit, ReceiverInit, Abstract!Init
  <1>2. FirstTurn /\ [Next]_vars => [Abstract!Next]_(Abstract!streamVars)
    <2> SUFFICES ASSUME FirstTurn, [Next]_vars
                 PROVE  [Abstract!Next]_(Abstract!streamVars)
      OBVIOUS
    <2>1. StreamStep BY EarlyStep
    <2>2. CASE UNCHANGED <<created, delivered>>
      BY <2>2 DEF Abstract!streamVars
    <2>3. CASE created' \in created + 1 .. Stream /\ UNCHANGED delivered
      BY <2>3 DEF Abstract!Next, Abstract!Accept
    <2>4. CASE /\ \E k \in 1 .. created - Len(delivered) :
                    delivered' = delivered \o [i \in 1 .. k |-> Len(delivered) + i]
               /\ UNCHANGED created
      BY <2>4 DEF Abstract!Next, Abstract!Deliver
    <2> QED BY <2>1, <2>2, <2>3, <2>4 DEF StreamStep
  <1> QED BY <1>1, <1>2, FirstTurnCorrect, PTL DEF Spec, RefinesReliableStream, Abstract!Spec

(* The gaps datagramReceived notices are gaps: it never reports a packet   *)
(* it holds.                                                               *)
THEOREM LossesAreReal == ASSUME OneTurn PROVE Spec => []LossListExact
  <1>1. FirstTurn => LossListExact BY DEF FirstTurn, ReceivingEarly
  <1> QED BY <1>1, FirstTurnCorrect, PTL

(* Within the first turn, too, no datagram is taken for another.           *)
THEOREM EarlyDatagramsTimely == ASSUME OneTurn PROVE Spec => []DatagramsTimely
  <1>1. FirstTurn => DatagramsTimely
    <2> SUFFICES ASSUME FirstTurn, NEW i \in DOMAIN toPeer PROVE Timely(toPeer[i].data)
      BY DEF DatagramsTimely
    <2>1. toPeer \in Seq(Current) BY DEF FirstTurn, SendingEarly
    <2>2. PICK p \in Current : p = toPeer[i] BY <2>1, LenProperties, ElementOfSeq
    <2>3. Timely(p.data) BY CurrentFields
    <2> QED BY <2>2, <2>3
  <1> QED BY <1>1, FirstTurnCorrect, PTL

-----------------------------------------------------------------------------
(* The types, whatever the network does and however long the stream is     *)

(* The messages to the sender and the packets it handles, the inductive    *)
(* invariant behind TypeOK: lists are sequences, reports are readable.     *)
Answers == [type : {"ACK", "PacketDropped"}, first : SerialNumber]
Reports == [type : {"NACK"}, lost : Seq(SerialNumber)]
AnyPacket == DataPacket \cup Uncounted

QueueTypes ==
  /\ \A sn \in DOMAIN toBeSent : Packet(sn, toBeSent[sn]) \in AnyPacket
  /\ \A sn \in DOMAIN sentPackets : Packet(sn, sentPackets[sn]) \in DataPacket
  /\ waitingForACK \in Seq(SerialNumber)
  /\ LSSN \in 0 .. MaxSN
  /\ toPeer \in Seq(DataPacket)
ControlTypes ==
  /\ created \in 0 .. Stream
  /\ firstWaiting \in SerialNumber
  /\ sendWindow \in MinWindow .. MaxWindow
  /\ lostSender \in Seq(SerialNumber)
  /\ EXPCOUNT \in 0 .. MaxEXP
  /\ flushScheduled \in BOOLEAN
  /\ freeSendBuffer \in Nat
SenderTypes == QueueTypes /\ ControlTypes
TransferTypes == SenderTypes /\ ReceiverTypes /\ toSender \in Seq(Answers \cup Reports)

(* A table of the first m numbers is a list.                               *)
LEMMA TableIsList ==
  ASSUME NEW S, NEW m \in Nat, NEW s, s = [i \in 1 .. m |-> s[i]], \A i \in 1 .. m : s[i] \in S
  PROVE  s \in Seq(S)
  OBVIOUS

(* Picking entries keeps the type of a list.                               *)
LEMMA PickedType ==
  ASSUME NEW S, NEW s \in Seq(S), NEW kept \in SUBSET DOMAIN s
  PROVE  Picked(s, kept) \in Seq(S)
  <1>1. \A i \in kept : s[i] \in S BY ElementOfSeq, LenProperties
  <1> QED BY <1>1, PickedIn

(* Taking serial numbers out of a list keeps its type.                     *)
LEMMA OmitType ==
  ASSUME NEW S, NEW s \in Seq(S), NEW sns
  PROVE  Omit(s, sns) \in Seq(S)
  <1> DEFINE kept == {i \in DOMAIN s : s[i] \notin sns}
  <1>1. Omit(s, sns) = Picked(s, kept) /\ kept \in SUBSET DOMAIN s BY DEF Omit, Selected
  <1> HIDE DEF kept
  <1> QED BY <1>1, PickedType

(* A packet is made of its serial number and its position in the stream.   *)
LEMMA AnyPacketFields ==
  /\ \A p \in DataPacket : p = Packet(p.sn, p.data) /\ p.sn \in SerialNumber
                           /\ p.data \in 1 .. Stream
  /\ \A p \in AnyPacket : p = Packet(p.sn, p.data) /\ p.sn \in SerialNumber
                          /\ p.data \in 0 .. Stream
  <1>1. \A p \in DataPacket : p = Packet(p.sn, p.data) /\ p.sn \in SerialNumber
                              /\ p.data \in 1 .. Stream
    BY DEF DataPacket, Packet
  <1>2. \A p \in Uncounted : p = Packet(p.sn, p.data) /\ p.sn \in SerialNumber
                             /\ p.data = 0
    BY PacketFields DEF Uncounted, Unreliable
  <1>3. 1 .. Stream \subseteq 0 .. Stream /\ 0 \in 0 .. Stream BY StreamAssumption
  <1> QED BY <1>1, <1>2, <1>3 DEF AnyPacket

(* sendPacket keeps the types of what it changes.                          *)
LEMMA TransmitTypes ==
  ASSUME QueueTypes, NEW packets \in Seq(AnyPacket), Transmit(packets)
  PROVE  /\ \A sn \in DOMAIN sentPackets' : Packet(sn, sentPackets'[sn]) \in DataPacket
         /\ waitingForACK' \in Seq(SerialNumber)
         /\ LSSN' \in 0 .. MaxSN
         /\ toPeer' \in Seq(DataPacket)
  <1>1. \A p \in DataPacket : p = Packet(p.sn, p.data) BY AnyPacketFields
  <1>2. /\ \E t \in Seq(DataPacket) : toPeer' = Written(toPeer, t)
        /\ \A sn \in DOMAIN sentPackets' :
             \/ Packet(sn, sentPackets'[sn]) \in DataPacket
             \/ sn \in DOMAIN sentPackets /\ sentPackets'[sn] = sentPackets[sn]
    BY <1>1, TransmitEarly DEF AnyPacket
  <1>3. toPeer' \in Seq(DataPacket) BY <1>2, WrittenEntries DEF QueueTypes
  <1>4. \A sn \in DOMAIN sentPackets' : Packet(sn, sentPackets'[sn]) \in DataPacket
    BY <1>2 DEF QueueTypes
  <1> DEFINE written(failed) == {i \in DOMAIN packets : packets[i] \notin failed
                                                        /\ packets[i].data # Unreliable}
  <1>5. \E failed :
          LET t == Picked(packets, written(failed))
          IN  /\ waitingForACK' = waitingForACK \o Sns(t)
              /\ LSSN' = IF t = <<>> THEN LSSN ELSE Last(t).sn
    BY Zenon DEF Transmit, Selected
  <1>6. \E t \in Seq(AnyPacket) :
          /\ waitingForACK' = waitingForACK \o Sns(t)
          /\ LSSN' = IF t = <<>> THEN LSSN ELSE Last(t).sn
    <2>1. PICK failed :
          LET t == Picked(packets, written(failed))
          IN  /\ waitingForACK' = waitingForACK \o Sns(t)
              /\ LSSN' = IF t = <<>> THEN LSSN ELSE Last(t).sn
      BY Zenon, <1>5
    <2> DEFINE kept == written(failed)
    <2>2. kept \in SUBSET DOMAIN packets OBVIOUS
    <2>3. /\ waitingForACK' = waitingForACK \o Sns(Picked(packets, kept))
          /\ LSSN' = IF Picked(packets, kept) = <<>> THEN LSSN ELSE Last(Picked(packets, kept)).sn
      BY <2>1
    <2> HIDE DEF kept
    <2>4. Picked(packets, kept) \in Seq(AnyPacket) BY <2>2, PickedType
    <2> QED BY <2>3, <2>4
  <1>7. PICK t \in Seq(AnyPacket) : /\ waitingForACK' = waitingForACK \o Sns(t)
                                    /\ LSSN' = IF t = <<>> THEN LSSN ELSE Last(t).sn
    BY <1>6
  <1>8. /\ Len(t) \in Nat /\ DOMAIN t = 1 .. Len(t)
        /\ \A i \in 1 .. Len(t) : t[i].sn \in SerialNumber
    BY AnyPacketFields, LenProperties, ElementOfSeq
  <1>9. Sns(t) \in Seq(SerialNumber)
    <2>1. Sns(t) = [i \in 1 .. Len(t) |-> t[i].sn] BY <1>8 DEF Sns
    <2> QED BY <1>8, <2>1
  <1>10. waitingForACK' \in Seq(SerialNumber)
    <2>1. waitingForACK \in Seq(SerialNumber) BY DEF QueueTypes
    <2> QED BY <1>7, <1>9, <2>1, ConcatProperties
  <1>11. LSSN' \in 0 .. MaxSN
    <2>1. CASE t = <<>> BY <1>7, <2>1 DEF QueueTypes
    <2>2. CASE t # <<>>
      <3>1. Len(t) \in 1 .. Len(t) BY <1>8, <2>2, EmptySeq
      <3>2. LSSN' \in SerialNumber BY <1>7, <1>8, <2>2, <3>1 DEF Last
      <3> QED BY <3>2, SerialNumberAssumption DEF SerialNumber
    <2> QED BY <2>1, <2>2
  <1> QED BY <1>3, <1>4, <1>10, <1>11

(* Serial numbers of a window are serial numbers.                          *)
LEMMA AdvanceType ==
  ASSUME NEW sn \in SerialNumber, NEW i \in Int
  PROVE  Advance(sn, i) \in SerialNumber /\ NextSN(sn) \in SerialNumber
  <1>1. MaxSN \in Nat \ {0} /\ sn \in 1 .. MaxSN /\ sn - 1 + i \in Int
    BY SerialNumberAssumption DEF SerialNumber
  <1>2. (sn - 1 + i) % MaxSN \in 0 .. MaxSN - 1 BY <1>1, DivMod
  <1>3. Advance(sn, i) \in SerialNumber BY <1>1, <1>2 DEF Advance, SerialNumber
  <1>4. NextSN(sn) \in SerialNumber BY <1>1 DEF NextSN, SerialNumber
  <1> QED BY <1>3, <1>4

(* The cached packets the send window has reached are packets.             *)
LEMMA FlushedTypes ==
  ASSUME SenderTypes
  PROVE  Flushed \in Seq(AnyPacket)
  <1> DEFINE order == [i \in 1 .. sendWindow + 1 |-> Advance(firstWaiting, i - 1)]
             kept == {i \in DOMAIN order : order[i] \in DOMAIN toBeSent}
             reached == Picked(order, kept)
             R == DOMAIN toBeSent
  <1>1. sendWindow + 1 \in Nat /\ firstWaiting \in SerialNumber
    BY SenderAssumption, SerialNumberAssumption DEF SenderTypes, ControlTypes
  <1>2. order \in Seq(SerialNumber)
    <2>1. ASSUME NEW i \in 1 .. sendWindow + 1
          PROVE  Advance(firstWaiting, i - 1) \in SerialNumber
      <3>1. PICK j \in Int : j = i - 1 BY <1>1
      <3> QED BY <1>1, <3>1, AdvanceType
    <2> QED BY <1>1, <2>1
  <1>3. reached \in Seq(R)
    <2>1. kept \in SUBSET DOMAIN order /\ \A i \in kept : order[i] \in R OBVIOUS
    <2> HIDE DEF order, kept, R
    <2> QED BY <1>2, <2>1, PickedIn
  <1>4. Flushed = [i \in DOMAIN reached |-> Packet(reached[i], toBeSent[reached[i]])]
    BY DEF Flushed, Selected
  <1>5. \A sn \in R : Packet(sn, toBeSent[sn]) \in AnyPacket BY DEF SenderTypes, QueueTypes
  <1> HIDE DEF reached, R
  <1>6. Len(reached) \in Nat /\ DOMAIN reached = 1 .. Len(reached)
        /\ \A i \in 1 .. Len(reached) : reached[i] \in R
    BY <1>3, LenProperties, ElementOfSeq
  <1> QED BY <1>4, <1>5, <1>6

(* tryingToSendPacket for new packets, after cached ones.                  *)
LEMMA SendNewTypes ==
  ASSUME SenderTypes, NEW flushed \in Seq(AnyPacket), NEW new \in Seq(AnyPacket),
         SendNew(flushed, new)
  PROVE  QueueTypes' /\ freeSendBuffer' \in Nat
  <1> DEFINE early == {i \in DOMAIN new : ~ InSendWindow(new[i].sn)}
             timely == {i \in DOMAIN new : InSendWindow(new[i].sn)}
             charge == Len(new) + Len(TooEarly(new))
  <1>1. Sendable(new) \in Seq(AnyPacket) /\ TooEarly(new) \in Seq(AnyPacket)
    <2>1. /\ Sendable(new) = Picked(new, timely) /\ timely \in SUBSET DOMAIN new
          /\ TooEarly(new) = Picked(new, early) /\ early \in SUBSET DOMAIN new
      BY DEF Sendable, TooEarly, Selected
    <2> HIDE DEF early, timely
    <2> QED BY <2>1, PickedType
  <1>2. flushed \o Sendable(new) \in Seq(AnyPacket) BY <1>1, ConcatProperties
  <1>3. /\ Transmit(flushed \o Sendable(new))
        /\ toBeSent' = Inserted(ByNumber(TooEarly(new)), Drop(toBeSent, ToSet(Sns(flushed))))
        /\ freeSendBuffer' = IF charge < freeSendBuffer THEN freeSendBuffer - charge ELSE 0
    BY DEF SendNew
  <1>4. charge \in Nat BY <1>1, LenProperties
  <1> HIDE DEF early, timely, charge
  <1>5. freeSendBuffer' \in Nat
    <2>1. freeSendBuffer \in Nat BY DEF SenderTypes, ControlTypes
    <2> QED BY <1>3, <1>4, <2>1
  <1>6. \A sn \in DOMAIN toBeSent' : Packet(sn, toBeSent'[sn]) \in AnyPacket
    <2>1. \A sn \in DOMAIN toBeSent : Packet(sn, toBeSent[sn]) \in AnyPacket
      BY DEF SenderTypes, QueueTypes
    <2>2. \A sn \in DOMAIN ByNumber(TooEarly(new)) :
            Packet(sn, ByNumber(TooEarly(new))[sn]) \in AnyPacket
      BY <1>1, AnyPacketFields, ByNumberIn
    <2> QED BY <1>3, <2>1, <2>2 DEF Inserted, Drop, Restrict
  <1>7. /\ \A sn \in DOMAIN sentPackets' : Packet(sn, sentPackets'[sn]) \in DataPacket
        /\ waitingForACK' \in Seq(SerialNumber) /\ LSSN' \in 0 .. MaxSN
        /\ toPeer' \in Seq(DataPacket)
    BY <1>2, <1>3, TransmitTypes DEF SenderTypes
  <1> QED BY <1>5, <1>6, <1>7 DEF QueueTypes

(* The packets sendDatagram creates are packets of the stream.             *)
LEMMA CreatedTypes ==
  ASSUME SenderTypes, NEW k \in Nat, created + k <= Stream
  PROVE  Created(created + 1, created + k) \in Seq(AnyPacket)
  <1> DEFINE x == created + 1
             y == created + k
             s == Created(x, y)
  <1>1. x \in Int /\ y \in Int /\ x <= y + 1 /\ 1 <= x /\ y - x + 1 \in Nat /\ y <= Stream
    BY StreamAssumption DEF SenderTypes, ControlTypes
  <1> HIDE DEF x, y
  <1>2. /\ s \in Seq(StreamPacket) /\ Len(s) = y - x + 1 /\ DOMAIN s = 1 .. y - x + 1
        /\ \A i \in 1 .. y - x + 1 : s[i] = Packet(SerialOf(x + i - 1), x + i - 1)
    BY <1>1, CreatedFacts
  <1> HIDE DEF s
  <1>3. \A i \in 1 .. Len(s) : s[i] \in AnyPacket
    <2> TAKE i \in 1 .. Len(s)
    <2>1. PICK n \in Int : n = x + i - 1 BY <1>1, <1>2
    <2>2. n \in 1 .. Stream BY <1>1, <1>2, <2>1, StreamAssumption
    <2>3. SerialOf(n) \in SerialNumber BY SerialOfType
    <2>4. s[i] = Packet(SerialOf(n), n) BY <1>2, <2>1
    <2> QED BY <2>2, <2>3, <2>4 DEF AnyPacket, DataPacket, Packet
  <1>4. s = [i \in 1 .. Len(s) |-> s[i]] /\ Len(s) \in Nat BY <1>2, LenProperties
  <1>5. s \in Seq(AnyPacket) BY <1>3, <1>4
  <1> QED BY <1>5 DEF s, x, y

(* The sender moved and nothing else did.                                  *)
LEMMA SenderTyped ==
  ASSUME TransferTypes, SenderTypes', UNCHANGED <<receiverVars, toSender>>
  PROVE  TransferTypes'
  <1>1. ReceiverTypes /\ toSender \in Seq(Answers \cup Reports) BY DEF TransferTypes
  <1>2. ReceiverTypes'
    BY <1>1 DEF receiverVars, windowVars, timerVars, ReceiverTypes, WindowTypes, TimerTypes
  <1> QED BY <1>1, <1>2 DEF TransferTypes, Answers, Reports

(* tryingToSendPacket in each of its uses.                                 *)
LEMMA NewTyped ==
  ASSUME TransferTypes, NEW flushed \in {<<>>, Flushed}, NEW new \in Seq(AnyPacket),
         SendNew(flushed, new), created' \in 0 .. Stream,
         UNCHANGED <<firstWaiting, sendWindow, lostSender, EXPCOUNT, flushScheduled>>,
         UNCHANGED <<receiverVars, toSender>>
  PROVE  TransferTypes'
  <1>1. SenderTypes BY DEF TransferTypes
  <1>2. flushed \in Seq(AnyPacket)
    <2>1. <<>> \in Seq(AnyPacket) OBVIOUS
    <2> QED BY <1>1, <2>1, FlushedTypes
  <1>3. QueueTypes' /\ freeSendBuffer' \in Nat BY <1>1, <1>2, SendNewTypes
  <1>4. SenderTypes' BY <1>1, <1>3 DEF SenderTypes, ControlTypes
  <1> QED BY <1>4, SenderTyped

(* retransmitLostPacket keeps the types of what it changes.                *)
LEMMA RetransmitTypes ==
  ASSUME SenderTypes, NEW lost \in Seq(SerialNumber), Retransmit(lost)
  PROVE  /\ sendWindow' \in MinWindow .. MaxWindow
         /\ lostSender' \in Seq(SerialNumber)
         /\ toPeer' \in Seq(DataPacket)
  <1>1. /\ sendWindow \in MinWindow .. MaxWindow /\ toPeer \in Seq(DataPacket)
        /\ \A sn \in DOMAIN sentPackets : Packet(sn, sentPackets[sn]) \in DataPacket
    BY DEF SenderTypes, QueueTypes, ControlTypes
  <1>2. sendWindow' \in MinWindow .. MaxWindow
    <2>1. sendWindow' \in {sendWindow, ShrunkWindow} BY DEF Retransmit
    <2> QED BY <1>1, <2>1, WindowSizes
  <1>3. toPeer' \in Seq(DataPacket)
    <2>1. \/ UNCHANGED toPeer
          \/ \E sn \in DOMAIN sentPackets :
               toPeer' = Written(toPeer, <<Packet(sn, sentPackets[sn])>>)
      BY DEF Retransmit
    <2>2. ASSUME NEW p \in DataPacket, toPeer' = Written(toPeer, <<p>>)
          PROVE  toPeer' \in Seq(DataPacket)
      <3>1. <<p>> \in Seq(DataPacket) OBVIOUS
      <3> QED BY <1>1, <2>2, <3>1, WrittenEntries
    <2> QED BY <1>1, <2>1, <2>2
  <1>4. lostSender' \in Seq(SerialNumber)
    <2>1. CASE lost = <<>> BY <2>1 DEF Retransmit
    <2>2. CASE lost # <<>>
      <3> DEFINE sn == Head(lost)
                 rest == Omit(lost, {sn})
      <3>1. sn \in SerialNumber BY <2>2, HeadTailProperties
      <3>2. rest \in Seq(SerialNumber) BY OmitType
      <3>3. lostSender' = rest \/ lostSender' = <<sn>> \o rest BY <2>2 DEF Retransmit
      <3> HIDE DEF sn, rest
      <3>4. <<sn>> \in Seq(SerialNumber) BY <3>1
      <3>5. <<sn>> \o rest \in Seq(SerialNumber) BY <3>2, <3>4, ConcatProperties
      <3> QED BY <3>2, <3>3, <3>5
    <2> QED BY <2>1, <2>2
  <1> QED BY <1>2, <1>3, <1>4

(* Two lists of losses, the second without what is in the first.           *)
LEMMA MergedType ==
  ASSUME NEW s \in Seq(SerialNumber), NEW t \in Seq(SerialNumber)
  PROVE  s \o Omit(t, ToSet(s)) \in Seq(SerialNumber)
  <1>1. Omit(t, ToSet(s)) \in Seq(SerialNumber) BY OmitType
  <1> QED BY <1>1, ConcatProperties

(* The application's calls and the sender's timers keep the types.         *)
LEMMA SenderKeepsTypes ==
  ASSUME TransferTypes, Send \/ SendControl \/ Retransmission \/ Flush
  PROVE  TransferTypes'
  <1>1. UNCHANGED <<receiverVars, toSender>>
    BY DEF Send, SendControl, Retransmission, Flush, SenderStep
  <1>2. SenderTypes /\ QueueTypes /\ ControlTypes BY DEF TransferTypes, SenderTypes
  <1>3. created \in Nat /\ created <= Stream /\ Stream \in Nat
    BY <1>2, StreamAssumption DEF ControlTypes
  <1>4. ASSUME NEW k \in Nat, created' = created + k, created + k <= Stream,
               UNCHANGED <<firstWaiting, sendWindow, lostSender, EXPCOUNT, flushScheduled>>,
               NEW flushed \in {<<>>, Flushed},
               SendNew(flushed, Created(created + 1, created + k))
        PROVE  TransferTypes'
    <2>1. PICK new \in Seq(AnyPacket) : new = Created(created + 1, created + k)
      BY <1>2, <1>4, CreatedTypes
    <2>2. created' \in 0 .. Stream BY <1>3, <1>4
    <2>3. SendNew(flushed, new) BY <1>4, <2>1
    <2> QED BY <1>1, <1>4, <2>2, <2>3, NewTyped
  <1>5. CASE Send
    <2>1. CASE created + 1 \in BeginOrEnd /\ SendBeginOrEnd
      <3>1. created + 1 <= Stream BY <1>3, <2>1, TransferAssumption
      <3> QED BY <1>4, <2>1, <3>1 DEF SendBeginOrEnd
    <2>2. CASE \E k \in 1 .. MaxBurst : created + k <= Stream /\ SendDatagram(k)
      <3>1. PICK k \in 1 .. MaxBurst : created + k <= Stream /\ SendDatagram(k) BY <2>2
      <3>2. k \in Nat BY TransferAssumption
      <3> QED BY <1>4, <3>1, <3>2 DEF SendDatagram
    <2>3. CASE SendDatagramNoRoom
      <3>1. <<>> \in Seq(AnyPacket) OBVIOUS
      <3>2. created' \in 0 .. Stream BY <1>3, <2>3 DEF SendDatagramNoRoom
      <3> QED BY <1>1, <2>3, <3>1, <3>2, NewTyped DEF SendDatagramNoRoom
    <2>4. CASE SendDatagramLost
      <3>1. lostSender \in Seq(SerialNumber) BY <1>2 DEF ControlTypes
      <3>2. /\ Retransmit(lostSender)
            /\ UNCHANGED <<created, firstWaiting, toBeSent, waitingForACK, sentPackets, LSSN,
                           EXPCOUNT, flushScheduled, freeSendBuffer>>
        BY <2>4 DEF SendDatagramLost
      <3>3. /\ sendWindow' \in MinWindow .. MaxWindow /\ lostSender' \in Seq(SerialNumber)
            /\ toPeer' \in Seq(DataPacket)
        BY <1>2, <3>1, <3>2, RetransmitTypes
      <3>4. SenderTypes' BY <1>2, <3>2, <3>3 DEF SenderTypes, QueueTypes, ControlTypes
      <3> QED BY <1>1, <3>4, SenderTyped
    <2> QED BY <1>5, <2>1, <2>2, <2>3, <2>4 DEF Send
  <1>6. CASE SendControl
    <2>1. PICK sn \in ControlNumbers : SendUnreliable(sn) BY <1>6 DEF SendControl
    <2>2. PICK p : p = Packet(sn, Unreliable) OBVIOUS
    <2>3. p \in AnyPacket BY <2>2, TransferAssumption DEF Uncounted, AnyPacket
    <2>4. <<p>> \in Seq(AnyPacket) BY <2>3
    <2>5. /\ SendNew(<<>>, <<p>>)
          /\ UNCHANGED <<created, firstWaiting, sendWindow, lostSender, EXPCOUNT, flushScheduled>>
      BY <2>1, <2>2 DEF SendUnreliable
    <2>6. created' \in 0 .. Stream BY <1>3, <2>5
    <2> QED BY <1>1, <2>4, <2>5, <2>6, NewTyped
  <1>7. CASE Retransmission
    <2> DEFINE lost == waitingForACK \o Omit(lostSender, ToSet(waitingForACK))
    <2>1. lost \in Seq(SerialNumber) BY <1>2, MergedType DEF QueueTypes, ControlTypes
    <2>2. RetransmissionTimer BY <1>7 DEF Retransmission
    <2>3. /\ UNCHANGED <<created, firstWaiting, toBeSent, waitingForACK, sentPackets,
                         LSSN, freeSendBuffer>>
          /\ EXPCOUNT' \in {0, IF EXPCOUNT = MaxEXP THEN EXPCOUNT ELSE EXPCOUNT + 1}
          /\ flushScheduled' \in {flushScheduled, flushScheduled \/ DOMAIN toBeSent # {}}
          /\ \/ UNCHANGED <<lostSender, sendWindow, toPeer>>
             \/ Retransmit(lost)
             \/ lostSender' = lost /\ UNCHANGED <<sendWindow, toPeer>>
      BY <2>2 DEF RetransmissionTimer
    <2>4. EXPCOUNT' \in 0 .. MaxEXP BY <1>2, <2>3, SenderAssumption DEF ControlTypes
    <2>5. flushScheduled' \in BOOLEAN BY <1>2, <2>3 DEF ControlTypes
    <2> HIDE DEF lost
    <2>6. /\ sendWindow' \in MinWindow .. MaxWindow /\ lostSender' \in Seq(SerialNumber)
          /\ toPeer' \in Seq(DataPacket)
      <3>1. CASE Retransmit(lost) BY <1>2, <2>1, <3>1, RetransmitTypes
      <3>2. CASE /\ UNCHANGED <<sendWindow, toPeer>>
                 /\ lostSender' = lostSender \/ lostSender' = lost
        BY <1>2, <2>1, <3>2 DEF QueueTypes, ControlTypes
      <3> QED BY <2>3, <3>1, <3>2
    <2>7. QueueTypes' BY <1>2, <2>3, <2>6 DEF QueueTypes
    <2>8. ControlTypes' BY <1>2, <2>3, <2>4, <2>5, <2>6 DEF ControlTypes
    <2> QED BY <1>1, <2>7, <2>8, SenderTyped DEF SenderTypes
  <1>8. CASE Flush
    <2>1. /\ Transmit(Flushed) /\ toBeSent' = Drop(toBeSent, ToSet(Sns(Flushed)))
          /\ flushScheduled' = FALSE
          /\ UNCHANGED <<created, firstWaiting, sendWindow, lostSender, EXPCOUNT, freeSendBuffer>>
      BY <1>8 DEF Flush, FlushTimer
    <2>2. Flushed \in Seq(AnyPacket) BY <1>2, FlushedTypes
    <2>3. /\ \A sn \in DOMAIN sentPackets' : Packet(sn, sentPackets'[sn]) \in DataPacket
          /\ waitingForACK' \in Seq(SerialNumber) /\ LSSN' \in 0 .. MaxSN
          /\ toPeer' \in Seq(DataPacket)
      BY <1>2, <2>1, <2>2, TransmitTypes
    <2>4. \A sn \in DOMAIN toBeSent' : Packet(sn, toBeSent'[sn]) \in AnyPacket
      BY <1>2, <2>1 DEF QueueTypes, Drop, Restrict
    <2>5. SenderTypes' BY <1>2, <2>1, <2>3, <2>4 DEF SenderTypes, QueueTypes, ControlTypes
    <2> QED BY <1>1, <2>5, SenderTyped
  <1> QED BY <1>5, <1>6, <1>7, <1>8

-----------------------------------------------------------------------------
(* updateFirstWaitingForACKPacketIDInSendWindow keeps the types: what it   *)
(* refunds to the send buffer is a number, as the serial numbers are       *)
(* finitely many.                                                          *)
LEMMA UpdateTypes ==
  ASSUME SenderTypes, NEW first \in SerialNumber, UpdateFirstWaiting(first)
  PROVE  /\ waitingForACK' \in Seq(SerialNumber) /\ lostSender' \in Seq(SerialNumber)
         /\ \A sn \in DOMAIN sentPackets' : Packet(sn, sentPackets'[sn]) \in DataPacket
         /\ freeSendBuffer' \in Nat
         /\ firstWaiting' \in SerialNumber
  <1>1. /\ waitingForACK \in Seq(SerialNumber) /\ lostSender \in Seq(SerialNumber)
        /\ \A sn \in DOMAIN sentPackets : Packet(sn, sentPackets[sn]) \in DataPacket
        /\ freeSendBuffer \in Nat
    BY DEF SenderTypes, QueueTypes, ControlTypes
  <1>2. PICK gone : /\ waitingForACK' = Omit(waitingForACK, gone)
                    /\ lostSender' = Omit(lostSender, gone)
                    /\ sentPackets' = Drop(sentPackets, gone)
                    /\ freeSendBuffer' =
                         freeSendBuffer + Cardinality(gone \cap DOMAIN sentPackets)
                    /\ firstWaiting' = first
    BY DEF UpdateFirstWaiting
  <1>3. gone \cap DOMAIN sentPackets \in SUBSET SerialNumber
    <2>1. \A sn \in DOMAIN sentPackets : sn \in SerialNumber
      BY <1>1, AnyPacketFields, PacketFields
    <2> QED BY <2>1
  <1>4. IsFiniteSet(SerialNumber)
    BY SerialNumberAssumption, FS_Interval DEF SerialNumber
  <1>5. Cardinality(gone \cap DOMAIN sentPackets) \in Nat
    BY <1>3, <1>4, FS_Subset, FS_CardinalityType
  <1>6. waitingForACK' \in Seq(SerialNumber) /\ lostSender' \in Seq(SerialNumber)
    BY <1>1, <1>2, OmitType
  <1>7. \A sn \in DOMAIN sentPackets' : Packet(sn, sentPackets'[sn]) \in DataPacket
    BY <1>1, <1>2 DEF Drop, Restrict
  <1> QED BY <1>1, <1>2, <1>5, <1>6, <1>7

(* ACKs, NACKs and PacketDropped answers keep the types.                   *)
LEMMA FeedbackKeepsTypes ==
  ASSUME TransferTypes, NEW i \in DOMAIN toSender, DeliverFeedback(i)
  PROVE  TransferTypes'
  <1> DEFINE m == toSender[i]
  <1>1. /\ SenderTypes /\ QueueTypes /\ ControlTypes /\ ReceiverTypes
        /\ toSender \in Seq(Answers \cup Reports)
    BY DEF TransferTypes, SenderTypes
  <1>2. /\ toSender' = RemoveAt(toSender, i) \/ UNCHANGED toSender
        /\ Feedback(m)
        /\ UNCHANGED receiverVars
    BY DEF DeliverFeedback, AfterDelivery
  <1>3. m \in Answers \cup Reports BY <1>1, LenProperties, ElementOfSeq
  <1>4. toSender' \in Seq(Answers \cup Reports)
    <2>1. i \in 1 .. Len(toSender) BY <1>1, LenProperties
    <2> QED BY <1>1, <1>2, <2>1, RemoveAtEntries
  <1>5. ReceiverTypes'
    BY <1>1, <1>2 DEF receiverVars, windowVars, timerVars, ReceiverTypes, WindowTypes, TimerTypes
  <1> HIDE DEF m
  <1>6. ASSUME NEW first \in SerialNumber,
               UpdateFirstWaiting(first) \/ UNCHANGED <<waitingForACK, lostSender, sentPackets,
                                                        freeSendBuffer, firstWaiting>>,
               sendWindow' \in MinWindow .. MaxWindow,
               UNCHANGED <<created, toBeSent, LSSN, EXPCOUNT, flushScheduled, toPeer>>
        PROVE  SenderTypes'
    <2>1. /\ waitingForACK' \in Seq(SerialNumber) /\ lostSender' \in Seq(SerialNumber)
          /\ \A sn \in DOMAIN sentPackets' : Packet(sn, sentPackets'[sn]) \in DataPacket
          /\ freeSendBuffer' \in Nat
          /\ firstWaiting' \in SerialNumber
      <3>1. CASE UpdateFirstWaiting(first) BY <1>1, <3>1, UpdateTypes
      <3>2. CASE UNCHANGED <<waitingForACK, lostSender, sentPackets, freeSendBuffer, firstWaiting>>
        BY <1>1, <3>2 DEF QueueTypes, ControlTypes
      <3> QED BY <1>6, <3>1, <3>2
    <2>2. QueueTypes' BY <1>1, <1>6, <2>1 DEF QueueTypes
    <2>3. ControlTypes' BY <1>1, <1>6, <2>1 DEF ControlTypes
    <2> QED BY <2>2, <2>3 DEF SenderTypes
  <1>7. CASE m.type # "NACK" /\ (ReceiveACK(m.first) \/ ReceivePacketDropped(m.first))
    <2>1. m.first \in SerialNumber BY <1>3, <1>7 DEF Answers, Reports
    <2>2. sendWindow \in MinWindow .. MaxWindow BY <1>1 DEF ControlTypes
    <2>3. sendWindow' \in MinWindow .. MaxWindow
      BY <1>7, <2>2, WindowSizes DEF ReceiveACK, ReceivePacketDropped
    <2>4. UpdateFirstWaiting(m.first) \/ UNCHANGED <<waitingForACK, lostSender, sentPackets,
                                                     freeSendBuffer, firstWaiting>>
      BY <1>7 DEF ReceiveACK, ReceivePacketDropped
    <2>5. UNCHANGED <<created, toBeSent, LSSN, EXPCOUNT, flushScheduled, toPeer>>
      BY <1>7 DEF ReceiveACK, ReceivePacketDropped
    <2>6. SenderTypes' BY <1>6, <2>1, <2>3, <2>4, <2>5
    <2> QED BY <1>4, <1>5, <2>6 DEF TransferTypes, Answers, Reports
  <1>8. CASE m.type = "NACK" /\ ReceiveNACK(m.lost)
    <2>1. m.lost \in Seq(SerialNumber) BY <1>3, <1>8 DEF Answers, Reports
    <2>2. PICK lost : lost = m.lost \o Omit(lostSender, ToSet(m.lost)) OBVIOUS
    <2>3. lost \in Seq(SerialNumber) BY <1>1, <2>1, <2>2, MergedType DEF ControlTypes
    <2>4. /\ Retransmit(lost)
          /\ UNCHANGED <<created, firstWaiting, toBeSent, waitingForACK, sentPackets, LSSN,
                         EXPCOUNT, flushScheduled, freeSendBuffer>>
      BY <1>8, <2>2 DEF ReceiveNACK
    <2>5. /\ sendWindow' \in MinWindow .. MaxWindow /\ lostSender' \in Seq(SerialNumber)
          /\ toPeer' \in Seq(DataPacket)
      BY <1>1, <2>3, <2>4, RetransmitTypes
    <2>6. SenderTypes' BY <1>1, <2>4, <2>5 DEF SenderTypes, QueueTypes, ControlTypes
    <2> QED BY <1>4, <1>5, <2>6 DEF TransferTypes, Answers, Reports
  <1> QED BY <1>2, <1>7, <1>8 DEF Feedback

-----------------------------------------------------------------------------
(* datagramReceived keeps the types of the receiving half, even for a      *)
(* datagram whose serial number has come round to the window again.        *)
LEMMA ReceiveTypes ==
  ASSUME ReceiverTypes, NEW sn \in SerialNumber, NEW data \in 1 .. Stream,
         ReceivePacket(sn, data)
  PROVE  ReceiverTypes'
  <1>1. WindowTypes /\ TimerTypes BY DEF ReceiverTypes
  <1>2. TimerTypes' BY <1>1 DEF ReceivePacket, TimerTypes
  <1>3. CASE UNCHANGED windowVars
    <2>1. WindowTypes' BY <1>1, <1>3 DEF windowVars, WindowTypes
    <2> QED BY <1>2, <2>1 DEF ReceiverTypes
  <1>4. CASE ~ UNCHANGED windowVars
    <2>1. /\ LRSN' = IF IsNewest(sn) THEN sn ELSE BaseLRSN
          /\ lostReceiver' = (lostReceiver \cup Skipped(sn)) \ {sn}
          /\ DeliverRun(sn, data) \/ CacheReceived(sn, data)
      BY <1>4 DEF ReceivePacket
    <2>2. LRSN' \in 0 .. MaxSN /\ lostReceiver' \subseteq SerialNumber
      BY <1>1, <2>1, LossListType DEF WindowTypes
    <2>3. /\ firstReceived \in SerialNumber /\ DOMAIN cachedReceived \subseteq SerialNumber
          /\ \A s \in DOMAIN cachedReceived : cachedReceived[s] \in 1 .. Stream
          /\ delivered \in Seq(1 .. Stream)
      BY <1>1 DEF WindowTypes
    <2>4. CASE DeliverRun(sn, data)
      <3> DEFINE next(k) == [i \in 1 .. k + 1 |->
                               IF i = 1 THEN data
                               ELSE cachedReceived[Advance(firstReceived, i - 1)]]
      <3>1. PICK k \in 0 .. MaxSN :
              /\ CachedRun(k)
              /\ delivered' = delivered \o next(k)
              /\ firstReceived' = NextSN(Advance(firstReceived, k))
              /\ cachedReceived' = Restrict(cachedReceived,
                   DOMAIN cachedReceived \ {Advance(firstReceived, i) : i \in 1 .. k})
        BY <2>4 DEF DeliverRun
      <3>2. k \in Nat BY <3>1, SerialNumberAssumption
      <3>3. next(k) \in Seq(1 .. Stream)
        <4>1. ASSUME NEW i \in 1 .. k + 1 PROVE next(k)[i] \in 1 .. Stream
          <5>1. CASE i = 1 BY <5>1
          <5>2. CASE i # 1
            <6>1. i - 1 \in 1 .. k BY <3>2, <5>2
            <6>2. Advance(firstReceived, i - 1) \in DOMAIN cachedReceived
              BY <3>1, <6>1 DEF CachedRun
            <6> QED BY <2>3, <5>2, <6>2
          <5> QED BY <5>1, <5>2
        <4>2. PICK s : s = next(k) OBVIOUS
        <4>3. PICK m \in Nat : m = k + 1 BY <3>2
        <4>4. s = [i \in 1 .. m |-> s[i]] /\ \A i \in 1 .. m : s[i] \in 1 .. Stream
          BY <4>1, <4>2, <4>3
        <4> HIDE DEF next
        <4>5. s \in Seq(1 .. Stream) BY <4>4, TableIsList
        <4> QED BY <4>2, <4>5
      <3> HIDE DEF next
      <3>4. delivered' \in Seq(1 .. Stream) BY <2>3, <3>1, <3>3, ConcatProperties
      <3>5. firstReceived' \in SerialNumber
        <4>1. PICK s : s = Advance(firstReceived, k) OBVIOUS
        <4>2. k \in Int /\ 0 \in Int BY <3>2
        <4>3. s \in SerialNumber BY <2>3, <4>1, <4>2, AdvanceType
        <4> QED BY <3>1, <4>1, <4>2, <4>3, AdvanceType
      <3>6. /\ DOMAIN cachedReceived' \subseteq SerialNumber
            /\ \A s \in DOMAIN cachedReceived' : cachedReceived'[s] \in 1 .. Stream
        BY <2>3, <3>1 DEF Restrict
      <3> QED BY <1>2, <2>2, <3>4, <3>5, <3>6 DEF ReceiverTypes, WindowTypes
    <2>5. CASE CacheReceived(sn, data)
      <3>1. /\ UNCHANGED <<firstReceived, delivered>>
            /\ DOMAIN cachedReceived' = DOMAIN cachedReceived \cup {sn}
            /\ \A s \in DOMAIN cachedReceived' :
                 cachedReceived'[s] = IF s = sn THEN data ELSE cachedReceived[s]
        BY <2>5 DEF CacheReceived
      <3> QED BY <1>2, <2>2, <2>3, <3>1 DEF ReceiverTypes, WindowTypes
    <2> QED BY <2>1, <2>4, <2>5
  <1> QED BY <1>3, <1>4

(* A packet that arrives keeps the types, as does the answer to it.        *)
LEMMA DataKeepsTypes ==
  ASSUME TransferTypes, NEW i \in DOMAIN toPeer, DeliverData(i)
  PROVE  TransferTypes'
  <1>1. /\ SenderTypes /\ QueueTypes /\ ControlTypes /\ ReceiverTypes
        /\ toSender \in Seq(Answers \cup Reports) /\ toPeer \in Seq(DataPacket)
    BY DEF TransferTypes, SenderTypes, QueueTypes
  <1>2. PICK p \in DataPacket : p = toPeer[i] BY <1>1, LenProperties, ElementOfSeq
  <1>3. p.sn \in SerialNumber /\ p.data \in 1 .. Stream BY AnyPacketFields
  <1>4. /\ toPeer' = RemoveAt(toPeer, i) \/ UNCHANGED toPeer
        /\ ReceivePacket(p.sn, p.data)
        /\ toSender' = Written(toSender, DroppedReply(p.sn))
        /\ UNCHANGED <<created, firstWaiting, sendWindow, toBeSent, waitingForACK, sentPackets,
                       lostSender, LSSN, EXPCOUNT, flushScheduled, freeSendBuffer>>
    BY <1>2 DEF DeliverData, AfterDelivery
  <1>5. ReceiverTypes' BY <1>1, <1>3, <1>4, ReceiveTypes
  <1>6. toPeer' \in Seq(DataPacket)
    <2>1. i \in 1 .. Len(toPeer) BY <1>1, LenProperties
    <2> QED BY <1>1, <1>4, <2>1, RemoveAtEntries
  <1>7. SenderTypes' BY <1>1, <1>4, <1>6 DEF SenderTypes, QueueTypes, ControlTypes
  <1>8. toSender' \in Seq(Answers \cup Reports)
    <2>1. PICK m : m = [type |-> "PacketDropped", first |-> firstReceived] OBVIOUS
    <2>2. m \in Answers BY <1>1, <2>1 DEF Answers, ReceiverTypes, WindowTypes
    <2>3. DroppedReply(p.sn) \in {<<>>, <<m>>} BY <2>1 DEF DroppedReply
    <2>4. <<>> \in Seq(Answers \cup Reports) /\ <<m>> \in Seq(Answers \cup Reports) BY <2>2
    <2> QED BY <1>1, <1>4, <2>3, <2>4, WrittenEntries
  <1> QED BY <1>5, <1>7, <1>8 DEF TransferTypes, Answers, Reports

-----------------------------------------------------------------------------
(* What the peer reads from a report are serial numbers: they lie between  *)
(* two of those that were reported (packLostPacket, getLostPackets...).    *)
LEMMA ReportType ==
  ASSUME WindowTypes, NEW R \in LossReports
  PROVE  NACKMessage(R) \in Reports
  <1>1. MaxSN \in Nat /\ lostReceiver \subseteq SerialNumber
    BY SerialNumberAssumption DEF WindowTypes
  <1>2. PICK S \in SUBSET lostReceiver : R \in SetToSeqs(S)
    BY DEF LossReports, SetToAllKPermutations
  <1>3. Cardinality(S) \in Nat
    <2>1. IsFiniteSet(1 .. MaxSN) BY <1>1, FS_Interval
    <2>2. IsFiniteSet(S) BY <1>1, <1>2, <2>1, FS_Subset DEF SerialNumber
    <2> QED BY <2>2, FS_CardinalityType
  <1>4. R \in Seq(SerialNumber)
    <2>1. R \in [1 .. Cardinality(S) -> SerialNumber] BY <1>1, <1>2 DEF SetToSeqs
    <2> QED BY <1>3, <2>1
  <1>5. SerialNumber \subseteq Int BY <1>1 DEF SerialNumber
  <1>6. R \in Seq(Int) /\ Len(R) \in Nat /\ \A k \in 1 .. Len(R) : R[k] \in SerialNumber
    BY <1>4, <1>5, SeqMonotonic, LenProperties, ElementOfSeq
  <1>7. Decoded(Encoded(R)) \in Seq(SerialNumber)
    <2>1. CASE Len(R) = 0
      <3>1. R = <<>> BY <1>6, <2>1, EmptySeq
      <3>2. <<>> \in Seq(SerialNumber) OBVIOUS
      <3> QED BY <3>1, <3>2, EmptyReport
    <2>2. CASE Len(R) > 0
      <3> DEFINE D == Decoded(Encoded(R))
      <3>1. D \in Seq(Int) /\ \A x \in 1 .. Len(D) : Within(R, Len(R), D[x])
        BY <1>6, <2>2, DecodedWithin
      <3> HIDE DEF D
      <3>2. ASSUME NEW x \in 1 .. Len(D) PROVE D[x] \in SerialNumber
        <4>1. PICK k \in 1 .. Len(R), l \in 1 .. Len(R) : R[k] <= D[x] /\ D[x] <= R[l]
          BY <3>1 DEF Within
        <4>2. D[x] \in Int BY <3>1, ElementOfSeq
        <4>3. R[k] \in 1 .. MaxSN /\ R[l] \in 1 .. MaxSN BY <1>6 DEF SerialNumber
        <4> QED BY <1>1, <4>1, <4>2, <4>3 DEF SerialNumber
      <3>3. D = [x \in 1 .. Len(D) |-> D[x]] /\ Len(D) \in Nat BY <3>1, LenProperties
      <3>4. D \in Seq(SerialNumber) BY <3>2, <3>3
      <3> QED BY <3>4 DEF D
    <2> QED BY <1>6, <2>1, <2>2
  <1> QED BY <1>7 DEF NACKMessage, Reports

(* sendACKTimerTimeout and sendNACKTimerTimeout keep the types.            *)
LEMMA TimersKeepTypes ==
  ASSUME TransferTypes, ACKTimer \/ NACKTimer
  PROVE  TransferTypes'
  <1>1. /\ SenderTypes /\ WindowTypes /\ TimerTypes /\ toSender \in Seq(Answers \cup Reports)
    BY DEF TransferTypes, ReceiverTypes
  <1>2. SenderTypes'
    BY <1>1 DEF ACKTimer, NACKTimer, ReceiverStep, senderVars, queueVars,
                SenderTypes, QueueTypes, ControlTypes
  <1>3. WindowTypes' /\ UNCHANGED windowVars
    <2>1. UNCHANGED windowVars
      BY DEF ACKTimer, NACKTimer, SendACK, IdleACKTick, SendNACK, receiverVars
    <2> QED BY <1>1, <2>1 DEF windowVars, WindowTypes
  <1>4. ASSUME NEW m \in Answers \cup Reports, toSender' = Written(toSender, <<m>>)
        PROVE  toSender' \in Seq(Answers \cup Reports)
    <2>1. <<m>> \in Seq(Answers \cup Reports) OBVIOUS
    <2> QED BY <1>1, <1>4, <2>1, WrittenEntries
  <1>5. CASE SendACK /\ toSender' = Written(toSender, <<ACKMessage>>)
    <2>1. ACKMessage \in Answers BY <1>1 DEF ACKMessage, Answers, WindowTypes
    <2>2. toSender' \in Seq(Answers \cup Reports) BY <1>4, <1>5, <2>1
    <2>3. /\ idleTicks' = 0 /\ lastAck' = firstReceived /\ lastAckLRSN' = LRSN
          /\ UNCHANGED <<receivedAny, feedbackTimers>>
      BY <1>5 DEF SendACK
    <2>4. firstReceived \in 0 .. MaxSN /\ LRSN \in 0 .. MaxSN /\ 0 \in 0 .. MaxIdleTicks
      BY <1>1, SerialNumberAssumption, IdleAssumption DEF WindowTypes, SerialNumber
    <2>5. TimerTypes' BY <1>1, <2>3, <2>4 DEF TimerTypes
    <2> QED BY <1>2, <1>3, <2>2, <2>5 DEF TransferTypes, ReceiverTypes, Answers, Reports
  <1>6. CASE IdleACKTick /\ UNCHANGED toSender
    <2>1. /\ UNCHANGED <<receivedAny, lastAck, lastAckLRSN>>
          /\ feedbackTimers' \in BOOLEAN
          /\ idleTicks' = IF idleTicks < MaxIdleTicks THEN idleTicks + 1 ELSE idleTicks
      BY <1>6 DEF IdleACKTick
    <2>2. idleTicks' \in 0 .. MaxIdleTicks BY <1>1, <2>1, IdleAssumption DEF TimerTypes
    <2>3. TimerTypes' BY <1>1, <2>1, <2>2 DEF TimerTypes
    <2> QED BY <1>1, <1>2, <1>3, <1>6, <2>3 DEF TransferTypes, ReceiverTypes, Answers, Reports
  <1>7. CASE NACKTimer
    <2>1. PICK report \in LossReports :
            SendNACK /\ toSender' = Written(toSender, <<NACKMessage(report)>>)
      BY <1>7 DEF NACKTimer
    <2>2. toSender' \in Seq(Answers \cup Reports) BY <1>1, <1>4, <2>1, ReportType
    <2>3. TimerTypes' BY <1>1, <2>1 DEF SendNACK, receiverVars, timerVars, TimerTypes
    <2> QED BY <1>2, <1>3, <2>2, <2>3 DEF TransferTypes, ReceiverTypes, Answers, Reports
  <1> QED BY <1>5, <1>6, <1>7 DEF ACKTimer

(* A lost datagram keeps the types.                                        *)
LEMMA LossKeepsTypes ==
  ASSUME TransferTypes, Lose \/ UNCHANGED vars
  PROVE  TransferTypes'
  <1>1. /\ SenderTypes /\ QueueTypes /\ ReceiverTypes /\ toSender \in Seq(Answers \cup Reports)
    BY DEF TransferTypes, SenderTypes
  <1>2. /\ UNCHANGED <<created, firstWaiting, sendWindow, toBeSent, waitingForACK, sentPackets,
                       lostSender, LSSN, EXPCOUNT, flushScheduled, freeSendBuffer>>
        /\ UNCHANGED receiverVars
        /\ \/ UNCHANGED toPeer
           \/ \E k \in DOMAIN toPeer : toPeer' = RemoveAt(toPeer, k)
        /\ \/ UNCHANGED toSender
           \/ \E k \in DOMAIN toSender : toSender' = RemoveAt(toSender, k)
    BY DEF Lose, vars, senderVars, queueVars
  <1>3. toPeer' \in Seq(DataPacket)
    <2>1. toPeer \in Seq(DataPacket) BY <1>1 DEF QueueTypes
    <2>2. DOMAIN toPeer = 1 .. Len(toPeer) BY <2>1, LenProperties
    <2> QED BY <1>2, <2>1, <2>2, RemoveAtEntries
  <1>4. toSender' \in Seq(Answers \cup Reports)
    <2>1. DOMAIN toSender = 1 .. Len(toSender) BY <1>1, LenProperties
    <2> QED BY <1>1, <1>2, <2>1, RemoveAtEntries
  <1>5. SenderTypes' BY <1>1, <1>2, <1>3 DEF SenderTypes, QueueTypes, ControlTypes
  <1>6. ReceiverTypes'
    BY <1>1, <1>2 DEF receiverVars, windowVars, timerVars, ReceiverTypes, WindowTypes, TimerTypes
  <1> QED BY <1>4, <1>5, <1>6 DEF TransferTypes, Answers, Reports

(* The start of a connection.                                              *)
LEMMA TypesStart == ASSUME Init PROVE TransferTypes
  <1>1. SenderInit /\ ReceiverInit /\ toSender = <<>> BY DEF Init
  <1>2. ReceiverTypes BY <1>1, ReceiverStarts DEF WindowInvariant
  <1>3. <<>> \in Seq(SerialNumber) /\ <<>> \in Seq(DataPacket) /\ <<>> \in Seq(Answers \cup Reports)
    OBVIOUS
  <1>4. DOMAIN toBeSent = {} /\ DOMAIN sentPackets = {} BY <1>1 DEF SenderInit, NoPackets
  <1>5. QueueTypes BY <1>1, <1>3, <1>4, SerialNumberAssumption DEF SenderInit, QueueTypes
  <1>6. /\ 1 \in SerialNumber /\ MinWindow \in MinWindow .. MaxWindow /\ 0 \in 0 .. Stream
        /\ 0 \in 0 .. MaxEXP /\ SendBuffer \in Nat
    BY SenderAssumption, SerialNumberAssumption, StreamAssumption DEF SerialNumber
  <1>7. ControlTypes BY <1>1, <1>3, <1>6 DEF SenderInit, ControlTypes
  <1> QED BY <1>1, <1>2, <1>3, <1>5, <1>7 DEF TransferTypes, SenderTypes

(* In lists and tables of these types every variable keeps to its range.   *)
LEMMA TypesSuffice == ASSUME TransferTypes PROVE TypeOK
  <1>1. /\ QueueTypes /\ ControlTypes /\ WindowTypes /\ TimerTypes
        /\ toSender \in Seq(Answers \cup Reports)
    BY DEF TransferTypes, SenderTypes, ReceiverTypes
  <1>2. ASSUME NEW S, NEW s \in Seq(S) PROVE IsSeqOf(s, S)
    <2>1. \A i \in DOMAIN s : s[i] \in S BY ElementOfSeq, LenProperties
    <2> QED BY <2>1 DEF IsSeqOf, ToSet
  <1>3. /\ IsSeqOf(waitingForACK, SerialNumber) /\ IsSeqOf(lostSender, SerialNumber)
        /\ IsSeqOf(delivered, 1 .. Stream) /\ IsSeqOf(toPeer, DataPacket)
    BY <1>1, <1>2 DEF QueueTypes, ControlTypes, WindowTypes
  <1>4. \A i \in DOMAIN toSender : IsFeedback(toSender[i])
    <2> TAKE i \in DOMAIN toSender
    <2>1. PICK m \in Answers \cup Reports : m = toSender[i]
      BY <1>1, LenProperties, ElementOfSeq
    <2>2. CASE m \in Answers BY <2>1, <2>2 DEF Answers, IsFeedback
    <2>3. CASE m \in Reports
      <3>1. m.type = "NACK" /\ m.lost \in Seq(SerialNumber) BY <2>3 DEF Reports
      <3>2. IsSeqOf(m.lost, SerialNumber) BY <1>2, <3>1
      <3> QED BY <2>1, <3>1, <3>2 DEF IsFeedback
    <2> QED BY <2>2, <2>3
  <1>5. DOMAIN toBeSent \subseteq SerialNumber /\ Range(toBeSent) \subseteq 0 .. Stream
    <2>1. \A sn \in DOMAIN toBeSent : sn \in SerialNumber /\ toBeSent[sn] \in 0 .. Stream
      BY <1>1, AnyPacketFields, PacketFields DEF QueueTypes
    <2> QED BY <2>1 DEF Range
  <1>6. DOMAIN sentPackets \subseteq SerialNumber /\ Range(sentPackets) \subseteq 1 .. Stream
    <2>1. \A sn \in DOMAIN sentPackets : sn \in SerialNumber /\ sentPackets[sn] \in 1 .. Stream
      BY <1>1, AnyPacketFields, PacketFields DEF QueueTypes
    <2> QED BY <2>1 DEF Range
  <1>7. /\ DOMAIN cachedReceived \subseteq SerialNumber
        /\ Range(cachedReceived) \subseteq 1 .. Stream
    BY <1>1 DEF WindowTypes, Range
  <1>8. {LSSN, LRSN, lastAck, lastAckLRSN} \subseteq 0 .. MaxSN
    BY <1>1 DEF QueueTypes, WindowTypes, TimerTypes
  <1>9. /\ created \in 0 .. Stream /\ {firstWaiting, firstReceived} \subseteq SerialNumber
        /\ sendWindow \in MinWindow .. MaxWindow /\ EXPCOUNT \in 0 .. MaxEXP
        /\ freeSendBuffer \in Nat
        /\ {flushScheduled, receivedAny, feedbackTimers} \subseteq BOOLEAN
        /\ lostReceiver \subseteq SerialNumber /\ idleTicks \in 0 .. MaxIdleTicks
    BY <1>1 DEF ControlTypes, WindowTypes, TimerTypes
  <1> QED BY <1>3, <1>4, <1>5, <1>6, <1>7, <1>8, <1>9 DEF TypeOK

(* No hypothesis on the stream or the network: whatever is lost, copied or *)
(* overtaken, however often the serial numbers come round, the handlers of *)
(* both halves keep every variable and every message within its range.     *)
THEOREM TypesKept == Spec => []TypeOK
  <1>1. Init => TransferTypes BY TypesStart
  <1>2. TransferTypes /\ [Next]_vars => TransferTypes'
    <2> SUFFICES ASSUME TransferTypes, [Next]_vars PROVE TransferTypes'
      OBVIOUS
    <2>1. CASE Send \/ SendControl \/ Retransmission \/ Flush BY <2>1, SenderKeepsTypes
    <2>2. ASSUME NEW i \in DOMAIN toPeer, DeliverData(i) PROVE TransferTypes'
      BY <2>2, DataKeepsTypes
    <2>3. ASSUME NEW i \in DOMAIN toSender, DeliverFeedback(i) PROVE TransferTypes'
      BY <2>3, FeedbackKeepsTypes
    <2>4. CASE ACKTimer \/ NACKTimer BY <2>4, TimersKeepTypes
    <2>5. CASE Lose \/ UNCHANGED vars BY <2>5, LossKeepsTypes
    <2> QED BY <2>1, <2>2, <2>3, <2>4, <2>5 DEF Next
  <1>3. TransferTypes => TypeOK BY TypesSuffice
  <1> QED BY <1>1, <1>2, <1>3, PTL DEF Spec

-----------------------------------------------------------------------------
(* The network that loses few datagrams and has room is one of these       *)

(* Whatever RUDPTransferLive does is a behaviour of RUDPTransfer: bounding *)
(* the losses, the room and the fairness only leave behaviours out.        *)
LEMMA LiveIsTransfer == LiveSpec => Spec
  <1>1. LiveInit => Init BY DEF LiveInit
  <1>2. [LiveNext]_liveVars => [Next]_vars
    <2> SUFFICES ASSUME [LiveNext]_liveVars PROVE [Next]_vars
      OBVIOUS
    <2>1. CASE LiveNext
      <3>1. \/ Lose \/ Send \/ Retransmission \/ Flush \/ ACKTimer \/ NACKTimer
            \/ DeliverSomeData \/ DeliverSomeFeedback
        BY <2>1 DEF LiveNext, BoundedLose, WithRoom, Arrival
      <3> QED BY <3>1 DEF Next, DeliverSomeData, DeliverSomeFeedback
    <2>2. CASE UNCHANGED liveVars BY <2>2 DEF liveVars
    <2> QED BY <2>1, <2>2
  <1> QED BY <1>1, <1>2, PTL DEF LiveSpec, Spec

(* In the system whose liveness is checked the channel is a reliable       *)
(* stream, on either of the hypotheses above: the safety side of           *)
(* AllDelivered.                                                           *)
THEOREM LiveIsReliable ==
  ASSUME Orderly \/ OneTurn
  PROVE  LiveSpec => RefinesReliableStream /\ []DatagramsTimely /\ []TypeOK
  <1>1. Spec => RefinesReliableStream /\ []DatagramsTimely
    <2>1. CASE Orderly
      <3>1. Spec => RefinesReliableStream BY <2>1, ChannelIsReliable
      <3>2. Spec => []DatagramsTimely BY <2>1, DatagramsStayTimely
      <3> QED BY <3>1, <3>2
    <2>2. CASE OneTurn
      <3>1. Spec => RefinesReliableStream BY <2>2, AnyNetworkIsSafe
      <3>2. Spec => []DatagramsTimely BY <2>2, EarlyDatagramsTimely
      <3> QED BY <3>1, <3>2
    <2> QED BY <2>1, <2>2
  <1> QED BY <1>1, LiveIsTransfer, TypesKept, PTL
=============================================================================

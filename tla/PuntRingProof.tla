--------------------------- MODULE PuntRingProof ---------------------------
(***************************************************************************)
(* Why a punt ring is a bounded queue, for any number of slots, size of    *)
(* packets and width of the registers that the slots divide.               *)
(***************************************************************************)
EXTENDS PuntRing, SequenceTheorems, TLAPS

-----------------------------------------------------------------------------
(* Registers.                                                              *)

(* The distance between two register values.                               *)
LEMMA Distance ==
    ASSUME NEW a \in Ptr, NEW b \in Ptr
    PROVE  /\ (a - b) % PtrMod = IF a >= b THEN a - b ELSE a - b + PtrMod
           /\ (a - b) % PtrMod \in Ptr
<1>1. PtrMod \in Nat \ {0} /\ a \in 0 .. PtrMod - 1 /\ b \in 0 .. PtrMod - 1
    BY RingAssumption DEF Ptr
<1>2. CASE a >= b
    BY <1>1, <1>2 DEF Ptr
<1>3. CASE a < b
    BY <1>1, <1>3 DEF Ptr
<1> QED
    BY <1>1, <1>2, <1>3

(* A register k places on.                                                 *)
LEMMA Advanced ==
    ASSUME NEW a \in Ptr, NEW k \in 0 .. PtrMod
    PROVE  /\ (a + k) % PtrMod = IF a + k < PtrMod THEN a + k ELSE a + k - PtrMod
           /\ (a + k) % PtrMod \in Ptr
<1>1. PtrMod \in Nat \ {0} /\ a \in 0 .. PtrMod - 1
    BY RingAssumption DEF Ptr
<1>2. CASE a + k < PtrMod
    BY <1>1, <1>2 DEF Ptr
<1>3. CASE a + k >= PtrMod
    BY <1>1, <1>3 DEF Ptr
<1> QED
    BY <1>1, <1>2, <1>3

(* No multiple of the number of slots lies strictly between 0 and it.      *)
LEMMA NoMultipleBetween ==
    ASSUME NEW s \in Nat \ {0}, NEW t \in Int, NEW d \in 1 .. s - 1
    PROVE  d # s * t
<1>1. CASE t <= 0
  <2>1. s * t <= 0
    BY <1>1
  <2> QED
    BY <2>1
<1>2. CASE t >= 1
  <2>1. s * t >= s
    BY <1>2
  <2> QED
    BY <2>1
<1> QED
    BY <1>1, <1>2

(* Two numbers with one remainder differ by a multiple.                    *)
LEMMA SameRemainder ==
    ASSUME NEW s \in Nat \ {0}, NEW x \in Nat, NEW y \in Nat, x % s = y % s
    PROVE  \E t \in Int : x - y = s * t
<1>1. x = s * (x \div s) + (x % s) /\ y = s * (y \div s) + (y % s)
    OBVIOUS
<1>2. x \div s \in Int /\ y \div s \in Int /\ x % s \in Int /\ y % s \in Int
    OBVIOUS
<1> DEFINE t == (x \div s) - (y \div s)
<1>3. t \in Int /\ x - y = s * t
    BY <1>1, <1>2
<1> QED
    BY <1>3

(* Register values less than a ring apart name different slots, although   *)
(* the register wraps between them.                                        *)
LEMMA SlotsDiffer ==
    ASSUME NEW a \in Ptr, NEW i \in 0 .. Slots, NEW j \in 0 .. Slots, i < j, j - i < Slots
    PROVE  ((a + i) % PtrMod) % Slots # ((a + j) % PtrMod) % Slots
<1> DEFINE x == (a + i) % PtrMod
           y == (a + j) % PtrMod
<1>1. Slots \in Nat \ {0} /\ PtrMod \in Nat /\ PtrMod >= 2 * Slots /\ PtrMod % Slots = 0
      /\ a \in 0 .. PtrMod - 1
    BY RingAssumption DEF Ptr
<1>2. i \in 0 .. PtrMod /\ j \in 0 .. PtrMod
    BY <1>1
<1>3. /\ x = IF a + i < PtrMod THEN a + i ELSE a + i - PtrMod
      /\ y = IF a + j < PtrMod THEN a + j ELSE a + j - PtrMod
      /\ x \in Ptr /\ y \in Ptr
    BY <1>2, Advanced
<1>4. PICK m \in Int : PtrMod = Slots * m
  <2>1. PtrMod = Slots * (PtrMod \div Slots) + (PtrMod % Slots)
    BY <1>1
  <2>2. PtrMod \div Slots \in Int /\ PtrMod = Slots * (PtrMod \div Slots)
    BY <1>1, <2>1
  <2> QED
    BY <2>2
<1> HIDE DEF x, y
<1>5. ASSUME x % Slots = y % Slots PROVE FALSE
  <2>1. x \in Nat /\ y \in Nat
    BY <1>1, <1>3 DEF Ptr
  <2>2. PICK t \in Int : x - y = Slots * t
    BY <1>1, <1>5, <2>1, SameRemainder
  <2>3. j - i \in 1 .. Slots - 1
    BY <1>1
  <2>4. CASE y = a + j
    <3>1. x = a + i
        BY <1>1, <1>3, <2>4
    <3>2. j - i = Slots * (0 - t) /\ 0 - t \in Int
        BY <1>1, <2>2, <2>4, <3>1
    <3> QED
        BY <1>1, <2>3, <3>2, NoMultipleBetween
  <2>5. CASE y # a + j /\ x = a + i
    <3>1. y = a + j - PtrMod
        BY <1>3, <2>5
    <3>2. j - i = PtrMod - Slots * t
        BY <1>1, <2>1, <2>2, <2>5, <3>1
    <3>3. j - i = Slots * (m - t) /\ m - t \in Int
        BY <1>1, <1>4, <3>2
    <3> QED
        BY <1>1, <2>3, <3>3, NoMultipleBetween
  <2>6. CASE y # a + j /\ x # a + i
    <3>1. y = a + j - PtrMod /\ x = a + i - PtrMod
        BY <1>3, <2>6
    <3>2. j - i = Slots * (0 - t) /\ 0 - t \in Int
        BY <1>1, <2>2, <3>1
    <3> QED
        BY <1>1, <2>3, <3>2, NoMultipleBetween
  <2> QED
    BY <2>4, <2>5, <2>6
<1> QED
    BY <1>5 DEF x, y

(* The distance grows by one as the producer advances, and shrinks by one  *)
(* as the consumer does.                                                   *)
LEMMA DistanceGrows ==
    ASSUME NEW a \in Ptr, NEW b \in Ptr, (a - b) % PtrMod < Slots
    PROVE  /\ (a + 1) % PtrMod \in Ptr
           /\ (((a + 1) % PtrMod) - b) % PtrMod = ((a - b) % PtrMod) + 1
<1> DEFINE n == (a + 1) % PtrMod
           d == (a - b) % PtrMod
           e == (n - b) % PtrMod
<1>1. /\ PtrMod \in Nat \ {0} /\ Slots \in Nat \ {0} /\ PtrMod >= 2 * Slots
      /\ a \in 0 .. PtrMod - 1 /\ b \in 0 .. PtrMod - 1 /\ 1 \in 0 .. PtrMod
    BY RingAssumption DEF Ptr
<1>2. n = (IF a + 1 < PtrMod THEN a + 1 ELSE a + 1 - PtrMod) /\ n \in Ptr
    BY <1>1, Advanced
<1>3. d = (IF a >= b THEN a - b ELSE a - b + PtrMod) /\ d < Slots
    BY Distance
<1> HIDE DEF n, d
<1>4. e = IF n >= b THEN n - b ELSE n - b + PtrMod
    BY <1>2, Distance
<1> HIDE DEF e
<1>5. e = d + 1
    BY <1>1, <1>2, <1>3, <1>4 DEF Ptr
<1> QED
    BY <1>2, <1>5 DEF n, d, e

LEMMA DistanceShrinks ==
    ASSUME NEW a \in Ptr, NEW b \in Ptr, a # b
    PROVE  /\ (b + 1) % PtrMod \in Ptr
           /\ (a - ((b + 1) % PtrMod)) % PtrMod = ((a - b) % PtrMod) - 1
<1> DEFINE n == (b + 1) % PtrMod
           d == (a - b) % PtrMod
           e == (a - n) % PtrMod
<1>1. /\ PtrMod \in Nat \ {0} /\ a \in 0 .. PtrMod - 1 /\ b \in 0 .. PtrMod - 1
      /\ 1 \in 0 .. PtrMod
    BY RingAssumption DEF Ptr
<1>2. n = (IF b + 1 < PtrMod THEN b + 1 ELSE b + 1 - PtrMod) /\ n \in Ptr
    BY <1>1, Advanced
<1>3. d = IF a >= b THEN a - b ELSE a - b + PtrMod
    BY Distance
<1> HIDE DEF n, d
<1>4. e = IF a >= n THEN a - n ELSE a - n + PtrMod
    BY <1>2, Distance
<1> HIDE DEF e
<1>5. e = d - 1
    BY <1>1, <1>2, <1>3, <1>4 DEF Ptr
<1> QED
    BY <1>2, <1>5 DEF n, d, e

(* The place behind the last packet is where the producer stands.          *)
LEMMA EndOfRing ==
    ASSUME NEW a \in Ptr, NEW b \in Ptr
    PROVE  (b + ((a - b) % PtrMod)) % PtrMod = a
<1> DEFINE d == (a - b) % PtrMod
<1>1. PtrMod \in Nat \ {0} /\ a \in 0 .. PtrMod - 1 /\ b \in 0 .. PtrMod - 1
    BY RingAssumption DEF Ptr
<1>2. d = (IF a >= b THEN a - b ELSE a - b + PtrMod) /\ d \in Ptr
    BY Distance
<1> HIDE DEF d
<1>3. d \in 0 .. PtrMod
    BY <1>1, <1>2 DEF Ptr
<1>4. (b + d) % PtrMod = IF b + d < PtrMod THEN b + d ELSE b + d - PtrMod
    BY <1>3, Advanced
<1> DEFINE x == (b + d) % PtrMod
<1> HIDE DEF x
<1>5. x = IF b + d < PtrMod THEN b + d ELSE b + d - PtrMod
    BY <1>4 DEF x
<1>6. x = a
    BY <1>1, <1>2, <1>5 DEF Ptr
<1> QED
    BY <1>6 DEF d, x

(* The places after the next.                                              *)
LEMMA NextPlaces ==
    ASSUME NEW b \in Ptr, NEW i \in 1 .. Slots
    PROVE  (((b + 1) % PtrMod) + i - 1) % PtrMod = (b + i) % PtrMod
<1> DEFINE n == (b + 1) % PtrMod
           k == i - 1
<1>1. /\ PtrMod \in Nat \ {0} /\ Slots \in Nat \ {0} /\ PtrMod >= 2 * Slots
      /\ b \in 0 .. PtrMod - 1 /\ 1 \in 0 .. PtrMod /\ i \in 0 .. PtrMod
      /\ k \in 0 .. PtrMod /\ k = i - 1
    BY RingAssumption DEF Ptr
<1>2. n = (IF b + 1 < PtrMod THEN b + 1 ELSE b + 1 - PtrMod) /\ n \in Ptr
    BY <1>1, Advanced
<1> HIDE DEF n, k
<1>3. (n + k) % PtrMod = IF n + k < PtrMod THEN n + k ELSE n + k - PtrMod
    BY <1>1, <1>2, Advanced
<1>4. (b + i) % PtrMod = IF b + i < PtrMod THEN b + i ELSE b + i - PtrMod
    BY <1>1, Advanced
<1> DEFINE x == (n + k) % PtrMod
           y == (b + i) % PtrMod
<1> HIDE DEF x, y
<1>5. /\ x = IF n + k < PtrMod THEN n + k ELSE n + k - PtrMod
      /\ y = IF b + i < PtrMod THEN b + i ELSE b + i - PtrMod
    BY <1>3, <1>4 DEF x, y
<1>6. x = y
    BY <1>1, <1>2, <1>5 DEF Ptr
<1>7. n + i - 1 = n + k
    BY <1>1, <1>2 DEF Ptr
<1> QED
    BY <1>6, <1>7 DEF x, y, n

-----------------------------------------------------------------------------
(* Packets.                                                                *)

LEMMA PacketIsSeq ==
    \A p : p \in Packet <=> p \in Seq(Word) /\ Len(p) \in 1 .. MaxWords
<1>1. MaxWords \in Nat \ {0}
    BY RingAssumption
<1>2. ASSUME NEW p \in Packet PROVE p \in Seq(Word) /\ Len(p) \in 1 .. MaxWords
  <2>1. PICK n \in 1 .. MaxWords : p \in [1 .. n -> Word]
    BY DEF Packet
  <2>2. n \in Nat
    BY <1>1
  <2>3. p \in Seq(Word)
    BY <2>1, <2>2, SeqDef
  <2>4. Len(p) = n
    BY <2>1, <2>2, <2>3, LenProperties
  <2> QED
    BY <2>3, <2>4
<1>3. ASSUME NEW p \in Seq(Word), Len(p) \in 1 .. MaxWords PROVE p \in Packet
    BY <1>3, LenProperties DEF Packet
<1> QED
    BY <1>2, <1>3

(* What a slot holds, if its length is one a packet can have.              *)
LEMMA SlotHolds ==
    ASSUME TypeOK, NEW s \in Index, len[s] \in 1 .. MaxWords
    PROVE  /\ PacketIn(s) \in Packet /\ Len(PacketIn(s)) = len[s]
           /\ \A j \in 1 .. len[s] : PacketIn(s)[j] = data[s][j]
<1>1. MaxWords \in Nat \ {0} /\ data[s] \in [1 .. MaxWords -> Word]
    BY RingAssumption DEF TypeOK
<1>2. \A j \in 1 .. len[s] : data[s][j] \in Word
    BY <1>1
<1>3. PacketIn(s) \in [1 .. len[s] -> Word]
    BY <1>2 DEF PacketIn
<1>4. PacketIn(s) \in Packet
    BY <1>3 DEF Packet
<1>5. PacketIn(s) \in Seq(Word) /\ DOMAIN PacketIn(s) = 1 .. len[s]
    BY <1>3, <1>4, PacketIsSeq
<1>6. Len(PacketIn(s)) = len[s]
    BY <1>1, <1>5, LenProperties
<1> QED
    BY <1>4, <1>6 DEF PacketIn

-----------------------------------------------------------------------------
(* The inductive invariant.                                                *)

(* What the producer has read and written stays so while it sends: it      *)
(* alone moves prod, and the consumer only makes room.                     *)
ProducerInv ==
    /\ ppc \notin {"idle", "prod"} => myProd = prod
    /\ ppc # "idle" => pkt \in Packet
    /\ ppc \in {"desc", "words", "publish"} => Used < Slots
    /\ ppc \in {"words", "publish"} => /\ len[prod % Slots] = Len(pkt)
                                       /\ \A j \in 1 .. pw : data[prod % Slots][j] = pkt[j]
    /\ ppc = "words" => pw < Len(pkt)
    /\ ppc = "publish" => pw = Len(pkt)

(* What the consumer has seen is still there when it uses it: it alone     *)
(* moves cons, and the producer only adds.                                 *)
ConsumerInv ==
    /\ cpc = "cons" /\ seenProd # cons => prod # cons
    /\ cpc \in {"desc", "words", "publish"} => myCons = cons /\ prod # cons
    /\ cpc \in {"words", "publish"} =>
          /\ want = len[cons % Slots] /\ buf \in Seq(Word) /\ Len(buf) <= want
          /\ \A j \in 1 .. Len(buf) : buf[j] = data[cons % Slots][j]
    /\ cpc = "words" => Len(buf) < want
    /\ cpc = "publish" => Len(buf) = want

(* Every slot in use holds a packet.                                       *)
RingInv == Used <= Slots /\ \A i \in 1 .. Used : len[SlotAt(i)] \in 1 .. MaxWords

IInv == TypeOK /\ ProducerInv /\ ConsumerInv /\ RingInv

(* The packets in the ring, oldest first.                                  *)
Contents == [i \in 1 .. Used |-> PacketIn(SlotAt(i))]

(* The slots in use are not the one the producer writes.                   *)
LEMMA Apart ==
    ASSUME TypeOK, Used <= Slots
    PROVE  /\ Used \in Ptr /\ Used \in Nat /\ (Used = 0 <=> prod = cons)
           /\ prod % Slots \in Index /\ cons % Slots \in Index
           /\ \A i \in 1 .. Used : SlotAt(i) \in Index
           /\ \A i \in 1 .. Used : Used < Slots => SlotAt(i) # prod % Slots
           /\ prod # cons => 1 \in 1 .. Used /\ SlotAt(1) = cons % Slots
<1>1. /\ Slots \in Nat \ {0} /\ PtrMod \in Nat \ {0} /\ PtrMod >= 2 * Slots
      /\ prod \in Ptr /\ cons \in Ptr /\ prod \in Nat /\ cons \in Nat
    BY RingAssumption DEF TypeOK, Ptr
<1>2. /\ Used = (IF prod >= cons THEN prod - cons ELSE prod - cons + PtrMod)
      /\ Used \in Ptr
    BY <1>1, Distance DEF Used
<1>3. Used \in Nat /\ (Used = 0 <=> prod = cons)
    BY <1>1, <1>2 DEF Ptr
<1>4. \A r \in Nat : r % Slots \in Index
    BY <1>1 DEF Index
<1>5. prod % Slots \in Index /\ cons % Slots \in Index
    BY <1>1, <1>4
<1>6. (cons + Used) % PtrMod = prod
    BY <1>1, EndOfRing DEF Used
<1> HIDE DEF Used
<1>7. ASSUME NEW i \in 1 .. Used
      PROVE  SlotAt(i) \in Index /\ (Used < Slots => SlotAt(i) # prod % Slots)
  <2> DEFINE k == i - 1
  <2>1. k \in 0 .. Slots /\ Used \in 0 .. Slots /\ k < Used /\ Used - k <= Slots
        /\ k \in 0 .. PtrMod /\ (Used < Slots => Used - k < Slots) /\ k \in Int
    BY <1>1, <1>3
  <2>2. cons + i - 1 = cons + k
    BY <1>1, <1>3
  <2> HIDE DEF k
  <2>3. SlotAt(i) = ((cons + k) % PtrMod) % Slots
    BY <2>2 DEF SlotAt
  <2>4. (cons + k) % PtrMod \in Nat
    BY <1>1, <2>1, Advanced DEF Ptr
  <2>5. Used < Slots => SlotAt(i) # prod % Slots
    <3>1. Used < Slots =>
             ((cons + k) % PtrMod) % Slots # ((cons + Used) % PtrMod) % Slots
        BY <1>1, <2>1, SlotsDiffer
    <3> QED
        BY <1>6, <2>3, <3>1
  <2> QED
    BY <1>4, <2>3, <2>4, <2>5
<1>8. ASSUME prod # cons PROVE 1 \in 1 .. Used /\ SlotAt(1) = cons % Slots
  <2>1. 1 \in 1 .. Used
    BY <1>3, <1>8
  <2>2. cons + 1 - 1 = cons /\ cons % PtrMod = cons
    BY <1>1 DEF Ptr
  <2> QED
    BY <2>1, <2>2 DEF SlotAt
<1> QED
    BY <1>2, <1>3, <1>5, <1>7, <1>8

LEMMA ContentsType ==
    ASSUME TypeOK, RingInv
    PROVE  /\ Contents \in Seq(Packet) /\ Len(Contents) = Used
           /\ \A i \in 1 .. Used : Contents[i] = PacketIn(SlotAt(i))
<1>1. Used \in Nat /\ \A i \in 1 .. Used : SlotAt(i) \in Index
    BY Apart DEF RingInv
<1>2. \A i \in 1 .. Used : PacketIn(SlotAt(i)) \in Packet
    BY <1>1, SlotHolds DEF RingInv
<1>3. Contents \in [1 .. Used -> Packet]
    BY <1>2 DEF Contents
<1>4. Contents \in Seq(Packet) /\ DOMAIN Contents = 1 .. Used
    BY <1>1, <1>3, SeqDef
<1>5. Len(Contents) = Used
    BY <1>1, <1>4, LenProperties
<1> QED
    BY <1>4, <1>5 DEF Contents

(* A step that moves neither register and writes no slot in use keeps the  *)
(* contents.                                                               *)
LEMMA SameContents ==
    ASSUME IInv, UNCHANGED <<prod, cons>>,
           \A i \in 1 .. Used : /\ len'[SlotAt(i)] = len[SlotAt(i)]
                                /\ data'[SlotAt(i)] = data[SlotAt(i)]
    PROVE  RingInv' /\ Contents' = Contents /\ Used' = Used
<1>1. Used' = Used /\ \A i : SlotAt(i)' = SlotAt(i)
    BY DEF Used, SlotAt
<1>2. RingInv'
    BY <1>1 DEF IInv, RingInv
<1>3. \A i \in 1 .. Used : PacketIn(SlotAt(i))' = PacketIn(SlotAt(i))
    BY <1>1 DEF PacketIn
<1>4. Contents' = Contents
    BY <1>1, <1>3 DEF Contents
<1> QED
    BY <1>1, <1>2, <1>4

-----------------------------------------------------------------------------
(* Steps that change neither the ring nor the last packet received.        *)

LEMMA ProducerQuiet ==
    ASSUME IInv, (\E p \in Packet : Send(p)) \/ ReadProd \/ CheckFull
    PROVE  IInv' /\ Contents' = Contents /\ out' = out
<1>1. TypeOK /\ ProducerInv /\ ConsumerInv /\ RingInv
    BY DEF IInv
<1>2. UNCHANGED <<prod, cons, len, data, cpc, seenProd, myCons, want, buf, out, pw>>
    BY DEF Send, ReadProd, CheckFull, ring, consumer
<1>3. RingInv' /\ Contents' = Contents /\ Used' = Used
    BY <1>2, SameContents
<1>4. ConsumerInv'
    BY <1>1, <1>2 DEF ConsumerInv
<1>5. TypeOK' /\ ProducerInv'
  <2>1. CASE \E p \in Packet : Send(p)
    BY <1>1, <1>2, <2>1 DEF Send, TypeOK, ProducerInv
  <2>2. CASE ReadProd
    BY <1>1, <1>2, <2>2 DEF ReadProd, TypeOK, ProducerInv
  <2>3. CASE CheckFull
    <3>1. myProd = prod /\ pkt \in Packet /\ ppc = "cons"
        BY <1>1, <2>3 DEF CheckFull, ProducerInv
    <3>2. myProd' = myProd /\ \/ Used >= Slots /\ ppc' = "idle" /\ pkt' = Nothing
                              \/ Used < Slots /\ ppc' = "desc" /\ pkt' = pkt
        BY <2>3, <3>1 DEF CheckFull, Used
    <3>3. TypeOK'
        BY <1>1, <1>2, <3>2 DEF TypeOK
    <3>4. ProducerInv'
        BY <1>2, <1>3, <3>1, <3>2 DEF ProducerInv
    <3> QED
        BY <3>3, <3>4
  <2> QED
    BY <2>1, <2>2, <2>3
<1> QED
    BY <1>2, <1>3, <1>4, <1>5 DEF IInv

LEMMA ConsumerQuiet ==
    ASSUME IInv, PollProd \/ CheckEmpty \/ ReadDesc \/ ReadWord
    PROVE  IInv' /\ Contents' = Contents /\ out' = out
<1>1. TypeOK /\ ProducerInv /\ ConsumerInv /\ RingInv
    BY DEF IInv
<1>2. UNCHANGED <<prod, cons, len, data, ppc, pkt, myProd, pw, out>>
    BY DEF PollProd, CheckEmpty, ReadDesc, ReadWord, ring, producer
<1>3. RingInv' /\ Contents' = Contents /\ Used' = Used
    BY <1>2, SameContents
<1>4. ProducerInv'
    BY <1>1, <1>2, <1>3 DEF ProducerInv
<1>5. TypeOK' /\ ConsumerInv'
  <2>1. CASE PollProd
    BY <1>1, <1>2, <2>1 DEF PollProd, TypeOK, ConsumerInv
  <2>2. CASE CheckEmpty
    BY <1>1, <1>2, <2>2 DEF CheckEmpty, TypeOK, ConsumerInv
  <2>3. CASE ReadDesc
    <3>1. myCons = cons /\ prod # cons /\ cpc = "desc"
        BY <1>1, <2>3 DEF ReadDesc, ConsumerInv
    <3>2. len[cons % Slots] \in 1 .. MaxWords
        BY <1>1, <3>1, Apart DEF RingInv
    <3>3. cpc' = "words" /\ want' = len[cons % Slots] /\ buf' = <<>>
          /\ UNCHANGED <<seenProd, myCons>>
        BY <2>3, <3>1 DEF ReadDesc
    <3>4. <<>> \in Seq(Word) /\ Len(<<>>) = 0 /\ MaxWords \in Nat
        BY RingAssumption
    <3>5. TypeOK'
        BY <1>1, <1>2, <3>2, <3>3, <3>4 DEF TypeOK
    <3>6. Len(buf') = 0 /\ want' \in Nat /\ want' > 0 /\ buf' \in Seq(Word)
        BY <3>2, <3>3, <3>4
    <3>7. ConsumerInv'
        BY <1>2, <3>1, <3>3, <3>6 DEF ConsumerInv
    <3> QED
        BY <3>5, <3>7
  <2>4. CASE ReadWord
    <3> DEFINE s == cons % Slots
               n == Len(buf) + 1
    <3>1. /\ myCons = cons /\ prod # cons /\ cpc = "words" /\ want = len[s]
          /\ buf \in Seq(Word) /\ Len(buf) < want
          /\ \A j \in 1 .. Len(buf) : buf[j] = data[s][j]
        BY <1>1, <2>4 DEF ReadWord, ConsumerInv
    <3>2. len[s] \in 1 .. MaxWords /\ s \in Index /\ MaxWords \in Nat
        BY <1>1, <3>1, Apart, RingAssumption DEF RingInv
    <3>3. Len(buf) \in Nat /\ n \in 1 .. MaxWords /\ n <= want /\ want \in Nat
        BY <3>1, <3>2
    <3>4. data[s][n] \in Word
        BY <1>1, <3>2, <3>3 DEF TypeOK
    <3>5. buf' = Append(buf, data[s][n]) /\ UNCHANGED <<seenProd, myCons, want>>
          /\ cpc' = IF Len(buf') < want THEN "words" ELSE "publish"
        BY <2>4, <3>1 DEF ReadWord
    <3> HIDE DEF s, n
    <3>6. /\ buf' \in Seq(Word) /\ Len(buf') = n
          /\ \A j \in 1 .. n : buf'[j] = data[s][j]
      <4>1. /\ Append(buf, data[s][n]) \in Seq(Word)
            /\ Len(Append(buf, data[s][n])) = Len(buf) + 1
            /\ \A j \in 1 .. Len(buf) : Append(buf, data[s][n])[j] = buf[j]
            /\ Append(buf, data[s][n])[Len(buf) + 1] = data[s][n]
        BY <3>1, <3>4
      <4>2. n = Len(buf) + 1
        BY DEF n
      <4> QED
        BY <3>1, <3>3, <3>5, <4>1, <4>2
    <3>7. buf' \in Packet
        BY <3>3, <3>6, PacketIsSeq
    <3>8. TypeOK'
        BY <1>1, <1>2, <3>5, <3>7 DEF TypeOK
    <3>9. /\ cpc' = "words" => Len(buf') < want'
          /\ cpc' = "publish" => Len(buf') = want'
          /\ Len(buf') <= want' /\ cpc' \in {"words", "publish"}
        BY <3>3, <3>5, <3>6
    <3>10. ConsumerInv'
        BY <1>2, <3>1, <3>5, <3>6, <3>9 DEF ConsumerInv, s
    <3> QED
        BY <3>8, <3>10
  <2> QED
    BY <2>1, <2>2, <2>3, <2>4
<1> QED
    BY <1>2, <1>3, <1>4, <1>5 DEF IInv

(* The producer writes the slot behind the last packet.                    *)
LEMMA WriteKeeps ==
    ASSUME IInv, WriteDesc \/ WriteWord
    PROVE  IInv' /\ Contents' = Contents /\ out' = out
<1> DEFINE s == prod % Slots
<1>1. TypeOK /\ ProducerInv /\ ConsumerInv /\ RingInv
    BY DEF IInv
<1>2. UNCHANGED <<prod, cons, cpc, seenProd, myCons, want, buf, out, pkt, myProd>>
    BY DEF WriteDesc, WriteWord, consumer
<1>3. myProd = prod /\ pkt \in Packet /\ Used < Slots
    BY <1>1 DEF WriteDesc, WriteWord, ProducerInv
<1>4. pkt \in Seq(Word) /\ Len(pkt) \in 1 .. MaxWords /\ MaxWords \in Nat
    BY <1>3, PacketIsSeq, RingAssumption
<1>5. /\ s \in Index /\ \A i \in 1 .. Used : SlotAt(i) # s
      /\ \A i \in 1 .. Used : SlotAt(i) \in Index
      /\ prod # cons => cons % Slots \in Index /\ cons % Slots # s
    BY <1>1, <1>3, Apart DEF RingInv
<1> HIDE DEF s
<1>6. \A t \in Index : t # s => len'[t] = len[t] /\ data'[t] = data[t]
    BY <1>1, <1>3 DEF WriteDesc, WriteWord, TypeOK, s
<1>7. RingInv' /\ Contents' = Contents /\ Used' = Used
    BY <1>2, <1>5, <1>6, SameContents
<1>8. ConsumerInv'
  <2>1. prod # cons => /\ len'[cons % Slots] = len[cons % Slots]
                       /\ data'[cons % Slots] = data[cons % Slots]
    BY <1>5, <1>6
  <2> QED
    BY <1>1, <1>2, <2>1 DEF ConsumerInv
<1>9. TypeOK' /\ ProducerInv'
  <2>1. CASE WriteDesc
    <3>1. len' = [len EXCEPT ![s] = Len(pkt)] /\ pw' = 0 /\ data' = data /\ ppc' = "words"
        BY <1>3, <2>1 DEF WriteDesc, s
    <3>2. TypeOK'
      <4>1. len' \in [Index -> 0 .. MaxWords] /\ pw' \in 0 .. MaxWords
        BY <1>1, <1>4, <1>5, <3>1 DEF TypeOK
      <4>2. data' \in [Index -> [1 .. MaxWords -> Word]]
        BY <1>1, <3>1 DEF TypeOK
      <4> QED
        BY <1>1, <1>2, <3>1, <4>1, <4>2 DEF TypeOK
    <3>3. len'[s] = Len(pkt)
        BY <1>1, <1>5, <3>1 DEF TypeOK
    <3>4. pw' < Len(pkt)
        BY <1>4, <3>1
    <3>5. 1 .. pw' = {}
        BY <3>1
    <3> QED
        BY <1>2, <1>3, <1>7, <3>1, <3>2, <3>3, <3>4, <3>5 DEF ProducerInv, s
  <2>2. CASE WriteWord
    <3> DEFINE n == pw + 1
    <3>1. /\ pw < Len(pkt) /\ pw \in 0 .. MaxWords /\ len[s] = Len(pkt)
          /\ \A j \in 1 .. pw : data[s][j] = pkt[j]
        BY <1>1, <2>2 DEF WriteWord, ProducerInv, TypeOK, s
    <3>2. /\ pw' = n /\ len' = len /\ data' = [data EXCEPT ![s][n] = pkt[n]]
          /\ ppc' = IF n < Len(pkt) THEN "words" ELSE "publish"
        BY <1>3, <2>2 DEF WriteWord, s
    <3>3. n \in 1 .. MaxWords /\ n \in 1 .. Len(pkt) /\ n = pw + 1
        BY <1>4, <3>1
    <3> HIDE DEF n
    <3>4. pkt[n] \in Word
        BY <1>4, <3>3
    <3>5. data' \in [Index -> [1 .. MaxWords -> Word]]
        BY <1>1, <1>5, <3>2, <3>3, <3>4 DEF TypeOK
    <3>6. \A j \in 1 .. MaxWords : data'[s][j] = IF j = n THEN pkt[n] ELSE data[s][j]
        BY <1>1, <1>5, <3>2, <3>3 DEF TypeOK
    <3>7. \A j \in 1 .. n : data'[s][j] = pkt[j]
      <4>1. \A j \in 1 .. n : j \in 1 .. MaxWords /\ (j = n \/ (j \in 1 .. pw /\ j # n))
        BY <1>4, <3>1, <3>3
      <4> QED
        BY <3>1, <3>6, <4>1
    <3>8. TypeOK'
        BY <1>1, <1>2, <3>2, <3>3, <3>5 DEF TypeOK
    <3>9. /\ ppc' = "words" => n < Len(pkt)
          /\ ppc' = "publish" => n = Len(pkt)
          /\ ppc' \in {"words", "publish"}
        BY <1>4, <3>2, <3>3
    <3> QED
        BY <1>2, <1>3, <1>7, <3>1, <3>2, <3>7, <3>8, <3>9 DEF ProducerInv, s
  <2> QED
    BY <2>1, <2>2
<1> QED
    BY <1>2, <1>7, <1>8, <1>9 DEF IInv

-----------------------------------------------------------------------------
(* The steps that move a register are those of the queue.                  *)

LEMMA PublishSends ==
    ASSUME IInv, Publish
    PROVE  IInv' /\ pkt \in Packet /\ Len(Contents) < Slots
           /\ Contents' = Append(Contents, pkt) /\ out' = out
<1> DEFINE s == prod % Slots
<1>1. TypeOK /\ ProducerInv /\ ConsumerInv /\ RingInv
    BY DEF IInv
<1>2. /\ UNCHANGED <<cons, len, data, cpc, seenProd, myCons, want, buf, out, myProd, pw>>
      /\ ppc' = "idle" /\ pkt' = Nothing
    BY DEF Publish, consumer
<1>3. /\ myProd = prod /\ pkt \in Packet /\ Used < Slots /\ len[s] = Len(pkt) /\ pw = Len(pkt)
      /\ \A j \in 1 .. pw : data[s][j] = pkt[j]
    BY <1>1 DEF Publish, ProducerInv
<1>4. pkt \in Seq(Word) /\ Len(pkt) \in 1 .. MaxWords
    BY <1>3, PacketIsSeq
<1>5. /\ prod \in Ptr /\ cons \in Ptr /\ prod' = (prod + 1) % PtrMod
      /\ Slots \in Nat \ {0}
    BY <1>1, <1>3, RingAssumption DEF Publish, TypeOK
<1>6. prod' \in Ptr /\ Used' = Used + 1
    BY <1>2, <1>3, <1>5, DistanceGrows DEF Used
<1>7. Used \in Nat /\ s \in Index
    BY <1>1, <1>3, Apart DEF RingInv
<1>8. \A i : SlotAt(i)' = SlotAt(i)
    BY <1>2 DEF SlotAt
<1>9. SlotAt(Used + 1) = s
  <2>1. (cons + Used) % PtrMod = prod
    BY <1>5, EndOfRing DEF Used
  <2>2. cons + (Used + 1) - 1 = cons + Used
    BY <1>5, <1>7 DEF Ptr
  <2> QED
    BY <2>1, <2>2 DEF SlotAt
<1>10. TypeOK'
    BY <1>1, <1>2, <1>6 DEF TypeOK
<1>11. ProducerInv'
    BY <1>2 DEF ProducerInv
<1>12. ConsumerInv'
  <2>1. Used' = IF prod' >= cons THEN prod' - cons ELSE prod' - cons + PtrMod
    BY <1>2, <1>5, <1>6, Distance DEF Used
  <2>2. prod' # cons
    BY <1>5, <1>6, <1>7, <2>1 DEF Ptr
  <2> QED
    BY <1>1, <1>2, <2>2 DEF ConsumerInv
<1>13. RingInv'
  <2>1. Used' <= Slots
    BY <1>3, <1>5, <1>6, <1>7
  <2>2. ASSUME NEW i \in 1 .. Used' PROVE len'[SlotAt(i)'] \in 1 .. MaxWords
    <3>1. i \in 1 .. Used \/ i = Used + 1
        BY <1>6, <1>7
    <3> QED
        BY <1>1, <1>2, <1>3, <1>4, <1>8, <1>9, <3>1 DEF RingInv
  <2> QED
    BY <2>1, <2>2 DEF RingInv
<1>14. PacketIn(s) = pkt
  <2>1. PacketIn(s) \in Seq(Word) /\ Len(PacketIn(s)) = Len(pkt)
        /\ \A j \in 1 .. Len(pkt) : PacketIn(s)[j] = data[s][j]
    BY <1>1, <1>3, <1>4, <1>7, SlotHolds, PacketIsSeq
  <2> QED
    BY <1>3, <1>4, <2>1, SeqEqual
<1>15. /\ Contents \in Seq(Packet) /\ Len(Contents) = Used
       /\ \A i \in 1 .. Used : Contents[i] = PacketIn(SlotAt(i))
    BY <1>1, ContentsType
<1>16. /\ Contents' \in Seq(Packet) /\ Len(Contents') = Used'
       /\ \A i \in 1 .. Used' : Contents'[i] = PacketIn(SlotAt(i))'
  <2>1. (TypeOK /\ RingInv =>
            /\ Contents \in Seq(Packet) /\ Len(Contents) = Used
            /\ \A i \in 1 .. Used : Contents[i] = PacketIn(SlotAt(i)))'
    BY ContentsType, PTL
  <2> QED
    BY <1>10, <1>13, <2>1
<1>17. \A i : PacketIn(SlotAt(i))' = PacketIn(SlotAt(i))
    BY <1>2, <1>8 DEF PacketIn
<1>18. /\ Append(Contents, pkt) \in Seq(Packet) /\ Len(Append(Contents, pkt)) = Used + 1
       /\ \A i \in 1 .. Used : Append(Contents, pkt)[i] = Contents[i]
       /\ Append(Contents, pkt)[Used + 1] = pkt
    BY <1>3, <1>15
<1>19. \A i \in 1 .. Used + 1 : Contents'[i] = Append(Contents, pkt)[i]
  <2> SUFFICES ASSUME NEW i \in 1 .. Used + 1
               PROVE  Contents'[i] = Append(Contents, pkt)[i]
    OBVIOUS
  <2>1. Contents'[i] = PacketIn(SlotAt(i))
    BY <1>6, <1>16, <1>17
  <2>2. i \in 1 .. Used \/ i = Used + 1
    BY <1>7
  <2> QED
    BY <1>9, <1>14, <1>15, <1>18, <2>1, <2>2
<1>20. Contents' = Append(Contents, pkt)
  <2>1. Len(Contents') = Used + 1
    BY <1>6, <1>16
  <2> QED
    BY <1>16, <1>18, <1>19, <2>1, SeqEqual
<1> QED
    BY <1>2, <1>3, <1>10, <1>11, <1>12, <1>13, <1>15, <1>20 DEF IInv

LEMMA AdvanceReceives ==
    ASSUME IInv, Advance
    PROVE  IInv' /\ Contents # <<>> /\ Contents' = Tail(Contents) /\ out' = Head(Contents)
<1> DEFINE s == cons % Slots
<1>1. TypeOK /\ ProducerInv /\ ConsumerInv /\ RingInv
    BY DEF IInv
<1>2. /\ UNCHANGED <<prod, len, data, ppc, pkt, myProd, pw, seenProd, myCons, want, buf>>
      /\ cpc' = "prod" /\ out' = buf
    BY DEF Advance, producer
<1>3. /\ myCons = cons /\ prod # cons /\ want = len[s] /\ buf \in Seq(Word) /\ Len(buf) = want
      /\ \A j \in 1 .. Len(buf) : buf[j] = data[s][j]
    BY <1>1 DEF Advance, ConsumerInv
<1>4. /\ prod \in Ptr /\ cons \in Ptr /\ cons' = (cons + 1) % PtrMod
      /\ Slots \in Nat \ {0}
    BY <1>1, <1>3, RingAssumption DEF Advance, TypeOK
<1>5. cons' \in Ptr /\ Used' = Used - 1
    BY <1>2, <1>3, <1>4, DistanceShrinks DEF Used
<1>6. /\ Used \in Nat /\ s \in Index /\ 1 \in 1 .. Used /\ SlotAt(1) = s /\ Used <= Slots
      /\ len[s] \in 1 .. MaxWords
    BY <1>1, <1>3, Apart DEF RingInv
<1>7. \A i \in 1 .. Used - 1 : SlotAt(i)' = SlotAt(i + 1)
  <2> SUFFICES ASSUME NEW i \in 1 .. Used - 1 PROVE SlotAt(i)' = SlotAt(i + 1)
    OBVIOUS
  <2>1. i \in 1 .. Slots
    BY <1>4, <1>6
  <2>2. (((cons + 1) % PtrMod) + i - 1) % PtrMod = (cons + i) % PtrMod
    BY <1>4, <2>1, NextPlaces
  <2>3. cons + (i + 1) - 1 = cons + i
    BY <1>4, <2>1 DEF Ptr
  <2> QED
    BY <1>4, <2>2, <2>3 DEF SlotAt
<1>8. buf \in Packet /\ PacketIn(s) = buf
  <2>1. PacketIn(s) \in Seq(Word) /\ Len(PacketIn(s)) = Len(buf)
        /\ \A j \in 1 .. Len(buf) : PacketIn(s)[j] = data[s][j]
    BY <1>1, <1>3, <1>6, SlotHolds, PacketIsSeq
  <2> QED
    BY <1>3, <1>6, <2>1, SeqEqual, PacketIsSeq
<1>9. TypeOK'
    BY <1>1, <1>2, <1>5, <1>8 DEF TypeOK
<1>10. ProducerInv'
  <2>1. Used < Slots => Used' < Slots
    BY <1>4, <1>5, <1>6
  <2> QED
    BY <1>1, <1>2, <2>1 DEF ProducerInv
<1>11. ConsumerInv'
    BY <1>2 DEF ConsumerInv
<1>12. RingInv'
  <2>1. Used' <= Slots
    BY <1>4, <1>5, <1>6
  <2>2. ASSUME NEW i \in 1 .. Used' PROVE len'[SlotAt(i)'] \in 1 .. MaxWords
    <3>1. i \in 1 .. Used - 1 /\ i + 1 \in 1 .. Used
        BY <1>5, <1>6
    <3> QED
        BY <1>1, <1>2, <1>7, <3>1 DEF RingInv
  <2> QED
    BY <2>1, <2>2 DEF RingInv
<1>13. /\ Contents \in Seq(Packet) /\ Len(Contents) = Used
       /\ \A i \in 1 .. Used : Contents[i] = PacketIn(SlotAt(i))
    BY <1>1, ContentsType
<1>14. /\ Contents' \in Seq(Packet) /\ Len(Contents') = Used'
       /\ \A i \in 1 .. Used' : Contents'[i] = PacketIn(SlotAt(i))'
  <2>1. (TypeOK /\ RingInv =>
            /\ Contents \in Seq(Packet) /\ Len(Contents) = Used
            /\ \A i \in 1 .. Used : Contents[i] = PacketIn(SlotAt(i)))'
    BY ContentsType, PTL
  <2> QED
    BY <1>9, <1>12, <2>1
<1>15. Contents # <<>> /\ Head(Contents) = Contents[1]
    BY <1>6, <1>13
<1>16. /\ Tail(Contents) \in Seq(Packet) /\ Len(Tail(Contents)) = Used - 1
       /\ \A i \in 1 .. Used - 1 : Tail(Contents)[i] = Contents[i + 1]
    BY <1>13, <1>15, HeadTailProperties
<1>17. \A i \in 1 .. Used - 1 : Contents'[i] = Tail(Contents)[i]
  <2> SUFFICES ASSUME NEW i \in 1 .. Used - 1 PROVE Contents'[i] = Tail(Contents)[i]
    OBVIOUS
  <2>1. i + 1 \in 1 .. Used /\ i \in 1 .. Used'
    BY <1>5, <1>6
  <2>2. PacketIn(SlotAt(i))' = PacketIn(SlotAt(i + 1))
    BY <1>2, <1>7 DEF PacketIn
  <2> QED
    BY <1>13, <1>14, <1>16, <2>1, <2>2
<1>18. Contents' = Tail(Contents)
  <2>1. Len(Contents') = Used - 1
    BY <1>5, <1>14
  <2> QED
    BY <1>14, <1>16, <1>17, <2>1, SeqEqual
<1>19. out' = Head(Contents)
    BY <1>2, <1>6, <1>8, <1>13, <1>15
<1> QED
    BY <1>9, <1>10, <1>11, <1>12, <1>15, <1>18, <1>19 DEF IInv

-----------------------------------------------------------------------------
LEMMA InitInvariant == Init => IInv /\ Contents = <<>>
<1> SUFFICES ASSUME Init PROVE IInv /\ Contents = <<>>
    OBVIOUS
<1>1. /\ MaxWords \in Nat \ {0} /\ Slots \in Nat \ {0} /\ PtrMod \in Nat \ {0}
      /\ 0 \in Ptr /\ (0 - 0) % PtrMod = 0
    BY RingAssumption DEF Ptr
<1>2. Used = 0
    BY <1>1 DEF Init, Used
<1>3. TypeOK
    BY <1>1 DEF Init, TypeOK
<1>4. ProducerInv /\ ConsumerInv
    BY DEF Init, ProducerInv, ConsumerInv
<1>5. RingInv
    BY <1>1, <1>2 DEF RingInv
<1>6. Contents \in Seq(Packet) /\ Len(Contents) = 0
    BY <1>2, <1>3, <1>5, ContentsType
<1> QED
    BY <1>3, <1>4, <1>5, <1>6, EmptySeq DEF IInv

LEMMA StutterKeeps == IInv /\ UNCHANGED vars => IInv' /\ Contents' = Contents /\ out' = out
<1> SUFFICES ASSUME IInv, UNCHANGED vars PROVE IInv' /\ Contents' = Contents /\ out' = out
    OBVIOUS
<1>1. UNCHANGED <<prod, cons, len, data, ppc, pkt, myProd, pw,
                  cpc, seenProd, myCons, want, buf, out>>
    BY DEF vars, ring, producer, consumer
<1>2. RingInv' /\ Contents' = Contents /\ Used' = Used
    BY <1>1, SameContents
<1> QED
    BY <1>1, <1>2 DEF IInv, TypeOK, ProducerInv, ConsumerInv

(* Each step keeps the invariant and sends, receives or leaves alone the   *)
(* packets of the queue.                                                   *)
LEMMA StepInvariant ==
    ASSUME IInv, [Next]_vars
    PROVE  /\ IInv'
           /\ \/ \E p \in Packet : /\ Len(Contents) < Slots
                                   /\ Contents' = Append(Contents, p) /\ out' = out
              \/ /\ Contents # <<>> /\ Contents' = Tail(Contents)
                 /\ out' = Head(Contents)
              \/ Contents' = Contents /\ out' = out
<1>1. CASE (\E p \in Packet : Send(p)) \/ ReadProd \/ CheckFull
    BY <1>1, ProducerQuiet
<1>2. CASE WriteDesc \/ WriteWord
    BY <1>2, WriteKeeps
<1>3. CASE Publish
    BY <1>3, PublishSends
<1>4. CASE PollProd \/ CheckEmpty \/ ReadDesc \/ ReadWord
    BY <1>4, ConsumerQuiet
<1>5. CASE Advance
    BY <1>5, AdvanceReceives
<1>6. CASE UNCHANGED vars
    BY <1>6, StutterKeeps
<1> QED
    BY <1>1, <1>2, <1>3, <1>4, <1>5, <1>6 DEF Next, Produce, Consume

(* The inductive invariant holds in every reachable state.                 *)
THEOREM InductiveInvariant == Spec => []IInv
<1>1. Init => IInv
    BY InitInvariant
<1>2. IInv /\ [Next]_vars => IInv'
    BY StepInvariant
<1> QED
    BY <1>1, <1>2, PTL DEF Spec

(* The registers wrap within their width, and a packet is never longer     *)
(* than a slot, whatever the memory held before.                           *)
THEOREM TypeCorrect == Spec => []TypeOK
<1>1. IInv => TypeOK
    BY DEF IInv
<1> QED
    BY <1>1, InductiveInvariant, PTL

(* The safety part of Implements: a ring is a bounded queue of its slots,  *)
(* so no packet is lost, doubled, torn, reordered or overwritten.          *)
THEOREM ImplementsSafely == Spec => Queue!Init /\ [][Queue!Next]_(Queue!vars)
<1>1. Init => Queue!Init
    BY InitInvariant DEF Queue!Init, Contents, Init
<1>2. IInv /\ [Next]_vars => [Queue!Next]_(Queue!vars)
    BY StepInvariant
    DEF Contents, Queue!Next, Queue!Send, Queue!Receive, Queue!vars
<1> QED
    BY <1>1, <1>2, InductiveInvariant, PTL DEF Spec

(* A send is refused only while every slot holds a packet, although the    *)
(* producer's view of the consumer's register is an old one when it acts.  *)
THEOREM RefusedWhenFull == Spec => RefusedOnlyWhenFull
<1>1. IInv /\ [Next]_vars => [ppc = "cons" /\ ppc' = "idle" => Used = Slots]_vars
  <2> SUFFICES ASSUME IInv, Next, ppc = "cons", ppc' = "idle" PROVE Used = Slots
    BY DEF vars, producer
  <2>1. CheckFull
    BY DEF Next, Send, Produce, ReadProd, WriteDesc, WriteWord, Publish, Consume, PollProd,
           CheckEmpty, ReadDesc, ReadWord, Advance, producer
  <2>2. Used >= Slots
    BY <2>1 DEF CheckFull, IInv, ProducerInv, Used
  <2>3. Used \in Nat /\ Used <= Slots /\ Slots \in Nat
    BY Apart, RingAssumption DEF IInv, RingInv
  <2> QED
    BY <2>2, <2>3
<1> QED
    BY <1>1, InductiveInvariant, PTL DEF Spec, RefusedOnlyWhenFull
=============================================================================

-------------------------- MODULE ReadyListProofs --------------------------
(***************************************************************************)
(* The links and the map of task.c implement the queues of OsekTask, for   *)
(* any number of tasks and up to 16 priorities: the bit operations set,    *)
(* clear and find what they should, the links of a priority hold a         *)
(* sequence of tasks (Row), and each function of task.c changes the        *)
(* sequences as OsekTask says.                                             *)
(***************************************************************************)
EXTENDS ReadyList, FiniteSetTheorems, SequenceTheorems,
        WellFoundedInduction, TLAPS

LEMMA Powers ==
  /\ PRIMAP_BIT(0) = 1       /\ PRIMAP_BIT(1) = 2
  /\ PRIMAP_BIT(2) = 4       /\ PRIMAP_BIT(3) = 8
  /\ PRIMAP_BIT(4) = 16      /\ PRIMAP_BIT(5) = 32
  /\ PRIMAP_BIT(6) = 64      /\ PRIMAP_BIT(7) = 128
  /\ PRIMAP_BIT(8) = 256     /\ PRIMAP_BIT(9) = 512
  /\ PRIMAP_BIT(10) = 1024   /\ PRIMAP_BIT(11) = 2048
  /\ PRIMAP_BIT(12) = 4096   /\ PRIMAP_BIT(13) = 8192
  /\ PRIMAP_BIT(14) = 16384  /\ PRIMAP_BIT(15) = 32768
BY DEF PRIMAP_BIT

(* The table gives the highest bit of a nibble. *)
LEMMA SearchTable ==
  ASSUME NEW n \in 1 .. 15
  PROVE  \/ n = 1 /\ search_table[n] = 0
         \/ n \in 2 .. 3 /\ search_table[n] = 1
         \/ n \in 4 .. 7 /\ search_table[n] = 2
         \/ n \in 8 .. 15 /\ search_table[n] = 3
PROOF
  <1>1. CASE n \in 1 .. 7
    BY <1>1 DEF search_table
  <1>2. CASE n \in 8 .. 15
    BY <1>2 DEF search_table
  <1> QED BY <1>1, <1>2

(* The power of two of a byte's highest bit. *)
LEMMA SearchByte ==
  ASSUME NEW b \in 1 .. 255
  PROVE  /\ search_byte(b) \in 0 .. 7
         /\ PRIMAP_BIT(search_byte(b)) <= b
         /\ b < 2 * PRIMAP_BIT(search_byte(b))
PROOF
  <1>1. CASE b < 16
    <2>1. b \in 1 .. 15 /\ search_byte(b) = search_table[b]
      BY <1>1 DEF search_byte
    <2> QED BY <2>1, SearchTable, Powers
  <1>2. CASE b >= 16
    <2> DEFINE n == b \div 16
    <2>1. n \in 1 .. 15 /\ 16 * n <= b /\ b < 16 * n + 16
      BY <1>2
    <2>2. search_byte(b) = 4 + search_table[n]
      BY <1>2 DEF search_byte
    <2> HIDE DEF n
    <2>3. \/ n = 1 /\ search_byte(b) = 4
          \/ n \in 2 .. 3 /\ search_byte(b) = 5
          \/ n \in 4 .. 7 /\ search_byte(b) = 6
          \/ n \in 8 .. 15 /\ search_byte(b) = 7
      BY <2>1, <2>2, SearchTable
    <2> QED BY <2>1, <2>3, Powers
  <1> QED BY <1>1, <1>2

(* ... and of a 16-bit map's. *)
LEMMA SearchPower ==
  ASSUME NEW m \in Nat, 0 < m, m < 65536
  PROVE  /\ bitmap_search(m) \in 0 .. 15
         /\ PRIMAP_BIT(bitmap_search(m)) <= m
         /\ m < 2 * PRIMAP_BIT(bitmap_search(m))
PROOF
  <1>1. CASE m < 256
    <2>1. m \in 1 .. 255 /\ bitmap_search(m) = search_byte(m)
      BY <1>1 DEF bitmap_search
    <2> QED BY <2>1, SearchByte
  <1>2. CASE m >= 256
    <2> DEFINE b == m \div 256
    <2>1. b \in 1 .. 255 /\ 256 * b <= m /\ m < 256 * b + 256
      BY <1>2
    <2>2. bitmap_search(m) = 8 + search_byte(b)
      BY <1>2 DEF bitmap_search
    <2> HIDE DEF b
    <2> DEFINE s == search_byte(b)
    <2>3. s \in 0 .. 7 /\ PRIMAP_BIT(s) <= b /\ b < 2 * PRIMAP_BIT(s)
      BY <2>1, SearchByte
    <2> HIDE DEF s
    <2>4. PRIMAP_BIT(8 + s) = 256 * PRIMAP_BIT(s) /\ PRIMAP_BIT(s) \in Nat
      BY <2>3, Powers
    <2>5. PRIMAP_BIT(8 + s) <= m /\ m < 2 * PRIMAP_BIT(8 + s)
      <3> DEFINE P == PRIMAP_BIT(s)
      <3>1. P \in Nat /\ P <= b /\ b + 1 <= 2 * P
        BY <2>1, <2>3, <2>4
      <3> HIDE DEF P
      <3>2. 256 * P <= m /\ m < 2 * (256 * P)
        BY <2>1, <3>1
      <3> QED BY <2>4, <3>2 DEF P
    <2> QED BY <2>2, <2>3, <2>5 DEF s
  <1> QED BY <1>1, <1>2

(* The bit found is set and none above it is: the priority that            *)
(* search_schedtsk takes for nextpri is the highest one with a task, as    *)
(* bitmap_search of OsekTask says, whatever tasks are ready.               *)
THEOREM BitmapSearchExact ==
  ASSUME NEW m \in Nat, 0 < m, m < 65536
  PROVE  /\ bitmap_search(m) \in 0 .. 15
         /\ HasBit(m, bitmap_search(m))
         /\ \A p \in 0 .. 15 :
              p > bitmap_search(m) => ~ HasBit(m, p)
PROOF
  <1> DEFINE s == bitmap_search(m)
  <1>1. s \in 0 .. 15 /\ PRIMAP_BIT(s) <= m /\ m < 2 * PRIMAP_BIT(s)
    BY SearchPower
  <1> HIDE DEF s
  <1>2. \A p \in 0 .. 15 : PRIMAP_BIT(p) \in Nat \ {0}
    BY Powers
  <1>3. \A p \in 0 .. 15 : p > s => 2 * PRIMAP_BIT(s) <= PRIMAP_BIT(p)
    BY <1>1, Powers
  <1>4. HasBit(m, s)
    <2> DEFINE P == PRIMAP_BIT(s)
    <2>1. P \in Nat \ {0} /\ P <= m /\ m < 2 * P
      BY <1>1, <1>2
    <2> HIDE DEF P
    <2>2. m \div P = 1
      BY <2>1
    <2> QED BY <2>2 DEF HasBit, P
  <1>5. ASSUME NEW p \in 0 .. 15, p > s
        PROVE  ~ HasBit(m, p)
    <2> DEFINE P == PRIMAP_BIT(p)
    <2>1. P \in Nat \ {0} /\ m < P
      BY <1>1, <1>2, <1>3, <1>5
    <2> HIDE DEF P
    <2>2. m \div P = 0
      BY <2>1
    <2> QED BY <2>2 DEF HasBit, P
  <1> QED BY <1>1, <1>4, <1>5 DEF s

-----------------------------------------------------------------------------
(* The bits of the map.                                                    *)

(* A quotient is known by its remainder. *)
LEMMA Quotient ==
  ASSUME NEW n \in Nat, NEW d \in Nat, NEW e \in Nat, NEW q \in Nat \ {0},
         n = q * d + e, e < q
  PROVE  n \div q = d
<1> DEFINE x == n \div q
           y == n % q
<1>1. x \in Nat /\ y \in Nat /\ n = q * x + y /\ y < q
  OBVIOUS
<1> HIDE DEF x, y
<1>2. CASE x < d
  <2>1. x + 1 <= d
    BY <1>1, <1>2
  <2>2. q * (x + 1) <= q * d
    BY <1>1, <2>1
  <2>3. q * (x + 1) = q * x + q
    BY <1>1
  <2> DEFINE qx == q * x
             qd == q * d
  <2>4. qx \in Nat /\ qd \in Nat
    BY <1>1
  <2> HIDE DEF qx, qd
  <2>5. qx + q <= qd /\ qd + e = qx + y
    BY <1>1, <2>2, <2>3 DEF qx, qd
  <2> QED BY <1>1, <2>4, <2>5
<1>3. CASE d < x
  <2>1. d + 1 <= x
    BY <1>1, <1>3
  <2>2. q * (d + 1) <= q * x
    BY <1>1, <2>1
  <2>3. q * (d + 1) = q * d + q
    OBVIOUS
  <2> DEFINE qx == q * x
             qd == q * d
  <2>4. qx \in Nat /\ qd \in Nat
    BY <1>1
  <2> HIDE DEF qx, qd
  <2>5. qd + q <= qx /\ qd + e = qx + y
    BY <1>1, <2>2, <2>3 DEF qx, qd
  <2> QED BY <1>1, <2>4, <2>5
<1> QED BY <1>1, <1>2, <1>3 DEF x

(* Multiplication is monotonic. *)
LEMMA Multiples ==
  ASSUME NEW w \in Nat, NEW a \in Nat, NEW b \in Nat, a < b
  PROVE  w * a + w <= w * b
<1>1. w * (a + 1) <= w * b
  OBVIOUS
<1>2. w * (a + 1) = w * a + w
  OBVIOUS
<1> QED BY ONLY <1>1, <1>2

Bit(m, w) == (m \div w) % 2 = 1

(* A number whose bit of weight w is clear: what is above that bit and     *)
(* what is below.                                                          *)
LEMMA ClearAt ==
  ASSUME NEW m \in Nat, NEW w \in Nat \ {0}, ~ Bit(m, w)
  PROVE  \E h \in Nat : \E l \in Nat : l < w /\ m = w * (2 * h) + l
<1> DEFINE d == m \div w
           l == m % w
           h == d \div 2
<1>1. d \in Nat /\ l \in Nat /\ l < w /\ m = w * d + l
  OBVIOUS
<1>2. d % 2 # 1
  BY DEF Bit
<1> HIDE DEF d, l
<1>3. h \in Nat /\ d = 2 * h
  BY <1>1, <1>2
<1> HIDE DEF h
<1> QED BY <1>1, <1>3

(* Adding the weight w of a clear bit does not carry: no multiple of twice *)
(* the weight is reached.                                                  *)
LEMMA NoCarry ==
  ASSUME NEW w \in Nat \ {0}, NEW h \in Nat, NEW l \in Nat, l < w,
         NEW k \in Nat, w * (2 * h) + l < w * (2 * k)
  PROVE  w * (2 * h) + l + w < w * (2 * k)
<1> DEFINE H == w * (2 * h)
           K == w * (2 * k)
<1>1. H \in Nat /\ K \in Nat
  OBVIOUS
<1>2. h < k
  <2>1. CASE k < h
    <3>1. K + w <= H
      BY <2>1, Multiples
    <3> HIDE DEF H, K
    <3> QED BY <1>1, <3>1, w * (2 * h) + l < w * (2 * k) DEF H, K
  <2>2. CASE k = h
    BY <2>2, <1>1
  <2> QED BY <2>1, <2>2
<1>3. 2 * h + 1 \in Nat /\ 2 * h < 2 * h + 1 /\ 2 * h + 1 < 2 * k
  BY <1>2
<1>4. H + w <= w * (2 * h + 1)
  BY <1>3, Multiples
<1>5. w * (2 * h + 1) + w <= K
  BY <1>3, Multiples
<1>6. w * (2 * h + 1) \in Nat
  OBVIOUS
<1> HIDE DEF H, K
<1>7. l + H + w < K
  BY <1>1, <1>4, <1>5, <1>6
<1> QED BY <1>7 DEF H, K

(* The maps of sixteen bits. *)
Maps   == 65536
Bitmap == 0 .. Maps - 1

(* The weight of a bit divides twice that of any higher one. *)
Divides(q, w) == \E k \in Nat \ {0} : w = (2 * q) * k

LEMMA PowersDivide ==
  ASSUME NEW p \in 0 .. 15
  PROVE  /\ PRIMAP_BIT(p) \in Nat \ {0}
         /\ \A q \in 0 .. 15 : p < q => Divides(PRIMAP_BIT(p), PRIMAP_BIT(q))
         /\ Divides(PRIMAP_BIT(p), Maps)
<1>1. PRIMAP_BIT(p) \in Nat \ {0}
  BY Powers
<1>2. ASSUME NEW q \in 0 .. 15, p < q
      PROVE  Divides(PRIMAP_BIT(p), PRIMAP_BIT(q))
  <2> DEFINE k == PRIMAP_BIT(q - p - 1)
  <2>1. k \in Nat \ {0} /\ PRIMAP_BIT(q) = (2 * PRIMAP_BIT(p)) * k
    <3>1. CASE p \in 0 .. 3
      BY <1>2, <3>1, Powers
    <3>2. CASE p \in 4 .. 7
      BY <1>2, <3>2, Powers
    <3>3. CASE p \in 8 .. 15
      BY <1>2, <3>3, Powers
    <3> QED BY <3>1, <3>2, <3>3
  <2> HIDE DEF k
  <2> QED BY <2>1 DEF Divides
<1>3. Divides(PRIMAP_BIT(p), Maps)
  <2> DEFINE k == PRIMAP_BIT(15 - p)
  <2>1. k \in Nat \ {0} /\ Maps = (2 * PRIMAP_BIT(p)) * k
    BY Powers DEF Maps
  <2> HIDE DEF k
  <2> QED BY <2>1 DEF Divides
<1> QED BY <1>1, <1>2, <1>3

(* A bit of weight w that is clear gets set, ... *)
LEMMA AtBit ==
  ASSUME NEW m \in Nat, NEW w \in Nat \ {0}, ~ Bit(m, w)
  PROVE  Bit(m + w, w)
<1>1. PICK h \in Nat : \E l \in Nat : l < w /\ m = w * (2 * h) + l
  BY ClearAt
<1>2. PICK l \in Nat : l < w /\ m = w * (2 * h) + l
  BY <1>1
<1>3. m + w = w * (2 * h + 1) + l
  <2>1. w * (2 * h + 1) = w * (2 * h) + w
    OBVIOUS
  <2>2. w * (2 * h) \in Nat
    OBVIOUS
  <2> DEFINE H == w * (2 * h)
  <2> HIDE DEF H
  <2> QED BY <1>2, <2>1, <2>2 DEF H
<1>4. 2 * h + 1 \in Nat /\ m + w \in Nat /\ (2 * h + 1) % 2 = 1
  OBVIOUS
<1>5. (m + w) \div w = 2 * h + 1
  BY ONLY w \in Nat \ {0}, l \in Nat, <1>2, <1>3, <1>4, Quotient
<1> QED BY ONLY <1>4, <1>5 DEF Bit

(* ... bits of a lower weight q keep their value, ... *)
LEMMA LowerBit ==
  ASSUME NEW m \in Nat, NEW q \in Nat \ {0}, NEW w, Divides(q, w)
  PROVE  Bit(m + w, q) <=> Bit(m, q)
<1>0. PICK k \in Nat \ {0} : w = (2 * q) * k
  BY DEF Divides
<1> DEFINE d == m \div q
           e == m % q
<1>1. d \in Nat /\ e \in Nat /\ e < q /\ m = q * d + e
  OBVIOUS
<1> HIDE DEF d, e
<1>2. q * (d + 2 * k) = q * d + (2 * q) * k
  BY ONLY <1>1, q \in Nat, k \in Nat \ {0}
<1>3. (2 * q) * k \in Nat /\ q * d \in Nat
  BY <1>1
<1>4. m + (2 * q) * k = q * (d + 2 * k) + e
  BY ONLY <1>1, <1>2, <1>3
<1>5. d + 2 * k \in Nat /\ m + (2 * q) * k \in Nat
  BY <1>1, <1>3
<1>6. (m + (2 * q) * k) \div q = d + 2 * k
  BY ONLY q \in Nat \ {0}, <1>1, <1>4, <1>5, Quotient
<1>7. (d + 2 * k) % 2 = d % 2
  BY ONLY <1>1, k \in Nat \ {0}
<1> QED BY <1>0, <1>6, <1>7 DEF d, Bit

(* ... and so do those of a higher weight. *)
LEMMA HigherBit ==
  ASSUME NEW m \in Nat, NEW w \in Nat \ {0}, ~ Bit(m, w),
         NEW q, Divides(w, q)
  PROVE  Bit(m + w, q) <=> Bit(m, q)
<1>0. PICK k \in Nat \ {0} : q = (2 * w) * k
  BY DEF Divides
<1> DEFINE d == m \div q
           e == m % q
<1>1. q \in Nat \ {0}
  BY <1>0
<1>2. \A x \in Nat : w * (2 * (k * x)) = q * x
  BY <1>0
<1>3. d \in Nat /\ e \in Nat /\ e < q /\ m = q * d + e
  BY ONLY <1>1, m \in Nat
<1> HIDE DEF d, e
<1>4. PICK h \in Nat : \E l \in Nat : l < w /\ m = w * (2 * h) + l
  BY ClearAt
<1>5. PICK l \in Nat : l < w /\ m = w * (2 * h) + l
  BY <1>4
<1>6. /\ d + 1 \in Nat /\ k * (d + 1) \in Nat /\ q * d \in Nat
      /\ q * (d + 1) = q * d + q
  BY ONLY <1>1, <1>3, k \in Nat \ {0}
<1>7. w * (2 * (k * (d + 1))) = q * d + q
  BY <1>2, <1>6
<1>8. w * (2 * h) + l < w * (2 * (k * (d + 1)))
  BY ONLY <1>1, <1>3, <1>5, <1>6, <1>7
<1>9. w * (2 * h) + l + w < w * (2 * (k * (d + 1)))
  BY ONLY w \in Nat \ {0}, h \in Nat, l \in Nat, <1>5, <1>6, <1>8, NoCarry
<1>10. e + w \in Nat /\ e + w < q /\ m + w = q * d + (e + w) /\ m + w \in Nat
  BY ONLY <1>1, <1>3, <1>5, <1>6, <1>7, <1>9, w \in Nat \ {0}
<1>11. (m + w) \div q = d
  BY ONLY <1>1, <1>3, <1>10, Quotient
<1> QED BY <1>11 DEF d, Bit

LEMMA MapsNat == Maps \in Nat
BY DEF Maps

(* ready_primap |= PRIMAP_BIT(p) sets bit p and no other, and stays within *)
(* sixteen bits.                                                           *)
LEMMA AddBit ==
  ASSUME NEW m \in Bitmap, NEW p \in 0 .. 15, ~ HasBit(m, p)
  PROVE  /\ SetBit(m, p) \in Bitmap
         /\ \A q \in 0 .. 15 : HasBit(SetBit(m, p), q) <=> (q = p \/ HasBit(m, q))
<1> DEFINE w == PRIMAP_BIT(p)
<1>1. m \in Nat /\ w \in Nat \ {0} /\ ~ Bit(m, w)
  <2>1. m \in Nat
    BY MapsNat DEF Bitmap
  <2>2. ~ Bit(m, w)
    BY DEF HasBit, Bit
  <2> QED BY <2>1, <2>2, PowersDivide
<1>2. m + w \in Bitmap
  <2>1. PICK k \in Nat \ {0} : Maps = (2 * w) * k
    BY PowersDivide DEF Divides
  <2> HIDE DEF w
  <2>2. PICK h \in Nat : \E l \in Nat : l < w /\ m = w * (2 * h) + l
    BY ONLY <1>1, ClearAt
  <2>3. PICK l \in Nat : l < w /\ m = w * (2 * h) + l
    BY <2>2
  <2>4. w * (2 * k) = Maps
    BY <1>1, <2>1
  <2>5. w * (2 * h) + l < w * (2 * k)
    BY <2>3, <2>4, MapsNat DEF Bitmap
  <2>6. w * (2 * h) + l + w < w * (2 * k)
    BY ONLY <1>1, h \in Nat, l \in Nat, k \in Nat \ {0}, <2>3, <2>5, NoCarry
  <2> QED BY ONLY <1>1, <2>3, <2>4, <2>6, MapsNat DEF Bitmap
<1> HIDE DEF w
<1>3. Bit(m + w, w)
  BY ONLY <1>1, AtBit
<1>4. ASSUME NEW q \in 0 .. 15, q < p
      PROVE  Bit(m + w, PRIMAP_BIT(q)) <=> Bit(m, PRIMAP_BIT(q))
  <2>1. PRIMAP_BIT(q) \in Nat \ {0} /\ Divides(PRIMAP_BIT(q), w)
    BY <1>4, PowersDivide DEF w
  <2> QED BY ONLY <1>1, <2>1, LowerBit, Zenon
<1>5. ASSUME NEW q \in 0 .. 15, p < q
      PROVE  Bit(m + w, PRIMAP_BIT(q)) <=> Bit(m, PRIMAP_BIT(q))
  <2>1. Divides(w, PRIMAP_BIT(q))
    BY <1>5, PowersDivide DEF w
  <2> QED BY ONLY <1>1, <2>1, HigherBit, Zenon
<1>6. ASSUME NEW q \in 0 .. 15
      PROVE  Bit(m + w, PRIMAP_BIT(q)) <=> (q = p \/ Bit(m, PRIMAP_BIT(q)))
  <2>1. q = p \/ q < p \/ p < q
    OBVIOUS
  <2> QED BY <1>3, <1>4, <1>5, <2>1 DEF w
<1>7. SetBit(m, p) = m + w
  BY DEF SetBit, w
<1> QED BY <1>2, <1>6, <1>7 DEF HasBit, Bit

(* ready_primap |= PRIMAP_BIT(p) sets bit p and no other. *)
THEOREM SetBitExact ==
  ASSUME NEW m \in Bitmap, NEW p \in 0 .. 15
  PROVE  /\ SetBit(m, p) \in Bitmap
         /\ \A q \in 0 .. 15 : HasBit(SetBit(m, p), q) <=> (q = p \/ HasBit(m, q))
<1>1. CASE HasBit(m, p)
  <2>1. SetBit(m, p) = m
    BY <1>1 DEF SetBit
  <2> QED BY <1>1, <2>1
<1>2. CASE ~ HasBit(m, p)
  BY <1>2, AddBit
<1> QED BY <1>1, <1>2

(* ready_primap &= ~ PRIMAP_BIT(p) clears bit p and no other. *)
THEOREM ClearBitExact ==
  ASSUME NEW m \in Bitmap, NEW p \in 0 .. 15
  PROVE  /\ ClearBit(m, p) \in Bitmap
         /\ \A q \in 0 .. 15 : HasBit(ClearBit(m, p), q) <=> (q # p /\ HasBit(m, q))
<1> DEFINE w == PRIMAP_BIT(p)
           n == m - w
<1>1. CASE ~ HasBit(m, p)
  BY <1>1 DEF ClearBit
<1>2. CASE HasBit(m, p)
  <2>1. m \in Nat /\ w \in Nat \ {0} /\ (m \div w) % 2 = 1
    <3>1. m \in Nat
      BY MapsNat DEF Bitmap
    <3> QED BY <1>2, <3>1, PowersDivide DEF HasBit
  <2> HIDE DEF w
  <2>2. n \in Bitmap /\ n + w = m /\ (n \div w) % 2 # 1
    <3> DEFINE d == m \div w
               e == m % w
    <3>1. d \in Nat /\ e \in Nat /\ e < w /\ m = w * d + e
      BY <2>1
    <3>2. d % 2 = 1
      BY <2>1
    <3> HIDE DEF d, e
    <3>3. d - 1 \in Nat /\ (d - 1) % 2 = 0
      BY <3>1, <3>2
    <3>4. w * (d - 1) = w * d - w /\ w * (d - 1) \in Nat /\ w * d \in Nat
      BY ONLY <2>1, <3>1, <3>3
    <3>5. n = w * (d - 1) + e /\ n \in Bitmap /\ n \in Nat /\ n + w = m
      BY ONLY <2>1, <3>1, <3>4, m \in Bitmap, MapsNat DEF n, Bitmap
    <3>6. n \div w = d - 1
      <4> DEFINE c == d - 1
      <4>1. c \in Nat /\ n = w * c + e
        BY <3>3, <3>5
      <4> HIDE DEF n, c
      <4>2. n \div w = c
        BY ONLY <2>1, <3>1, <3>5, <4>1, Quotient
      <4> QED BY <4>2 DEF c
    <3> QED BY <3>3, <3>5, <3>6
  <2>3. ~ HasBit(n, p)
    BY <2>2 DEF HasBit, w
  <2>4. ClearBit(m, p) = n
    BY <1>2 DEF ClearBit, w
  <2> HIDE DEF n
  <2>5. \A q \in 0 .. 15 : HasBit(m, q) <=> (q = p \/ HasBit(n, q))
    <3>1. SetBit(n, p) = m
      BY <2>2, <2>3 DEF SetBit, w
    <3>2. \A q \in 0 .. 15 : HasBit(SetBit(n, p), q) <=> (q = p \/ HasBit(n, q))
      BY <2>2, <2>3, AddBit
    <3> QED BY <3>1, <3>2
  <2> QED BY <2>2, <2>3, <2>4, <2>5
<1> QED BY <1>1, <1>2

-----------------------------------------------------------------------------
(* Following the links.                                                    *)

(* A non-empty set of natural numbers has a least element. *)
LEMMA LeastNat ==
  ASSUME NEW T, T \subseteq Nat, T # {}
  PROVE  \E x \in T : \A y \in T : x <= y
<1> DEFINE R == OpToRel(<, Nat)
<1>1. IsWellFoundedOn(R, Nat)
  BY NatLessThanWellFounded
<1>2. PICK x \in T : \A y \in T : ~ (<<y, x>> \in R)
  BY ONLY <1>1, T \subseteq Nat, T # {}, WFMin
<1>3. \A y \in T : ~ (y < x)
  BY <1>2, Zenon DEF OpToRel
<1> QED BY <1>3

LEMMA NullTask == TSKID_NULL \notin TaskId /\ tnum_task \in Nat
BY SixteenPriorities DEF TaskId, TSKID_NULL

Link == TaskId \cup {TSKID_NULL}

(* What stands at place i behind the tasks s that were reached from t. *)
Place(nx, t, s, i) == IF i = 1 THEN t ELSE nx[s[i - 1]]

(* The tasks reached from t over the links nx, n of them at most. *)
Path(nx, n, t, s) ==
  /\ s \in Seq(TaskId)
  /\ Len(s) <= n
  /\ \A i \in 1 .. Len(s) : s[i] = Place(nx, t, s, i)
  /\ Len(s) = n \/ Place(nx, t, s, Len(s) + 1) = TSKID_NULL

LEMMA PathAgrees ==
  ASSUME NEW nx, NEW n \in Nat, NEW t, NEW s, NEW u, Path(nx, n, t, s), Path(nx, n, t, u),
         NEW i \in 1 .. Len(s), i <= Len(u)
  PROVE  s[i] = u[i]
<1> DEFINE T == {j \in 1 .. i : s[j] # u[j]}
<1>1. Len(s) \in Nat /\ Len(u) \in Nat
  BY DEF Path
<1>2. T \subseteq Nat
  OBVIOUS
<1>3. ASSUME T # {} PROVE FALSE
  <2>1. PICK m \in T : \A j \in T : m <= j
    BY ONLY <1>2, <1>3, LeastNat
  <2>2. m \in 1 .. i /\ s[m] # u[m] /\ m \in 1 .. Len(s) /\ m \in 1 .. Len(u)
    BY <1>1, <2>1
  <2>3. m # 1
    BY <2>2 DEF Path, Place
  <2>4. m - 1 \in 1 .. i /\ m - 1 \notin T
    <3> HIDE DEF T
    <3>1. m - 1 \in 1 .. i /\ m - 1 < m
      BY <2>2, <2>3
    <3>2. \A j \in T : j \in Nat
      BY <1>2
    <3> QED BY <2>1, <2>2, <3>1, <3>2
  <2>5. s[m - 1] = u[m - 1]
    BY <2>4
  <2>6. s[m] = Place(nx, t, s, m) /\ u[m] = Place(nx, t, u, m)
    BY <2>2 DEF Path
  <2> QED BY ONLY <2>2, <2>3, <2>5, <2>6 DEF Place
<1> QED BY <1>1, <1>3

LEMMA PathUnique ==
  ASSUME NEW nx, NEW n \in Nat, NEW t, NEW s, NEW u, Path(nx, n, t, s), Path(nx, n, t, u)
  PROVE  s = u
<1>1. /\ s \in Seq(TaskId) /\ u \in Seq(TaskId)
      /\ Len(s) \in Nat /\ Len(u) \in Nat
  BY DEF Path
<1>2. ASSUME NEW x, NEW y, Path(nx, n, t, x), Path(nx, n, t, y), Len(x) < Len(y)
      PROVE  FALSE
  <2> DEFINE k == Len(x) + 1
  <2>1. /\ Len(x) \in Nat /\ Len(y) \in Nat /\ k \in 1 .. Len(y)
        /\ Len(y) <= n
    BY <1>2 DEF Path
  <2>2. Place(nx, t, x, k) = TSKID_NULL
    BY <1>2, <2>1 DEF Path
  <2>3. y[k] = Place(nx, t, y, k) /\ y[k] \in TaskId
    BY <1>2, <2>1 DEF Path
  <2>4. Place(nx, t, y, k) = Place(nx, t, x, k)
    <3>1. CASE k = 1
      BY <3>1 DEF Place
    <3>2. CASE k # 1
      <4>1. k - 1 = Len(x) /\ k - 1 \in 1 .. Len(x) /\ k - 1 <= Len(y)
        BY <2>1, <3>2
      <4>2. x[k - 1] = y[k - 1]
        <5>1. \A i \in 1 .. Len(x) : i <= Len(y) => x[i] = y[i]
          BY <1>2, PathAgrees
        <5> QED BY <4>1, <5>1
      <4> QED BY <4>2 DEF Place
    <3> QED BY <3>1, <3>2
  <2> QED BY <2>2, <2>3, <2>4, NullTask
<1>3. Len(s) = Len(u)
  BY <1>1, <1>2
<1>4. \A i \in 1 .. Len(s) : s[i] = u[i]
  BY <1>1, <1>3, PathAgrees
<1> QED BY <1>1, <1>3, <1>4, SeqEqual

LEMMA PathCons ==
  ASSUME NEW nx, NEW n \in Nat \ {0}, NEW t \in TaskId, NEW s,
         Path(nx, n - 1, nx[t], s)
  PROVE  Path(nx, n, t, <<t>> \o s)
<1> DEFINE u == <<t>> \o s
<1>1. s \in Seq(TaskId) /\ Len(s) \in Nat /\ Len(s) <= n - 1
  BY DEF Path
<1>2. <<t>> \in Seq(TaskId) /\ Len(<<t>>) = 1 /\ <<t>>[1] = t
  OBVIOUS
<1>3. /\ u \in Seq(TaskId) /\ Len(u) = 1 + Len(s)
      /\ \A i \in 1 .. 1 + Len(s) : u[i] = IF i <= 1 THEN <<t>>[i] ELSE s[i - 1]
  BY <1>1, <1>2, ConcatProperties
<1> HIDE DEF u
<1>4. u[1] = t /\ \A i \in 1 .. Len(s) : u[i + 1] = s[i]
  BY <1>1, <1>2, <1>3
<1>5. \A i \in 1 .. Len(s) + 1 : Place(nx, t, u, i + 1) = Place(nx, nx[t], s, i)
  <2> TAKE i \in 1 .. Len(s) + 1
  <2>1. CASE i = 1
    BY <1>4, <2>1 DEF Place
  <2>2. CASE i # 1
    <3>1. i - 1 \in 1 .. Len(s) /\ i + 1 # 1 /\ (i + 1) - 1 = (i - 1) + 1
      BY <1>1, <2>2
    <3>2. u[(i + 1) - 1] = s[i - 1]
      BY <1>4, <3>1
    <3> QED BY <2>2, <3>1, <3>2 DEF Place
  <2> QED BY <2>1, <2>2
<1>6. ASSUME NEW i \in 1 .. Len(u)
      PROVE  u[i] = Place(nx, t, u, i)
  <2>1. CASE i = 1
    BY <1>4, <2>1 DEF Place
  <2>2. CASE i # 1
    <3>1. i - 1 \in 1 .. Len(s) /\ i - 1 \in 1 .. Len(s) + 1 /\ (i - 1) + 1 = i
      BY <1>1, <1>3, <2>2
    <3>2. u[i] = s[i - 1] /\ s[i - 1] = Place(nx, nx[t], s, i - 1)
      BY <1>4, <3>1 DEF Path
    <3>3. Place(nx, t, u, i) = Place(nx, nx[t], s, i - 1)
      BY <1>5, <3>1
    <3> QED BY <3>2, <3>3
  <2> QED BY <2>1, <2>2
<1>7. Len(u) = n \/ Place(nx, t, u, Len(u) + 1) = TSKID_NULL
  <2>1. Len(s) = n - 1 \/ Place(nx, nx[t], s, Len(s) + 1) = TSKID_NULL
    BY DEF Path
  <2>2. Len(s) + 1 \in 1 .. Len(s) + 1 /\ (Len(s) + 1) + 1 = Len(u) + 1
    BY <1>1, <1>3
  <2>3. Place(nx, t, u, Len(u) + 1) = Place(nx, nx[t], s, Len(s) + 1)
    BY <1>5, <2>2
  <2> QED BY <1>1, <1>3, <2>1, <2>3
<1>8. Len(u) <= n
  BY <1>1, <1>3
<1> QED BY <1>3, <1>6, <1>7, <1>8 DEF Path, u

LEMMA PathNone ==
  ASSUME NEW nx, NEW n \in Nat, NEW t, n = 0 \/ t = TSKID_NULL
  PROVE  Path(nx, n, t, <<>>)
<1>1. <<>> \in Seq(TaskId) /\ Len(<<>>) = 0
  OBVIOUS
<1> QED BY <1>1 DEF Path, Place

LEMMA PathExists ==
  ASSUME NEW nx \in [TaskId -> Link], NEW n \in Nat, NEW t \in Link
  PROVE  \E s : Path(nx, n, t, s)
<1> DEFINE T == {k \in Nat : \E x \in Link : \A s : ~ Path(nx, k, x, s)}
<1>1. ASSUME T # {} PROVE FALSE
  <2>1. PICK k \in T : \A j \in T : k <= j
    BY ONLY <1>1, LeastNat
  <2>2. k \in Nat
    OBVIOUS
  <2>3. PICK x \in Link : \A s : ~ Path(nx, k, x, s)
    OBVIOUS
  <2>4. k # 0 /\ x # TSKID_NULL
    BY <2>2, <2>3, PathNone
  <2>5. k - 1 \in Nat /\ k - 1 \notin T
    <3> HIDE DEF T
    <3>1. k - 1 \in Nat /\ k - 1 < k
      BY <2>2, <2>4
    <3> QED BY <2>1, <2>2, <3>1
  <2>6. x \in TaskId /\ nx[x] \in Link
    BY <2>4 DEF Link
  <2>7. PICK s : Path(nx, k - 1, nx[x], s)
    BY <2>5, <2>6
  <2>8. Path(nx, k, x, <<x>> \o s)
    BY <2>2, <2>4, <2>6, <2>7, PathCons
  <2> QED BY <2>3, <2>8
<1> QED BY <1>1

(* The recursive function of Chain is well defined and finds the path from *)
(* the first task.                                                         *)
LEMMA ChainIsPath ==
  ASSUME NEW r, r.next \in [TaskId -> Link], NEW pri, r.first[pri] \in Link
  PROVE  Path(r.next, tnum_task, r.first[pri], Chain(r, pri))
<1> DEFINE N == 0 .. tnum_task
           nx == r.next
           Body(f, n, t) == IF n = 0 \/ t = TSKID_NULL THEN <<>>
                            ELSE <<t>> \o f[n - 1][r.next[t]]
           Good(f) == f = [n \in N |-> [t \in TaskId \cup {TSKID_NULL} |-> Body(f, n, t)]]
           tasks == CHOOSE f : Good(f)
           w == [n \in N |-> [t \in Link |-> CHOOSE s : Path(nx, n, t, s)]]
<1>1. N \subseteq Nat /\ tnum_task \in N /\ nx \in [TaskId -> Link]
  BY NullTask
<1>2. \A n \in N, t \in Link : Path(nx, n, t, w[n][t])
  <2> TAKE n \in N, t \in Link
  <2>1. \E s : Path(nx, n, t, s)
    BY <1>1, PathExists
  <2>2. w[n][t] = CHOOSE s : Path(nx, n, t, s)
    OBVIOUS
  <2> QED BY <2>1, <2>2
<1>3. \A n \in N, t \in Link : w[n][t] = Body(w, n, t)
  <2> TAKE n \in N, t \in Link
  <2> HIDE DEF w
  <2>1. CASE n = 0 \/ t = TSKID_NULL
    <3>1. Path(nx, n, t, <<>>) /\ Path(nx, n, t, w[n][t])
      BY <1>1, <1>2, <2>1, PathNone
    <3>2. w[n][t] = <<>>
      BY ONLY <1>1, <3>1, n \in N, PathUnique
    <3> QED BY <2>1, <3>2
  <2>2. CASE n # 0 /\ t # TSKID_NULL
    <3>1. /\ n \in Nat \ {0} /\ n - 1 \in N /\ t \in TaskId /\ nx[t] \in Link
      BY <1>1, <2>2, NullTask DEF Link
    <3> DEFINE c == <<t>> \o w[n - 1][nx[t]]
    <3>2. Path(nx, n, t, c)
      BY <1>2, <3>1, PathCons
    <3> HIDE DEF c
    <3>3. Path(nx, n, t, w[n][t])
      BY <1>2
    <3>4. w[n][t] = c
      BY ONLY <3>1, <3>2, <3>3, PathUnique
    <3> QED BY <2>2, <3>4 DEF c
  <2> QED BY <2>1, <2>2
<1>4. Good(w)
  <2>1. w = [n \in N |-> [t \in Link |-> w[n][t]]]
    OBVIOUS
  <2> HIDE DEF w
  <2>2. w = [n \in N |-> [t \in Link |-> Body(w, n, t)]]
    BY <1>3, <2>1
  <2> QED BY <2>2 DEF Link
<1>5. Good(tasks)
  BY <1>4
<1> HIDE DEF tasks, w
<1>6. \A n \in N, t \in Link : tasks[n][t] = Body(tasks, n, t)
  <2> TAKE n \in N, t \in Link
  <2>1. tasks = [k \in N |-> [x \in Link |-> Body(tasks, k, x)]]
    BY <1>5 DEF Link
  <2> HIDE DEF N, Body
  <2>2. tasks[n] = [x \in Link |-> Body(tasks, n, x)]
    BY <2>1
  <2> QED BY <2>2
<1> HIDE DEF Good
<1>7. ASSUME NEW n \in N, NEW t \in Link, ~ Path(nx, n, t, tasks[n][t])
      PROVE  FALSE
  <2> DEFINE T == {m \in N : \E x \in Link : ~ Path(nx, m, x, tasks[m][x])}
  <2>1. T \subseteq Nat /\ T # {}
    BY <1>1, <1>7
  <2>2. PICK m \in T : \A j \in T : m <= j
    BY ONLY <2>1, LeastNat
  <2>3. PICK x \in Link : ~ Path(nx, m, x, tasks[m][x])
    BY <2>2
  <2>4. m \in N /\ m \in Nat
    BY <1>1
  <2>5. m # 0 /\ x # TSKID_NULL
    BY <1>6, <2>3, <2>4, PathNone
  <2>6. /\ m \in Nat \ {0} /\ m - 1 \in N /\ m - 1 < m
        /\ x \in TaskId /\ nx[x] \in Link
    BY <1>1, <2>4, <2>5, NullTask DEF Link
  <2>7. m - 1 \notin T
    <3> HIDE DEF T
    <3> QED BY <2>1, <2>2, <2>4, <2>6
  <2>8. Path(nx, m - 1, nx[x], tasks[m - 1][nx[x]])
    BY <2>6, <2>7
  <2>9. tasks[m][x] = <<x>> \o tasks[m - 1][nx[x]]
    BY <1>6, <2>4, <2>5, <2>6
  <2> QED BY <2>3, <2>6, <2>8, <2>9, PathCons
<1>8. Path(nx, tnum_task, r.first[pri], tasks[tnum_task][r.first[pri]])
  BY <1>1, <1>7
<1> QED BY <1>8 DEF Chain, tasks, Good, Body

-----------------------------------------------------------------------------
(* The list of one priority, as a sequence.                                *)

Nth(s, i) == IF i \in 1 .. Len(s) THEN s[i] ELSE TSKID_NULL

(* The links of r hold the tasks s, all different and of priority p, as    *)
(* the list of p.  What last and the links of other tasks hold if they are *)
(* not part of the list does not matter.                                   *)
Row(r, c, p, s) ==
  /\ s \in Seq(TaskId)
  /\ r.first[p] = Nth(s, 1)
  /\ s # <<>> => r.last[p] = s[Len(s)]
  /\ \A i \in 1 .. Len(s) : r.next[s[i]] = Nth(s, i + 1) /\ c[s[i]] = p
  /\ \A i, j \in 1 .. Len(s) : s[i] = s[j] => i = j

(* A list has at most all tasks. *)
LEMMA RowLength ==
  ASSUME NEW r, NEW c, NEW p, NEW s, Row(r, c, p, s)
  PROVE  Len(s) \in Nat /\ Len(s) <= tnum_task
<1>1. /\ s \in Seq(TaskId) /\ Len(s) \in Nat
      /\ \A i, j \in 1 .. Len(s) : s[i] = s[j] => i = j
  BY DEF Row
<1>2. s \in [1 .. Len(s) -> TaskId]
  BY <1>1
<1>3. s \in Injection(1 .. Len(s), TaskId)
  BY ONLY <1>1, <1>2 DEF Injection, IsInjective
<1>4. IsFiniteSet(TaskId) /\ Cardinality(TaskId) = tnum_task
  <2>1. tnum_task \in Nat \ {0} /\ 0 \in Int /\ tnum_task - 1 \in Int
    BY SixteenPriorities DEF TSKID_NULL
  <2>2. /\ IsFiniteSet(0 .. tnum_task - 1)
        /\ Cardinality(0 .. tnum_task - 1) =
             IF 0 > tnum_task - 1 THEN 0 ELSE (tnum_task - 1) - 0 + 1
    BY ONLY <2>1, FS_Interval
  <2> QED BY <2>1, <2>2 DEF TaskId
<1>5. Cardinality(1 .. Len(s)) <= Cardinality(TaskId)
  BY ONLY <1>3, <1>4, FS_Injection
<1>6. Cardinality(1 .. Len(s)) = Len(s)
  <2>1. Cardinality(1 .. Len(s)) = IF 1 > Len(s) THEN 0 ELSE Len(s) - 1 + 1
    BY <1>1, FS_Interval
  <2> QED BY <1>1, <2>1
<1> QED BY <1>1, <1>4, <1>5, <1>6

LEMMA ChainIsRow ==
  ASSUME NEW r, r.next \in [TaskId -> Link], NEW c, NEW p, NEW s, Row(r, c, p, s)
  PROVE  Chain(r, p) = s
<1>1. /\ s \in Seq(TaskId) /\ r.first[p] = Nth(s, 1)
      /\ \A i \in 1 .. Len(s) : r.next[s[i]] = Nth(s, i + 1) /\ s[i] \in TaskId
  BY DEF Row
<1>2. Len(s) \in Nat /\ Len(s) <= tnum_task
  BY RowLength
<1>3. \A i \in 1 .. Len(s) + 1 : Place(r.next, r.first[p], s, i) = Nth(s, i)
  <2> TAKE i \in 1 .. Len(s) + 1
  <2>1. CASE i = 1
    BY <1>1, <2>1 DEF Place
  <2>2. CASE i # 1
    <3>1. i - 1 \in 1 .. Len(s) /\ (i - 1) + 1 = i
      BY <1>2, <2>2
    <3> QED BY <1>1, <2>2, <3>1 DEF Place
  <2> QED BY <2>1, <2>2
<1>4. \A i \in 1 .. Len(s) : s[i] = Place(r.next, r.first[p], s, i)
  <2> TAKE i \in 1 .. Len(s)
  <2>1. i \in 1 .. Len(s) + 1
    BY <1>2
  <2> QED BY <1>3, <2>1 DEF Nth
<1>5. Place(r.next, r.first[p], s, Len(s) + 1) = TSKID_NULL
  <2>1. Len(s) + 1 \in 1 .. Len(s) + 1 /\ Len(s) + 1 \notin 1 .. Len(s)
    BY <1>2
  <2> QED BY <1>3, <2>1 DEF Nth
<1>6. Path(r.next, tnum_task, r.first[p], s)
  BY <1>1, <1>2, <1>4, <1>5 DEF Path
<1>7. r.first[p] \in Link
  BY <1>1 DEF Nth, Link
<1>8. Path(r.next, tnum_task, r.first[p], Chain(r, p))
  BY <1>7, ChainIsPath
<1> QED BY ONLY <1>6, <1>8, NullTask, PathUnique

(* A list that is not touched stays. *)
LEMMA RowStays ==
  ASSUME NEW r, NEW c, NEW p, NEW s, Row(r, c, p, s), NEW f, NEW d,
         f.first[p] = r.first[p], f.last[p] = r.last[p] \/ s = <<>>,
         \A i \in 1 .. Len(s) : f.next[s[i]] = r.next[s[i]] /\ d[s[i]] = c[s[i]]
  PROVE  Row(f, d, p, s)
BY DEF Row

(* A list with a new first task, ... *)
LEMMA RowFirst ==
  ASSUME NEW r, NEW c, NEW p, NEW s, Row(r, c, p, s), NEW f,
         NEW t \in TaskId, \A i \in 1 .. Len(s) : s[i] # t, c[t] = p,
         f.first[p] = t, f.next[t] = r.first[p],
         \A u \in TaskId \ {t} : f.next[u] = r.next[u],
         f.last[p] = IF r.first[p] = TSKID_NULL THEN t ELSE r.last[p]
  PROVE  Row(f, c, p, <<t>> \o s)
<1> DEFINE u == <<t>> \o s
<1>1. /\ s \in Seq(TaskId) /\ Len(s) \in Nat
      /\ r.first[p] = Nth(s, 1)
      /\ s # <<>> => r.last[p] = s[Len(s)]
      /\ \A i \in 1 .. Len(s) : /\ r.next[s[i]] = Nth(s, i + 1) /\ c[s[i]] = p
                                /\ s[i] \in TaskId
      /\ \A i, j \in 1 .. Len(s) : s[i] = s[j] => i = j
  BY DEF Row
<1>2. <<t>> \in Seq(TaskId) /\ Len(<<t>>) = 1 /\ <<t>>[1] = t
  OBVIOUS
<1>3. /\ u \in Seq(TaskId) /\ Len(u) = 1 + Len(s)
      /\ \A i \in 1 .. 1 + Len(s) : u[i] = IF i <= 1 THEN <<t>>[i] ELSE s[i - 1]
  BY <1>1, <1>2, ConcatProperties
<1> HIDE DEF u
<1>4. u[1] = t /\ \A i \in 2 .. Len(u) : i - 1 \in 1 .. Len(s) /\ u[i] = s[i - 1]
  BY <1>1, <1>2, <1>3
<1>5. \A i \in 1 .. Len(s) + 1 : Nth(u, i + 1) = Nth(s, i)
  <2> TAKE i \in 1 .. Len(s) + 1
  <2>1. CASE i = Len(s) + 1
    BY <1>1, <1>3, <2>1 DEF Nth
  <2>2. CASE i \in 1 .. Len(s)
    <3>1. i + 1 \in 2 .. Len(u) /\ (i + 1) - 1 = i
      BY <1>1, <1>3, <2>2
    <3> QED BY <1>4, <2>2, <3>1 DEF Nth
  <2> QED BY <1>1, <2>1, <2>2
<1>6. f.first[p] = Nth(u, 1)
  BY <1>1, <1>3, <1>4 DEF Nth
<1>7. f.last[p] = u[Len(u)]
  <2>1. CASE s = <<>>
    <3>1. Len(s) = 0
      BY <2>1
    <3> QED BY <1>1, <1>3, <1>4, <3>1 DEF Nth
  <2>2. CASE s # <<>>
    <3>1. Len(s) >= 1
      BY <1>1, <2>2
    <3>2. r.first[p] = s[1] /\ s[1] \in TaskId
      BY <1>1, <3>1 DEF Nth
    <3>3. Len(u) \in 2 .. Len(u) /\ Len(u) - 1 = Len(s)
      BY <1>1, <1>3, <3>1
    <3> QED BY <1>1, <1>4, <2>2, <3>2, <3>3, NullTask
  <2> QED BY <2>1, <2>2
<1>8. ASSUME NEW i \in 1 .. Len(u)
      PROVE  f.next[u[i]] = Nth(u, i + 1) /\ c[u[i]] = p
  <2>1. CASE i = 1
    <3>1. 1 \in 1 .. Len(s) + 1
      BY <1>1
    <3> QED BY <1>1, <1>4, <1>5, <2>1, <3>1
  <2>2. CASE i # 1
    <3>1. i \in 2 .. Len(u) /\ (i - 1) + 1 = i /\ i \in 1 .. Len(s) + 1
      BY <1>1, <1>3, <2>2
    <3>2. i - 1 \in 1 .. Len(s) /\ u[i] = s[i - 1]
      BY <1>4, <3>1
    <3>3. f.next[s[i - 1]] = Nth(s, i) /\ c[s[i - 1]] = p
      <4>1. f.next[s[i - 1]] = r.next[s[i - 1]]
        BY <1>1, <3>2
      <4> QED BY <1>1, <3>1, <3>2, <4>1
    <3> QED BY <1>5, <3>1, <3>2, <3>3
  <2> QED BY <2>1, <2>2
<1>9. ASSUME NEW i \in 1 .. Len(u), NEW j \in 1 .. Len(u), u[i] = u[j]
      PROVE  i = j
  <2>1. CASE i = 1
    BY <1>3, <1>4, <1>9, <2>1
  <2>2. CASE j = 1
    BY <1>3, <1>4, <1>9, <2>2
  <2>3. CASE i # 1 /\ j # 1
    <3>1. i \in 2 .. Len(u) /\ j \in 2 .. Len(u)
      BY <1>1, <1>3, <2>3
    <3> DEFINE x == i - 1
               y == j - 1
    <3>2. x \in 1 .. Len(s) /\ y \in 1 .. Len(s) /\ s[x] = s[y]
      BY <1>4, <1>9, <3>1
    <3>3. x = y => i = j
      BY <3>1
    <3> HIDE DEF x, y
    <3> QED BY <1>1, <3>2, <3>3
  <2> QED BY <2>1, <2>2, <2>3
<1> QED BY <1>3, <1>6, <1>7, <1>8, <1>9 DEF Row, u

(* ... with a new last task, ... *)
LEMMA RowLast ==
  ASSUME NEW r, NEW c, NEW p, NEW s, Row(r, c, p, s), NEW f,
         NEW t \in TaskId, \A i \in 1 .. Len(s) : s[i] # t, c[t] = p,
         f.first[p] = IF r.first[p] = TSKID_NULL THEN t ELSE r.first[p],
         f.last[p] = t, f.next[t] = TSKID_NULL,
         \A u \in TaskId \ {t} :
           f.next[u] = IF r.first[p] # TSKID_NULL /\ u = r.last[p] THEN t ELSE r.next[u]
  PROVE  Row(f, c, p, Append(s, t))
<1> DEFINE u == Append(s, t)
<1>1. /\ s \in Seq(TaskId) /\ Len(s) \in Nat
      /\ r.first[p] = Nth(s, 1)
      /\ s # <<>> => r.last[p] = s[Len(s)]
      /\ \A i \in 1 .. Len(s) : /\ r.next[s[i]] = Nth(s, i + 1) /\ c[s[i]] = p
                                /\ s[i] \in TaskId
      /\ \A i, j \in 1 .. Len(s) : s[i] = s[j] => i = j
  BY DEF Row
<1>2. /\ u \in Seq(TaskId) /\ u # <<>> /\ Len(u) = Len(s) + 1
      /\ \A i \in 1 .. Len(s) : u[i] = s[i]
      /\ u[Len(s) + 1] = t
  BY <1>1, AppendProperties
<1> HIDE DEF u
<1>3. s # <<>> <=> r.first[p] # TSKID_NULL
  <2>1. s # <<>> <=> Len(s) >= 1
    BY <1>1
  <2> QED BY <1>1, <2>1, NullTask DEF Nth
<1>4. f.first[p] = Nth(u, 1)
  <2>1. 1 \in 1 .. Len(u)
    BY <1>1, <1>2
  <2>2. CASE s = <<>>
    <3>1. Len(s) = 0
      BY <2>2
    <3> QED BY <1>2, <1>3, <2>1, <2>2, <3>1 DEF Nth
  <2>3. CASE s # <<>>
    <3>1. 1 \in 1 .. Len(s)
      BY <1>1, <2>3
    <3> QED BY <1>1, <1>2, <1>3, <2>1, <2>3, <3>1 DEF Nth
  <2> QED BY <2>2, <2>3
<1>5. f.last[p] = u[Len(u)]
  BY <1>2
<1>6. ASSUME NEW i \in 1 .. Len(u)
      PROVE  f.next[u[i]] = Nth(u, i + 1) /\ c[u[i]] = p
  <2>1. CASE i = Len(s) + 1
    <3>1. i + 1 \notin 1 .. Len(u)
      BY <1>1, <1>2, <2>1
    <3> QED BY <1>2, <2>1, <3>1 DEF Nth
  <2>2. CASE i = Len(s) /\ i \in 1 .. Len(s)
    <3>1. i + 1 \in 1 .. Len(u) /\ i + 1 = Len(s) + 1 /\ s # <<>>
      BY <1>1, <1>2, <2>2
    <3>2. s[i] = r.last[p] /\ s[i] # t /\ s[i] \in TaskId /\ u[i] = s[i]
      BY <1>1, <1>2, <2>2, <3>1
    <3>3. f.next[s[i]] = t
      BY <1>3, <3>1, <3>2
    <3> QED BY <1>1, <1>2, <2>2, <3>1, <3>2, <3>3 DEF Nth
  <2>3. CASE i \in 1 .. Len(s) - 1
    <3>1. i \in 1 .. Len(s) /\ i + 1 \in 1 .. Len(s) /\ i + 1 \in 1 .. Len(u)
      BY <1>1, <1>2, <2>3
    <3>2. s[i] # t /\ s[i] \in TaskId /\ u[i] = s[i] /\ u[i + 1] = s[i + 1]
      BY <1>1, <1>2, <3>1
    <3>3. s[i] # r.last[p]
      <4>1. Len(s) \in 1 .. Len(s) /\ i # Len(s) /\ s # <<>>
        BY <1>1, <2>3
      <4> QED BY <1>1, <3>1, <4>1
    <3>4. f.next[s[i]] = r.next[s[i]]
      BY <3>2, <3>3
    <3> QED BY <1>1, <3>1, <3>2, <3>4 DEF Nth
  <2> QED BY <1>1, <1>2, <2>1, <2>2, <2>3
<1>7. ASSUME NEW i \in 1 .. Len(u), NEW j \in 1 .. Len(u), u[i] = u[j]
      PROVE  i = j
  <2>1. /\ i \in 1 .. Len(s) \/ i = Len(s) + 1
        /\ j \in 1 .. Len(s) \/ j = Len(s) + 1
    BY <1>1, <1>2
  <2> QED BY <1>1, <1>2, <1>7, <2>1
<1> QED BY <1>2, <1>4, <1>5, <1>6, <1>7 DEF Row, u

(* ... and without its first. *)
LEMMA RowTail ==
  ASSUME NEW r, NEW c, NEW p, NEW s, Row(r, c, p, s), s # <<>>, NEW f,
         f.first[p] = r.next[r.first[p]], f.last[p] = r.last[p], f.next = r.next
  PROVE  /\ r.first[p] = Head(s) /\ Head(s) \in TaskId
         /\ Row(f, c, p, Tail(s))
         /\ \A i \in 1 .. Len(Tail(s)) : i + 1 \in 1 .. Len(s) /\ Tail(s)[i] = s[i + 1]
         /\ \A i \in 1 .. Len(Tail(s)) : Tail(s)[i] # Head(s)
         /\ Tail(s) = <<>> <=> f.first[p] = TSKID_NULL
         /\ Tail(s) = <<>> <=> ~ (Len(s) > 1)
<1> DEFINE u == Tail(s)
<1>1. /\ s \in Seq(TaskId) /\ Len(s) \in Nat /\ Len(s) >= 1
      /\ r.first[p] = Nth(s, 1) /\ r.last[p] = s[Len(s)]
      /\ \A i \in 1 .. Len(s) : /\ r.next[s[i]] = Nth(s, i + 1) /\ c[s[i]] = p
                                /\ s[i] \in TaskId
      /\ \A i, j \in 1 .. Len(s) : s[i] = s[j] => i = j
  BY DEF Row
<1>2. /\ u \in Seq(TaskId) /\ Len(u) = Len(s) - 1
      /\ \A i \in 1 .. Len(u) : u[i] = s[i + 1]
  BY <1>1, HeadTailProperties
<1>3. Head(s) = s[1]
  OBVIOUS
<1> HIDE DEF u
<1>4. r.first[p] = s[1] /\ s[1] \in TaskId
  BY <1>1 DEF Nth
<1>5. \A i \in 1 .. Len(u) + 1 : Nth(u, i) = Nth(s, i + 1)
  <2> TAKE i \in 1 .. Len(u) + 1
  <2>1. CASE i \in 1 .. Len(u)
    <3>1. i + 1 \in 1 .. Len(s)
      BY <1>1, <1>2, <2>1
    <3> QED BY <1>2, <2>1, <3>1 DEF Nth
  <2>2. CASE i = Len(u) + 1
    <3>1. i + 1 \notin 1 .. Len(s) /\ i \notin 1 .. Len(u)
      BY <1>1, <1>2, <2>2
    <3> QED BY <3>1 DEF Nth
  <2> QED BY <1>1, <1>2, <2>1, <2>2
<1>6. f.first[p] = Nth(u, 1)
  <2>1. 1 \in 1 .. Len(u) + 1 /\ 1 \in 1 .. Len(s)
    BY <1>1, <1>2
  <2>2. f.first[p] = Nth(s, 1 + 1)
    BY <1>1, <1>4, <2>1
  <2> QED BY <1>5, <2>1, <2>2
<1>7. u # <<>> => f.last[p] = u[Len(u)]
  <2>1. SUFFICES ASSUME u # <<>> PROVE f.last[p] = u[Len(u)]
    OBVIOUS
  <2>2. Len(u) \in 1 .. Len(u) /\ Len(u) + 1 = Len(s)
    BY <1>1, <1>2, <2>1
  <2> QED BY <1>1, <1>2, <2>2
<1>8. \A i \in 1 .. Len(u) : i + 1 \in 1 .. Len(s) /\ u[i] = s[i + 1] /\ u[i] # s[1]
  <2> TAKE i \in 1 .. Len(u)
  <2>1. i + 1 \in 1 .. Len(s) /\ 1 \in 1 .. Len(s) /\ i + 1 # 1
    BY <1>1, <1>2
  <2> QED BY <1>1, <1>2, <2>1
<1>9. ASSUME NEW i \in 1 .. Len(u)
      PROVE  f.next[u[i]] = Nth(u, i + 1) /\ c[u[i]] = p
  <2>1. i + 1 \in 1 .. Len(u) + 1
    BY <1>1, <1>2
  <2>2. Nth(u, i + 1) = Nth(s, (i + 1) + 1)
    BY <1>5, <2>1
  <2> QED BY <1>1, <1>8, <2>2
<1>10. ASSUME NEW i \in 1 .. Len(u), NEW j \in 1 .. Len(u), u[i] = u[j]
       PROVE  i = j
  <2>1. i + 1 = j + 1
    BY <1>1, <1>8, <1>10
  <2> QED BY <2>1
<1>11. Row(f, c, p, u)
  BY <1>2, <1>6, <1>7, <1>9, <1>10 DEF Row
<1>12. u = <<>> <=> Len(u) = 0
  BY <1>2
<1>13. u = <<>> <=> f.first[p] = TSKID_NULL
  <2>1. CASE Len(u) = 0
    BY <1>6, <1>12, <2>1 DEF Nth
  <2>2. CASE Len(u) # 0
    <3>1. 1 \in 1 .. Len(u)
      BY <1>1, <1>2, <2>2
    <3>2. u[1] \in TaskId
      BY <1>2, <3>1
    <3> QED BY <1>6, <1>12, <2>2, <3>1, <3>2, NullTask DEF Nth
  <2> QED BY <2>1, <2>2
<1>14. u = <<>> <=> ~ (Len(s) > 1)
  BY <1>1, <1>2, <1>12
<1> QED BY <1>3, <1>4, <1>8, <1>11, <1>13, <1>14 DEF u

-----------------------------------------------------------------------------
(* The lists of all priorities, with their map.                            *)

Ready == [first    : [Priority -> Link],
          last     : [Priority -> TaskId],
          next     : [TaskId -> Link],
          primap   : Bitmap,
          nextpri  : Priority,
          schedtsk : Link]

(* r holds the tasks L of each priority. *)
Holds(r, c, L) ==
  /\ r \in Ready
  /\ L \in [Priority -> Seq(TaskId)]
  /\ c \in [TaskId -> Priority]
  /\ \A p \in Priority : Row(r, c, p, L[p])
  /\ \A p \in 0 .. 15 : HasBit(r.primap, p) <=> (p \in Priority /\ L[p] # <<>>)

Absent(L, t) == \A p \in Priority : \A i \in 1 .. Len(L[p]) : L[p][i] # t

(* nextpri is the highest priority with a task in its list. *)
Highest(r, L) ==
  /\ \A p \in Priority : L[p] # <<>> => p <= r.nextpri
  /\ L[r.nextpri] # <<>> \/ r.nextpri = TPRI_MINTASK

(* schedtsk is in no list and outranked by no task of one. *)
Chosen(r, c, L) ==
  /\ Absent(L, r.schedtsk)
  /\ r.schedtsk = TSKID_NULL => \A p \in Priority : L[p] = <<>>
  /\ r.schedtsk # TSKID_NULL => r.nextpri <= c[r.schedtsk]

LEMMA PriorityBit == \A p \in Priority : p \in 0 .. 15 /\ p \in Nat
BY SixteenPriorities DEF Priority, TPRI_MINTASK

LEMMA MinPriority == TPRI_MINTASK \in Priority /\ \A p \in Priority : TPRI_MINTASK <= p
BY SixteenPriorities DEF Priority, TPRI_MINTASK

LEMMA InsertFirstFields ==
  ASSUME NEW r \in Ready, NEW p \in Priority, NEW t \in TaskId
  PROVE  LET f == ready_insert_first(r, p, t)
         IN  /\ f \in Ready
             /\ f.first = [r.first EXCEPT ![p] = t]
             /\ f.last[p] = IF r.first[p] = TSKID_NULL THEN t ELSE r.last[p]
             /\ \A q \in Priority \ {p} : f.last[q] = r.last[q]
             /\ f.next = [r.next EXCEPT ![t] = r.first[p]]
             /\ f.primap = SetBit(r.primap, p)
             /\ f.nextpri = r.nextpri /\ f.schedtsk = r.schedtsk
<1>1. SetBit(r.primap, p) \in Bitmap
  BY PriorityBit, SetBitExact DEF Ready
<1> QED BY <1>1 DEF Ready, ready_insert_first, Link

LEMMA InsertLastFields ==
  ASSUME NEW r \in Ready, NEW p \in Priority, NEW t \in TaskId
  PROVE  LET f == ready_insert_last(r, p, t)
         IN  /\ f \in Ready
             /\ f.first = IF r.first[p] = TSKID_NULL THEN [r.first EXCEPT ![p] = t]
                                                     ELSE r.first
             /\ f.last = [r.last EXCEPT ![p] = t]
             /\ f.next[t] = TSKID_NULL
             /\ \A u \in TaskId \ {t} :
                  f.next[u] = IF r.first[p] # TSKID_NULL /\ u = r.last[p]
                              THEN t ELSE r.next[u]
             /\ f.primap = SetBit(r.primap, p)
             /\ f.nextpri = r.nextpri /\ f.schedtsk = r.schedtsk
<1>1. SetBit(r.primap, p) \in Bitmap
  BY PriorityBit, SetBitExact DEF Ready
<1>2. CASE r.first[p] = TSKID_NULL
  BY <1>1, <1>2 DEF Ready, ready_insert_last, Link
<1>3. CASE r.first[p] # TSKID_NULL
  BY <1>1, <1>3 DEF Ready, ready_insert_last, Link
<1> QED BY <1>2, <1>3

LEMMA InsertKeeps ==
  ASSUME NEW r \in Ready, NEW p \in Priority, NEW t \in TaskId
  PROVE  /\ ready_insert_first(r, p, t) \in Ready
         /\ ready_insert_first(r, p, t).nextpri = r.nextpri
         /\ ready_insert_first(r, p, t).schedtsk = r.schedtsk
         /\ ready_insert_last(r, p, t) \in Ready
         /\ ready_insert_last(r, p, t).nextpri = r.nextpri
         /\ ready_insert_last(r, p, t).schedtsk = r.schedtsk
<1>1. SetBit(r.primap, p) \in Bitmap
  BY PriorityBit, SetBitExact DEF Ready
<1>2. /\ ready_insert_first(r, p, t) \in Ready
      /\ ready_insert_first(r, p, t).nextpri = r.nextpri
      /\ ready_insert_first(r, p, t).schedtsk = r.schedtsk
  BY <1>1 DEF Ready, ready_insert_first, Link
<1>3. CASE r.first[p] = TSKID_NULL
  BY <1>1, <1>2, <1>3 DEF Ready, ready_insert_last, Link
<1>4. CASE r.first[p] # TSKID_NULL
  BY <1>1, <1>2, <1>4 DEF Ready, ready_insert_last, Link
<1> QED BY <1>3, <1>4

(* What a task at one end of a list does to all lists. *)
Ahead(L, p, t)  == [L EXCEPT ![p] = <<t>> \o @]
Behind(L, p, t) == [L EXCEPT ![p] = Append(@, t)]

LEMMA InsertFirst ==
  ASSUME NEW r, NEW c, NEW L, Holds(r, c, L), NEW p \in Priority, NEW t \in TaskId,
         Absent(L, t), c[t] = p
  PROVE  Holds(ready_insert_first(r, p, t), c, Ahead(L, p, t))
<1> DEFINE f == ready_insert_first(r, p, t)
           M == Ahead(L, p, t)
<1>1. /\ r \in Ready /\ L \in [Priority -> Seq(TaskId)] /\ c \in [TaskId -> Priority]
      /\ \A q \in Priority : Row(r, c, q, L[q])
      /\ \A q \in 0 .. 15 : HasBit(r.primap, q) <=> (q \in Priority /\ L[q] # <<>>)
  BY DEF Holds
<1>2. /\ f \in Ready
      /\ f.first = [r.first EXCEPT ![p] = t]
      /\ f.last[p] = IF r.first[p] = TSKID_NULL THEN t ELSE r.last[p]
      /\ \A q \in Priority \ {p} : f.last[q] = r.last[q]
      /\ f.next = [r.next EXCEPT ![t] = r.first[p]]
      /\ f.primap = SetBit(r.primap, p)
  <2>1. r \in Ready
    BY <1>1
  <2> QED BY ONLY <2>1, p \in Priority, t \in TaskId, InsertFirstFields
<1> HIDE DEF f
<1>3. /\ r.first \in [Priority -> Link] /\ r.last \in [Priority -> TaskId]
      /\ r.next \in [TaskId -> Link] /\ r.primap \in Bitmap
  BY <1>1 DEF Ready
<1>4. /\ M \in [Priority -> Seq(TaskId)] /\ M[p] = <<t>> \o L[p] /\ M[p] # <<>>
      /\ \A q \in Priority \ {p} : M[q] = L[q]
  <2>1. L[p] \in Seq(TaskId) /\ <<t>> \in Seq(TaskId) /\ Len(<<t>>) = 1
    BY <1>1
  <2>2. <<t>> \o L[p] \in Seq(TaskId) /\ Len(<<t>> \o L[p]) = 1 + Len(L[p])
    BY <2>1, ConcatProperties
  <2>3. <<t>> \o L[p] # <<>>
    BY <2>1, <2>2
  <2> QED BY <1>1, <2>2, <2>3 DEF Ahead
<1> HIDE DEF M
<1>5. Row(f, c, p, M[p])
  <2>1. Row(r, c, p, L[p]) /\ \A i \in 1 .. Len(L[p]) : L[p][i] # t
    BY <1>1 DEF Absent
  <2>2. /\ f.first[p] = t /\ f.next[t] = r.first[p]
        /\ \A u \in TaskId \ {t} : f.next[u] = r.next[u]
        /\ f.last[p] = IF r.first[p] = TSKID_NULL THEN t ELSE r.last[p]
    BY <1>2, <1>3
  <2>3. Row(f, c, p, <<t>> \o L[p])
    BY ONLY <2>1, <2>2, c[t] = p, t \in TaskId, RowFirst
  <2> QED BY <1>4, <2>3
<1>6. ASSUME NEW q \in Priority \ {p}
      PROVE  Row(f, c, q, M[q])
  <2>1. Row(r, c, q, L[q]) /\ \A i \in 1 .. Len(L[q]) : L[q][i] # t /\ L[q][i] \in TaskId
    BY <1>1 DEF Absent
  <2>2. f.first[q] = r.first[q] /\ f.last[q] = r.last[q]
    BY <1>2, <1>3
  <2>3. \A i \in 1 .. Len(L[q]) : f.next[L[q][i]] = r.next[L[q][i]]
    BY <1>2, <1>3, <2>1
  <2>4. Row(f, c, q, L[q])
    BY ONLY <2>1, <2>2, <2>3, RowStays
  <2> QED BY <1>4, <2>4
<1>7. ASSUME NEW q \in 0 .. 15
      PROVE  HasBit(f.primap, q) <=> (q \in Priority /\ M[q] # <<>>)
  <2>1. HasBit(f.primap, q) <=> (q = p \/ HasBit(r.primap, q))
    BY <1>2, <1>3, PriorityBit, SetBitExact
  <2> QED BY <1>1, <1>4, <2>1
<1>8. \A q \in Priority : Row(f, c, q, M[q])
  BY <1>5, <1>6
<1> QED BY <1>1, <1>2, <1>4, <1>7, <1>8 DEF Holds, f, M

LEMMA InsertLast ==
  ASSUME NEW r, NEW c, NEW L, Holds(r, c, L), NEW p \in Priority, NEW t \in TaskId,
         Absent(L, t), c[t] = p
  PROVE  Holds(ready_insert_last(r, p, t), c, Behind(L, p, t))
<1> DEFINE f == ready_insert_last(r, p, t)
           M == Behind(L, p, t)
<1>1. /\ r \in Ready /\ L \in [Priority -> Seq(TaskId)] /\ c \in [TaskId -> Priority]
      /\ \A q \in Priority : Row(r, c, q, L[q])
      /\ \A q \in 0 .. 15 : HasBit(r.primap, q) <=> (q \in Priority /\ L[q] # <<>>)
  BY DEF Holds
<1>2. /\ f \in Ready
      /\ f.first = IF r.first[p] = TSKID_NULL THEN [r.first EXCEPT ![p] = t]
                                              ELSE r.first
      /\ f.last = [r.last EXCEPT ![p] = t]
      /\ f.next[t] = TSKID_NULL
      /\ \A u \in TaskId \ {t} :
           f.next[u] = IF r.first[p] # TSKID_NULL /\ u = r.last[p]
                       THEN t ELSE r.next[u]
      /\ f.primap = SetBit(r.primap, p)
  <2>1. r \in Ready
    BY <1>1
  <2> QED BY ONLY <2>1, p \in Priority, t \in TaskId, InsertLastFields
<1> HIDE DEF f
<1>3. /\ r.first \in [Priority -> Link] /\ r.last \in [Priority -> TaskId]
      /\ r.next \in [TaskId -> Link] /\ r.primap \in Bitmap
  BY <1>1 DEF Ready
<1>4. /\ M \in [Priority -> Seq(TaskId)] /\ M[p] = Append(L[p], t) /\ M[p] # <<>>
      /\ \A q \in Priority \ {p} : M[q] = L[q]
  <2>1. L[p] \in Seq(TaskId)
    BY <1>1
  <2>2. Append(L[p], t) \in Seq(TaskId) /\ Append(L[p], t) # <<>>
    BY ONLY <2>1, t \in TaskId, AppendProperties
  <2> QED BY <1>1, <2>2 DEF Behind
<1> HIDE DEF M
<1>5. Row(f, c, p, M[p])
  <2>1. Row(r, c, p, L[p]) /\ \A i \in 1 .. Len(L[p]) : L[p][i] # t
    BY <1>1 DEF Absent
  <2>2. /\ f.first[p] = IF r.first[p] = TSKID_NULL THEN t ELSE r.first[p]
        /\ f.last[p] = t /\ f.next[t] = TSKID_NULL
        /\ \A u \in TaskId \ {t} :
             f.next[u] = IF r.first[p] # TSKID_NULL /\ u = r.last[p]
                         THEN t ELSE r.next[u]
    BY <1>2, <1>3
  <2>3. Row(f, c, p, Append(L[p], t))
    BY ONLY <2>1, <2>2, c[t] = p, t \in TaskId, RowLast
  <2> QED BY <1>4, <2>3
<1>6. r.first[p] # TSKID_NULL => c[r.last[p]] = p
  <2>1. SUFFICES ASSUME r.first[p] # TSKID_NULL PROVE c[r.last[p]] = p
    OBVIOUS
  <2>2. Row(r, c, p, L[p]) /\ L[p] \in Seq(TaskId)
    BY <1>1
  <2>3. 1 \in 1 .. Len(L[p])
    BY <2>1, <2>2 DEF Row, Nth
  <2>4. Len(L[p]) \in 1 .. Len(L[p]) /\ L[p] # <<>>
    BY <2>2, <2>3
  <2> QED BY <2>2, <2>4 DEF Row
<1>7. ASSUME NEW q \in Priority \ {p}
      PROVE  Row(f, c, q, M[q])
  <2>1. /\ Row(r, c, q, L[q])
        /\ \A i \in 1 .. Len(L[q]) : L[q][i] # t /\ L[q][i] \in TaskId /\ c[L[q][i]] = q
    BY <1>1 DEF Absent, Row
  <2>2. f.first[q] = r.first[q] /\ f.last[q] = r.last[q]
    BY <1>2, <1>3
  <2>3. \A i \in 1 .. Len(L[q]) : f.next[L[q][i]] = r.next[L[q][i]]
    BY <1>2, <1>6, <2>1
  <2>4. Row(f, c, q, L[q])
    BY ONLY <2>1, <2>2, <2>3, RowStays
  <2> QED BY <1>4, <2>4
<1>8. ASSUME NEW q \in 0 .. 15
      PROVE  HasBit(f.primap, q) <=> (q \in Priority /\ M[q] # <<>>)
  <2>1. HasBit(f.primap, q) <=> (q = p \/ HasBit(r.primap, q))
    BY <1>2, <1>3, PriorityBit, SetBitExact
  <2> QED BY <1>1, <1>4, <2>1
<1>9. \A q \in Priority : Row(f, c, q, M[q])
  BY <1>5, <1>7
<1> QED BY <1>1, <1>2, <1>4, <1>8, <1>9 DEF Holds, f, M

(* The map stands for the set of its bits, and the table search finds the  *)
(* highest of them.                                                        *)
LEMMA MapExact ==
  ASSUME NEW m \in Bitmap, NEW B, B \subseteq 0 .. 15,
         \A q \in 0 .. 15 : HasBit(m, q) <=> q \in B
  PROVE  /\ m = 0 <=> B = {}
         /\ m # 0 => /\ bitmap_search(m) \in B
                     /\ \A q \in B : q <= bitmap_search(m)
                     /\ Queue!bitmap_search(B) = bitmap_search(m)
<1>1. CASE m = 0
  <2>1. ASSUME NEW q \in 0 .. 15 PROVE ~ HasBit(m, q)
    <3> DEFINE w == PRIMAP_BIT(q)
    <3>1. w \in Nat \ {0}
      BY Powers
    <3> HIDE DEF w
    <3>2. 0 \div w = 0
      BY <3>1
    <3> QED BY <1>1, <3>2 DEF HasBit, w
  <2> QED BY <1>1, <2>1
<1>2. CASE m # 0
  <2> DEFINE s == bitmap_search(m)
  <2>1. m \in Nat /\ 0 < m /\ m < 65536
    BY <1>2 DEF Bitmap, Maps
  <2>2. s \in 0 .. 15 /\ HasBit(m, s) /\ \A q \in 0 .. 15 : q > s => ~ HasBit(m, q)
    BY ONLY <2>1, BitmapSearchExact
  <2> HIDE DEF s
  <2>3. s \in B /\ \A q \in B : q <= s
    BY <2>2
  <2>4. \A x \in B : (\A q \in B : q <= x) => x = s
    BY <2>2, <2>3
  <2>5. Queue!bitmap_search(B) = s
    BY <2>3, <2>4 DEF Queue!bitmap_search
  <2> QED BY <1>2, <2>3, <2>5 DEF s
<1> QED BY <1>1, <1>2

-----------------------------------------------------------------------------
(* The operators of OsekTask on the tasks of the lists.                    *)

Sets(L) == {p \in Priority : L[p] # <<>>}

(* What r stands for, if it holds the tasks L. *)
Stands(r, L) == [queue |-> L, primap |-> Sets(L),
                 nextpri |-> r.nextpri, schedtsk |-> r.schedtsk]

LEMMA NoneSet ==
  ASSUME NEW r, NEW c, NEW L, Holds(r, c, L)
  PROVE  /\ r.primap = 0 <=> Sets(L) = {}
         /\ r.primap # 0 => /\ bitmap_search(r.primap) \in Sets(L)
                            /\ \A q \in Sets(L) : q <= bitmap_search(r.primap)
                            /\ Queue!bitmap_search(Sets(L)) = bitmap_search(r.primap)
<1>1. r.primap \in Bitmap
  BY DEF Holds, Ready
<1>2. Sets(L) \subseteq 0 .. 15
  BY PriorityBit DEF Sets
<1>3. \A q \in 0 .. 15 : HasBit(r.primap, q) <=> q \in Sets(L)
  BY DEF Holds, Sets
<1> QED BY ONLY <1>1, <1>2, <1>3, MapExact

(* A list without its first task. *)
Cut(L, p) == [L EXCEPT ![p] = Tail(@)]

Deletes(r, f, p) ==
  /\ f \in Ready
  /\ f.first = [r.first EXCEPT ![p] = r.next[r.first[p]]]
  /\ f.last = r.last /\ f.next = r.next
  /\ f.primap = IF f.first[p] # TSKID_NULL THEN r.primap ELSE ClearBit(r.primap, p)

LEMMA Delete ==
  ASSUME NEW r, NEW c, NEW L, Holds(r, c, L), NEW p \in Priority, L[p] # <<>>,
         NEW f, Deletes(r, f, p)
  PROVE  /\ Holds(f, c, Cut(L, p))
         /\ r.first[p] = Head(L[p]) /\ Head(L[p]) \in TaskId
         /\ Absent(Cut(L, p), Head(L[p])) /\ c[Head(L[p])] = p
         /\ f.first[p] # TSKID_NULL <=> Len(L[p]) > 1
         /\ Sets(Cut(L, p)) = IF Len(L[p]) > 1 THEN Sets(L) ELSE Sets(L) \ {p}
<1> USE DEF Deletes, Cut
<1> DEFINE M == [L EXCEPT ![p] = Tail(@)]
           h == Head(L[p])
<1>1. /\ r \in Ready /\ L \in [Priority -> Seq(TaskId)] /\ c \in [TaskId -> Priority]
      /\ \A q \in Priority : Row(r, c, q, L[q])
      /\ \A q \in 0 .. 15 : HasBit(r.primap, q) <=> (q \in Priority /\ L[q] # <<>>)
  BY DEF Holds
<1>2. /\ r.first \in [Priority -> Link] /\ r.last \in [Priority -> TaskId]
      /\ r.next \in [TaskId -> Link] /\ r.primap \in Bitmap
  BY <1>1 DEF Ready
<1>3. /\ r.first[p] = h /\ h \in TaskId
      /\ Row(f, c, p, Tail(L[p]))
      /\ \A i \in 1 .. Len(Tail(L[p])) : Tail(L[p])[i] # h
      /\ Tail(L[p]) = <<>> <=> f.first[p] = TSKID_NULL
      /\ Tail(L[p]) = <<>> <=> ~ (Len(L[p]) > 1)
  <2>1. Row(r, c, p, L[p])
    BY <1>1
  <2>2. f.first[p] = r.next[r.first[p]] /\ f.last[p] = r.last[p] /\ f.next = r.next
    BY <1>2
  <2> QED BY ONLY <2>1, <2>2, L[p] # <<>>, RowTail
<1>4. c[h] = p
  <2>1. Row(r, c, p, L[p]) /\ L[p] \in Seq(TaskId)
    BY <1>1
  <2>2. 1 \in 1 .. Len(L[p]) /\ h = L[p][1]
    BY <2>1
  <2> QED BY <2>1, <2>2 DEF Row
<1>5. /\ M \in [Priority -> Seq(TaskId)] /\ M[p] = Tail(L[p])
      /\ \A q \in Priority \ {p} : M[q] = L[q]
  <2>1. Tail(L[p]) \in Seq(TaskId)
    BY <1>3 DEF Row
  <2> QED BY <1>1, <2>1
<1> HIDE DEF M, h, Cut
<1>6. ASSUME NEW q \in Priority \ {p}
      PROVE  Row(f, c, q, M[q]) /\ \A i \in 1 .. Len(M[q]) : M[q][i] # h
  <2>1. Row(r, c, q, L[q]) /\ \A i \in 1 .. Len(L[q]) : c[L[q][i]] = q
    BY <1>1 DEF Row
  <2>2. f.first[q] = r.first[q] /\ f.last[q] = r.last[q]
    BY <1>2
  <2>3. \A i \in 1 .. Len(L[q]) : f.next[L[q][i]] = r.next[L[q][i]]
    OBVIOUS
  <2>4. Row(f, c, q, L[q])
    BY ONLY <2>1, <2>2, <2>3, RowStays
  <2> QED BY <1>4, <1>5, <2>1, <2>4
<1>7. ASSUME NEW q \in 0 .. 15
      PROVE  HasBit(f.primap, q) <=> (q \in Priority /\ M[q] # <<>>)
  <2>1. CASE Tail(L[p]) = <<>>
    <3>1. f.primap = ClearBit(r.primap, p)
      BY <1>3, <2>1
    <3>2. HasBit(f.primap, q) <=> (q # p /\ HasBit(r.primap, q))
      <4>1. r.primap \in Bitmap /\ p \in 0 .. 15
        BY <1>2, PriorityBit
      <4> QED BY ONLY <3>1, <4>1, q \in 0 .. 15, ClearBitExact
    <3> QED BY <1>1, <1>5, <2>1, <3>2
  <2>2. CASE Tail(L[p]) # <<>>
    <3>1. f.primap = r.primap
      BY <1>3, <2>2
    <3> QED BY <1>1, <1>5, <2>2, <3>1
  <2> QED BY <2>1, <2>2
<1>8. Holds(f, c, M)
  <2>1. \A q \in Priority : Row(f, c, q, M[q])
    BY <1>3, <1>5, <1>6
  <2> QED BY <1>1, <1>5, <1>7, <2>1 DEF Holds
<1>9. Absent(M, h)
  BY <1>3, <1>5, <1>6 DEF Absent
<1>10. Sets(M) = IF Len(L[p]) > 1 THEN Sets(L) ELSE Sets(L) \ {p}
  BY <1>3, <1>5 DEF Sets
<1> QED BY <1>3, <1>4, <1>8, <1>9, <1>10 DEF M, h, Cut

(* The task to run is taken from the highest list with a task, if there is *)
(* one, and what the lists and the map then stand for is what OsekTask     *)
(* computes.                                                               *)
LEMMA SearchEmpty ==
  ASSUME NEW r, NEW c, NEW L, Holds(r, c, L), Highest(r, L), r.primap = 0
  PROVE  LET f == search_schedtsk(r)
         IN  /\ Holds(f, c, L) /\ Highest(f, L) /\ Chosen(f, c, L)
             /\ Stands(f, L) = Queue!search_schedtsk(Stands(r, L))
<1> DEFINE f == search_schedtsk(r)
<1>1. f = [r EXCEPT !.schedtsk = TSKID_NULL]
  BY DEF search_schedtsk
<1> HIDE DEF f
<1>2. /\ f \in Ready /\ f.first = r.first /\ f.last = r.last /\ f.next = r.next
      /\ f.primap = r.primap /\ f.nextpri = r.nextpri /\ f.schedtsk = TSKID_NULL
  BY <1>1 DEF Holds, Ready, Link
<1>3. Holds(f, c, L)
  BY <1>2 DEF Holds, Row
<1>4. Sets(L) = {}
  BY NoneSet
<1>5. Highest(f, L)
  BY <1>2 DEF Highest
<1>6. Chosen(f, c, L)
  <2>1. \A p \in Priority : \A i \in 1 .. Len(L[p]) : L[p][i] \in TaskId
    BY DEF Holds
  <2> QED BY <1>2, <1>4, <2>1, NullTask DEF Chosen, Absent, Sets
<1>7. Stands(f, L) = Queue!search_schedtsk(Stands(r, L))
  BY <1>2, <1>4 DEF Stands, Queue!search_schedtsk, Queue!TSKID_NULL, TSKID_NULL
<1> QED BY <1>3, <1>5, <1>6, <1>7 DEF f

LEMMA SearchTask ==
  ASSUME NEW r, NEW c, NEW L, Holds(r, c, L), Highest(r, L), r.primap # 0
  PROVE  LET f == search_schedtsk(r)
             M == Cut(L, r.nextpri)
         IN  /\ Holds(f, c, M) /\ Highest(f, M) /\ Chosen(f, c, M)
             /\ Stands(f, M) = Queue!search_schedtsk(Stands(r, L))
<1> DEFINE f == search_schedtsk(r)
           p == r.nextpri
           M == Cut(L, p)
           h == Head(L[p])
           d == [r EXCEPT !.schedtsk = r.first[p], !.first[p] = r.next[r.first[p]]]
           b == ClearBit(r.primap, p)
<1>1. /\ r \in Ready /\ L \in [Priority -> Seq(TaskId)] /\ c \in [TaskId -> Priority]
      /\ p \in Priority
  BY DEF Holds, Ready
<1>2. /\ r.first \in [Priority -> Link] /\ r.last \in [Priority -> TaskId]
      /\ r.next \in [TaskId -> Link] /\ r.primap \in Bitmap /\ b \in Bitmap
  BY <1>1, PriorityBit, ClearBitExact DEF Ready
<1>3. Sets(L) # {} /\ L[p] # <<>>
  <2>1. bitmap_search(r.primap) \in Sets(L)
    BY NoneSet
  <2>2. PICK q \in Priority : L[q] # <<>>
    BY <2>1 DEF Sets
  <2>3. CASE p = TPRI_MINTASK
    <3>1. q <= p /\ p <= q
      BY <2>2, <2>3, MinPriority DEF Highest
    <3>2. q = p
      BY <1>1, <2>2, <3>1, PriorityBit
    <3> QED BY <2>1, <2>2, <3>2
  <2>4. CASE p # TPRI_MINTASK
    BY <2>1, <2>4 DEF Highest
  <2> QED BY <2>3, <2>4
<1>4. r.first[p] = h /\ h \in TaskId
  <2>1. Row(r, c, p, L[p])
    BY <1>1 DEF Holds
  <2>2. 1 \in 1 .. Len(L[p]) /\ h = L[p][1] /\ h \in TaskId
    BY <1>1, <1>3
  <2> QED BY <2>1, <2>2 DEF Row, Nth
<1>5. /\ d.first = [r.first EXCEPT ![p] = r.next[r.first[p]]]
      /\ d.last = r.last /\ d.next = r.next /\ d.primap = r.primap
      /\ d.nextpri = p /\ d.schedtsk = h /\ d \in Ready
  BY <1>1, <1>2, <1>4 DEF Ready, Link
<1>6. f = IF d.first[p] # TSKID_NULL THEN d
          ELSE [d EXCEPT !.primap = b,
                  !.nextpri = IF b = 0 THEN TPRI_MINTASK ELSE bitmap_search(b)]
  BY DEF search_schedtsk
<1> HIDE DEF f, p, M, h, d, b
<1> SUFFICES /\ Holds(f, c, M) /\ Highest(f, M) /\ Chosen(f, c, M)
             /\ Stands(f, M) = Queue!search_schedtsk(Stands(r, L))
  BY DEF f, p, M
<1>7. /\ b = 0 <=> Sets(L) \ {p} = {}
      /\ b # 0 => /\ bitmap_search(b) \in Sets(L) \ {p}
                  /\ \A q \in Sets(L) \ {p} : q <= bitmap_search(b)
                  /\ Queue!bitmap_search(Sets(L) \ {p}) = bitmap_search(b)
  <2>1. Sets(L) \ {p} \subseteq 0 .. 15
    BY PriorityBit DEF Sets
  <2>2. \A q \in 0 .. 15 : HasBit(b, q) <=> q \in Sets(L) \ {p}
    <3>1. r.primap \in Bitmap /\ p \in 0 .. 15
      BY <1>1, <1>2, PriorityBit
    <3>2. \A q \in 0 .. 15 : HasBit(b, q) <=> (q # p /\ HasBit(r.primap, q))
      BY ONLY <3>1, ClearBitExact DEF b
    <3>3. \A q \in 0 .. 15 : HasBit(r.primap, q) <=> q \in Sets(L)
      BY DEF Holds, Sets
    <3> QED BY <3>2, <3>3
  <2> QED BY ONLY <1>2, <2>1, <2>2, MapExact
<1>8. CASE d.first[p] # TSKID_NULL
  <2>1. f = d
    BY <1>6, <1>8
  <2>2. Deletes(r, f, p)
    BY <1>5, <1>8, <2>1 DEF Deletes
  <2>3. /\ Holds(f, c, M) /\ Absent(M, h) /\ c[h] = p
        /\ Len(L[p]) > 1 /\ Sets(M) = Sets(L)
    BY ONLY <1>1, <1>3, <1>8, <2>1, <2>2, Holds(r, c, L), Delete DEF M, h
  <2>4. f.nextpri = p /\ f.schedtsk = h
    BY <1>5, <2>1
  <2>5. M[p] # <<>>
    BY <1>1, <1>3, <2>3 DEF Sets
  <2>6. Highest(f, M)
    <3>1. ASSUME NEW q \in Priority, M[q] # <<>> PROVE q <= p
      BY <2>3, <3>1 DEF Sets, Highest, p
    <3> QED BY <2>4, <2>5, <3>1 DEF Highest
  <2>7. Chosen(f, c, M)
    BY <1>1, <1>4, <2>3, <2>4, NullTask, PriorityBit DEF Chosen
  <2>8. Stands(f, M) = Queue!search_schedtsk(Stands(r, L))
    <3>1. Stands(f, M) = [queue |-> M, primap |-> Sets(L), nextpri |-> p, schedtsk |-> h]
      BY <2>3, <2>4 DEF Stands
    <3>2. Stands(r, L).queue = L /\ Stands(r, L).primap = Sets(L) /\ Stands(r, L).nextpri = p
      BY DEF Stands, p
    <3>3. Queue!search_schedtsk(Stands(r, L)) =
            [queue |-> M, primap |-> Sets(L), nextpri |-> p, schedtsk |-> h]
      <4> DEFINE s == Stands(r, L)
      <4> HIDE DEF s
      <4>1. s.primap # {} /\ Len(s.queue[s.nextpri]) > 1
        BY <1>3, <2>3, <3>2 DEF s
      <4>2. Queue!search_schedtsk(s) =
              [s EXCEPT !.schedtsk = Head(s.queue[s.nextpri]),
                        !.queue[s.nextpri] = Tail(@)]
        BY ONLY <4>1, Zenon DEF Queue!search_schedtsk
      <4>3. Queue!search_schedtsk(s) = [s EXCEPT !.schedtsk = h, !.queue[p] = Tail(@)]
        BY <3>2, <4>2, Zenon DEF s, h
      <4> DEFINE e == [s EXCEPT !.schedtsk = h]
                 x == [e.queue EXCEPT ![p] = Tail(s.queue[p])]
      <4>4. Queue!search_schedtsk(s) = [e EXCEPT !.queue = x]
        BY <4>3, Zenon
      <4>5. e = [queue |-> L, primap |-> Sets(L), nextpri |-> p, schedtsk |-> h]
        BY DEF s, Stands, p
      <4> HIDE DEF e
      <4>6. x = M
        <5>1. e.queue = L /\ s.queue = L
          BY <3>2, <4>5 DEF s
        <5> QED BY <5>1, Zenon DEF M, Cut
      <4> HIDE DEF x
      <4>7. [e EXCEPT !.queue = x] =
              [queue |-> x, primap |-> Sets(L), nextpri |-> p, schedtsk |-> h]
        BY <4>5
      <4> QED BY <4>4, <4>6, <4>7, Zenon DEF s
    <3> QED BY <3>1, <3>3 DEF Stands
  <2> QED BY <2>3, <2>6, <2>7, <2>8
<1>9. CASE d.first[p] = TSKID_NULL
  <2> DEFINE np == IF b = 0 THEN TPRI_MINTASK ELSE bitmap_search(b)
  <2>1. f = [d EXCEPT !.primap = b, !.nextpri = np]
    BY <1>6, <1>9
  <2>2. np \in Priority /\ \A q \in Sets(L) \ {p} : q <= np
    BY <1>7, MinPriority DEF Sets
  <2>3. np = IF Sets(L) \ {p} = {} THEN TPRI_MINTASK
                                    ELSE Queue!bitmap_search(Sets(L) \ {p})
    BY <1>7
  <2>4. np <= p
    <3>1. CASE b = 0
      BY <1>1, <3>1, MinPriority
    <3>2. CASE b # 0
      <4>1. np \in Sets(L)
        BY <1>7, <3>2
      <4> QED BY <4>1 DEF Sets, Highest, p
    <3> QED BY <3>1, <3>2
  <2>5. np = TPRI_MINTASK \/ np \in Sets(L) \ {p}
    BY <1>7
  <2> HIDE DEF np
  <2>6. /\ f \in Ready /\ f.first = d.first
        /\ f.last = r.last /\ f.next = r.next
        /\ f.primap = b /\ f.nextpri = np /\ f.schedtsk = h
    BY <1>2, <1>5, <2>1, <2>2 DEF Ready
  <2>7. Deletes(r, f, p)
    BY <1>5, <1>9, <2>6 DEF b, Deletes
  <2>8. /\ Holds(f, c, M) /\ Absent(M, h) /\ c[h] = p
        /\ ~ (Len(L[p]) > 1) /\ Sets(M) = Sets(L) \ {p}
    BY ONLY <1>1, <1>3, <1>9, <2>6, <2>7, Holds(r, c, L), Delete DEF M, h
  <2>9. Highest(f, M)
    <3>1. ASSUME NEW q \in Priority, M[q] # <<>> PROVE q <= np
      BY <2>2, <2>8, <3>1 DEF Sets
    <3>2. M[np] # <<>> \/ np = TPRI_MINTASK
      BY <2>5, <2>8 DEF Sets
    <3> QED BY <2>6, <3>1, <3>2 DEF Highest
  <2>10. Chosen(f, c, M)
    BY <1>4, <2>4, <2>6, <2>8, NullTask DEF Chosen
  <2>11. Stands(f, M) = Queue!search_schedtsk(Stands(r, L))
    <3>1. Stands(f, M) = [queue |-> M, primap |-> Sets(L) \ {p}, nextpri |-> np,
                          schedtsk |-> h]
      BY <2>6, <2>8 DEF Stands
    <3>2. Stands(r, L).queue = L /\ Stands(r, L).primap = Sets(L) /\ Stands(r, L).nextpri = p
      BY DEF Stands, p
    <3>3. Queue!search_schedtsk(Stands(r, L)) =
            [Stands(r, L) EXCEPT !.schedtsk = h, !.queue = M,
                                 !.primap = Sets(L) \ {p}, !.nextpri = np]
      BY <1>3, <2>3, <2>8, <3>2
         DEF Queue!search_schedtsk, h, Queue!TPRI_MINTASK, TPRI_MINTASK, M, Cut, Stands
    <3> QED BY <3>1, <3>3 DEF Stands
  <2> QED BY <2>8, <2>9, <2>10, <2>11
<1> QED BY <1>8, <1>9

(* A task more at an end is a task more in the map and in the queue. *)
LEMMA StandsAhead ==
  ASSUME NEW r, NEW c, NEW L, Holds(r, c, L), NEW p \in Priority, NEW t \in TaskId,
         Absent(L, t), c[t] = p
  PROVE  LET f == ready_insert_first(r, p, t)
             M == Ahead(L, p, t)
         IN  /\ f \in Ready /\ f.nextpri = r.nextpri /\ f.schedtsk = r.schedtsk
             /\ Holds(f, c, M)
             /\ M[p] # <<>> /\ \A q \in Priority \ {p} : M[q] = L[q]
             /\ \A u : u # t => (Absent(M, u) <=> Absent(L, u))
             /\ Stands(f, M) = Queue!ready_insert_first(Stands(r, L), p, t)
<1> DEFINE f == ready_insert_first(r, p, t)
           M == Ahead(L, p, t)
           s == Stands(r, L)
<1>1. r \in Ready /\ L \in [Priority -> Seq(TaskId)]
  BY DEF Holds
<1>2. f \in Ready /\ f.nextpri = r.nextpri /\ f.schedtsk = r.schedtsk
  <2>1. r \in Ready
    BY <1>1
  <2> QED BY ONLY <2>1, p \in Priority, t \in TaskId, InsertKeeps
<1>3. Holds(f, c, M)
  BY ONLY Holds(r, c, L), p \in Priority, t \in TaskId, Absent(L, t), c[t] = p,
          InsertFirst
<1> HIDE DEF f
<1>4. /\ M[p] = <<t>> \o L[p] /\ Len(M[p]) = 1 + Len(L[p]) /\ Len(L[p]) \in Nat
      /\ M[p][1] = t /\ \A i \in 1 .. Len(L[p]) : M[p][i + 1] = L[p][i]
      /\ \A q \in Priority \ {p} : M[q] = L[q]
  <2>1. L[p] \in Seq(TaskId) /\ <<t>> \in Seq(TaskId) /\ Len(<<t>>) = 1 /\ Len(L[p]) \in Nat
    BY <1>1
  <2>2. /\ Len(<<t>> \o L[p]) = 1 + Len(L[p])
        /\ \A i \in 1 .. 1 + Len(L[p]) :
             (<<t>> \o L[p])[i] = IF i <= 1 THEN <<t>>[i] ELSE L[p][i - 1]
    BY <2>1, ConcatProperties
  <2> DEFINE x == <<t>> \o L[p]
  <2> HIDE DEF x
  <2>3. x[1] = t /\ \A i \in 1 .. Len(L[p]) : x[i + 1] = L[p][i]
    <3>1. 1 \in 1 .. 1 + Len(L[p]) /\ <<t>>[1] = t
      BY <2>1
    <3>2. ASSUME NEW i \in 1 .. Len(L[p]) PROVE x[i + 1] = L[p][i]
      <4>1. i + 1 \in 1 .. 1 + Len(L[p]) /\ ~ (i + 1 <= 1) /\ (i + 1) - 1 = i
        BY <2>1
      <4> QED BY <2>2, <4>1 DEF x
    <3> QED BY <2>2, <3>1, <3>2 DEF x
  <2> QED BY <1>1, <2>1, <2>2, <2>3 DEF x, Ahead
<1>5. M[p] # <<>>
  BY <1>4
<1>6. Sets(M) = Sets(L) \cup {p}
  BY <1>4, <1>5 DEF Sets
<1>7. ASSUME NEW u, u # t PROVE Absent(M, u) <=> Absent(L, u)
  <2>1. ASSUME Absent(L, u), NEW i \in 1 .. Len(M[p]) PROVE M[p][i] # u
    <3>1. CASE i = 1
      BY <1>4, <1>7, <3>1
    <3>2. CASE i # 1
      <4>1. i - 1 \in 1 .. Len(L[p]) /\ (i - 1) + 1 = i
        BY <1>4, <3>2
      <4>2. M[p][(i - 1) + 1] = L[p][i - 1]
        BY <1>4, <4>1
      <4> QED BY <2>1, <4>1, <4>2 DEF Absent
    <3> QED BY <3>1, <3>2
  <2>2. ASSUME Absent(M, u), NEW i \in 1 .. Len(L[p]) PROVE L[p][i] # u
    <3>1. i + 1 \in 1 .. Len(M[p])
      BY <1>4
    <3> QED BY <1>4, <2>2, <3>1 DEF Absent
  <2>3. ASSUME Absent(L, u) PROVE Absent(M, u)
    <3>1. SUFFICES ASSUME NEW q \in Priority, NEW i \in 1 .. Len(M[q]) PROVE M[q][i] # u
      BY DEF Absent
    <3>2. CASE q = p
      BY <2>1, <2>3, <3>2
    <3>3. CASE q # p
      BY <1>4, <2>3, <3>3 DEF Absent
    <3> QED BY <3>2, <3>3
  <2>4. ASSUME Absent(M, u) PROVE Absent(L, u)
    <3>1. SUFFICES ASSUME NEW q \in Priority, NEW i \in 1 .. Len(L[q]) PROVE L[q][i] # u
      BY DEF Absent
    <3>2. CASE q = p
      BY <2>2, <2>4, <3>2
    <3>3. CASE q # p
      BY <1>4, <2>4, <3>3 DEF Absent
    <3> QED BY <3>2, <3>3
  <2> QED BY <2>3, <2>4
<1>8. Stands(f, M) = Queue!ready_insert_first(s, p, t)
  <2> DEFINE x == [s.queue EXCEPT ![p] = <<t>> \o s.queue[p]]
             y == s.primap \cup {p}
  <2>1. Queue!ready_insert_first(s, p, t) = [s EXCEPT !.queue = x, !.primap = y]
    BY DEF Queue!ready_insert_first, Stands
  <2>2. s.queue = L /\ y = Sets(M)
    BY <1>6 DEF Stands
  <2> HIDE DEF s
  <2>3. x = M
    BY <2>2, Zenon DEF Ahead
  <2> HIDE DEF x, y, M
  <2>4. [s EXCEPT !.queue = x, !.primap = y] =
          [queue |-> x, primap |-> y, nextpri |-> r.nextpri, schedtsk |-> r.schedtsk]
    <3> DEFINE e == [s EXCEPT !.queue = x]
    <3>1. e = [queue |-> x, primap |-> Sets(L), nextpri |-> r.nextpri,
               schedtsk |-> r.schedtsk]
      BY DEF s, Stands
    <3> HIDE DEF e
    <3>2. [e EXCEPT !.primap = y] =
            [queue |-> x, primap |-> y, nextpri |-> r.nextpri, schedtsk |-> r.schedtsk]
      BY <3>1
    <3> QED BY <3>2 DEF e
  <2>5. Stands(f, M) = [queue |-> M, primap |-> Sets(M), nextpri |-> r.nextpri,
                        schedtsk |-> r.schedtsk]
    BY <1>2 DEF Stands
  <2> QED BY <2>1, <2>2, <2>3, <2>4, <2>5, Zenon
<1> QED BY <1>2, <1>3, <1>4, <1>5, <1>7, <1>8 DEF f, M, s

LEMMA StandsBehind ==
  ASSUME NEW r, NEW c, NEW L, Holds(r, c, L), NEW p \in Priority, NEW t \in TaskId,
         Absent(L, t), c[t] = p
  PROVE  LET f == ready_insert_last(r, p, t)
             M == Behind(L, p, t)
         IN  /\ f \in Ready /\ f.nextpri = r.nextpri /\ f.schedtsk = r.schedtsk
             /\ Holds(f, c, M)
             /\ M[p] # <<>> /\ \A q \in Priority \ {p} : M[q] = L[q]
             /\ \A u : u # t => (Absent(M, u) <=> Absent(L, u))
             /\ Stands(f, M) = Queue!ready_insert_last(Stands(r, L), p, t)
<1> DEFINE f == ready_insert_last(r, p, t)
           M == Behind(L, p, t)
           s == Stands(r, L)
<1>1. r \in Ready /\ L \in [Priority -> Seq(TaskId)]
  BY DEF Holds
<1>2. f \in Ready /\ f.nextpri = r.nextpri /\ f.schedtsk = r.schedtsk
  <2>1. r \in Ready
    BY <1>1
  <2> QED BY ONLY <2>1, p \in Priority, t \in TaskId, InsertKeeps
<1>3. Holds(f, c, M)
  BY ONLY Holds(r, c, L), p \in Priority, t \in TaskId, Absent(L, t), c[t] = p,
          InsertLast
<1> HIDE DEF f
<1>4. /\ M[p] = Append(L[p], t) /\ Len(M[p]) = Len(L[p]) + 1 /\ Len(L[p]) \in Nat
      /\ M[p] # <<>> /\ M[p][Len(L[p]) + 1] = t
      /\ \A i \in 1 .. Len(L[p]) : M[p][i] = L[p][i]
      /\ \A q \in Priority \ {p} : M[q] = L[q]
  <2>1. L[p] \in Seq(TaskId) /\ Len(L[p]) \in Nat
    BY <1>1
  <2> DEFINE x == Append(L[p], t)
  <2>2. /\ x # <<>> /\ Len(x) = Len(L[p]) + 1
        /\ \A i \in 1 .. Len(L[p]) : x[i] = L[p][i]
        /\ x[Len(L[p]) + 1] = t
    BY ONLY <2>1, t \in TaskId, AppendProperties
  <2> HIDE DEF x
  <2> QED BY <1>1, <2>1, <2>2 DEF x, Behind
<1>6. Sets(M) = Sets(L) \cup {p}
  BY <1>4 DEF Sets
<1>7. ASSUME NEW u, u # t PROVE Absent(M, u) <=> Absent(L, u)
  <2>1. ASSUME Absent(L, u), NEW i \in 1 .. Len(M[p]) PROVE M[p][i] # u
    <3>1. i \in 1 .. Len(L[p]) \/ i = Len(L[p]) + 1
      BY <1>4
    <3> QED BY <1>4, <1>7, <2>1, <3>1 DEF Absent
  <2>2. ASSUME Absent(M, u), NEW i \in 1 .. Len(L[p]) PROVE L[p][i] # u
    <3>1. i \in 1 .. Len(M[p])
      BY <1>4
    <3> QED BY <1>4, <2>2, <3>1 DEF Absent
  <2>3. ASSUME Absent(L, u) PROVE Absent(M, u)
    <3>1. SUFFICES ASSUME NEW q \in Priority, NEW i \in 1 .. Len(M[q]) PROVE M[q][i] # u
      BY DEF Absent
    <3>2. CASE q = p
      BY <2>1, <2>3, <3>2
    <3>3. CASE q # p
      BY <1>4, <2>3, <3>3 DEF Absent
    <3> QED BY <3>2, <3>3
  <2>4. ASSUME Absent(M, u) PROVE Absent(L, u)
    <3>1. SUFFICES ASSUME NEW q \in Priority, NEW i \in 1 .. Len(L[q]) PROVE L[q][i] # u
      BY DEF Absent
    <3>2. CASE q = p
      BY <2>2, <2>4, <3>2
    <3>3. CASE q # p
      BY <1>4, <2>4, <3>3 DEF Absent
    <3> QED BY <3>2, <3>3
  <2> QED BY <2>3, <2>4
<1>8. Stands(f, M) = Queue!ready_insert_last(s, p, t)
  <2> DEFINE x == [s.queue EXCEPT ![p] = Append(s.queue[p], t)]
             y == s.primap \cup {p}
  <2>1. Queue!ready_insert_last(s, p, t) = [s EXCEPT !.queue = x, !.primap = y]
    BY DEF Queue!ready_insert_last, Stands
  <2>2. s.queue = L /\ y = Sets(M)
    BY <1>6 DEF Stands
  <2> HIDE DEF s
  <2>3. x = M
    BY <2>2, Zenon DEF Behind
  <2> HIDE DEF x, y, M
  <2>4. [s EXCEPT !.queue = x, !.primap = y] =
          [queue |-> x, primap |-> y, nextpri |-> r.nextpri, schedtsk |-> r.schedtsk]
    <3> DEFINE e == [s EXCEPT !.queue = x]
    <3>1. e = [queue |-> x, primap |-> Sets(L), nextpri |-> r.nextpri,
               schedtsk |-> r.schedtsk]
      BY DEF s, Stands
    <3> HIDE DEF e
    <3>2. [e EXCEPT !.primap = y] =
            [queue |-> x, primap |-> y, nextpri |-> r.nextpri, schedtsk |-> r.schedtsk]
      BY <3>1
    <3> QED BY <3>2 DEF e
  <2>5. Stands(f, M) = [queue |-> M, primap |-> Sets(M), nextpri |-> r.nextpri,
                        schedtsk |-> r.schedtsk]
    BY <1>2 DEF Stands
  <2> QED BY <2>1, <2>2, <2>3, <2>4, <2>5, Zenon
<1> QED BY <1>2, <1>3, <1>4, <1>7, <1>8 DEF f, M, s

-----------------------------------------------------------------------------
(* The scheduling functions.                                               *)

Consistent(r, c, L) == Holds(r, c, L) /\ Highest(r, L) /\ Chosen(r, c, L)

Tcb(c) == [t \in TaskId |-> [curpri |-> c[t]]]

(* search_schedtsk only needs the lists and nextpri to be right. *)
LEMMA SearchExact ==
  ASSUME NEW r, NEW c, NEW L, Holds(r, c, L), Highest(r, L)
  PROVE  \E M : /\ Consistent(search_schedtsk(r), c, M)
                /\ Stands(search_schedtsk(r), M) = Queue!search_schedtsk(Stands(r, L))
<1>1. CASE r.primap = 0
  BY <1>1, SearchEmpty DEF Consistent
<1>2. CASE r.primap # 0
  BY <1>2, SearchTask DEF Consistent
<1> QED BY <1>1, <1>2

LEMMA PreemptExact ==
  ASSUME NEW r, NEW c, NEW L, Holds(r, c, L), Highest(r, L),
         r.schedtsk \in TaskId, Absent(L, r.schedtsk), c[r.schedtsk] < r.nextpri
  PROVE  \E M : /\ Consistent(preempt(r, c), c, M)
                /\ Stands(preempt(r, c), M) = Queue!preempt(Stands(r, L), Tcb(c))
<1> DEFINE t == r.schedtsk
           p == c[t]
           f == ready_insert_first(r, p, t)
           M == Ahead(L, p, t)
<1>1. p \in Priority /\ r.nextpri \in Priority /\ t \in TaskId
  BY DEF Holds, Ready
<1>2. /\ f.nextpri = r.nextpri /\ Holds(f, c, M)
      /\ M[p] # <<>> /\ \A q \in Priority \ {p} : M[q] = L[q]
      /\ Stands(f, M) = Queue!ready_insert_first(Stands(r, L), p, t)
  BY <1>1, StandsAhead
<1>3. preempt(r, c) = search_schedtsk(f)
  BY DEF preempt
<1>4. Queue!preempt(Stands(r, L), Tcb(c)) =
        Queue!search_schedtsk(Queue!ready_insert_first(Stands(r, L), p, t))
  <2>1. Stands(r, L).schedtsk = t /\ Tcb(c)[t].curpri = p
    BY <1>1 DEF Stands, Tcb
  <2> QED BY <2>1, Zenon DEF Queue!preempt
<1> HIDE DEF f, M
<1>5. Highest(f, M)
  <2>1. r.nextpri \in Priority \ {p} /\ p <= r.nextpri /\ r.nextpri # TPRI_MINTASK
    BY <1>1, MinPriority, PriorityBit
  <2>2. \A q \in Priority : L[q] # <<>> => q <= r.nextpri
    BY DEF Highest
  <2>3. M[r.nextpri] # <<>>
    BY <1>2, <2>1 DEF Highest
  <2> QED BY <1>2, <2>1, <2>2, <2>3 DEF Highest
<1> QED BY <1>2, <1>3, <1>4, <1>5, SearchExact

(* A task whose priority changes is in no list. *)
LEMMA PriorityChanges ==
  ASSUME NEW r, NEW c, NEW L, Holds(r, c, L), NEW t \in TaskId, Absent(L, t),
         NEW p \in Priority
  PROVE  Holds(r, [c EXCEPT ![t] = p], L)
<1> DEFINE d == [c EXCEPT ![t] = p]
<1>1. d \in [TaskId -> Priority] /\ \A u \in TaskId \ {t} : d[u] = c[u]
  BY DEF Holds
<1> HIDE DEF d
<1>2. ASSUME NEW q \in Priority PROVE Row(r, d, q, L[q])
  <2>1. Row(r, c, q, L[q]) /\ \A i \in 1 .. Len(L[q]) : L[q][i] \in TaskId \ {t}
    BY DEF Holds, Absent
  <2>2. \A i \in 1 .. Len(L[q]) : d[L[q][i]] = c[L[q][i]]
    BY <1>1, <2>1
  <2> QED BY ONLY <2>1, <2>2, RowStays
<1> QED BY <1>1, <1>2 DEF Holds, d

(* The lists do not depend on nextpri and schedtsk. *)
LEMMA SameLists ==
  ASSUME NEW r, NEW c, NEW L, Holds(r, c, L), NEW f \in Ready,
         f.first = r.first, f.last = r.last, f.next = r.next, f.primap = r.primap
  PROVE  Holds(f, c, L)
BY DEF Holds, Row

LEMMA MakeRunnableExact ==
  ASSUME NEW r, NEW c, NEW L, Holds(r, c, L), Highest(r, L), Chosen(r, c, L),
         NEW t \in TaskId, Absent(L, t), t # r.schedtsk
  PROVE  \E M : /\ Consistent(make_runnable(r, c, t), c, M)
                /\ Stands(make_runnable(r, c, t), M) =
                     Queue!make_runnable(Stands(r, L), Tcb(c), t)
<1> DEFINE f == make_runnable(r, c, t)
           s == Stands(r, L)
           u == r.schedtsk
           Abstract == Queue!make_runnable(s, Tcb(c), t)
<1>1. /\ r \in Ready /\ c \in [TaskId -> Priority] /\ u \in Link
      /\ c[t] \in Priority /\ r.nextpri \in Priority
  BY DEF Holds, Ready
<1>2. s.schedtsk = u /\ s.nextpri = r.nextpri
  BY DEF Stands
<1>3. Tcb(c)[t].curpri = c[t] /\ (u # TSKID_NULL => Tcb(c)[u].curpri = c[u])
  BY <1>1 DEF Tcb, Link
<1>4. Queue!Outranks(s, Tcb(c), t) <=> (u = TSKID_NULL \/ c[t] > c[u])
  BY <1>2, <1>3 DEF Queue!Outranks, Queue!TSKID_NULL, TSKID_NULL
<1>5. CASE u = TSKID_NULL
  <2>1. f = [r EXCEPT !.schedtsk = t]
    BY <1>5 DEF make_runnable
  <2>2. Abstract = [s EXCEPT !.schedtsk = t]
    BY <1>2, <1>4, <1>5, Zenon DEF Queue!make_runnable, Queue!TSKID_NULL, TSKID_NULL
  <2> HIDE DEF f, Abstract
  <2>3. /\ f \in Ready /\ f.first = r.first /\ f.last = r.last /\ f.next = r.next
        /\ f.primap = r.primap /\ f.nextpri = r.nextpri /\ f.schedtsk = t
    BY <1>1, <2>1 DEF Ready, Link
  <2>4. Holds(f, c, L)
    BY ONLY <2>3, Holds(r, c, L), SameLists
  <2>5. r.nextpri = TPRI_MINTASK
    BY <1>1, <1>5 DEF Highest, Chosen
  <2>6. Highest(f, L)
    BY <2>3 DEF Highest
  <2>7. Chosen(f, c, L)
    BY <1>1, <2>3, <2>5, MinPriority, NullTask DEF Chosen
  <2>8. Stands(f, L) = Abstract
    BY <2>2, <2>3 DEF Stands
  <2> QED BY <2>4, <2>6, <2>7, <2>8 DEF Consistent, f, Abstract
<1>6. CASE u # TSKID_NULL /\ c[t] > c[u]
  <2> DEFINE p == c[u]
             i == ready_insert_first(r, p, u)
             M == Ahead(L, p, u)
             a == Queue!ready_insert_first(s, p, u)
  <2>1. u \in TaskId /\ p \in Priority /\ Absent(L, u) /\ r.nextpri <= p
    BY <1>1, <1>6 DEF Link, Chosen
  <2>2. /\ i \in Ready /\ i.nextpri = r.nextpri /\ i.schedtsk = r.schedtsk
        /\ Holds(i, c, M)
        /\ M[p] # <<>> /\ \A q \in Priority \ {p} : M[q] = L[q]
        /\ \A v : v # u => (Absent(M, v) <=> Absent(L, v))
        /\ Stands(i, M) = a
    BY <2>1, StandsAhead
  <2>3. f = [i EXCEPT !.nextpri = p, !.schedtsk = t]
    BY <1>6 DEF make_runnable
  <2>4. Abstract = [a EXCEPT !.nextpri = p, !.schedtsk = t]
    BY <1>2, <1>3, <1>4, <1>6, Zenon DEF Queue!make_runnable, Queue!TSKID_NULL, TSKID_NULL
  <2> HIDE DEF f, Abstract, i, a, M
  <2>5. /\ f \in Ready /\ f.first = i.first /\ f.last = i.last /\ f.next = i.next
        /\ f.primap = i.primap /\ f.nextpri = p /\ f.schedtsk = t
    BY <2>1, <2>2, <2>3 DEF Ready, Link
  <2>6. Holds(f, c, M)
    BY ONLY <2>2, <2>5, SameLists
  <2>7. Highest(f, M)
    <3>1. ASSUME NEW q \in Priority, M[q] # <<>> PROVE q <= p
      <4>1. CASE q = p
        BY <2>1, <4>1, PriorityBit
      <4>2. CASE q # p
        <5>1. q <= r.nextpri
          BY <2>2, <3>1, <4>2 DEF Highest
        <5> QED BY <1>1, <2>1, <5>1, PriorityBit
      <4> QED BY <4>1, <4>2
    <3> QED BY <2>2, <2>5, <3>1 DEF Highest
  <2>8. Chosen(f, c, M)
    <3>1. Absent(M, t)
      BY <2>2
    <3>2. p <= c[t]
      BY <1>1, <1>6, <2>1, PriorityBit
    <3> QED BY <2>5, <3>1, <3>2, NullTask DEF Chosen
  <2>9. Stands(f, M) = Abstract
    <3>1. a = [queue |-> M, primap |-> Sets(M), nextpri |-> r.nextpri, schedtsk |-> u]
      BY <2>2 DEF Stands
    <3> DEFINE e == [a EXCEPT !.nextpri = p]
    <3>2. e = [queue |-> M, primap |-> Sets(M), nextpri |-> p, schedtsk |-> u]
      BY <3>1
    <3> HIDE DEF e
    <3>3. [e EXCEPT !.schedtsk = t] =
            [queue |-> M, primap |-> Sets(M), nextpri |-> p, schedtsk |-> t]
      BY <3>2
    <3>4. Abstract = [e EXCEPT !.schedtsk = t]
      BY <2>4, Zenon DEF e
    <3> QED BY <2>5, <3>3, <3>4 DEF Stands
  <2> QED BY <2>6, <2>7, <2>8, <2>9 DEF Consistent, f, Abstract
<1>7. CASE u # TSKID_NULL /\ ~ (c[t] > c[u])
  <2> DEFINE p == c[t]
             i == ready_insert_last(r, p, t)
             M == Behind(L, p, t)
             a == Queue!ready_insert_last(s, p, t)
             n == IF p > r.nextpri THEN p ELSE r.nextpri
  <2>1. /\ u \in TaskId /\ c[u] \in Priority /\ Absent(L, u) /\ r.nextpri <= c[u]
        /\ p \in Priority
    BY <1>1, <1>7 DEF Link, Chosen
  <2>2. /\ i \in Ready /\ i.nextpri = r.nextpri /\ i.schedtsk = u
        /\ Holds(i, c, M)
        /\ M[p] # <<>> /\ \A q \in Priority \ {p} : M[q] = L[q]
        /\ \A v : v # t => (Absent(M, v) <=> Absent(L, v))
        /\ Stands(i, M) = a
    BY <2>1, StandsBehind
  <2>3. a = [queue |-> M, primap |-> Sets(M), nextpri |-> r.nextpri, schedtsk |-> u]
    BY <2>2 DEF Stands
  <2>4. f = [i EXCEPT !.nextpri = IF p > @ THEN p ELSE @]
    BY <1>7 DEF make_runnable
  <2>5. Abstract = [a EXCEPT !.nextpri = IF p > @ THEN p ELSE @]
    BY <1>2, <1>3, <1>4, <1>7, Zenon DEF Queue!make_runnable
  <2> HIDE DEF f, Abstract, i, a, M
  <2>6. /\ n \in Priority /\ p <= n /\ r.nextpri <= n /\ n <= c[u]
        /\ n = p \/ (n = r.nextpri /\ p <= r.nextpri)
    BY <1>1, <1>7, <2>1, PriorityBit
  <2>7. f = [i EXCEPT !.nextpri = n] /\ Abstract = [a EXCEPT !.nextpri = n]
    BY <2>2, <2>3, <2>4, <2>5
  <2> HIDE DEF n
  <2>8. /\ f \in Ready /\ f.first = i.first /\ f.last = i.last /\ f.next = i.next
        /\ f.primap = i.primap /\ f.nextpri = n /\ f.schedtsk = u
    BY <2>2, <2>6, <2>7 DEF Ready
  <2>9. Holds(f, c, M)
    BY ONLY <2>2, <2>8, SameLists
  <2>10. Highest(f, M)
    <3>1. ASSUME NEW q \in Priority, M[q] # <<>> PROVE q <= n
      <4>1. CASE q = p
        BY <2>6, <4>1
      <4>2. CASE q # p
        <5>1. q <= r.nextpri
          BY <2>2, <3>1, <4>2 DEF Highest
        <5> QED BY <1>1, <2>6, <5>1, PriorityBit
      <4> QED BY <4>1, <4>2
    <3>2. M[n] # <<>> \/ n = TPRI_MINTASK
      <4>1. CASE n = p
        BY <2>2, <4>1
      <4>2. CASE n # p
        <5>1. n = r.nextpri /\ r.nextpri \in Priority \ {p}
          BY <1>1, <2>6, <4>2
        <5> QED BY <2>2, <5>1 DEF Highest
      <4> QED BY <4>1, <4>2
    <3> QED BY <2>8, <3>1, <3>2 DEF Highest
  <2>11. Chosen(f, c, M)
    BY <1>7, <2>1, <2>2, <2>6, <2>8 DEF Chosen
  <2>12. Stands(f, M) = Abstract
    BY <2>3, <2>7, <2>8 DEF Stands
  <2> QED BY <2>9, <2>10, <2>11, <2>12 DEF Consistent, f, Abstract
<1> QED BY <1>5, <1>6, <1>7

-----------------------------------------------------------------------------
(* The lists implement the queue.                                          *)

(* Mapped, for any data of the scheduler. *)
Image(r) == [queue    |-> [p \in Priority |-> Chain(r, p)],
             primap   |-> {p \in Priority : HasBit(r.primap, p)},
             nextpri  |-> r.nextpri,
             schedtsk |-> r.schedtsk]

LEMMA ImageStands ==
  ASSUME NEW r, NEW c, NEW L, Holds(r, c, L)
  PROVE  Image(r) = Stands(r, L) /\ \A p \in Priority : Chain(r, p) = L[p]
<1>1. \A p \in Priority : Chain(r, p) = L[p]
  <2> TAKE p \in Priority
  <2>1. r.next \in [TaskId -> Link] /\ Row(r, c, p, L[p])
    BY DEF Holds, Ready
  <2> QED BY ONLY <2>1, ChainIsRow
<1>2. [p \in Priority |-> Chain(r, p)] = L
  <2>1. L \in [Priority -> Seq(TaskId)]
    BY DEF Holds
  <2> QED BY <1>1, <2>1
<1>3. {p \in Priority : HasBit(r.primap, p)} = Sets(L)
  BY PriorityBit DEF Holds, Sets
<1> QED BY <1>1, <1>2, <1>3, Zenon DEF Image, Stands

(* A task that is not ready is in no list, and not in the queue either. *)
LEMMA NotReady ==
  ASSUME NEW L, Consistent(ready, tcb_curpri, L), NEW t \in TaskId, ~ IsReady(t)
  PROVE  /\ t # ready.schedtsk /\ Absent(L, t)
         /\ t \notin Queue!Accounted(Stands(ready, L))
<1>1. \A p \in Priority : Chain(ready, p) = L[p]
  BY ImageStands DEF Consistent
<1>2. t # ready.schedtsk /\ Absent(L, t)
  BY <1>1 DEF IsReady, Absent
<1>3. t \notin Queue!Placed(Stands(ready, L))
  BY <1>2 DEF Absent, Queue!Placed, Stands, Queue!Priority, Queue!TPRI_MINTASK,
              Priority, TPRI_MINTASK
<1> QED BY <1>2, <1>3 DEF Queue!Accounted, Stands

Changed(c, t, p)    == [c EXCEPT ![t] = p]
TcbChanged(b, t, p) == [b EXCEPT ![t].curpri = p]

LEMMA TcbChanges ==
  ASSUME NEW c, c \in [TaskId -> Priority], NEW t \in TaskId, NEW p \in Priority
  PROVE  Tcb(Changed(c, t, p)) = TcbChanged(Tcb(c), t, p)
<1> USE DEF Changed, TcbChanged
<1> DEFINE d == [c EXCEPT ![t] = p]
           e == [Tcb(c) EXCEPT ![t].curpri = p]
<1>1. e = [u \in TaskId |-> IF u = t THEN [curpri |-> p] ELSE [curpri |-> c[u]]]
  <2> DEFINE x == [Tcb(c)[t] EXCEPT !.curpri = p]
  <2>1. Tcb(c)[t] = [curpri |-> c[t]]
    BY DEF Tcb
  <2>2. x = [curpri |-> p]
    BY <2>1
  <2>3. e = [Tcb(c) EXCEPT ![t] = x]
    OBVIOUS
  <2> HIDE DEF x
  <2> QED BY <2>2, <2>3 DEF Tcb
<1>2. Tcb(d) = [u \in TaskId |-> IF u = t THEN [curpri |-> p] ELSE [curpri |-> c[u]]]
  BY DEF Tcb
<1> QED BY <1>1, <1>2

Inv == \E L : Consistent(ready, tcb_curpri, L)

(* The same names in both modules. *)
LEMMA SameNames == /\ Queue!TaskId = TaskId /\ Queue!Priority = Priority
                   /\ Queue!TSKID_NULL = TSKID_NULL
                   /\ Queue!TPRI_MINTASK = TPRI_MINTASK
BY DEF Queue!TaskId, TaskId, Queue!Priority, Priority, Queue!TSKID_NULL, TSKID_NULL,
       Queue!TPRI_MINTASK, TPRI_MINTASK

LEMMA NoBit == \A q \in 0 .. 15 : ~ HasBit(0, q)
<1> TAKE q \in 0 .. 15
<1> DEFINE w == PRIMAP_BIT(q)
<1>1. w \in Nat \ {0}
  BY Powers
<1> HIDE DEF w
<1>2. 0 \div w = 0
  BY <1>1
<1> QED BY <1>2 DEF HasBit, w

LEMMA ListInit ==
  ASSUME Init
  PROVE  Inv /\ Queue!Init
<1> DEFINE L == [p \in Priority |-> <<>>]
<1>1. /\ ready.first = [p \in Priority |-> TSKID_NULL]
      /\ ready.last = [p \in Priority |-> 0] /\ ready.next = [t \in TaskId |-> 0]
      /\ ready.primap = 0 /\ ready.nextpri = TPRI_MINTASK /\ ready.schedtsk = TSKID_NULL
      /\ tcb_curpri = [t \in TaskId |-> TPRI_MINTASK]
  BY DEF Init
<1>2. ready \in Ready
  <2>1. 0 \in TaskId
    BY SixteenPriorities DEF TaskId, TSKID_NULL
  <2>2. 0 \in Bitmap
    BY MapsNat DEF Bitmap, Maps
  <2> QED BY <2>1, <2>2, MinPriority DEF Init, Ready, Link
<1>3. L \in [Priority -> Seq(TaskId)] /\ \A p \in Priority : L[p] = <<>>
  OBVIOUS
<1> HIDE DEF L
<1>4. \A p \in Priority : Row(ready, tcb_curpri, p, L[p])
  BY <1>1, <1>3 DEF Row, Nth
<1>5. Holds(ready, tcb_curpri, L)
  BY <1>1, <1>2, <1>3, <1>4, MinPriority, NoBit DEF Holds
<1>6. Highest(ready, L) /\ Chosen(ready, tcb_curpri, L)
  BY <1>1, <1>3 DEF Highest, Chosen, Absent
<1>7. Mapped = Stands(ready, L)
  BY <1>5, ImageStands DEF Image, Mapped
<1>8. Sets(L) = {}
  BY <1>3 DEF Sets
<1>9. Mapped = Queue!EmptySched
  BY <1>1, <1>7, <1>8, SameNames, Zenon DEF Stands, Queue!EmptySched, L
<1>10. [t \in TaskId |-> [curpri |-> tcb_curpri[t]]] =
         [t \in Queue!TaskId |-> [curpri |-> Queue!TPRI_MINTASK]]
  BY <1>1, SameNames
<1> QED BY <1>5, <1>6, <1>9, <1>10 DEF Inv, Consistent, Queue!Init

(* Each call on the lists is the call of the same name on the queue. *)
LEMMA ListBecomesReady ==
  ASSUME Inv, NEW t \in TaskId, NEW p \in Priority, BecomesReady(t, p)
  PROVE  Inv' /\ Queue!BecomesReady(t)
<1>1. PICK L : Consistent(ready, tcb_curpri, L)
  BY DEF Inv
<1> DEFINE d == Changed(tcb_curpri, t, p)
<1>2. /\ ~ IsReady(t) /\ tcb_curpri' = d
      /\ ready' = make_runnable(ready, d, t)
  BY DEF BecomesReady, Changed
<1>3. /\ t # ready.schedtsk /\ Absent(L, t)
      /\ t \notin Queue!Accounted(Stands(ready, L))
  BY <1>1, <1>2, NotReady
<1>4. tcb_curpri \in [TaskId -> Priority] /\ Holds(ready, tcb_curpri, L)
  BY <1>1 DEF Consistent, Holds
<1>5. Tcb(d) = TcbChanged(Tcb(tcb_curpri), t, p)
  BY <1>4, TcbChanges
<1>6. Holds(ready, d, L) /\ Highest(ready, L)
  BY <1>1, <1>3, <1>4, PriorityChanges DEF Consistent, Changed
<1>7. Chosen(ready, d, L)
  <2>1. ready.schedtsk # TSKID_NULL => d[ready.schedtsk] = tcb_curpri[ready.schedtsk]
    BY <1>3, <1>4 DEF Holds, Ready, Link, Changed
  <2> QED BY <1>1, <2>1 DEF Consistent, Chosen
<1> HIDE DEF d
<1>8. PICK M : /\ Consistent(ready', d, M)
               /\ Stands(ready', M) = Queue!make_runnable(Stands(ready, L), Tcb(d), t)
  BY <1>2, <1>3, <1>6, <1>7, MakeRunnableExact
<1>9. Inv'
  BY <1>2, <1>8 DEF Inv
<1>10. Mapped = Stands(ready, L)
  BY <1>4, ImageStands DEF Image, Mapped
<1>11. Mapped' = Stands(ready', M)
  <2>1. Holds(ready', d, M)
    BY <1>8 DEF Consistent
  <2> QED BY <2>1, ImageStands DEF Image, Mapped
<1> QED BY <1>2, <1>3, <1>5, <1>8, <1>9, <1>10, <1>11, SameNames
        DEF Queue!BecomesReady, Tcb, TcbChanged

LEMMA ListLeaves ==
  ASSUME Inv, Leaves
  PROVE  Inv' /\ ready.schedtsk \in TaskId /\ Queue!Leaves(ready.schedtsk)
<1>1. PICK L : Consistent(ready, tcb_curpri, L)
  BY DEF Inv
<1>2. /\ ready.schedtsk # TSKID_NULL /\ ready' = search_schedtsk(ready)
      /\ tcb_curpri' = tcb_curpri
  BY DEF Leaves
<1>3. Holds(ready, tcb_curpri, L) /\ Highest(ready, L)
  BY <1>1 DEF Consistent
<1>4. ready.schedtsk \in TaskId
  BY <1>2, <1>3 DEF Holds, Ready, Link
<1>5. PICK M : /\ Consistent(ready', tcb_curpri, M)
               /\ Stands(ready', M) = Queue!search_schedtsk(Stands(ready, L))
  BY <1>2, <1>3, SearchExact
<1>6. Inv'
  BY <1>2, <1>5 DEF Inv
<1>7. Mapped = Stands(ready, L)
  BY <1>3, ImageStands DEF Image, Mapped
<1>8. Mapped' = Stands(ready', M)
  <2>1. Holds(ready', tcb_curpri, M)
    BY <1>5 DEF Consistent
  <2> QED BY <2>1, ImageStands DEF Image, Mapped
<1>9. Mapped.schedtsk = ready.schedtsk
  BY DEF Mapped
<1> QED BY <1>2, <1>4, <1>5, <1>6, <1>7, <1>8, <1>9, SameNames
        DEF Queue!Leaves, Queue!Runs

LEMMA ListChangesPriority ==
  ASSUME Inv, NEW p \in Priority, ChangesPriority(p), NEW t, t = ready.schedtsk
  PROVE  Inv' /\ t \in TaskId /\ (Queue!Yields(t) \/ Queue!ChangesPriority(t))
<1>1. PICK L : Consistent(ready, tcb_curpri, L)
  BY DEF Inv
<1> DEFINE d == Changed(tcb_curpri, t, p)
<1>2. /\ t # TSKID_NULL /\ tcb_curpri' = d
      /\ ready' = IF p < ready.nextpri THEN preempt(ready, d) ELSE ready
  BY DEF ChangesPriority, Changed
<1>3. /\ Holds(ready, tcb_curpri, L) /\ Highest(ready, L) /\ Chosen(ready, tcb_curpri, L)
      /\ tcb_curpri \in [TaskId -> Priority] /\ ready.nextpri \in Priority
  BY <1>1 DEF Consistent, Holds, Ready
<1>4. t \in TaskId /\ Absent(L, t)
  BY <1>2, <1>3 DEF Holds, Ready, Link, Chosen
<1>5. Tcb(d) = TcbChanged(Tcb(tcb_curpri), t, p)
  BY <1>3, <1>4, TcbChanges
<1>6. Holds(ready, d, L) /\ d[t] = p
  BY <1>3, <1>4, PriorityChanges DEF Changed
<1>7. /\ Mapped = Stands(ready, L)
      /\ Mapped.schedtsk = t /\ Mapped.nextpri = ready.nextpri
  BY <1>3, ImageStands DEF Image, Mapped
<1> HIDE DEF d
<1>8. CASE p < ready.nextpri
  <2>1. ready' = preempt(ready, d)
    BY <1>2, <1>8
  <2>2. PICK M : /\ Consistent(ready', d, M)
                 /\ Stands(ready', M) = Queue!preempt(Stands(ready, L), Tcb(d))
    BY <1>3, <1>4, <1>6, <1>8, <2>1, PreemptExact
  <2>3. Inv'
    BY <1>2, <2>2 DEF Inv
  <2>4. Mapped' = Stands(ready', M)
    <3>1. Holds(ready', d, M)
      BY <2>2 DEF Consistent
    <3> QED BY <3>1, ImageStands DEF Image, Mapped
  <2>5. Queue!Yields(t)
    BY <1>2, <1>5, <1>7, <1>8, <2>2, <2>4, SameNames DEF Queue!Yields, Queue!Runs, Tcb, TcbChanged
  <2> QED BY <1>4, <2>3, <2>5
<1>9. CASE ~ (p < ready.nextpri)
  <2>1. ready' = ready /\ p >= ready.nextpri
    BY <1>2, <1>3, <1>9, PriorityBit
  <2>2. Chosen(ready, d, L)
    BY <1>3, <1>4, <1>6, <2>1 DEF Chosen
  <2>3. Inv'
    BY <1>2, <1>3, <1>6, <2>1, <2>2 DEF Inv, Consistent
  <2>4. Mapped' = Mapped
    BY <2>1 DEF Mapped
  <2>5. Queue!ChangesPriority(t)
    BY <1>2, <1>5, <1>7, <2>1, <2>4, SameNames
       DEF Queue!ChangesPriority, Queue!Runs, Tcb, TcbChanged
  <2> QED BY <1>4, <2>3, <2>5
<1> QED BY <1>8, <1>9

LEMMA ListStep ==
  ASSUME Inv, [Next]_vars
  PROVE  Inv' /\ [Queue!Next]_(Queue!vars)
<1>1. CASE UNCHANGED vars
  <2>1. ready' = ready /\ tcb_curpri' = tcb_curpri
    BY <1>1 DEF vars
  <2>2. Inv'
    BY <2>1 DEF Inv
  <2>3. Mapped' = Mapped
    BY <2>1 DEF Mapped
  <2> QED BY <2>1, <2>2, <2>3 DEF Queue!vars
<1>2. ASSUME NEW p \in Priority, NEW t \in TaskId, BecomesReady(t, p)
      PROVE  Inv' /\ Queue!Next
  BY <1>2, ListBecomesReady, SameNames DEF Queue!Next
<1>3. ASSUME NEW p \in Priority, ChangesPriority(p)
      PROVE  Inv' /\ Queue!Next
  <2>1. PICK t : t = ready.schedtsk
    OBVIOUS
  <2>2. Inv' /\ t \in TaskId /\ (Queue!Yields(t) \/ Queue!ChangesPriority(t))
    BY <1>3, <2>1, ListChangesPriority
  <2> QED BY <2>2, SameNames DEF Queue!Next
<1>4. CASE Leaves
  BY <1>4, ListLeaves, SameNames DEF Queue!Next
<1> QED BY <1>1, <1>2, <1>3, <1>4, SixteenPriorities DEF Next

(* Whatever tasks become ready, are preempted and leave, with whatever     *)
(* priorities, the linked lists and the map of task.c do what the queues   *)
(* of OsekTask do, on which the model of the kernel is built: no task is   *)
(* lost, kept or reordered by a link or a last task that is not up to date.*)
THEOREM ListImplementsQueue == Spec => ImplementsReadyQueue
<1>1. Init => Inv /\ Queue!Init
  BY ListInit
<1>2. Inv /\ [Next]_vars => Inv' /\ [Queue!Next]_(Queue!vars)
  BY ListStep
<1> QED BY <1>1, <1>2, PTL DEF Spec, ImplementsReadyQueue, Queue!Spec
=============================================================================

----------------------------- MODULE NumbersProof -----------------------------
(***************************************************************************)
(* Theorems about Bitmap and Bignum.  The bytes of a bitmap mean what its  *)
(* bits say, for every number of bits in a byte and bytes in a word, every *)
(* size of the struct and any contents of the memory behind a bitmap.      *)
(* Whole numbers are calculated exactly in every base, with every limit on *)
(* digits and places, whatever has been calculated before, numbers with    *)
(* places but for what is cut off, and numbers are read back from their    *)
(* texts and bits.                                                         *)
(***************************************************************************)
EXTENDS Bitmap, Bignum, FiniteSetTheorems, TLAPS

Arrays == INSTANCE ListsProof

-----------------------------------------------------------------------------
(* Quotients and remainders *)

Positive == Nat \ {0}

(* Multiples of n grow by at least n. *)
LEMMA NextMultiple ==
  ASSUME NEW n \in Positive, NEW p \in Nat, NEW q \in Nat, p < q
  PROVE  n * p + n <= n * q
<1>1. n \in Nat /\ n > 0 BY DEF Positive
<1> DEFINE d == q - p
<1>2. d \in Nat /\ d >= 1 /\ q = p + d OBVIOUS
<1> HIDE DEF d
<1>3. n * q = n * p + n * d BY <1>1, <1>2
<1>4. n * d >= n BY <1>1, <1>2
<1>5. n * p \in Nat /\ n * d \in Nat BY <1>1, <1>2
<1>6. QED BY <1>1, <1>3, <1>4, <1>5

LEMMA DivMod ==
  ASSUME NEW n \in Positive, NEW a \in Nat
  PROVE  /\ a \div n \in Nat /\ a % n \in 0 .. n - 1 /\ a % n \in Nat
         /\ a = n * (a \div n) + (a % n) /\ n * (a \div n) \in Nat
<1>1. n \in Nat \ {0} BY DEF Positive
<1>2. a \div n \in Nat /\ a % n \in 0 .. n - 1 /\ a = n * (a \div n) + (a % n)
  BY <1>1, Arrays!DivisionProperties
<1>3. n * (a \div n) \in Nat BY <1>1, <1>2
<1>4. QED BY <1>1, <1>2, <1>3

(* Positions are in the order of their bytes and of their bits in a byte.  *)
LEMMA Lexicographic ==
  ASSUME NEW n \in Positive, NEW a \in Nat, NEW c \in Nat
  PROVE  a <= c <=> \/ a \div n < c \div n
                    \/ a \div n = c \div n /\ a % n <= c % n
<1> DEFINE p == a \div n
           q == c \div n
           r == a % n
           s == c % n
           x == n * p
           y == n * q
<1>1. /\ p \in Nat /\ r \in Nat /\ r < n /\ a = x + r /\ x \in Nat /\ n \in Nat
      /\ q \in Nat /\ s \in Nat /\ s < n /\ c = y + s /\ y \in Nat
  BY DivMod DEF Positive
<1>2. /\ p < q => x + n <= y
      /\ q < p => y + n <= x
      /\ p = q => x = y
  BY <1>1, NextMultiple
<1> HIDE DEF p, q, r, s, x, y
<1>3. QED BY <1>1, <1>2 DEF p, q, r, s

(* Bit r of byte q is at position n * q + r. *)
LEMMA PositionIs ==
  ASSUME NEW n \in Positive, NEW q \in Nat, NEW r \in 0 .. n - 1
  PROVE  /\ q * n + r \in Nat
         /\ (q * n + r) \div n = q /\ (q * n + r) % n = r
<1>1. n \in Nat BY DEF Positive
<1>2. q * n \in Nat /\ q * n = n * q BY <1>1
<1> DEFINE a == q * n + r
           p == a \div n
           t == a % n
           x == n * p
           y == n * q
<1>3. a \in Nat /\ r \in Nat /\ r < n BY <1>1, <1>2
<1> HIDE DEF a
<1>4. p \in Nat /\ t \in Nat /\ t < n /\ a = x + t /\ x \in Nat BY <1>1, <1>3, DivMod
<1>5. a = y + r /\ y \in Nat BY <1>2 DEF a
<1>6. (p < q => x + n <= y) /\ (q < p => y + n <= x) BY <1>4, NextMultiple
<1> HIDE DEF p, t, x, y
<1>7. p = q BY <1>1, <1>3, <1>4, <1>5, <1>6
<1>8. x = y BY <1>7 DEF x, y
<1>9. t = r BY <1>1, <1>3, <1>4, <1>5, <1>8
<1>10. QED BY <1>3, <1>7, <1>9 DEF a, p, t

(* A quotient is known by its remainder. *)
LEMMA QuotientUnique ==
  ASSUME NEW n \in Positive, NEW a \in Nat, NEW q \in Nat, NEW r \in Nat, r < n, a = n * q + r
  PROVE  a \div n = q /\ a % n = r
<1>1. n \in Nat /\ r \in 0 .. n - 1 BY DEF Positive
<1>2. a = q * n + r BY <1>1
<1>3. QED BY <1>1, <1>2, PositionIs

(* Dividing twice is dividing by the product.                              *)
LEMMA QuotientOfQuotient ==
  ASSUME NEW m \in Positive, NEW n \in Positive, NEW a \in Nat
  PROVE  (a \div m) \div n = a \div (m * n)
<1> DEFINE q == a \div m
           r == a % m
           p == q \div n
           s == q % n
<1>1. m \in Nat /\ n \in Nat /\ m * n \in Positive /\ m > 0 /\ n > 0 BY DEF Positive
<1>2. q \in Nat /\ r \in Nat /\ r < m /\ a = m * q + r
  <2>1. q \in Nat /\ r \in 0 .. m - 1 /\ a = m * q + r BY <1>1, DivMod
  <2> HIDE DEF q, r
  <2>2. QED BY <1>1, <2>1
<1> HIDE DEF q, r
<1>3. p \in Nat /\ s \in Nat /\ s < n /\ q = n * p + s /\ n * p \in Nat
  <2>1. p \in Nat /\ s \in 0 .. n - 1 /\ q = n * p + s /\ n * p \in Nat BY <1>1, <1>2, DivMod
  <2> HIDE DEF p, s
  <2>2. QED BY <1>1, <2>1
<1> HIDE DEF p, s
<1>4. a = (m * n) * p + (m * s + r)
  <2>1. m * q = m * (n * p) + m * s BY <1>1, <1>3
  <2>2. m * (n * p) = (m * n) * p BY <1>1, <1>3
  <2> DEFINE u == m * q
             v == (m * n) * p
             w == m * s
  <2>3. u \in Nat /\ v \in Nat /\ w \in Nat /\ u = v + w BY <1>1, <1>2, <1>3, <2>1, <2>2
  <2>4. a = u + r BY <1>2
  <2> HIDE DEF u, v, w
  <2>5. a = v + (w + r) BY <1>2, <2>3, <2>4
  <2>6. QED BY <2>5 DEF v, w
<1>5. m * s + r \in Nat /\ m * s + r < m * n
  <2>1. m * s + m <= m * n /\ m * s \in Nat /\ m * n \in Nat BY <1>1, <1>3, NextMultiple
  <2>2. QED BY <1>1, <1>2, <2>1
<1> DEFINE t == m * s + r
           mn == m * n
<1> HIDE DEF t, mn
<1>6. mn \in Positive /\ t \in Nat /\ t < mn /\ a = mn * p + t BY <1>1, <1>4, <1>5 DEF t, mn
<1>7. a \div mn = p BY <1>3, <1>6, QuotientUnique
<1>8. QED BY <1>7 DEF mn, p, q

-----------------------------------------------------------------------------
(* Bytes and words *)

LEMMA ByteIs == BYTE \in Positive /\ WORD \in Positive /\ WORD * BYTE \in Positive
                /\ BIGNUM_SMALL_SIZE \in Nat /\ MaxBits \in Positive
BY BitmapAssumption DEF Positive

-----------------------------------------------------------------------------
(* Positions of bits *)

(* Bit j of byte k, and the byte and the bit of a position. *)
At(k, j) == k * BYTE + j
ByteNo(i) == i \div BYTE
BitNo(i) == i % BYTE

LEMMA Positions ==
  /\ \A i \in Nat : /\ ByteNo(i) \in Nat /\ BitNo(i) \in BitsOfByte
                    /\ At(ByteNo(i), BitNo(i)) = i
  /\ \A k \in Nat, j \in BitsOfByte :
       At(k, j) \in Nat /\ ByteNo(At(k, j)) = k /\ BitNo(At(k, j)) = j
<1>1. BYTE \in Positive /\ BYTE \in Nat BY ByteIs DEF Positive
<1>2. ASSUME NEW i \in Nat
      PROVE  ByteNo(i) \in Nat /\ BitNo(i) \in BitsOfByte /\ At(ByteNo(i), BitNo(i)) = i
  <2> DEFINE p == i \div BYTE
             r == i % BYTE
  <2>1. /\ p \in Nat /\ r \in 0 .. BYTE - 1 /\ r \in Nat
        /\ i = BYTE * p + r /\ BYTE * p \in Nat
    BY <1>1, DivMod
  <2> HIDE DEF p, r
  <2>2. p * BYTE = BYTE * p BY <1>1, <2>1
  <2>3. p * BYTE + r = i BY <2>1, <2>2
  <2>4. ByteNo(i) = p /\ BitNo(i) = r BY DEF ByteNo, BitNo, p, r
  <2>5. At(p, r) = i BY <2>3 DEF At
  <2>6. r \in BitsOfByte BY <2>1 DEF BitsOfByte
  <2>7. QED BY <2>1, <2>4, <2>5, <2>6
<1>3. ASSUME NEW k \in Nat, NEW j \in BitsOfByte
      PROVE  At(k, j) \in Nat /\ ByteNo(At(k, j)) = k /\ BitNo(At(k, j)) = j
  <2>1. j \in 0 .. BYTE - 1 BY DEF BitsOfByte
  <2>2. QED BY <1>1, <2>1, PositionIs DEF At, ByteNo, BitNo
<1>4. QED BY <1>2, <1>3

LEMMA InOrder ==
  ASSUME NEW a \in Nat, NEW c \in Nat
  PROVE  a <= c <=> \/ ByteNo(a) < ByteNo(c)
                    \/ ByteNo(a) = ByteNo(c) /\ BitNo(a) <= BitNo(c)
BY ByteIs, Lexicographic DEF ByteNo, BitNo

(* A bitmap has bytes for its bits and no others. *)
LEMMA BytesForIs ==
  ASSUME NEW n \in Nat
  PROVE  /\ BytesFor(n) \in Nat /\ AllocatedBytes(n) \in Nat
         /\ BytesFor(n) <= AllocatedBytes(n) /\ BytesFor(n) <= n
         /\ \A i \in Nat : i < n => ByteNo(i) < BytesFor(n)
         /\ \A m \in Nat : n <= m => BytesFor(n) <= BytesFor(m)
<1>1. BYTE \in Positive /\ BYTE \in Nat /\ BYTE > 0 /\ BIGNUM_SMALL_SIZE \in Nat
  BY ByteIs DEF Positive
<1> DEFINE t == n + BYTE - 1
           q == t \div BYTE
           r == t % BYTE
<1>2. t \in Nat BY <1>1
<1> HIDE DEF t
<1>3. /\ q \in Nat /\ r \in Nat /\ r < BYTE /\ t = BYTE * q + r /\ BYTE * q \in Nat
  BY <1>1, <1>2, DivMod
<1>4. BytesFor(n) = q BY DEF BytesFor, t
<1> HIDE DEF q, r
<1>5. q <= n
  <2>1. SUFFICES ASSUME n < q PROVE FALSE BY <1>3
  <2>2. BYTE * n + BYTE <= BYTE * q BY <1>1, <1>3, <2>1, NextMultiple
  <2>3. BYTE * n >= n /\ BYTE * n \in Nat
    <3>1. CASE n = 0 BY <1>1, <3>1
    <3>2. CASE n # 0
      <4>1. n \in Positive /\ 0 < BYTE BY <1>1, <3>2 DEF Positive
      <4>2. n * (BYTE - 1) \in Nat BY <1>1
      <4>3. BYTE * n = n * (BYTE - 1) + n BY <1>1
      <4>4. QED BY <4>2, <4>3
    <3>3. QED BY <3>1, <3>2
  <2> DEFINE x == BYTE * n
             y == BYTE * q
  <2> HIDE DEF x, y
  <2>4. x + BYTE <= y /\ x >= n /\ x \in Nat /\ y \in Nat /\ t = y + r
    BY <1>3, <2>2, <2>3 DEF x, y
  <2>5. QED BY <1>1, <1>3, <2>4 DEF t
<1>6. ASSUME NEW i \in Nat, i < n PROVE ByteNo(i) < q
  <2> DEFINE p == i \div BYTE
             s == i % BYTE
             x == BYTE * p
             y == BYTE * q
  <2>1. p \in Nat /\ s \in Nat /\ i = x + s /\ x \in Nat BY <1>1, DivMod
  <2>2. q < p => y + BYTE <= x BY <1>1, <1>3, <2>1, NextMultiple
  <2>3. q = p => y = x OBVIOUS
  <2>4. t = y + r /\ y \in Nat BY <1>3
  <2>5. p = ByteNo(i) BY DEF ByteNo
  <2> HIDE DEF p, s, x, y
  <2>6. p < q BY <1>1, <1>3, <1>6, <2>1, <2>2, <2>3, <2>4 DEF t
  <2>7. QED BY <2>5, <2>6
<1>7. ASSUME NEW m \in Nat, n <= m PROVE q <= BytesFor(m)
  <2> DEFINE u == m + BYTE - 1
  <2>1. u \in Nat /\ t <= u BY <1>1, <1>7 DEF t
  <2> HIDE DEF u
  <2>2. ByteNo(t) <= ByteNo(u)
    <3>1. ByteNo(t) \in Nat /\ ByteNo(u) \in Nat BY <1>2, <2>1, Positions
    <3>2. QED BY <1>2, <2>1, <3>1, InOrder
  <2>3. QED BY <2>2 DEF ByteNo, u, q, BytesFor
<1>8. AllocatedBytes(n) \in Nat /\ q <= AllocatedBytes(n)
  BY <1>1, <1>3, <1>4 DEF AllocatedBytes
<1>9. QED BY <1>3, <1>4, <1>5, <1>6, <1>7, <1>8

LEMMA ByteInUse ==
  ASSUME NEW n \in Nat, NEW i \in Nat, i < n
  PROVE  ByteNo(i) \in 0 .. BytesFor(n) - 1 /\ BitNo(i) \in BitsOfByte /\ At(ByteNo(i), BitNo(i)) = i
<1>1. ByteNo(i) \in Nat /\ BitNo(i) \in BitsOfByte /\ At(ByteNo(i), BitNo(i)) = i BY Positions
<1>2. BytesFor(n) \in Nat /\ ByteNo(i) < BytesFor(n) BY BytesForIs
<1>3. QED BY <1>1, <1>2

-----------------------------------------------------------------------------
(* What the bytes of a bitmap mean *)

(* b has n bits, of which those of P are 1; no bit is 1 behind the last of *)
(* them in the bytes that are used.                                        *)
Represents(b, n, P) ==
  /\ n \in Nat /\ P \in SUBSET (0 .. n - 1)
  /\ b = [length |-> n, is_large |-> b.is_large, data |-> b.data]
  /\ b.data \in [0 .. AllocatedBytes(n) - 1 -> SUBSET BitsOfByte]
  /\ \A k \in 0 .. BytesFor(n) - 1, j \in BitsOfByte : j \in b.data[k] <=> At(k, j) \in P

(* bitmap_get reads the bit.                                               *)
LEMMA GetIs ==
  ASSUME NEW b, NEW n, NEW P, Represents(b, n, P), NEW i \in 0 .. n - 1
  PROVE  bitmap_get(b, i) = 1 <=> i \in P
<1>1. n \in Nat /\ i \in Nat /\ i < n BY DEF Represents
<1>2. ByteNo(i) \in 0 .. BytesFor(n) - 1 /\ BitNo(i) \in BitsOfByte /\ At(ByteNo(i), BitNo(i)) = i
  BY <1>1, ByteInUse
<1>3. BitNo(i) \in b.data[ByteNo(i)] <=> i \in P BY <1>2 DEF Represents
<1>4. QED BY <1>3 DEF bitmap_get, ByteNo, BitNo

LEMMA ShownIs ==
  ASSUME NEW b, NEW n, NEW P, Represents(b, n, P)
  PROVE  Shown(b) = BitsAre(n, P)
<1>1. b.length = n /\ P \subseteq 0 .. n - 1 BY DEF Represents
<1>2. {i \in 0 .. n - 1 : bitmap_get(b, i) = 1} = P BY <1>1, GetIs
<1>3. QED BY <1>1, <1>2 DEF Shown, BitsAre

LEMMA FromPositionsIs ==
  ASSUME NEW n \in Nat, NEW P \in SUBSET (0 .. n - 1)
  PROVE  Represents(FromPositions(n, P), n, P)
<1> DEFINE data == [k \in 0 .. AllocatedBytes(n) - 1 |-> {j \in BitsOfByte : At(k, j) \in P}]
           b == FromPositions(n, P)
<1>1. /\ b = [length |-> n, is_large |-> b.is_large, data |-> b.data] /\ b.data = data
  BY DEF FromPositions, Bitmap, At
<1>2. data \in [0 .. AllocatedBytes(n) - 1 -> SUBSET BitsOfByte] OBVIOUS
<1>3. \A k \in 0 .. BytesFor(n) - 1 : k \in 0 .. AllocatedBytes(n) - 1 BY BytesForIs
<1>4. \A k \in 0 .. BytesFor(n) - 1, j \in BitsOfByte : j \in data[k] <=> At(k, j) \in P BY <1>3
<1> HIDE DEF data, b
<1>5. Represents(b, n, P) BY <1>1, <1>2, <1>4 DEF Represents
<1>6. QED BY <1>5 DEF b

-----------------------------------------------------------------------------
(* Growing and setting bits *)

(* A bitmap grows by bits that are 0.                                      *)
LEMMA GrownIs ==
  ASSUME NEW b, NEW n, NEW P, Represents(b, n, P), NEW m \in Nat
  PROVE  Represents(Grown(b, m), LongerOf(n, m), P)
<1>1. n \in Nat /\ P \in SUBSET (0 .. n - 1) /\ b.length = n BY DEF Represents
<1>2. CASE ~(m > n) BY <1>1, <1>2 DEF Grown, LongerOf
<1>3. CASE m > n
  <2> DEFINE c == bitmap_rexpand(b, m)
             data == [k \in 0 .. AllocatedBytes(m) - 1 |->
                        IF k < BytesFor(n) THEN b.data[k] ELSE {}]
  <2>1. Grown(b, m) = c /\ LongerOf(n, m) = m BY <1>1, <1>3 DEF Grown, LongerOf
  <2>2. c = [length |-> m, is_large |-> c.is_large, data |-> c.data] /\ c.data = data
    BY <1>1 DEF bitmap_rexpand, Bitmap
  <2>3. /\ BytesFor(n) \in Nat /\ BytesFor(n) <= AllocatedBytes(n) /\ AllocatedBytes(n) \in Nat
        /\ BytesFor(m) \in Nat /\ BytesFor(m) <= AllocatedBytes(m) /\ AllocatedBytes(m) \in Nat
    BY <1>1, BytesForIs
  <2>4. \A k \in 0 .. BytesFor(n) - 1 :
          /\ b.data[k] \in SUBSET BitsOfByte
          /\ \A j \in BitsOfByte : j \in b.data[k] <=> At(k, j) \in P
    <3>1. \A k \in 0 .. BytesFor(n) - 1 : k \in 0 .. AllocatedBytes(n) - 1 BY <2>3
    <3>2. b.data \in [0 .. AllocatedBytes(n) - 1 -> SUBSET BitsOfByte] BY DEF Represents
    <3>3. \A k \in 0 .. BytesFor(n) - 1, j \in BitsOfByte : j \in b.data[k] <=> At(k, j) \in P
      BY DEF Represents
    <3>4. QED BY <3>1, <3>2, <3>3
  <2>5. data \in [0 .. AllocatedBytes(m) - 1 -> SUBSET BitsOfByte] BY <2>3, <2>4
  <2>6. ASSUME NEW k \in 0 .. BytesFor(m) - 1, NEW j \in BitsOfByte
        PROVE  j \in data[k] <=> At(k, j) \in P
    <3>1. k \in 0 .. AllocatedBytes(m) - 1 /\ k \in Nat BY <2>3
    <3>2. CASE k < BytesFor(n) BY <2>3, <2>4, <3>1, <3>2
    <3>3. CASE ~(k < BytesFor(n))
      <4>1. At(k, j) \in Nat /\ ByteNo(At(k, j)) = k BY <3>1, Positions
      <4>2. ~(At(k, j) < n) BY <1>1, <3>3, <4>1, BytesForIs
      <4>3. At(k, j) \notin P BY <1>1, <4>1, <4>2
      <4>4. data[k] = {} BY <3>1, <3>3
      <4>5. QED BY <4>3, <4>4
    <3>4. QED BY <3>2, <3>3
  <2>7. P \in SUBSET (0 .. m - 1) BY <1>1, <1>3
  <2> HIDE DEF c, data
  <2>8. Represents(c, m, P) BY <2>2, <2>5, <2>6, <2>7 DEF Represents
  <2>9. QED BY <2>1, <2>8
<1>4. QED BY <1>2, <1>3

LEMMA LongerOfIs ==
  ASSUME NEW m \in Nat, NEW n \in Nat
  PROVE  LongerOf(m, n) \in Nat /\ m <= LongerOf(m, n) /\ n <= LongerOf(m, n)
         /\ (LongerOf(m, n) = m \/ LongerOf(m, n) = n)
BY DEF LongerOf

(* Where the bits of S are in byte k. *)
Mask(k, S) == {j \in BitsOfByte : At(k, j) \in S}

LEMMA PutBitsIs ==
  ASSUME NEW X, NEW S, NEW value, NEW x
  PROVE  x \in PutBits(X, S, value) <=> IF x \in S THEN value = 1 ELSE x \in X
BY DEF PutBits

(* Bits set byte by byte.                                                  *)
LEMMA MaskedIs ==
  ASSUME NEW b, NEW n, NEW P, Represents(b, n, P), NEW c, NEW S \in SUBSET (0 .. n - 1), NEW value,
         c = [length |-> n, is_large |-> c.is_large, data |-> c.data],
         c.data \in [0 .. AllocatedBytes(n) - 1 -> SUBSET BitsOfByte],
         \A k \in 0 .. BytesFor(n) - 1 : c.data[k] = PutBits(b.data[k], Mask(k, S), value)
  PROVE  Represents(c, n, PutBits(P, S, value))
<1>1. n \in Nat /\ P \in SUBSET (0 .. n - 1) BY DEF Represents
<1>2. PutBits(P, S, value) \in SUBSET (0 .. n - 1) BY <1>1 DEF PutBits
<1>3. ASSUME NEW k \in 0 .. BytesFor(n) - 1, NEW j \in BitsOfByte
      PROVE  j \in c.data[k] <=> At(k, j) \in PutBits(P, S, value)
  <2>1. j \in b.data[k] <=> At(k, j) \in P BY DEF Represents
  <2>2. j \in Mask(k, S) <=> At(k, j) \in S BY DEF Mask
  <2>3. j \in c.data[k] <=> IF j \in Mask(k, S) THEN value = 1 ELSE j \in b.data[k]
    BY PutBitsIs
  <2>4. At(k, j) \in PutBits(P, S, value) <=> IF At(k, j) \in S THEN value = 1 ELSE At(k, j) \in P
    BY PutBitsIs
  <2>5. QED BY <2>1, <2>2, <2>3, <2>4
<1>4. QED BY <1>1, <1>2, <1>3 DEF Represents

(* One bit set in its byte. *)
WithBit(b, i, value) ==
  [b EXCEPT !.data[i \div BYTE] = PutBits(@, {i % BYTE}, value)]

LEMMA WithBitIs ==
  ASSUME NEW b, NEW n, NEW P, Represents(b, n, P), NEW i \in 0 .. n - 1, NEW value
  PROVE  Represents(WithBit(b, i, value), n, PutBits(P, {i}, value))
<1> DEFINE c == WithBit(b, i, value)
           q == ByteNo(i)
           data == [b.data EXCEPT ![q] = PutBits(@, {BitNo(i)}, value)]
<1>1. n \in Nat /\ i \in Nat /\ i < n BY DEF Represents
<1>2. q \in 0 .. BytesFor(n) - 1 /\ BitNo(i) \in BitsOfByte /\ At(q, BitNo(i)) = i
  BY <1>1, ByteInUse
<1>3. /\ BytesFor(n) \in Nat /\ BytesFor(n) <= AllocatedBytes(n) /\ AllocatedBytes(n) \in Nat
  BY <1>1, BytesForIs
<1>4. b = [length |-> n, is_large |-> b.is_large, data |-> b.data] BY DEF Represents
<1>5. c = [length |-> n, is_large |-> b.is_large, data |-> data]
  BY <1>4 DEF WithBit, ByteNo, BitNo
<1>6. c = [length |-> n, is_large |-> c.is_large, data |-> c.data] /\ c.data = data BY <1>5
<1>7. b.data \in [0 .. AllocatedBytes(n) - 1 -> SUBSET BitsOfByte] BY DEF Represents
<1> HIDE DEF q
<1>8. q \in 0 .. AllocatedBytes(n) - 1 BY <1>2, <1>3
<1>9. PutBits(b.data[q], {BitNo(i)}, value) \in SUBSET BitsOfByte
  BY <1>2, <1>7, <1>8 DEF PutBits
<1>10. data \in [0 .. AllocatedBytes(n) - 1 -> SUBSET BitsOfByte] BY <1>7, <1>8, <1>9
<1>11. ASSUME NEW k \in 0 .. BytesFor(n) - 1
       PROVE  data[k] = PutBits(b.data[k], Mask(k, {i}), value)
  <2>1. k \in 0 .. AllocatedBytes(n) - 1 /\ k \in Nat BY <1>3
  <2>2. CASE k = q
    <3>1. Mask(k, {i}) = {BitNo(i)}
      <4>1. \A j \in BitsOfByte : At(k, j) = i => j = BitNo(i) BY <2>1, Positions
      <4>2. QED BY <1>2, <2>2, <4>1 DEF Mask
    <3>2. QED BY <1>7, <2>1, <2>2, <3>1
  <2>3. CASE k # q
    <3>1. Mask(k, {i}) = {}
      <4>1. \A j \in BitsOfByte : At(k, j) # i BY <2>1, <2>3, Positions DEF q
      <4>2. QED BY <4>1 DEF Mask
    <3>2. data[k] = b.data[k] BY <1>7, <2>1, <2>3
    <3>3. PutBits(b.data[k], {}, value) = b.data[k] BY DEF PutBits
    <3>4. QED BY <3>1, <3>2, <3>3
  <2>4. QED BY <2>2, <2>3
<1>12. {i} \in SUBSET (0 .. n - 1) BY <1>1
<1> HIDE DEF c, data
<1>13. Represents(c, n, PutBits(P, {i}, value)) BY <1>6, <1>10, <1>11, <1>12, MaskedIs
<1>14. QED BY <1>13 DEF c

LEMMA SetIs ==
  ASSUME NEW b, NEW n, NEW P, Represents(b, n, P), NEW i \in Nat, NEW value
  PROVE  Represents(bitmap_set(b, i, value), LongerOf(n, i + 1), PutBits(P, {i}, value))
<1>1. n \in Nat BY DEF Represents
<1> DEFINE g == Grown(b, i + 1)
           m == LongerOf(n, i + 1)
<1>2. Represents(g, m, P) BY GrownIs
<1>3. i \in 0 .. m - 1 BY <1>1, LongerOfIs
<1> HIDE DEF g, m
<1>4. Represents(WithBit(g, i, value), m, PutBits(P, {i}, value)) BY <1>2, <1>3, WithBitIs
<1>5. bitmap_set(b, i, value) = WithBit(g, i, value) BY DEF bitmap_set, WithBit, g
<1>6. QED BY <1>4, <1>5 DEF m

(* bitmap_set_range masks the first and the last byte, and the bytes       *)
(* between them are filled.                                                *)
LEMMA RangeIs ==
  ASSUME NEW b, NEW n, NEW P, Represents(b, n, P), NEW from \in Nat, NEW length \in Nat \ {0},
         NEW value \in {0, 1}
  PROVE  Represents(bitmap_set_range(b, from, length, value), LongerOf(n, from + length),
                    PutBits(P, from .. from + length - 1, value))
<1>1. n \in Nat BY DEF Represents
<1> DEFINE g == Grown(b, from + length)
           m == LongerOf(n, from + length)
           last == from + length - 1
           s == ByteNo(from)
           e == ByteNo(last)
           head == {j \in BitsOfByte : j >= BitNo(from)}
           tail == {j \in BitsOfByte : j <= BitNo(last)}
           span == from .. last
           c == bitmap_set_range(b, from, length, value)
<1>2. Represents(g, m, P) BY GrownIs
<1>3. last \in Nat /\ from <= last /\ m \in Nat /\ last < m
  <2>1. from + length \in Nat /\ last \in Nat /\ from <= last /\ last < from + length OBVIOUS
  <2>2. m \in Nat /\ from + length <= m BY <1>1, <2>1, LongerOfIs
  <2> HIDE DEF m, last
  <2>3. QED BY <2>1, <2>2
<1>4. c = IF s = e
          THEN [g EXCEPT !.data[s] = PutBits(@, head \cap tail, value)]
          ELSE [g EXCEPT !.data = [k \in DOMAIN @ |->
                 CASE k = s -> PutBits(@[k], head, value)
                   [] k = e -> PutBits(@[k], tail, value)
                   [] s < k /\ k < e -> IF value = 1 THEN BitsOfByte ELSE {}
                   [] OTHER -> @[k]]]
  BY DEF bitmap_set_range, ByteNo, BitNo
<1> DEFINE old == g.data
           data == IF s = e THEN [old EXCEPT ![s] = PutBits(@, head \cap tail, value)]
                   ELSE [k \in 0 .. AllocatedBytes(m) - 1 |->
                          CASE k = s -> PutBits(old[k], head, value)
                            [] k = e -> PutBits(old[k], tail, value)
                            [] s < k /\ k < e -> IF value = 1 THEN BitsOfByte ELSE {}
                            [] OTHER -> old[k]]
<1> HIDE DEF g, m, last, c
<1>5. /\ g = [length |-> m, is_large |-> g.is_large, data |-> old]
      /\ old \in [0 .. AllocatedBytes(m) - 1 -> SUBSET BitsOfByte]
  BY <1>2 DEF Represents
<1>6. c = [length |-> m, is_large |-> g.is_large, data |-> data]
  <2>1. DOMAIN old = 0 .. AllocatedBytes(m) - 1 BY <1>5
  <2> HIDE DEF s, e, head, tail
  <2>2. CASE s = e BY <1>4, <1>5, <2>2
  <2>3. CASE s # e
    <3> DEFINE new == [k \in DOMAIN old |->
                        CASE k = s -> PutBits(old[k], head, value)
                          [] k = e -> PutBits(old[k], tail, value)
                          [] s < k /\ k < e -> IF value = 1 THEN BitsOfByte ELSE {}
                          [] OTHER -> old[k]]
    <3>1. c = [g EXCEPT !.data = new] BY <1>4, <2>3
    <3>2. new = data BY <2>1, <2>3
    <3> HIDE DEF new, data, old
    <3>3. [g EXCEPT !.data = new] = [length |-> m, is_large |-> g.is_large, data |-> new] BY <1>5
    <3>4. QED BY <3>1, <3>2, <3>3
  <2>4. QED BY <2>2, <2>3
<1>7. /\ from \in span /\ last \in span /\ span \in SUBSET (0 .. m - 1)
  BY <1>3
<1>8. /\ s \in Nat /\ e \in Nat /\ s <= e /\ BitNo(from) \in BitsOfByte /\ BitNo(last) \in BitsOfByte
      /\ BytesFor(m) \in Nat /\ AllocatedBytes(m) \in Nat /\ BytesFor(m) <= AllocatedBytes(m)
      /\ e < BytesFor(m)
  <2>1. s \in Nat /\ e \in Nat /\ BitNo(from) \in BitsOfByte /\ BitNo(last) \in BitsOfByte
    BY <1>3, Positions
  <2>2. s <= e BY <1>3, <2>1, InOrder
  <2>3. e < BytesFor(m) /\ BytesFor(m) \in Nat /\ AllocatedBytes(m) \in Nat /\ BytesFor(m) <= AllocatedBytes(m)
    BY <1>3, BytesForIs
  <2>4. QED BY <2>1, <2>2, <2>3
<1>9. ASSUME NEW k \in Nat, NEW j \in BitsOfByte
      PROVE  At(k, j) \in span <=> /\ s < k \/ (s = k /\ j >= BitNo(from))
                                   /\ k < e \/ (k = e /\ j <= BitNo(last))
  <2> DEFINE i == At(k, j)
  <2>1. i \in Nat /\ ByteNo(i) = k /\ BitNo(i) = j BY Positions
  <2> HIDE DEF i
  <2>2. from <= i <=> \/ ByteNo(from) < ByteNo(i)
                      \/ ByteNo(from) = ByteNo(i) /\ BitNo(from) <= BitNo(i)
    BY <2>1, InOrder
  <2>3. i <= last <=> \/ ByteNo(i) < ByteNo(last)
                      \/ ByteNo(i) = ByteNo(last) /\ BitNo(i) <= BitNo(last)
    BY <1>3, <2>1, InOrder
  <2>4. i \in span <=> from <= i /\ i <= last BY <1>3, <2>1
  <2>5. j \in Int /\ BitNo(from) \in Int BY <1>8 DEF BitsOfByte
  <2>6. BitNo(from) <= j <=> j >= BitNo(from) BY <2>5
  <2>7. QED BY <2>1, <2>2, <2>3, <2>4, <2>6 DEF i
<1> HIDE DEF s, e, span, old
<1>10. /\ s = e => Mask(s, span) = head \cap tail
       /\ s # e => Mask(s, span) = head /\ Mask(e, span) = tail
       /\ \A k \in Nat : s < k /\ k < e => Mask(k, span) = BitsOfByte
       /\ \A k \in Nat : k < s \/ e < k => Mask(k, span) = {}
  BY <1>8, <1>9 DEF Mask
<1>11. /\ PutBits(old[s], head \cap tail, value) \in SUBSET BitsOfByte
       /\ PutBits(old[s], head, value) \in SUBSET BitsOfByte
       /\ PutBits(old[e], tail, value) \in SUBSET BitsOfByte
  <2>1. s \in 0 .. AllocatedBytes(m) - 1 /\ e \in 0 .. AllocatedBytes(m) - 1 BY <1>8
  <2>2. old[s] \in SUBSET BitsOfByte /\ old[e] \in SUBSET BitsOfByte BY <1>5, <2>1
  <2>3. QED BY <2>2 DEF PutBits
<1> HIDE DEF head, tail
<1>12. data \in [0 .. AllocatedBytes(m) - 1 -> SUBSET BitsOfByte]
  <2>1. CASE s = e BY <1>5, <1>11, <2>1
  <2>2. CASE s # e
    <3>1. ASSUME NEW k \in 0 .. AllocatedBytes(m) - 1 PROVE data[k] \in SUBSET BitsOfByte
      <4>1. old[k] \in SUBSET BitsOfByte BY <1>5
      <4>2. QED BY <1>11, <2>2, <4>1
    <3>2. QED BY <2>2, <3>1
  <2>3. QED BY <2>1, <2>2
<1>13. ASSUME NEW k \in 0 .. BytesFor(m) - 1
       PROVE  data[k] = PutBits(old[k], Mask(k, span), value)
  <2>1. k \in 0 .. AllocatedBytes(m) - 1 /\ k \in Nat BY <1>8
  <2>2. old[k] \in SUBSET BitsOfByte BY <1>5, <2>1
  <2>3. PutBits(old[k], {}, value) = old[k] BY DEF PutBits
  <2>4. CASE s = e
    <3>1. CASE k = s BY <1>5, <1>10, <2>1, <2>4, <3>1
    <3>2. CASE k # s
      <4>1. k < s \/ e < k BY <1>8, <2>1, <2>4, <3>2
      <4>2. Mask(k, span) = {} BY <1>10, <2>1, <4>1
      <4>3. data[k] = old[k] BY <1>5, <2>1, <2>4, <3>2
      <4>4. QED BY <2>3, <4>2, <4>3
    <3>3. QED BY <3>1, <3>2
  <2>5. CASE s # e
    <3>1. CASE k = s BY <1>10, <2>1, <2>5, <3>1
    <3>2. CASE k = e BY <1>10, <2>1, <2>5, <3>2
    <3>3. CASE k # s /\ k # e /\ s < k /\ k < e
      <4>1. PutBits(old[k], BitsOfByte, value) = IF value = 1 THEN BitsOfByte ELSE {}
        BY <2>2 DEF PutBits
      <4>2. Mask(k, span) = BitsOfByte BY <1>10, <2>1, <3>3
      <4>3. data[k] = IF value = 1 THEN BitsOfByte ELSE {} BY <2>1, <2>5, <3>3
      <4>4. QED BY <4>1, <4>2, <4>3
    <3>4. CASE k # s /\ k # e /\ ~(s < k /\ k < e)
      <4>1. k < s \/ e < k BY <1>8, <2>1, <3>4
      <4>2. Mask(k, span) = {} BY <1>10, <2>1, <4>1
      <4>3. data[k] = old[k] BY <2>1, <2>5, <3>4
      <4>4. QED BY <2>3, <4>2, <4>3
    <3>5. QED BY <3>1, <3>2, <3>3, <3>4
  <2>6. QED BY <2>4, <2>5
<1> HIDE DEF data
<1>14. c = [length |-> m, is_large |-> c.is_large, data |-> c.data] /\ c.data = data BY <1>6
<1>15. \A k \in 0 .. BytesFor(m) - 1 : c.data[k] = PutBits(g.data[k], Mask(k, span), value)
  BY <1>13, <1>14 DEF old
<1>16. Represents(c, m, PutBits(P, span, value)) BY <1>2, <1>7, <1>12, <1>14, <1>15, MaskedIs
<1>17. QED BY <1>16 DEF c, m, span, last

(* The bitmap after i bits of the stream s. *)
WriteStep(b, from, s, h, i) ==
  IF i = 0 THEN Grown(b, from + Len(s)) ELSE WithBit(h[i - 1], from + i - 1, s[i])
Writing(b, from, s, n, h) == h = [i \in 0 .. n |-> WriteStep(b, from, s, h, i)]
Written(b, from, s) == CHOOSE h : Writing(b, from, s, Len(s), h)

LEMMA StreamIsWritten ==
  ASSUME NEW b, NEW from, NEW s
  PROVE  bitmap_set_from_stream(b, from, s) = Written(b, from, s)[Len(s)]
BY DEF bitmap_set_from_stream, Written, Writing, WriteStep, WithBit

LEMMA WritingExists ==
  ASSUME NEW b, NEW from, NEW s, NEW n \in Nat
  PROVE  \E h : Writing(b, from, s, n, h)
<1> DEFINE good == {k \in Nat : \E h : Writing(b, from, s, k, h)}
<1>1. 0 \in good
  <2> DEFINE h == [i \in 0 .. 0 |-> Grown(b, from + Len(s))]
  <2>1. \A i \in 0 .. 0 : WriteStep(b, from, s, h, i) = Grown(b, from + Len(s)) BY DEF WriteStep
  <2>2. Writing(b, from, s, 0, h) BY <2>1 DEF Writing
  <2>3. QED BY <2>2
<1>2. ASSUME NEW k \in 0 .. n - 1, k \in good PROVE k + 1 \in good
  <2>1. k \in Nat /\ k + 1 \in Nat OBVIOUS
  <2>2. PICK h : Writing(b, from, s, k, h) BY <1>2
  <2> DEFINE f == [i \in 0 .. k + 1 |-> IF i = k + 1 THEN WriteStep(b, from, s, h, i) ELSE h[i]]
  <2>3. ASSUME NEW i \in 0 .. k + 1 PROVE f[i] = WriteStep(b, from, s, f, i)
    <3>1. f[i] = WriteStep(b, from, s, h, i) BY <2>1, <2>2 DEF Writing
    <3>2. i # 0 => f[i - 1] = h[i - 1] BY <2>1
    <3> HIDE DEF f
    <3>3. QED BY <3>1, <3>2 DEF WriteStep
  <2>4. f = [i \in 0 .. k + 1 |-> f[i]] OBVIOUS
  <2> HIDE DEF f
  <2>5. f = [i \in 0 .. k + 1 |-> WriteStep(b, from, s, f, i)] BY <2>3, <2>4
  <2>6. Writing(b, from, s, k + 1, f) BY <2>5 DEF Writing
  <2>7. QED BY <2>1, <2>6
<1> HIDE DEF good
<1>3. \A k \in 0 .. n : k \in good BY <1>1, <1>2, Arrays!UpTo
<1>4. n \in good BY <1>3
<1>5. QED BY <1>4 DEF good

(* The bits of a bitmap after i bits of the stream.                        *)
AfterBits(P, m, from, s, i) ==
  {p \in 0 .. m - 1 : IF from <= p /\ p < from + i THEN s[p - from + 1] = 1 ELSE p \in P}

(* Bits are written one after the other.                                   *)
LEMMA StreamIs ==
  ASSUME NEW b, NEW n, NEW P, Represents(b, n, P), NEW from \in Nat, NEW s \in Seq({0, 1})
  PROVE  LET m == LongerOf(n, from + Len(s))
         IN Represents(bitmap_set_from_stream(b, from, s), m, AfterBits(P, m, from, s, Len(s)))
<1> DEFINE h == Written(b, from, s)
           len == Len(s)
           m == LongerOf(n, from + len)
           Q(i) == AfterBits(P, m, from, s, i)
           good == {i \in Nat : Represents(h[i], m, Q(i))}
<1>1. n \in Nat /\ len \in Nat /\ from + len \in Nat /\ P \in SUBSET (0 .. n - 1) BY DEF Represents
<1>2. \E f : Writing(b, from, s, len, f) BY <1>1, WritingExists
<1>3. Writing(b, from, s, len, h) BY <1>2 DEF Written
<1> HIDE DEF h
<1>4. \A i \in 0 .. len : h[i] = WriteStep(b, from, s, h, i) BY <1>3 DEF Writing
<1>5. m \in Nat /\ from + len <= m /\ n <= m BY <1>1, LongerOfIs
<1>6. 0 \in good
  <2>1. h[0] = WriteStep(b, from, s, h, 0) BY <1>1, <1>4
  <2>2. h[0] = Grown(b, from + len) BY <2>1 DEF WriteStep
  <2>3. Represents(h[0], m, P) BY <1>1, <2>2, GrownIs
  <2>4. Q(0) = P
    <3>1. \A p \in 0 .. m - 1 : p \in Q(0) <=> p \in P BY DEF AfterBits
    <3> HIDE DEF m
    <3>2. P \subseteq 0 .. m - 1 BY <1>1, <1>5
    <3>3. Q(0) \subseteq 0 .. m - 1 BY DEF AfterBits
    <3> HIDE DEF Q
    <3>4. QED BY <3>1, <3>2, <3>3
  <2> HIDE DEF Q, m
  <2>5. QED BY <2>3, <2>4
<1> HIDE DEF m, len
<1>7. ASSUME NEW i \in 0 .. len - 1, i \in good PROVE i + 1 \in good
  <2>1. Represents(h[i], m, Q(i)) BY <1>7
  <2>2. i \in Nat /\ i + 1 \in 0 .. len /\ i + 1 # 0 /\ i + 1 - 1 = i /\ from + (i + 1) - 1 = from + i
    BY <1>1
  <2>3. h[i + 1] = WithBit(h[i], from + i, s[i + 1]) BY <1>4, <2>2 DEF WriteStep
  <2>4. from + i \in 0 .. m - 1 BY <1>1, <1>5, <2>2
  <2>5. PutBits(Q(i), {from + i}, s[i + 1]) = Q(i + 1)
    <3>1. ASSUME NEW p \in 0 .. m - 1
          PROVE  p \in PutBits(Q(i), {from + i}, s[i + 1]) <=> p \in Q(i + 1)
      <4>1. p \in PutBits(Q(i), {from + i}, s[i + 1])
              <=> IF p \in {from + i} THEN s[i + 1] = 1 ELSE p \in Q(i)
        BY PutBitsIs
      <4>2. CASE p = from + i
        <5>1. from <= p /\ p < from + (i + 1) /\ p - from + 1 = i + 1 BY <2>2, <4>2
        <5>2. p \in Q(i + 1) <=> s[i + 1] = 1 BY <5>1 DEF AfterBits
        <5>3. QED BY <4>1, <4>2, <5>2
      <4>3. CASE p # from + i
        <5>1. (from <= p /\ p < from + (i + 1)) <=> (from <= p /\ p < from + i)
          BY <1>5, <2>2, <4>3
        <5>2. p \in Q(i + 1) <=> p \in Q(i) BY <5>1 DEF AfterBits
        <5>3. QED BY <4>1, <4>3, <5>2
      <4>4. QED BY <4>2, <4>3
    <3>2. Q(i) \subseteq 0 .. m - 1 /\ Q(i + 1) \subseteq 0 .. m - 1 BY DEF AfterBits
    <3> HIDE DEF Q
    <3>3. PutBits(Q(i), {from + i}, s[i + 1]) \subseteq 0 .. m - 1 BY <2>4, <3>2 DEF PutBits
    <3>4. QED BY <3>1, <3>2, <3>3
  <2>6. Represents(h[i + 1], m, PutBits(Q(i), {from + i}, s[i + 1]))
    <3> HIDE DEF Q
    <3>1. QED BY <2>1, <2>3, <2>4, WithBitIs
  <2> HIDE DEF Q
  <2>7. QED BY <2>2, <2>5, <2>6
<1> HIDE DEF good
<1>8. \A i \in 0 .. len : i \in good BY <1>1, <1>6, <1>7, Arrays!UpTo
<1>9. len \in good BY <1>1, <1>8
<1>10. bitmap_set_from_stream(b, from, s) = h[len] BY StreamIsWritten DEF h, len
<1>11. QED BY <1>9, <1>10 DEF good, m, len

-----------------------------------------------------------------------------
(* The operations that make a new bitmap *)

LEMMA BytewiseIs ==
  ASSUME NEW n \in Nat, NEW P \in SUBSET (0 .. n - 1), NEW bytes,
         \A k \in 0 .. BytesFor(n) - 1 :
           /\ bytes[k] \in SUBSET BitsOfByte
           /\ \A j \in BitsOfByte : j \in bytes[k] <=> At(k, j) \in P
  PROVE  Represents(Bytewise(n, bytes), n, P)
<1> DEFINE data == [k \in 0 .. AllocatedBytes(n) - 1 |-> IF k < BytesFor(n) THEN bytes[k] ELSE {}]
           b == Bytewise(n, bytes)
<1>1. b = [length |-> n, is_large |-> b.is_large, data |-> b.data] /\ b.data = data
  BY DEF Bytewise, Bitmap
<1>2. BytesFor(n) \in Nat /\ AllocatedBytes(n) \in Nat /\ BytesFor(n) <= AllocatedBytes(n)
  BY BytesForIs
<1>3. data \in [0 .. AllocatedBytes(n) - 1 -> SUBSET BitsOfByte] BY <1>2
<1>4. \A k \in 0 .. BytesFor(n) - 1 : data[k] = bytes[k] BY <1>2
<1> HIDE DEF data, b
<1>5. Represents(b, n, P) BY <1>1, <1>3, <1>4 DEF Represents
<1>6. QED BY <1>5 DEF b

(* Beyond the bytes that are used an operation reads zeros.                *)
LEMMA ByteOfIs ==
  ASSUME NEW b, NEW n, NEW P, Represents(b, n, P), NEW k \in Nat
  PROVE  /\ ByteOf(b, k) \in SUBSET BitsOfByte
         /\ \A j \in BitsOfByte : j \in ByteOf(b, k) <=> At(k, j) \in P
<1>1. n \in Nat /\ b.length = n /\ P \in SUBSET (0 .. n - 1) BY DEF Represents
<1>2. BytesFor(n) \in Nat /\ AllocatedBytes(n) \in Nat /\ BytesFor(n) <= AllocatedBytes(n)
  BY <1>1, BytesForIs
<1>3. CASE k < BytesFor(n)
  <2>1. k \in 0 .. BytesFor(n) - 1 /\ k \in 0 .. AllocatedBytes(n) - 1 BY <1>2, <1>3
  <2>2. ByteOf(b, k) = b.data[k] BY <1>1, <1>3 DEF ByteOf
  <2>3. QED BY <2>1, <2>2 DEF Represents
<1>4. CASE ~(k < BytesFor(n))
  <2>1. ByteOf(b, k) = {} BY <1>1, <1>4 DEF ByteOf
  <2>2. ASSUME NEW j \in BitsOfByte PROVE At(k, j) \notin P
    <3>1. At(k, j) \in Nat /\ ByteNo(At(k, j)) = k BY Positions
    <3>2. ~(At(k, j) < n) BY <1>1, <1>4, <3>1, BytesForIs
    <3>3. QED BY <1>1, <3>1, <3>2
  <2>3. QED BY <2>1, <2>2
<1>5. QED BY <1>3, <1>4

(* The bits of two bitmaps, and the operations on them. *)
LEMMA CombinedAre ==
  ASSUME NEW a, NEW m, NEW P, Represents(a, m, P), NEW b, NEW n, NEW Q, Represents(b, n, Q),
         m <= MaxBits, n <= MaxBits
  PROVE  /\ Represents(bitmap_bitand(a, b), IF m < n THEN m ELSE n, P \cap Q)
         /\ Represents(bitmap_bitor(a, b), LongerOf(m, n), P \cup Q)
         /\ Represents(bitmap_bitxor(a, b), LongerOf(m, n), (P \cup Q) \ (P \cap Q))
<1>1. /\ m \in Nat /\ a.length = m /\ P \in SUBSET (0 .. m - 1)
      /\ n \in Nat /\ b.length = n /\ Q \in SUBSET (0 .. n - 1) /\ MaxBits \in Nat
  BY ByteIs DEF Represents, Positive
<1> DEFINE s == IF m < n THEN m ELSE n
           l == LongerOf(m, n)
<1>2. Shorter(a, b) = s /\ Longer(a, b) = l BY <1>1 DEF Shorter, Longer, LongerOf
<1>3. s \in Nat /\ l \in Nat /\ s <= MaxBits /\ l <= MaxBits /\ s <= m /\ s <= n /\ m <= l /\ n <= l
  BY <1>1 DEF LongerOf
<1>4. P \cap Q \in SUBSET (0 .. s - 1) BY <1>1
<1> HIDE DEF s, l
<1>5. P \cup Q \in SUBSET (0 .. l - 1) BY <1>1, <1>3
<1>6. ASSUME NEW k \in Nat, k <= MaxBits
      PROVE  /\ Common(a, b)[k] \in SUBSET BitsOfByte
             /\ \A j \in BitsOfByte : j \in Common(a, b)[k] <=> At(k, j) \in P \cap Q
             /\ Either(a, b)[k] \in SUBSET BitsOfByte
             /\ \A j \in BitsOfByte : j \in Either(a, b)[k] <=> At(k, j) \in P \cup Q
  <2>1. k \in 0 .. MaxBits BY <1>1, <1>6
  <2>2. Common(a, b)[k] = ByteOf(a, k) \cap ByteOf(b, k) BY <2>1 DEF Common
  <2>3. Either(a, b)[k] = ByteOf(a, k) \cup ByteOf(b, k) BY <2>1 DEF Either
  <2>4. /\ ByteOf(a, k) \in SUBSET BitsOfByte
        /\ \A j \in BitsOfByte : j \in ByteOf(a, k) <=> At(k, j) \in P
    BY ByteOfIs
  <2>5. /\ ByteOf(b, k) \in SUBSET BitsOfByte
        /\ \A j \in BitsOfByte : j \in ByteOf(b, k) <=> At(k, j) \in Q
    BY ByteOfIs
  <2>6. QED BY <2>2, <2>3, <2>4, <2>5
<1>7. \A r \in {s, l} : \A k \in 0 .. BytesFor(r) - 1 : k \in Nat /\ k <= MaxBits
  <2>1. /\ BytesFor(s) \in Nat /\ BytesFor(s) <= s /\ BytesFor(l) \in Nat /\ BytesFor(l) <= l
    BY <1>3, BytesForIs
  <2>2. QED BY <1>1, <1>3, <2>1
<1>8. Represents(bitmap_bitand(a, b), s, P \cap Q)
  <2> DEFINE bytes == Common(a, b)
             R == P \cap Q
  <2>1. \A k \in 0 .. BytesFor(s) - 1 :
          /\ bytes[k] \in SUBSET BitsOfByte
          /\ \A j \in BitsOfByte : j \in bytes[k] <=> At(k, j) \in R
    BY <1>6, <1>7
  <2>2. bitmap_bitand(a, b) = Bytewise(s, bytes) BY <1>2 DEF bitmap_bitand
  <2> HIDE DEF bytes, R
  <2>3. Represents(Bytewise(s, bytes), s, R) BY <1>3, <1>4, <2>1, BytewiseIs DEF R
  <2>4. QED BY <2>2, <2>3 DEF R
<1>9. Represents(bitmap_bitor(a, b), l, P \cup Q)
  <2> DEFINE bytes == Either(a, b)
             R == P \cup Q
  <2>1. \A k \in 0 .. BytesFor(l) - 1 :
          /\ bytes[k] \in SUBSET BitsOfByte
          /\ \A j \in BitsOfByte : j \in bytes[k] <=> At(k, j) \in R
    BY <1>6, <1>7
  <2>2. bitmap_bitor(a, b) = Bytewise(l, bytes) BY <1>2 DEF bitmap_bitor
  <2> HIDE DEF bytes, R
  <2>3. Represents(Bytewise(l, bytes), l, R) BY <1>3, <1>5, <2>1, BytewiseIs DEF R
  <2>4. QED BY <2>2, <2>3 DEF R
<1>10. Represents(bitmap_bitxor(a, b), l, (P \cup Q) \ (P \cap Q))
  <2> DEFINE bytes == [k \in 0 .. MaxBits |-> Either(a, b)[k] \ Common(a, b)[k]]
             R == (P \cup Q) \ (P \cap Q)
  <2>1. \A k \in 0 .. BytesFor(l) - 1 :
          /\ bytes[k] \in SUBSET BitsOfByte
          /\ \A j \in BitsOfByte : j \in bytes[k] <=> At(k, j) \in R
    <3>1. ASSUME NEW k \in 0 .. BytesFor(l) - 1
          PROVE  /\ bytes[k] \in SUBSET BitsOfByte
                 /\ \A j \in BitsOfByte : j \in bytes[k] <=> At(k, j) \in R
      <4>1. k \in Nat /\ k <= MaxBits /\ k \in 0 .. MaxBits BY <1>1, <1>7
      <4>2. bytes[k] = Either(a, b)[k] \ Common(a, b)[k] BY <4>1
      <4>3. QED BY <1>6, <4>1, <4>2
    <3>2. QED BY <3>1
  <2>2. bitmap_bitxor(a, b) = Bytewise(l, bytes) BY <1>2 DEF bitmap_bitxor
  <2>3. R \in SUBSET (0 .. l - 1) BY <1>5
  <2> HIDE DEF bytes, R
  <2>4. Represents(Bytewise(l, bytes), l, R) BY <1>3, <2>1, <2>3, BytewiseIs
  <2>5. QED BY <2>2, <2>4 DEF R
<1>11. QED BY <1>8, <1>9, <1>10 DEF s, l

(* The negation clears the bits behind the last one again.                 *)
LEMMA NotIs ==
  ASSUME NEW a, NEW n, NEW P, Represents(a, n, P)
  PROVE  Represents(bitmap_bitnot(a), n, (0 .. n - 1) \ P)
<1> DEFINE c == bitmap_bitnot(a)
           old == a.data
           new == [k \in DOMAIN old |-> IF k >= BytesFor(n) THEN old[k]
                     ELSE {j \in BitsOfByte \ old[k] : k * BYTE + j < n}]
<1>1. /\ n \in Nat /\ a.length = n /\ P \in SUBSET (0 .. n - 1)
      /\ a = [length |-> n, is_large |-> a.is_large, data |-> old]
      /\ old \in [0 .. AllocatedBytes(n) - 1 -> SUBSET BitsOfByte]
  BY DEF Represents
<1>2. BytesFor(n) \in Nat /\ AllocatedBytes(n) \in Nat /\ BytesFor(n) <= AllocatedBytes(n)
  BY <1>1, BytesForIs
<1>3. c = [a EXCEPT !.data = new] BY <1>1 DEF bitmap_bitnot
<1>4. DOMAIN old = 0 .. AllocatedBytes(n) - 1 BY <1>1
<1>5. new \in [0 .. AllocatedBytes(n) - 1 -> SUBSET BitsOfByte] BY <1>1, <1>2, <1>4
<1>6. ASSUME NEW k \in 0 .. BytesFor(n) - 1, NEW j \in BitsOfByte
      PROVE  j \in new[k] <=> At(k, j) \in (0 .. n - 1) \ P
  <2>1. k \in Nat /\ k \in 0 .. AllocatedBytes(n) - 1 /\ ~(k >= BytesFor(n)) BY <1>2
  <2>2. j \in new[k] <=> j \notin old[k] /\ At(k, j) < n BY <1>4, <2>1 DEF At
  <2>3. j \in old[k] <=> At(k, j) \in P BY DEF Represents
  <2>4. At(k, j) \in Nat BY <2>1, Positions
  <2>5. QED BY <1>1, <2>2, <2>3, <2>4
<1> HIDE DEF new, old, c
<1>7. c = [length |-> n, is_large |-> a.is_large, data |-> new] BY <1>1, <1>3
<1>8. c = [length |-> n, is_large |-> c.is_large, data |-> c.data] /\ c.data = new BY <1>7
<1>9. Represents(c, n, (0 .. n - 1) \ P) BY <1>1, <1>5, <1>6, <1>8 DEF Represents
<1>10. QED BY <1>9 DEF c

LEMMA FromStringIs ==
  ASSUME NEW s \in Seq({0, 1})
  PROVE  Represents(bitmap_create_from_string(s), Len(s), {i \in 0 .. Len(s) - 1 : s[i + 1] = 1})
<1>1. Len(s) \in Nat OBVIOUS
<1> DEFINE n == Len(s)
           P == {i \in 0 .. n - 1 : s[i + 1] = 1}
<1>2. P \in SUBSET (0 .. n - 1) OBVIOUS
<1>3. bitmap_create_from_string(s) = FromPositions(n, P) BY DEF bitmap_create_from_string
<1> HIDE DEF n, P
<1>4. n \in Nat BY <1>1 DEF n
<1>5. Represents(FromPositions(n, P), n, P) BY <1>2, <1>4, FromPositionsIs
<1>6. QED BY <1>3, <1>5 DEF n, P

ShiftedDown(P, n, shift) == {i \in 0 .. n - shift - 1 : i + shift \in P}

(* A shift moves each bit, and those that come in are 0.                   *)
LEMMA ShiftedAre ==
  ASSUME NEW a, NEW n, NEW P, Represents(a, n, P), NEW shift \in Nat
  PROVE  /\ Represents(bitmap_bitshl(a, shift), n + shift, {i + shift : i \in P})
         /\ shift >= n => Represents(bitmap_bitshr(a, shift), 1, {})
         /\ ~(shift >= n) => Represents(bitmap_bitshr(a, shift), n - shift, ShiftedDown(P, n, shift))
<1>1. n \in Nat /\ a.length = n /\ P \in SUBSET (0 .. n - 1) BY DEF Represents
<1>2. \A i \in 0 .. n - 1 : bitmap_get(a, i) = 1 <=> i \in P BY GetIs
<1>3. Represents(bitmap_bitshl(a, shift), n + shift, {i + shift : i \in P})
  <2> DEFINE Q == {i + shift : i \in P}
             m == n + shift
  <2>1. CASE shift = 0
    <3>1. bitmap_bitshl(a, shift) = a /\ m = n BY <1>1, <2>1 DEF bitmap_bitshl
    <3>2. Q = P
      <4>1. \A i \in P : i + shift = i BY <1>1, <2>1
      <4>2. QED BY <4>1
    <3> HIDE DEF Q, m
    <3>3. Represents(bitmap_bitshl(a, shift), m, Q) BY <3>1, <3>2
    <3>4. QED BY <3>3 DEF Q, m
  <2>2. CASE shift # 0
    <3> DEFINE ones == {i \in 0 .. n - 1 : bitmap_get(a, i) = 1}
    <3>1. bitmap_bitshl(a, shift) = FromPositions(m, {i + shift : i \in ones})
      BY <1>1, <2>2 DEF bitmap_bitshl
    <3>2. ones = P BY <1>1, <1>2
    <3>3. m \in Nat /\ Q \in SUBSET (0 .. m - 1) BY <1>1
    <3> HIDE DEF ones
    <3>4. bitmap_bitshl(a, shift) = FromPositions(m, Q) BY <3>1, <3>2
    <3> HIDE DEF Q, m
    <3>5. Represents(FromPositions(m, Q), m, Q) BY <3>3, FromPositionsIs
    <3>6. Represents(bitmap_bitshl(a, shift), m, Q) BY <3>4, <3>5
    <3>7. QED BY <3>6 DEF Q, m
  <2>3. QED BY <2>1, <2>2
<1>4. ASSUME shift >= n PROVE Represents(bitmap_bitshr(a, shift), 1, {})
  <2> DEFINE zero == <<0>>
             Q == {i \in 0 .. Len(zero) - 1 : zero[i + 1] = 1}
  <2>1. bitmap_bitshr(a, shift) = bitmap_create_from_string(zero) BY <1>1, <1>4 DEF bitmap_bitshr
  <2>2. zero \in Seq({0, 1}) /\ Len(zero) = 1 /\ zero[1] = 0 OBVIOUS
  <2> HIDE DEF zero
  <2>3. Q = {}
    <3>1. \A i \in 0 .. Len(zero) - 1 : i = 0 BY <2>2
    <3>2. \A i \in 0 .. Len(zero) - 1 : zero[i + 1] # 1 BY <2>2, <3>1
    <3>3. QED BY <3>2
  <2>4. Represents(bitmap_create_from_string(zero), Len(zero), Q) BY <2>2, FromStringIs
  <2> HIDE DEF Q
  <2>5. QED BY <2>1, <2>2, <2>3, <2>4
<1>5. ASSUME ~(shift >= n)
      PROVE  Represents(bitmap_bitshr(a, shift), n - shift, ShiftedDown(P, n, shift))
  <2> DEFINE m == n - shift
             Q == {i \in 0 .. m - 1 : i + shift \in P}
  <2>1. CASE shift = 0
    <3>1. bitmap_bitshr(a, shift) = a /\ m = n BY <1>1, <1>5, <2>1 DEF bitmap_bitshr
    <3>2. Q = P
      <4>1. \A i \in 0 .. n - 1 : i + shift = i BY <1>1, <2>1
      <4>2. Q = {i \in 0 .. n - 1 : i + shift \in P} BY <3>1
      <4>3. QED BY <1>1, <4>1, <4>2
    <3> HIDE DEF Q, m
    <3>3. Represents(bitmap_bitshr(a, shift), m, Q) BY <3>1, <3>2
    <3>4. QED BY <3>3 DEF Q, m, ShiftedDown
  <2>2. CASE shift # 0
    <3> DEFINE ones == {i \in shift .. n - 1 : bitmap_get(a, i) = 1}
               moved == {i - shift : i \in ones}
    <3>1. bitmap_bitshr(a, shift) = FromPositions(m, moved) BY <1>1, <1>5, <2>2 DEF bitmap_bitshr
    <3>2. moved = Q
      <4>1. \A i \in ones : i \in Nat /\ i >= shift /\ i <= n - 1 /\ i \in P BY <1>1, <1>2
      <4>2. ASSUME NEW p \in moved PROVE p \in Q
        <5>1. PICK i \in ones : p = i - shift OBVIOUS
        <5>2. p \in 0 .. m - 1 /\ p + shift = i BY <1>1, <4>1, <5>1
        <5>3. QED BY <4>1, <5>1, <5>2
      <4>3. ASSUME NEW p \in Q PROVE p \in moved
        <5>1. p \in 0 .. m - 1 /\ p + shift \in P OBVIOUS
        <5>2. p + shift \in shift .. n - 1 /\ p + shift \in 0 .. n - 1 /\ p = (p + shift) - shift
          BY <1>1, <1>5, <5>1
        <5>3. p + shift \in ones BY <1>2, <5>1, <5>2
        <5>4. QED BY <5>2, <5>3
      <4> HIDE DEF moved, Q
      <4>4. QED BY <4>2, <4>3
    <3>3. m \in Nat /\ Q \in SUBSET (0 .. m - 1) BY <1>1, <1>5
    <3> HIDE DEF Q, m, moved
    <3>4. Represents(FromPositions(m, Q), m, Q) BY <3>3, FromPositionsIs
    <3>5. Represents(bitmap_bitshr(a, shift), m, Q) BY <3>1, <3>2, <3>4
    <3>6. QED BY <3>5 DEF Q, m, ShiftedDown
  <2>3. QED BY <2>1, <2>2
<1>6. QED BY <1>3, <1>4, <1>5

-----------------------------------------------------------------------------
(* Searching by words *)

LEMMA LowestIs ==
  ASSUME NEW S \in SUBSET Nat, S # {}
  PROVE  Lowest(S) \in S /\ Lowest(S) \in Nat /\ \A i \in S : Lowest(S) <= i
<1>1. \E i \in S : \A j \in S : i <= j BY Arrays!LeastExists
<1>2. Lowest(S) \in S /\ \A i \in S : Lowest(S) <= i BY <1>1, Zenon DEF Lowest
<1>3. QED BY <1>2

LEMMA LowestUnique ==
  ASSUME NEW S \in SUBSET Nat, NEW x \in S, \A i \in S : x <= i
  PROVE  Lowest(S) = x
<1>1. Lowest(S) \in S /\ Lowest(S) \in Nat /\ Lowest(S) <= x BY LowestIs
<1>2. x <= Lowest(S) /\ x \in Nat BY <1>1
<1>3. QED BY <1>1, <1>2

(* Bit j of word w, and the word and the place in it of a position. *)
Spot(w, j) == w * (WORD * BYTE) + j
WordNo(i) == i \div (WORD * BYTE)
Place(i) == i % (WORD * BYTE)

LEMMA Spots ==
  /\ \A i \in Nat : /\ WordNo(i) \in Nat /\ Place(i) \in BitsOfWord
                    /\ Spot(WordNo(i), Place(i)) = i
  /\ \A w \in Nat, j \in BitsOfWord :
       Spot(w, j) \in Nat /\ WordNo(Spot(w, j)) = w /\ Place(Spot(w, j)) = j
<1> DEFINE size == WORD * BYTE
<1>1. size \in Positive /\ size \in Nat BY ByteIs DEF Positive
<1> HIDE DEF size
<1>2. ASSUME NEW i \in Nat
      PROVE  WordNo(i) \in Nat /\ Place(i) \in BitsOfWord /\ Spot(WordNo(i), Place(i)) = i
  <2> DEFINE p == i \div size
             r == i % size
  <2>1. /\ p \in Nat /\ r \in 0 .. size - 1 /\ r \in Nat
        /\ i = size * p + r /\ size * p \in Nat
    BY <1>1, DivMod
  <2> HIDE DEF p, r
  <2>2. p * size = size * p BY <1>1, <2>1
  <2>3. p * size + r = i BY <2>1, <2>2
  <2>4. WordNo(i) = p /\ Place(i) = r BY DEF WordNo, Place, p, r, size
  <2>5. Spot(p, r) = i BY <2>3 DEF Spot, size
  <2>6. r \in BitsOfWord BY <2>1 DEF BitsOfWord, size
  <2>7. QED BY <2>1, <2>4, <2>5, <2>6
<1>3. ASSUME NEW w \in Nat, NEW j \in BitsOfWord
      PROVE  Spot(w, j) \in Nat /\ WordNo(Spot(w, j)) = w /\ Place(Spot(w, j)) = j
  <2>1. j \in 0 .. size - 1 BY DEF BitsOfWord, size
  <2>2. /\ w * size + j \in Nat
        /\ (w * size + j) \div size = w /\ (w * size + j) % size = j
    BY <1>1, <2>1, PositionIs
  <2>3. QED BY <2>2 DEF Spot, WordNo, Place, size
<1>4. QED BY <1>2, <1>3

LEMMA SpotsInOrder ==
  ASSUME NEW a \in Nat, NEW c \in Nat
  PROVE  a <= c <=> \/ WordNo(a) < WordNo(c)
                    \/ WordNo(a) = WordNo(c) /\ Place(a) <= Place(c)
BY ByteIs, Lexicographic DEF WordNo, Place

(* A word holds the bits at its positions, as long as they are in range.   *)
LEMMA WordIs ==
  ASSUME NEW b, NEW n, NEW P, Represents(b, n, P), NEW w \in Nat, NEW j \in BitsOfWord,
         Spot(w, j) < n, NEW junk
  PROVE  j \in WordAt(b, w, junk) <=> Spot(w, j) \in P
<1>1. BYTE \in Nat /\ WORD \in Nat /\ BYTE \in Positive BY ByteIs DEF Positive
<1>2. j \in Nat BY DEF BitsOfWord
<1> DEFINE q == j \div BYTE
           r == j % BYTE
           k == w * WORD + q
           i == Spot(w, j)
<1>3. q \in Nat /\ r \in 0 .. BYTE - 1 /\ r \in Nat /\ j = BYTE * q + r /\ BYTE * q \in Nat
  BY <1>1, <1>2, DivMod
<1> HIDE DEF q, r
<1>4. r \in BitsOfByte BY <1>3 DEF BitsOfByte
<1>5. k \in Nat /\ w * WORD \in Nat BY <1>1, <1>3
<1>6. At(k, r) = i
  <2>1. k * BYTE = (w * WORD) * BYTE + q * BYTE BY <1>1, <1>3
  <2>2. (w * WORD) * BYTE = w * (WORD * BYTE) BY <1>1
  <2>3. q * BYTE = BYTE * q BY <1>1, <1>3
  <2> DEFINE x == w * (WORD * BYTE)
             y == BYTE * q
  <2>4. x \in Nat BY <1>1
  <2>5. k * BYTE = x + y BY <2>1, <2>2, <2>3
  <2>6. j = y + r /\ y \in Nat BY <1>3
  <2>7. i = x + j BY DEF Spot
  <2>8. At(k, r) = k * BYTE + r BY DEF At
  <2> HIDE DEF x, y, k, i
  <2>9. QED BY <1>3, <2>4, <2>5, <2>6, <2>7, <2>8
<1>7. i \in Nat BY Spots
<1>8. n \in Nat /\ BytesFor(n) \in Nat /\ BytesFor(n) <= AllocatedBytes(n) /\ AllocatedBytes(n) \in Nat
  BY BytesForIs DEF Represents
<1> HIDE DEF k, i
<1>9. ByteNo(i) = k BY <1>4, <1>5, <1>6, Positions
<1>10. i < n BY DEF i
<1>11. k \in 0 .. BytesFor(n) - 1
  <2>1. k < BytesFor(n) BY <1>7, <1>8, <1>9, <1>10, BytesForIs
  <2>2. QED BY <1>5, <1>8, <2>1
<1>12. r \in b.data[k] <=> i \in P BY <1>4, <1>6, <1>11 DEF Represents
<1>13. k \in DOMAIN b.data
  <2>1. b.data \in [0 .. AllocatedBytes(n) - 1 -> SUBSET BitsOfByte] BY DEF Represents
  <2>2. k \in 0 .. AllocatedBytes(n) - 1 BY <1>8, <1>11
  <2>3. QED BY <2>1, <2>2
<1>14. j \in WordAt(b, w, junk) <=> IF k \in DOMAIN b.data THEN r \in b.data[k] ELSE j \in junk
  BY DEF WordAt, k, q, r
<1>15. QED BY <1>12, <1>13, <1>14 DEF i

(* bitmap_count counts the bits. *)
LEMMA CountIs ==
  ASSUME NEW b, NEW n, NEW P, Represents(b, n, P), NEW from \in Nat, NEW to \in Nat, to < n
  PROVE  bitmap_count(b, from, to) = Cardinality(P \cap from .. to)
<1>1. n \in Nat BY DEF Represents
<1>2. ASSUME NEW i \in from .. to PROVE bitmap_get(b, i) = 1 <=> i \in P
  <2>1. i \in 0 .. n - 1 BY <1>1
  <2>2. QED BY <2>1, GetIs
<1>3. {i \in from .. to : bitmap_get(b, i) = 1} = P \cap from .. to BY <1>2
<1>4. QED BY <1>3 DEF bitmap_count

(* The bits a search looks for among those of a word.                      *)
SearchedIn(b, value, junk, w) ==
  IF value = 1 THEN WordAt(b, w, junk) ELSE BitsOfWord \ WordAt(b, w, junk)
InFirst(b, value, junk, from, to) ==
  {j \in SearchedIn(b, value, junk, WordNo(from)) : j >= Place(from) /\ Spot(WordNo(from), j) <= to}
InLast(b, value, junk, to) ==
  {j \in SearchedIn(b, value, junk, WordNo(to)) : j <= Place(to)}
Between(b, value, junk, from, to) ==
  {w \in (WordNo(from) + 1) .. (WordNo(to) - 1) : SearchedIn(b, value, junk, w) # {}}

LEMMA FindBy ==
  ASSUME NEW b, NEW value, NEW from, NEW to, NEW junk
  PROVE  LET searched(w) == SearchedIn(b, value, junk, w)
             inFirst == InFirst(b, value, junk, from, to)
             inLast == InLast(b, value, junk, to)
             between == Between(b, value, junk, from, to)
         IN bitmap_find(b, value, from, to, junk) =
              IF inFirst # {} THEN Spot(WordNo(from), Lowest(inFirst))
              ELSE IF WordNo(from) = WordNo(to) THEN NotFound
              ELSE IF between # {} THEN Spot(Lowest(between), Lowest(searched(Lowest(between))))
              ELSE IF inLast # {} THEN Spot(WordNo(to), Lowest(inLast)) ELSE NotFound
BY DEF bitmap_find, SearchedIn, InFirst, InLast, Between, Spot, WordNo, Place

LEMMA SearchedIs ==
  ASSUME NEW b, NEW n, NEW P, Represents(b, n, P), NEW w \in Nat, NEW j \in BitsOfWord,
         Spot(w, j) < n, NEW junk, NEW value
  PROVE  j \in SearchedIn(b, value, junk, w) <=> (Spot(w, j) \in P <=> value = 1)
BY WordIs DEF SearchedIn

LEMMA SearchedInWord ==
  ASSUME NEW b, NEW value, NEW junk, NEW w
  PROVE  SearchedIn(b, value, junk, w) \subseteq BitsOfWord /\ BitsOfWord \subseteq Nat
BY DEF SearchedIn, WordAt, BitsOfWord

(* bitmap_find finds the first bit, whatever lies behind the bitmap.       *)
LEMMA FindIs ==
  ASSUME NEW b, NEW n, NEW P, Represents(b, n, P), NEW from \in Nat, NEW to \in Nat,
         from <= to, to < n, NEW value, NEW junk
  PROVE  LET hits == {i \in from .. to : (i \in P) <=> (value = 1)}
         IN bitmap_find(b, value, from, to, junk) = IF hits = {} THEN NotFound ELSE Lowest(hits)
<1> DEFINE searched(w) == SearchedIn(b, value, junk, w)
           inFirst == InFirst(b, value, junk, from, to)
           inLast == InLast(b, value, junk, to)
           between == Between(b, value, junk, from, to)
           first == WordNo(from)
           last == WordNo(to)
           hits == {i \in from .. to : (i \in P) <=> (value = 1)}
           found == bitmap_find(b, value, from, to, junk)
<1>1. found = IF inFirst # {} THEN Spot(first, Lowest(inFirst))
              ELSE IF first = last THEN NotFound
              ELSE IF between # {} THEN Spot(Lowest(between), Lowest(searched(Lowest(between))))
              ELSE IF inLast # {} THEN Spot(last, Lowest(inLast)) ELSE NotFound
  BY FindBy
<1>2. /\ first \in Nat /\ last \in Nat /\ first <= last
      /\ Place(from) \in Nat /\ Place(to) \in Nat /\ n \in Nat
  <2>1. /\ first \in Nat /\ last \in Nat /\ Place(from) \in Nat /\ Place(to) \in Nat
    <3>1. BitsOfWord \subseteq Nat BY DEF BitsOfWord
    <3>2. QED BY <3>1, Spots
  <2>2. first <= last BY <2>1, SpotsInOrder
  <2>3. QED BY <2>1, <2>2 DEF Represents
<1>3. hits \in SUBSET Nat OBVIOUS
<1>4. \A w \in Nat : searched(w) \in SUBSET BitsOfWord BY SearchedInWord
<1>5. BitsOfWord \subseteq Nat BY DEF BitsOfWord
<1> DEFINE InRange(w, j) == from <= Spot(w, j) /\ Spot(w, j) <= to
<1>6. \A w \in Nat, j \in BitsOfWord :
        InRange(w, j) <=> /\ first < w \/ (first = w /\ Place(from) <= j)
                          /\ w < last \/ (w = last /\ j <= Place(to))
  <2> SUFFICES ASSUME NEW w \in Nat, NEW j \in BitsOfWord
               PROVE  InRange(w, j) <=> /\ first < w \/ (first = w /\ Place(from) <= j)
                                        /\ w < last \/ (w = last /\ j <= Place(to))
    OBVIOUS
  <2> DEFINE i == Spot(w, j)
  <2>1. i \in Nat /\ WordNo(i) = w /\ Place(i) = j BY Spots
  <2> HIDE DEF i
  <2>2. from <= i <=> first < w \/ (first = w /\ Place(from) <= j) BY <2>1, SpotsInOrder
  <2>3. i <= to <=> w < last \/ (w = last /\ j <= Place(to)) BY <2>1, SpotsInOrder
  <2>4. QED BY <2>2, <2>3 DEF i
<1>7. ASSUME NEW w \in Nat, NEW j \in BitsOfWord, Spot(w, j) <= to
      PROVE  j \in searched(w) <=> (Spot(w, j) \in P <=> value = 1)
  <2>1. Spot(w, j) < n
    <3>1. Spot(w, j) \in Nat BY Spots
    <3>2. QED BY <1>2, <1>7, <3>1
  <2>2. QED BY <2>1, SearchedIs
<1>8. ASSUME NEW w \in Nat, NEW j \in searched(w), InRange(w, j) PROVE Spot(w, j) \in hits
  <2>1. j \in BitsOfWord BY <1>4
  <2>2. Spot(w, j) \in Nat BY <2>1, Spots
  <2>3. QED BY <1>7, <1>8, <2>1, <2>2
(* A hit is in a word from first to last, among the bits searched for.     *)
<1>9. ASSUME NEW i \in hits
      PROVE  /\ i \in Nat /\ WordNo(i) \in Nat /\ Place(i) \in searched(WordNo(i))
             /\ Place(i) \in Nat
             /\ i = Spot(WordNo(i), Place(i)) /\ InRange(WordNo(i), Place(i))
             /\ first < WordNo(i) \/ (first = WordNo(i) /\ Place(from) <= Place(i))
             /\ WordNo(i) < last \/ (WordNo(i) = last /\ Place(i) <= Place(to))
  <2>1. i \in Nat /\ from <= i /\ i <= to /\ (i \in P <=> value = 1) OBVIOUS
  <2> DEFINE w == WordNo(i)
             j == Place(i)
  <2>2. w \in Nat /\ j \in BitsOfWord /\ Spot(w, j) = i BY <2>1, Spots
  <2> HIDE DEF w, j
  <2>3. j \in searched(w) BY <1>7, <2>1, <2>2
  <2>4. InRange(w, j) BY <2>1, <2>2
  <2>5. /\ first < w \/ (first = w /\ Place(from) <= j)
        /\ w < last \/ (w = last /\ j <= Place(to))
    BY <1>6, <2>2, <2>4
  <2>6. QED BY <1>5, <2>1, <2>2, <2>3, <2>4, <2>5 DEF w, j
(* A hit in word w that no other precedes in it nor in a word before it.   *)
<1>10. ASSUME NEW w \in Nat, NEW j \in searched(w), InRange(w, j),
              \A i \in hits : WordNo(i) >= w /\ (WordNo(i) = w => j <= Place(i))
       PROVE  hits # {} /\ Lowest(hits) = Spot(w, j)
  <2> DEFINE x == Spot(w, j)
  <2>1. j \in BitsOfWord BY <1>4
  <2>2. x \in hits BY <1>8, <1>10
  <2>3. x \in Nat /\ WordNo(x) = w /\ Place(x) = j BY <2>1, Spots
  <2> HIDE DEF x
  <2>4. ASSUME NEW i \in hits PROVE x <= i
    <3>1. i \in Nat /\ WordNo(i) \in Nat BY <1>9
    <3>2. WordNo(i) >= w /\ (WordNo(i) = w => j <= Place(i)) BY <1>10
    <3>3. w < WordNo(i) \/ (w = WordNo(i) /\ j <= Place(i)) BY <3>1, <3>2
    <3>4. QED BY <2>3, <3>1, <3>3, SpotsInOrder
  <2> HIDE DEF hits
  <2>5. Lowest(hits) = x BY <1>3, <2>2, <2>4, LowestUnique
  <2>6. QED BY <2>2, <2>5 DEF x
<1>11. inFirst = {j \in searched(first) : Place(from) <= j /\ Spot(first, j) <= to}
  <2>1. \A j \in searched(first) : j >= Place(from) <=> Place(from) <= j BY <1>2, <1>4, <1>5
  <2>2. QED BY <2>1 DEF InFirst
<1>12. inLast = {j \in searched(last) : j <= Place(to)} BY DEF InLast
<1>13. between = {w \in (first + 1) .. (last - 1) : searched(w) # {}} BY DEF Between
<1>14. inFirst = {} => \A i \in hits : WordNo(i) > first
  <2> SUFFICES ASSUME inFirst = {}, NEW i \in hits PROVE WordNo(i) > first OBVIOUS
  <2>1. CASE first = WordNo(i)
    <3>1. Place(from) <= Place(i) /\ Place(i) \in searched(first) /\ Spot(first, Place(i)) <= to
      BY <1>2, <1>9, <2>1
    <3>2. Place(i) \in inFirst BY <1>11, <3>1
    <3>3. QED BY <3>2
  <2>2. CASE first < WordNo(i) BY <1>2, <1>9, <2>2
  <2>3. QED BY <1>9, <2>1, <2>2
<1>15. CASE inFirst # {}
  <2> DEFINE j == Lowest(inFirst)
  <2>1. inFirst \in SUBSET Nat BY <1>2, <1>4, <1>5, <1>11
  <2> HIDE DEF inFirst
  <2>2. j \in inFirst /\ j \in Nat /\ \A k \in inFirst : j <= k BY <1>15, <2>1, LowestIs
  <2> HIDE DEF j
  <2>3. j \in searched(first) /\ Place(from) <= j /\ Spot(first, j) <= to BY <1>11, <2>2
  <2>4. j \in BitsOfWord BY <1>2, <1>4, <2>3
  <2>5. Spot(first, j) \in Nat BY <1>2, <2>4, Spots
  <2>6. from <= Spot(first, j)
    <3>1. WordNo(Spot(first, j)) = first /\ Place(Spot(first, j)) = j BY <1>2, <2>4, Spots
    <3>2. QED BY <2>3, <2>5, <3>1, SpotsInOrder
  <2>7. InRange(first, j) BY <2>3, <2>6
  <2>8. \A i \in hits : WordNo(i) >= first /\ (WordNo(i) = first => j <= Place(i))
    <3> SUFFICES ASSUME NEW i \in hits
                 PROVE  WordNo(i) >= first /\ (WordNo(i) = first => j <= Place(i))
      OBVIOUS
    <3>1. WordNo(i) >= first BY <1>2, <1>9
    <3>2. ASSUME WordNo(i) = first PROVE j <= Place(i)
      <4>1. Place(i) \in searched(first) /\ Place(from) <= Place(i) /\ Spot(first, Place(i)) <= to
        BY <1>2, <1>9, <3>2
      <4>2. Place(i) \in inFirst BY <1>11, <4>1
      <4>3. QED BY <2>2, <4>2
    <3>3. QED BY <3>1, <3>2
  <2>9. hits # {} /\ Lowest(hits) = Spot(first, j) BY <1>2, <1>10, <2>3, <2>7, <2>8
  <2>10. found = Spot(first, j) BY <1>1, <1>15 DEF j
  <2>11. QED BY <2>9, <2>10
<1>16. CASE inFirst = {} /\ first = last
  <2>1. ASSUME NEW i \in hits PROVE FALSE
    <3>1. WordNo(i) > first BY <1>14, <1>16
    <3>2. WordNo(i) < last \/ WordNo(i) = last BY <1>9
    <3>3. WordNo(i) \in Nat BY <1>9
    <3>4. QED BY <1>2, <1>16, <3>1, <3>2, <3>3
  <2>2. hits = {} BY <2>1
  <2>3. found = NotFound BY <1>1, <1>16
  <2>4. QED BY <2>2, <2>3
<1>17. CASE inFirst = {} /\ first # last /\ between # {}
  <2> DEFINE w == Lowest(between)
             j == Lowest(searched(w))
  <2>1. between \in SUBSET Nat BY <1>2, <1>13
  <2> HIDE DEF between, inFirst
  <2>2. w \in between /\ w \in Nat /\ \A v \in between : w <= v BY <1>17, <2>1, LowestIs
  <2> HIDE DEF w
  <2>3. searched(w) # {} /\ first < w /\ w < last BY <1>2, <1>13, <2>2
  <2> DEFINE bits == searched(w)
  <2>4. bits \in SUBSET Nat /\ bits # {} BY <1>4, <1>5, <2>2, <2>3
  <2> HIDE DEF bits
  <2>5. Lowest(bits) \in bits /\ \A k \in bits : Lowest(bits) <= k BY <2>4, LowestIs
  <2>6. j \in searched(w) /\ \A k \in searched(w) : j <= k BY <2>5 DEF bits
  <2> HIDE DEF j
  <2>7. InRange(w, j) BY <1>4, <1>6, <2>2, <2>3, <2>6
  <2>8. \A i \in hits : WordNo(i) >= w /\ (WordNo(i) = w => j <= Place(i))
    <3> SUFFICES ASSUME NEW i \in hits
                 PROVE  WordNo(i) >= w /\ (WordNo(i) = w => j <= Place(i))
      OBVIOUS
    <3>1. WordNo(i) \in Nat /\ Place(i) \in searched(WordNo(i)) /\ WordNo(i) > first
      BY <1>9, <1>14, <1>17
    <3>2. WordNo(i) < last \/ WordNo(i) = last BY <1>9
    <3>3. WordNo(i) >= w
      <4>1. CASE WordNo(i) < last
        <5>1. WordNo(i) \in (first + 1) .. (last - 1) BY <1>2, <3>1, <4>1
        <5>2. WordNo(i) \in between BY <1>13, <3>1, <5>1
        <5>3. QED BY <2>2, <3>1, <5>2
      <4>2. CASE WordNo(i) = last BY <1>2, <2>2, <2>3, <4>2
      <4>3. QED BY <3>2, <4>1, <4>2
    <3>4. WordNo(i) = w => j <= Place(i) BY <2>6, <3>1
    <3>5. QED BY <3>3, <3>4
  <2>9. hits # {} /\ Lowest(hits) = Spot(w, j) BY <1>10, <2>2, <2>6, <2>7, <2>8
  <2>10. found = Spot(w, j) BY <1>1, <1>17 DEF j, w
  <2>11. QED BY <2>9, <2>10
<1>18. CASE inFirst = {} /\ first # last /\ between = {}
  <2>1. ASSUME NEW i \in hits PROVE WordNo(i) = last /\ Place(i) \in inLast
    <3>1. WordNo(i) \in Nat /\ Place(i) \in searched(WordNo(i)) /\ WordNo(i) > first
      BY <1>9, <1>14, <1>18
    <3>2. WordNo(i) < last \/ (WordNo(i) = last /\ Place(i) <= Place(to)) BY <1>9
    <3>3. ~(WordNo(i) < last)
      <4>1. SUFFICES ASSUME WordNo(i) < last PROVE FALSE OBVIOUS
      <4>2. WordNo(i) \in (first + 1) .. (last - 1) BY <1>2, <3>1, <4>1
      <4>3. WordNo(i) \in between BY <1>13, <3>1, <4>2
      <4>4. QED BY <1>18, <4>3
    <3>4. QED BY <1>12, <3>1, <3>2, <3>3
  <2>2. CASE inLast # {}
    <3> DEFINE j == Lowest(inLast)
    <3>1. inLast \in SUBSET Nat BY <1>2, <1>4, <1>5, <1>12
    <3> HIDE DEF inLast
    <3>2. j \in inLast /\ j \in Nat /\ \A k \in inLast : j <= k BY <2>2, <3>1, LowestIs
    <3>3. found = Spot(last, j) BY <1>1, <1>18, <2>2
    <3> HIDE DEF j
    <3>4. j \in searched(last) /\ j <= Place(to) BY <1>12, <3>2
    <3>5. InRange(last, j)
      <4>1. j \in BitsOfWord /\ first < last BY <1>2, <1>4, <1>18, <3>4
      <4>2. QED BY <1>2, <1>6, <3>4, <4>1
    <3>6. \A i \in hits : WordNo(i) >= last /\ (WordNo(i) = last => j <= Place(i))
      <4> SUFFICES ASSUME NEW i \in hits
                   PROVE  WordNo(i) >= last /\ (WordNo(i) = last => j <= Place(i))
        OBVIOUS
      <4>1. WordNo(i) = last /\ Place(i) \in inLast BY <2>1
      <4>2. j <= Place(i) BY <3>2, <4>1
      <4>3. last >= last BY <1>2
      <4>4. QED BY <4>1, <4>2, <4>3
    <3>7. hits # {} /\ Lowest(hits) = Spot(last, j) BY <1>2, <1>10, <3>4, <3>5, <3>6
    <3>8. QED BY <3>3, <3>7
  <2>3. CASE inLast = {}
    <3>1. hits = {} BY <2>1, <2>3
    <3>2. found = NotFound BY <1>1, <1>18, <2>3
    <3>3. QED BY <3>1, <3>2
  <2>4. QED BY <2>2, <2>3
<1>19. QED BY <1>15, <1>16, <1>17, <1>18

-----------------------------------------------------------------------------
(* The bitmap of the specification *)

BitmapSpec == bm = bitmap_create /\ [][BitmapNext]_bm

(* The bytes say which bits are 1, and nothing more; or there are none.    *)
IsBitmap(b) == \E n \in 0 .. MaxBits, P \in SUBSET (0 .. MaxBits) : Represents(b, n, P)
BitmapInv == IsLost \/ IsBitmap(bm)

LEMMA IsBitmapBy ==
  ASSUME NEW b, NEW n, NEW P, Represents(b, n, P), n <= MaxBits
  PROVE  IsBitmap(b)
<1>1. n \in Nat /\ P \in SUBSET (0 .. n - 1) /\ MaxBits \in Nat BY ByteIs DEF Represents, Positive
<1>2. n \in 0 .. MaxBits /\ P \in SUBSET (0 .. MaxBits) BY <1>1
<1>3. QED BY <1>2 DEF IsBitmap

LEMMA CreatedIsBitmap == bm = bitmap_create => BitmapInv
<1> DEFINE b == bitmap_create
           data == [k \in 0 .. BIGNUM_SMALL_SIZE - 1 |-> {}]
<1>1. b = [length |-> 0, is_large |-> b.is_large, data |-> b.data] /\ b.data = data
  BY DEF bitmap_create, Bitmap
<1>2. BytesFor(0) = 0 BY BytesForIs
<1>3. AllocatedBytes(0) = BIGNUM_SMALL_SIZE BY <1>2, ByteIs DEF AllocatedBytes
<1>4. data \in [0 .. AllocatedBytes(0) - 1 -> SUBSET BitsOfByte] BY <1>3
<1>5. \A k \in 0 .. BytesFor(0) - 1, j \in BitsOfByte : j \in data[k] <=> At(k, j) \in {} BY <1>2
<1> HIDE DEF b, data
<1>6. Represents(b, 0, {}) BY <1>1, <1>4, <1>5 DEF Represents
<1>7. 0 <= MaxBits BY ByteIs DEF Positive
<1>8. IsBitmap(b) BY <1>6, <1>7, IsBitmapBy
<1>9. QED BY <1>8 DEF BitmapInv, b

LEMMA LiteralsAre ==
  ASSUME NEW s \in BitLiterals
  PROVE  /\ s \in Seq({0, 1}) /\ Len(s) \in Nat /\ Len(s) <= MaxBits
         /\ Represents(bitmap_create_from_string(s), Len(s), {i \in 0 .. Len(s) - 1 : s[i + 1] = 1})
<1>1. s \in Seq({0, 1}) /\ Len(s) <= MaxBits BY BitmapAssumption
<1>2. Len(s) \in Nat BY <1>1
<1>3. QED BY <1>1, <1>2, FromStringIs

LEMMA Longest ==
  ASSUME NEW m \in Nat, NEW n \in Nat, m <= MaxBits, n <= MaxBits
  PROVE  LongerOf(m, n) <= MaxBits
BY DEF LongerOf

LEMMA ModifiedIsBitmap ==
  ASSUME IsBitmap(bm), Modifies
  PROVE  IsBitmap(bm')
<1>1. PICK n \in 0 .. MaxBits, P \in SUBSET (0 .. MaxBits) : Represents(bm, n, P) BY DEF IsBitmap
<1>2. MaxBits \in Nat /\ n \in Nat /\ n <= MaxBits BY ByteIs DEF Positive
<1>3. ASSUME NEW i \in Offsets, NEW value \in {0, 1}, bm' = bitmap_set(bm, i, value)
      PROVE  IsBitmap(bm')
  <2>1. i \in Nat /\ i + 1 \in Nat /\ i + 1 <= MaxBits BY <1>2 DEF Offsets
  <2>2. Represents(bm', LongerOf(n, i + 1), PutBits(P, {i}, value)) BY <1>1, <1>3, <2>1, SetIs
  <2>3. LongerOf(n, i + 1) <= MaxBits BY <1>2, <2>1, Longest
  <2>4. QED BY <2>2, <2>3, IsBitmapBy
<1>4. ASSUME NEW from \in Offsets, NEW length \in 1 .. MaxBits, NEW value \in {0, 1},
             from + length <= MaxBits, bm' = bitmap_set_range(bm, from, length, value)
      PROVE  IsBitmap(bm')
  <2>1. from \in Nat /\ length \in Nat \ {0} /\ from + length \in Nat BY <1>2 DEF Offsets
  <2>2. Represents(bm', LongerOf(n, from + length), PutBits(P, from .. from + length - 1, value))
    BY <1>1, <1>4, <2>1, RangeIs
  <2>3. LongerOf(n, from + length) <= MaxBits BY <1>2, <1>4, <2>1, Longest
  <2>4. QED BY <2>2, <2>3, IsBitmapBy
<1>5. ASSUME NEW from \in Offsets, NEW s \in BitLiterals, from + Len(s) <= MaxBits,
             bm' = bitmap_set_from_stream(bm, from, s)
      PROVE  IsBitmap(bm')
  <2>1. from \in Nat /\ s \in Seq({0, 1}) /\ Len(s) \in Nat
    <3>1. from \in Nat BY <1>2 DEF Offsets
    <3>2. s \in Seq({0, 1}) /\ Len(s) \in Nat BY LiteralsAre
    <3>3. QED BY <3>1, <3>2
  <2>2. \E Q : Represents(bm', LongerOf(n, from + Len(s)), Q) BY <1>1, <1>5, <2>1, StreamIs
  <2>3. from + Len(s) \in Nat BY <2>1
  <2>4. LongerOf(n, from + Len(s)) <= MaxBits BY <1>2, <1>5, <2>3, Longest
  <2>5. QED BY <2>2, <2>4, IsBitmapBy
<1>6. QED BY <1>3, <1>4, <1>5 DEF Modifies

LEMMA CombinedIsBitmap ==
  ASSUME IsBitmap(bm), Combines
  PROVE  IsBitmap(bm')
<1>1. PICK n \in 0 .. MaxBits, P \in SUBSET (0 .. MaxBits) : Represents(bm, n, P) BY DEF IsBitmap
<1>2. MaxBits \in Nat /\ MaxBits >= 1 /\ n \in Nat /\ n <= MaxBits /\ bm.length = n
  BY <1>1, ByteIs DEF Positive, Represents
<1>3. ASSUME NEW s \in BitLiterals,
             LET b == bitmap_create_from_string(s)
             IN bm' \in {bitmap_bitand(bm, b), bitmap_bitor(bm, b), bitmap_bitxor(bm, b)}
      PROVE  IsBitmap(bm')
  <2> DEFINE b == bitmap_create_from_string(s)
             len == Len(s)
             Q == {i \in 0 .. len - 1 : s[i + 1] = 1}
             short == IF n < len THEN n ELSE len
  <2>1. len \in Nat /\ len <= MaxBits /\ Represents(b, len, Q) BY LiteralsAre
  <2>2. bm' \in {bitmap_bitand(bm, b), bitmap_bitor(bm, b), bitmap_bitxor(bm, b)} BY <1>3
  <2> HIDE DEF b, len, Q
  <2>3. /\ Represents(bitmap_bitand(bm, b), short, P \cap Q)
        /\ Represents(bitmap_bitor(bm, b), LongerOf(n, len), P \cup Q)
        /\ Represents(bitmap_bitxor(bm, b), LongerOf(n, len), (P \cup Q) \ (P \cap Q))
    BY <1>1, <1>2, <2>1, CombinedAre
  <2>4. LongerOf(n, len) <= MaxBits /\ short <= MaxBits BY <1>2, <2>1, Longest
  <2> HIDE DEF short
  <2>5. IsBitmap(bitmap_bitand(bm, b)) BY <2>3, <2>4, IsBitmapBy
  <2>6. IsBitmap(bitmap_bitor(bm, b)) BY <2>3, <2>4, IsBitmapBy
  <2>7. IsBitmap(bitmap_bitxor(bm, b)) BY <2>3, <2>4, IsBitmapBy
  <2>8. QED BY <2>2, <2>5, <2>6, <2>7
<1>4. ASSUME bm' = bitmap_bitnot(bm) PROVE IsBitmap(bm')
  <2>1. Represents(bm', n, (0 .. n - 1) \ P) BY <1>1, <1>4, NotIs
  <2>2. QED BY <1>2, <2>1, IsBitmapBy
<1>5. ASSUME NEW shift \in 0 .. MaxBits,
             \/ bm.length + shift <= MaxBits /\ bm' = bitmap_bitshl(bm, shift)
             \/ bm' = bitmap_bitshr(bm, shift)
      PROVE  IsBitmap(bm')
  <2>1. shift \in Nat OBVIOUS
  <2>2. CASE bm.length + shift <= MaxBits /\ bm' = bitmap_bitshl(bm, shift)
    <3>1. \E Q : Represents(bm', n + shift, Q) BY <1>1, <2>1, <2>2, ShiftedAre
    <3>2. n + shift <= MaxBits BY <1>2, <2>2
    <3>3. QED BY <3>1, <3>2, IsBitmapBy
  <2>3. CASE bm' = bitmap_bitshr(bm, shift)
    <3>1. CASE shift >= n
      <4>1. Represents(bm', 1, {}) BY <1>1, <2>1, <2>3, <3>1, ShiftedAre
      <4>2. QED BY <1>2, <4>1, IsBitmapBy
    <3>2. CASE ~(shift >= n)
      <4>1. \E Q : Represents(bm', n - shift, Q) BY <1>1, <2>1, <2>3, <3>2, ShiftedAre
      <4>2. n - shift <= MaxBits BY <1>2, <2>1
      <4>3. QED BY <4>1, <4>2, IsBitmapBy
    <3>3. QED BY <3>1, <3>2
  <2>4. QED BY <1>5, <2>2, <2>3
<1>6. QED BY <1>3, <1>4, <1>5 DEF Combines

LEMMA BitmapNextInv == BitmapInv /\ [BitmapNext]_bm => BitmapInv'
<1> SUFFICES ASSUME BitmapInv, [BitmapNext]_bm PROVE BitmapInv' OBVIOUS
<1>1. ASSUME NEW s \in BitLiterals, bitmap_assign(s) PROVE BitmapInv'
  <2>1. CASE bm' = bitmap_create_from_string(s)
    <3>1. IsBitmap(bm') BY <2>1, LiteralsAre, IsBitmapBy
    <3>2. QED BY <3>1 DEF BitmapInv
  <2>2. CASE bm' = Lost
    <3>1. bm'.data = <<>> BY <2>2 DEF Lost
    <3>2. DOMAIN bm'.data = {} BY <3>1
    <3>3. QED BY <3>2 DEF BitmapInv, IsLost
  <2>3. QED BY <1>1, <2>1, <2>2 DEF bitmap_assign
<1>2. ASSUME ~IsLost, Modifies PROVE BitmapInv'
  <2>1. IsBitmap(bm) BY <1>2 DEF BitmapInv
  <2>2. IsBitmap(bm') BY <1>2, <2>1, ModifiedIsBitmap
  <2>3. QED BY <2>2 DEF BitmapInv
<1>3. ASSUME ~IsLost, Combines PROVE BitmapInv'
  <2>1. IsBitmap(bm) BY <1>3 DEF BitmapInv
  <2>2. IsBitmap(bm') BY <1>3, <2>1, CombinedIsBitmap
  <2>3. QED BY <2>2 DEF BitmapInv
<1>4. CASE UNCHANGED bm BY <1>4 DEF BitmapInv, IsLost
<1>5. QED BY <1>1, <1>2, <1>3, <1>4 DEF BitmapNext

(* What the bytes of a bitmap say is what is done next to it.              *)
LEMMA BitmapInvExact == BitmapInv => BitmapExact
<1> SUFFICES ASSUME BitmapInv, ~IsLost
             PROVE  LET m == Shown(bm) IN /\ RangesExact(m) /\ StreamsExact(m) /\ ShiftsExact(m)
                                          /\ SearchesExact(m) /\ CombinationsExact(m)
  BY DEF BitmapExact
<1>1. PICK n \in 0 .. MaxBits, P \in SUBSET (0 .. MaxBits) : Represents(bm, n, P)
  BY DEF BitmapInv, IsBitmap
<1>2. MaxBits \in Nat /\ n \in Nat /\ n <= MaxBits /\ P \in SUBSET (0 .. n - 1)
  BY <1>1, ByteIs DEF Positive, Represents
<1> DEFINE m == Shown(bm)
<1>3. m = BitsAre(n, P) BY <1>1, ShownIs
<1>4. m.length = n /\ m.ones = P BY <1>3 DEF BitsAre
<1> HIDE DEF m
<1>5. RangesExact(m)
  <2>1. ASSUME NEW from \in Offsets, NEW last \in from .. MaxBits - 1, NEW value \in {0, 1}
        PROVE  Shown(bitmap_set_range(bm, from, last - from + 1, value))
                 = WrittenTo(m, from .. last, value)
    <3> DEFINE length == last - from + 1
               span == from .. last
               over == {k \in 0 .. MaxBits : \A i \in span : i < k}
    <3>1. /\ from \in Nat /\ last \in Nat /\ from <= last /\ last + 1 <= MaxBits
          /\ length \in Nat \ {0} /\ from + length = last + 1 /\ from + length - 1 = last
      BY <1>2 DEF Offsets
    <3>2. Represents(bitmap_set_range(bm, from, length, value), LongerOf(n, from + length),
                     PutBits(P, from .. from + length - 1, value))
      BY ONLY <1>1, <3>1, RangeIs
    <3> HIDE DEF length
    <3>3. Shown(bitmap_set_range(bm, from, length, value))
            = BitsAre(LongerOf(n, last + 1), PutBits(P, span, value))
      <4>1. Represents(bitmap_set_range(bm, from, length, value), LongerOf(n, last + 1),
                       PutBits(P, span, value))
        BY <3>1, <3>2
      <4>2. QED BY <4>1, ShownIs
    <3>4. Lowest(over) = last + 1
      <4>1. over \in SUBSET Nat OBVIOUS
      <4>2. last + 1 \in over BY <1>2, <3>1
      <4>3. last \in span BY <3>1
      <4>4. \A k \in over : last + 1 <= k BY <3>1, <4>3
      <4> HIDE DEF over
      <4>5. QED BY <4>1, <4>2, <4>4, LowestUnique
    <3>5. WrittenTo(m, span, value) = BitsAre(LongerOf(n, last + 1), PutBits(P, span, value))
      BY <1>4, <3>4 DEF WrittenTo, PutBits
    <3>6. QED BY <3>3, <3>5 DEF length
  <2>2. QED BY <2>1 DEF RangesExact
<1>6. SearchesExact(m)
  <2>1. ASSUME NEW from \in 0 .. m.length - 1, NEW to \in from .. m.length - 1
        PROVE  /\ bitmap_count(bm, from, to) = Cardinality(m.ones \cap from .. to)
               /\ \A value \in {0, 1}, junk \in {{}, BitsOfWord} :
                    LET hits == {i \in from .. to : (i \in m.ones) <=> (value = 1)}
                    IN bitmap_find(bm, value, from, to, junk) = IF hits = {} THEN NotFound ELSE Lowest(hits)
    <3>1. from \in Nat /\ to \in Nat /\ from <= to /\ to < n BY <1>2, <1>4
    <3>2. bitmap_count(bm, from, to) = Cardinality(m.ones \cap from .. to)
      BY <1>1, <1>4, <3>1, CountIs
    <3>3. ASSUME NEW value \in {0, 1}, NEW junk \in {{}, BitsOfWord}
          PROVE  LET hits == {i \in from .. to : (i \in m.ones) <=> (value = 1)}
                 IN bitmap_find(bm, value, from, to, junk) = IF hits = {} THEN NotFound ELSE Lowest(hits)
      <4>1. LET hits == {i \in from .. to : (i \in P) <=> (value = 1)}
            IN bitmap_find(bm, value, from, to, junk) = IF hits = {} THEN NotFound ELSE Lowest(hits)
        BY <1>1, <3>1, FindIs
      <4>2. QED BY <1>4, <4>1
    <3>4. QED BY <3>2, <3>3
  <2>2. QED BY <2>1 DEF SearchesExact
<1>7. CombinationsExact(m)
  <2>1. Shown(bitmap_bitnot(bm)) = BitsAre(n, (0 .. n - 1) \ P) BY <1>1, NotIs, ShownIs
  <2>2. ASSUME NEW s \in BitLiterals
        PROVE  LET b == bitmap_create_from_string(s)
                   q == Shown(b)
                   long == LongerOf(n, q.length)
               IN /\ Shown(bitmap_bitand(bm, b)) = BitsAre(n + q.length - long, P \cap q.ones)
                  /\ Shown(bitmap_bitor(bm, b)) = BitsAre(long, P \cup q.ones)
                  /\ Shown(bitmap_bitxor(bm, b)) = BitsAre(long, (P \cup q.ones) \ (P \cap q.ones))
    <3> DEFINE b == bitmap_create_from_string(s)
               len == Len(s)
               Q == {i \in 0 .. len - 1 : s[i + 1] = 1}
               short == IF n < len THEN n ELSE len
    <3>1. len \in Nat /\ len <= MaxBits /\ Represents(b, len, Q) BY LiteralsAre
    <3> HIDE DEF b, len, Q
    <3>2. Shown(b) = BitsAre(len, Q) BY <3>1, ShownIs
    <3>3. Shown(b).length = len /\ Shown(b).ones = Q BY <3>2 DEF BitsAre
    <3>4. /\ Represents(bitmap_bitand(bm, b), short, P \cap Q)
          /\ Represents(bitmap_bitor(bm, b), LongerOf(n, len), P \cup Q)
          /\ Represents(bitmap_bitxor(bm, b), LongerOf(n, len), (P \cup Q) \ (P \cap Q))
      BY <1>1, <1>2, <3>1, CombinedAre
    <3>5. n + len - LongerOf(n, len) = short BY <1>2, <3>1 DEF LongerOf
    <3> HIDE DEF short
    <3>6. /\ Shown(bitmap_bitand(bm, b)) = BitsAre(short, P \cap Q)
          /\ Shown(bitmap_bitor(bm, b)) = BitsAre(LongerOf(n, len), P \cup Q)
          /\ Shown(bitmap_bitxor(bm, b)) = BitsAre(LongerOf(n, len), (P \cup Q) \ (P \cap Q))
      BY <3>4, ShownIs
    <3>7. QED BY <3>3, <3>5, <3>6 DEF b
  <2>3. QED BY <1>4, <2>1, <2>2 DEF CombinationsExact
<1>8. StreamsExact(m)
  <2>1. ASSUME NEW from \in Offsets, NEW s \in BitLiterals, from + Len(s) <= MaxBits
        PROVE  Shown(bitmap_set_from_stream(bm, from, s)) =
                 BitsAre(LongerOf(n, from + Len(s)),
                   {i \in Offsets : IF from <= i /\ i < from + Len(s) THEN s[i - from + 1] = 1 ELSE i \in P})
    <3> DEFINE len == Len(s)
               long == LongerOf(n, from + len)
               Q == AfterBits(P, long, from, s, len)
               R == {i \in Offsets : IF from <= i /\ i < from + len THEN s[i - from + 1] = 1 ELSE i \in P}
    <3>1. from \in Nat BY <1>2 DEF Offsets
    <3>2. s \in Seq({0, 1}) /\ len \in Nat BY LiteralsAre
    <3>3. from + len \in Nat BY <3>1, <3>2
    <3>4. long \in Nat /\ n <= long /\ from + len <= long /\ long <= MaxBits
      BY <1>2, <2>1, <3>3, LongerOfIs, Longest
    <3>5. Represents(bitmap_set_from_stream(bm, from, s), long, Q) BY <1>1, <3>1, <3>2, StreamIs
    <3> HIDE DEF len, long
    <3>6. Q = R
      <4>1. ASSUME NEW p \in Q PROVE p \in R
        <5>1. p \in 0 .. long - 1 BY DEF AfterBits
        <5>2. p \in Offsets BY <1>2, <3>4, <5>1 DEF Offsets
        <5>3. QED BY <5>2 DEF AfterBits
      <4>2. ASSUME NEW p \in R PROVE p \in Q
        <5>1. p \in Nat BY DEF Offsets
        <5>2. p \in 0 .. long - 1
          <6>1. CASE from <= p /\ p < from + len BY <3>1, <3>2, <3>4, <5>1, <6>1
          <6>2. CASE ~(from <= p /\ p < from + len)
            <7>1. p \in P BY <6>2
            <7>2. QED BY <1>2, <3>4, <7>1
          <6>3. QED BY <6>1, <6>2
        <5>3. QED BY <5>2 DEF AfterBits
      <4> HIDE DEF Q, R
      <4>3. QED BY <4>1, <4>2
    <3> HIDE DEF Q, R
    <3>7. Shown(bitmap_set_from_stream(bm, from, s)) = BitsAre(long, R) BY <3>5, <3>6, ShownIs
    <3>8. QED BY <3>7 DEF long, len, R
  <2>2. QED BY <1>4, <2>1 DEF StreamsExact
<1>9. ShiftsExact(m)
  <2>1. ASSUME NEW shift \in 0 .. MaxBits
        PROVE  /\ Shown(bitmap_bitshl(bm, shift)) = BitsAre(n + shift, {i + shift : i \in P})
               /\ Shown(bitmap_bitshr(bm, shift)) =
                    IF shift >= n THEN BitsAre(1, {})
                    ELSE BitsAre(n - shift, {i \in Offsets : i + shift \in P})
    <3>1. shift \in Nat OBVIOUS
    <3>2. Shown(bitmap_bitshl(bm, shift)) = BitsAre(n + shift, {i + shift : i \in P})
      <4>1. Represents(bitmap_bitshl(bm, shift), n + shift, {i + shift : i \in P})
        BY <1>1, <3>1, ShiftedAre
      <4>2. QED BY <4>1, ShownIs
    <3>3. ASSUME shift >= n PROVE Shown(bitmap_bitshr(bm, shift)) = BitsAre(1, {})
      <4>1. Represents(bitmap_bitshr(bm, shift), 1, {}) BY <1>1, <3>1, <3>3, ShiftedAre
      <4>2. QED BY <4>1, ShownIs
    <3>4. ASSUME ~(shift >= n)
          PROVE  Shown(bitmap_bitshr(bm, shift)) = BitsAre(n - shift, {i \in Offsets : i + shift \in P})
      <4> DEFINE Q == ShiftedDown(P, n, shift)
                 R == {i \in Offsets : i + shift \in P}
      <4>1. Represents(bitmap_bitshr(bm, shift), n - shift, Q)
        BY <1>1, <3>1, <3>4, ShiftedAre
      <4>2. Q = R
        <5>1. \A i \in 0 .. n - shift - 1 : i \in Offsets BY <1>2, <3>1 DEF Offsets
        <5>2. ASSUME NEW i \in R PROVE i \in 0 .. n - shift - 1
          <6>1. i \in Nat /\ i + shift <= n - 1 BY <1>2 DEF Offsets
          <6>2. QED BY <1>2, <3>1, <6>1
        <5>3. QED BY <5>1, <5>2 DEF ShiftedDown
      <4> HIDE DEF Q, R
      <4>3. Shown(bitmap_bitshr(bm, shift)) = BitsAre(n - shift, R) BY <4>1, <4>2, ShownIs
      <4>4. QED BY <4>3 DEF R
    <3>5. QED BY <3>2, <3>3, <3>4
  <2>2. QED BY <1>4, <2>1 DEF ShiftsExact
<1>10. QED BY <1>5, <1>6, <1>7, <1>8, <1>9 DEF m

(* Whatever has been done to a bitmap of bitmap.c, and whatever lies       *)
(* behind it in memory, the operations on its bytes and words do what its  *)
(* bits mean.                                                              *)
THEOREM OperationsOnBytesAreExact == BitmapSpec => []BitmapExact
<1>1. BitmapSpec => []BitmapInv
  <2>1. bm = bitmap_create => BitmapInv BY CreatedIsBitmap
  <2>2. BitmapInv /\ [BitmapNext]_bm => BitmapInv' BY BitmapNextInv
  <2>3. QED BY <2>1, <2>2, PTL DEF BitmapSpec
<1>2. BitmapInv => BitmapExact BY BitmapInvExact
<1>3. QED BY <1>1, <1>2, PTL

-----------------------------------------------------------------------------
(* Powers *)

PowerStep(m, g, i) == IF i = 0 THEN 1 ELSE m * g[i - 1]
Raising(m, n, g) == g = [i \in 0 .. n |-> PowerStep(m, g, i)]
Raised(m, n) == CHOOSE g : Raising(m, n, g)

LEMMA PowerIsRaised == ASSUME NEW m, NEW n PROVE Power(m, n) = Raised(m, n)[n]
BY DEF Power, Raised, Raising, PowerStep

LEMMA RaisingExists ==
  ASSUME NEW m, NEW n \in Nat
  PROVE  \E g : Raising(m, n, g)
<1> DEFINE good == {k \in Nat : \E g : Raising(m, k, g)}
<1>1. 0 \in good
  <2> DEFINE g == [i \in 0 .. 0 |-> 1]
  <2>1. \A i \in 0 .. 0 : PowerStep(m, g, i) = 1 BY DEF PowerStep
  <2>2. Raising(m, 0, g) BY <2>1 DEF Raising
  <2>3. QED BY <2>2
<1>2. ASSUME NEW k \in 0 .. n - 1, k \in good PROVE k + 1 \in good
  <2>1. k \in Nat /\ k + 1 \in Nat OBVIOUS
  <2>2. PICK g : Raising(m, k, g) BY <1>2
  <2> DEFINE h == [i \in 0 .. k + 1 |-> IF i = k + 1 THEN PowerStep(m, g, i) ELSE g[i]]
  <2>3. ASSUME NEW i \in 0 .. k + 1 PROVE h[i] = PowerStep(m, h, i)
    <3>1. h[i] = PowerStep(m, g, i) BY <2>1, <2>2 DEF Raising
    <3>2. i # 0 => h[i - 1] = g[i - 1] BY <2>1
    <3> HIDE DEF h
    <3>3. QED BY <3>1, <3>2 DEF PowerStep
  <2>4. h = [i \in 0 .. k + 1 |-> h[i]] OBVIOUS
  <2> HIDE DEF h
  <2>5. h = [i \in 0 .. k + 1 |-> PowerStep(m, h, i)] BY <2>3, <2>4
  <2>6. Raising(m, k + 1, h) BY <2>5 DEF Raising
  <2>7. QED BY <2>1, <2>6
<1> HIDE DEF good
<1>3. \A k \in 0 .. n : k \in good BY <1>1, <1>2, Arrays!UpTo
<1>4. n \in good BY <1>3
<1>5. QED BY <1>4 DEF good

LEMMA RaisedRounds ==
  ASSUME NEW m, NEW n \in Nat
  PROVE  /\ Raised(m, n)[0] = 1
         /\ \A i \in 0 .. n - 1 : Raised(m, n)[i + 1] = m * Raised(m, n)[i]
<1> DEFINE g == Raised(m, n)
<1>1. \E h : Raising(m, n, h) BY RaisingExists
<1>2. Raising(m, n, g) BY <1>1 DEF Raised
<1> HIDE DEF g
<1>3. \A i \in 0 .. n : g[i] = PowerStep(m, g, i) BY <1>2 DEF Raising
<1>4. g[0] = 1
  <2>1. 0 \in 0 .. n OBVIOUS
  <2>2. g[0] = PowerStep(m, g, 0) BY <1>3, <2>1
  <2>3. QED BY <2>2 DEF PowerStep
<1>5. ASSUME NEW i \in 0 .. n - 1 PROVE g[i + 1] = m * g[i]
  <2>1. i + 1 \in 0 .. n /\ i + 1 # 0 /\ i + 1 - 1 = i OBVIOUS
  <2>2. QED BY <1>3, <2>1 DEF PowerStep
<1>6. QED BY <1>4, <1>5 DEF g

(* The function for n has the powers below n, too. *)
LEMMA RaisedIs ==
  ASSUME NEW m, NEW n \in Nat, NEW k \in 0 .. n
  PROVE  Raised(m, n)[k] = Power(m, k)
<1>1. k \in Nat OBVIOUS
<1> DEFINE g == Raised(m, n)
           h == Raised(m, k)
           good == {i \in Nat : g[i] = h[i]}
<1>2. g[0] = 1 /\ \A i \in 0 .. n - 1 : g[i + 1] = m * g[i] BY RaisedRounds
<1>3. h[0] = 1 /\ \A i \in 0 .. k - 1 : h[i + 1] = m * h[i] BY <1>1, RaisedRounds
<1> HIDE DEF g, h
<1>4. 0 \in good BY <1>2, <1>3
<1>5. ASSUME NEW i \in 0 .. k - 1, i \in good PROVE i + 1 \in good
  <2>1. i \in 0 .. n - 1 OBVIOUS
  <2>2. QED BY <1>2, <1>3, <1>5, <2>1
<1> HIDE DEF good
<1>6. \A i \in 0 .. k : i \in good BY <1>1, <1>4, <1>5, Arrays!UpTo
<1>7. g[k] = h[k] BY <1>1, <1>6 DEF good
<1>8. QED BY <1>7, PowerIsRaised DEF g, h

LEMMA PowerIs ==
  ASSUME NEW m \in Int
  PROVE  /\ Power(m, 0) = 1
         /\ \A n \in Nat : Power(m, n) \in Int /\ Power(m, n + 1) = m * Power(m, n)
<1>1. Power(m, 0) = 1 BY RaisedRounds, PowerIsRaised
<1>2. ASSUME NEW n \in Nat PROVE Power(m, n + 1) = m * Power(m, n)
  <2>1. n + 1 \in Nat /\ n \in 0 .. n + 1 - 1 /\ n \in 0 .. n + 1 OBVIOUS
  <2>2. Raised(m, n + 1)[n + 1] = m * Raised(m, n + 1)[n] BY <2>1, RaisedRounds
  <2>3. QED BY <2>1, <2>2, RaisedIs, PowerIsRaised
<1>3. ASSUME NEW n \in Nat PROVE Power(m, n) \in Int
  <2> DEFINE good == {k \in Nat : Power(m, k) \in Int}
  <2>1. 0 \in good BY <1>1
  <2>2. ASSUME NEW k \in 0 .. n - 1, k \in good PROVE k + 1 \in good
    <3>1. k \in Nat /\ k + 1 \in Nat OBVIOUS
    <3>2. Power(m, k + 1) = m * Power(m, k) /\ Power(m, k) \in Int BY <1>2, <2>2, <3>1
    <3> DEFINE p == Power(m, k)
    <3>3. p \in Int BY <3>2
    <3> HIDE DEF p
    <3>4. m * p \in Int BY <3>3
    <3>5. QED BY <3>1, <3>2, <3>4 DEF p
  <2> HIDE DEF good
  <2>3. \A k \in 0 .. n : k \in good BY <2>1, <2>2, Arrays!UpTo
  <2>4. QED BY <2>3 DEF good
<1>4. QED BY <1>1, <1>2, <1>3

(* Powers of a number from 1 are positive. *)
LEMMA PowerPositive ==
  ASSUME NEW m \in Positive, NEW n \in Nat
  PROVE  Power(m, n) \in Positive /\ Power(m, n) \in Nat
<1> DEFINE good == {k \in Nat : Power(m, k) \in Positive}
<1>1. m \in Nat /\ m > 0 /\ m \in Int BY DEF Positive
<1>2. 0 \in good BY <1>1, PowerIs DEF Positive
<1>3. ASSUME NEW k \in 0 .. n - 1, k \in good PROVE k + 1 \in good
  <2>1. k \in Nat /\ k + 1 \in Nat OBVIOUS
  <2> DEFINE p == Power(m, k)
  <2>2. p \in Nat /\ p > 0 BY <1>3 DEF Positive
  <2>3. Power(m, k + 1) = m * p BY <1>1, <2>1, PowerIs
  <2> HIDE DEF p
  <2>4. m * p \in Nat /\ m * p > 0 BY <1>1, <2>2
  <2>5. QED BY <2>1, <2>3, <2>4 DEF Positive
<1> HIDE DEF good
<1>4. \A k \in 0 .. n : k \in good BY <1>2, <1>3, Arrays!UpTo
<1>5. Power(m, n) \in Positive BY <1>4 DEF good
<1>6. QED BY <1>5 DEF Positive

(* and those of a larger number than 1 above their exponents, so that every *)
(* number has a length.                                                    *)
LEMMA BelowPower ==
  ASSUME NEW m \in Positive, m > 1, NEW n \in Nat
  PROVE  n < Power(m, n)
<1> DEFINE good == {k \in Nat : k < Power(m, k)}
<1>1. m \in Nat /\ m > 1 /\ m \in Int BY DEF Positive
<1>2. 0 \in good BY <1>1, PowerIs
<1>3. ASSUME NEW k \in 0 .. n - 1, k \in good PROVE k + 1 \in good
  <2>1. k \in Nat /\ k + 1 \in Nat OBVIOUS
  <2> DEFINE p == Power(m, k)
  <2>2. p \in Nat /\ k < p BY <1>3, <2>1, PowerPositive
  <2>3. Power(m, k + 1) = m * p BY <1>1, <2>1, PowerIs
  <2> HIDE DEF p
  <2>4. (m - 2) * p \in Nat /\ m * p = (m - 2) * p + p + p BY <1>1, <2>2
  <2>5. k + 1 < m * p BY <2>1, <2>2, <2>4
  <2>6. QED BY <2>1, <2>3, <2>5
<1> HIDE DEF good
<1>4. \A k \in 0 .. n : k \in good BY <1>2, <1>3, Arrays!UpTo
<1>5. QED BY <1>4 DEF good

IsLength(m, n, len) == n < Power(m, len) /\ (len = 1 \/ n >= Power(m, len - 1))

LEMMA LengthExists ==
  ASSUME NEW m \in Positive, m > 1, NEW n \in Nat
  PROVE  \E len \in 1 .. n + 1 : IsLength(m, n, len)
<1> DEFINE S == {k \in Positive : n < Power(m, k)}
           j == n + 1
<1>1. j \in Nat /\ j \in Positive BY DEF Positive
<1>2. j \in S
  <2> HIDE DEF j
  <2>1. j < Power(m, j) /\ Power(m, j) \in Nat BY <1>1, BelowPower, PowerPositive
  <2> DEFINE p == Power(m, j)
  <2>2. j < p /\ p \in Nat BY <2>1
  <2> HIDE DEF p
  <2>3. n < p BY <2>2 DEF j
  <2>4. QED BY <1>1, <2>3 DEF p
<1>3. S \in SUBSET Nat /\ S # {} BY <1>2 DEF Positive
<1> HIDE DEF j
<1>4. PICK len \in S : \A k \in S : len <= k BY <1>3, Arrays!LeastExists
<1>5. len \in Nat /\ len >= 1 /\ len <= j /\ n < Power(m, len) BY <1>2, <1>4 DEF Positive
<1>6. len = 1 \/ n >= Power(m, len - 1)
  <2> SUFFICES ASSUME len # 1 PROVE n >= Power(m, len - 1) OBVIOUS
  <2> DEFINE k == len - 1
  <2>1. k \in Nat /\ k \in Positive /\ ~(len <= k) BY <1>5 DEF Positive
  <2>2. k \notin S BY <1>4, <2>1
  <2>3. Power(m, k) \in Nat BY <2>1, PowerPositive
  <2>4. ~(n < Power(m, k)) BY <2>1, <2>2
  <2> HIDE DEF k
  <2>5. n >= Power(m, k) BY <2>3, <2>4
  <2>6. QED BY <2>5 DEF k
<1>7. len \in 1 .. n + 1 BY <1>5 DEF j
<1>8. QED BY <1>5, <1>6, <1>7 DEF IsLength

LEMMA PowerOfSum ==
  ASSUME NEW m \in Int, NEW k \in Nat, NEW n \in Nat
  PROVE  Power(m, k + n) = Power(m, k) * Power(m, n)
<1> DEFINE good == {i \in Nat : Power(m, k + i) = Power(m, k) * Power(m, i)}
<1>1. Power(m, k) \in Int BY PowerIs
<1>2. 0 \in good
  <2>1. k + 0 = k /\ Power(m, 0) = 1 BY PowerIs
  <2>2. QED BY <1>1, <2>1
<1>3. ASSUME NEW i \in 0 .. n - 1, i \in good PROVE i + 1 \in good
  <2>1. i \in Nat /\ i + 1 \in Nat /\ k + i \in Nat /\ k + (i + 1) = (k + i) + 1 OBVIOUS
  <2> DEFINE p == Power(m, k)
             q == Power(m, i)
  <2>2. p \in Int /\ q \in Int BY <2>1, PowerIs
  <2>3. Power(m, k + i) = p * q BY <1>3
  <2>4. Power(m, k + (i + 1)) = m * Power(m, k + i) BY <2>1, PowerIs
  <2>5. Power(m, i + 1) = m * q BY <2>1, PowerIs
  <2> HIDE DEF p, q
  <2>6. m * (p * q) = p * (m * q) BY <2>2
  <2>7. Power(m, k + (i + 1)) = p * Power(m, i + 1) BY <2>3, <2>4, <2>5, <2>6
  <2>8. QED BY <2>1, <2>7 DEF p
<1> HIDE DEF good
<1>4. \A i \in 0 .. n : i \in good BY <1>2, <1>3, Arrays!UpTo
<1>5. QED BY <1>4 DEF good

LEMMA BaseIs == Base \in Nat /\ Base > 1 /\ Base \in Int /\ Base \in Positive
BY BignumAssumption DEF Positive

LEMMA PlaceIs ==
  ASSUME NEW n \in Nat
  PROVE  /\ Power(Base, n) \in Nat /\ Power(Base, n) >= 1 /\ Power(Base, n) \in Positive
         /\ Power(Base, n + 1) = Base * Power(Base, n)
<1>1. Power(Base, n) \in Positive /\ Power(Base, n) \in Nat BY BaseIs, PowerPositive
<1>2. Power(Base, n + 1) = Base * Power(Base, n) BY BaseIs, PowerIs
<1>3. QED BY <1>1, <1>2 DEF Positive

(* Higher places weigh more. *)
LEMMA PlacesGrow ==
  ASSUME NEW k \in Nat, NEW n \in Nat, k <= n
  PROVE  Power(Base, k) <= Power(Base, n)
<1> DEFINE i == n - k
           p == Power(Base, k)
           q == Power(Base, i)
<1>1. i \in Nat /\ n = k + i OBVIOUS
<1>2. Power(Base, n) = p * q BY <1>1, BaseIs, PowerOfSum
<1>3. p \in Nat /\ q \in Nat /\ q >= 1 BY <1>1, PlaceIs
<1> HIDE DEF p, q
<1>4. p * q >= p
  <2>1. p * (q - 1) \in Nat /\ p * q = p * (q - 1) + p BY <1>3
  <2>2. QED BY <1>3, <2>1
<1>5. QED BY <1>2, <1>4 DEF p

-----------------------------------------------------------------------------
(* Digits read as a number *)

ReadStep(d, g, i) == IF i = 0 THEN 0 ELSE g[i - 1] + d[i - 1] * Power(Base, i - 1)
Reading(d, n, g) == g = [i \in 0 .. n |-> ReadStep(d, g, i)]
ReadUp(d, n) == CHOOSE g : Reading(d, n, g)

LEMMA ReadIsReadUp == ASSUME NEW d, NEW n PROVE Read(d, n) = ReadUp(d, n)[n]
BY DEF Read, ReadUp, Reading, ReadStep

LEMMA ReadingExists ==
  ASSUME NEW d, NEW n \in Nat
  PROVE  \E g : Reading(d, n, g)
<1> DEFINE good == {k \in Nat : \E g : Reading(d, k, g)}
<1>1. 0 \in good
  <2> DEFINE g == [i \in 0 .. 0 |-> 0]
  <2>1. \A i \in 0 .. 0 : ReadStep(d, g, i) = 0 BY DEF ReadStep
  <2>2. Reading(d, 0, g) BY <2>1 DEF Reading
  <2>3. QED BY <2>2
<1>2. ASSUME NEW k \in 0 .. n - 1, k \in good PROVE k + 1 \in good
  <2>1. k \in Nat /\ k + 1 \in Nat OBVIOUS
  <2>2. PICK g : Reading(d, k, g) BY <1>2
  <2> DEFINE h == [i \in 0 .. k + 1 |-> IF i = k + 1 THEN ReadStep(d, g, i) ELSE g[i]]
  <2>3. ASSUME NEW i \in 0 .. k + 1 PROVE h[i] = ReadStep(d, h, i)
    <3>1. h[i] = ReadStep(d, g, i) BY <2>1, <2>2 DEF Reading
    <3>2. i # 0 => h[i - 1] = g[i - 1] BY <2>1
    <3> HIDE DEF h
    <3>3. QED BY <3>1, <3>2 DEF ReadStep
  <2>4. h = [i \in 0 .. k + 1 |-> h[i]] OBVIOUS
  <2> HIDE DEF h
  <2>5. h = [i \in 0 .. k + 1 |-> ReadStep(d, h, i)] BY <2>3, <2>4
  <2>6. Reading(d, k + 1, h) BY <2>5 DEF Reading
  <2>7. QED BY <2>1, <2>6
<1> HIDE DEF good
<1>3. \A k \in 0 .. n : k \in good BY <1>1, <1>2, Arrays!UpTo
<1>4. n \in good BY <1>3
<1>5. QED BY <1>4 DEF good

LEMMA ReadUpRounds ==
  ASSUME NEW d, NEW n \in Nat
  PROVE  /\ ReadUp(d, n)[0] = 0
         /\ \A i \in 0 .. n - 1 :
              ReadUp(d, n)[i + 1] = ReadUp(d, n)[i] + d[i] * Power(Base, i)
<1> DEFINE g == ReadUp(d, n)
<1>1. \E h : Reading(d, n, h) BY ReadingExists
<1>2. Reading(d, n, g) BY <1>1 DEF ReadUp
<1> HIDE DEF g
<1>3. \A i \in 0 .. n : g[i] = ReadStep(d, g, i) BY <1>2 DEF Reading
<1>4. g[0] = 0
  <2>1. 0 \in 0 .. n OBVIOUS
  <2>2. g[0] = ReadStep(d, g, 0) BY <1>3, <2>1
  <2>3. QED BY <2>2 DEF ReadStep
<1>5. ASSUME NEW i \in 0 .. n - 1 PROVE g[i + 1] = g[i] + d[i] * Power(Base, i)
  <2>1. i + 1 \in 0 .. n /\ i + 1 # 0 /\ i + 1 - 1 = i OBVIOUS
  <2>2. QED BY <1>3, <2>1 DEF ReadStep
<1>6. QED BY <1>4, <1>5 DEF g

LEMMA ReadUpIs ==
  ASSUME NEW d, NEW n \in Nat, NEW k \in 0 .. n
  PROVE  ReadUp(d, n)[k] = Read(d, k)
<1>1. k \in Nat OBVIOUS
<1> DEFINE g == ReadUp(d, n)
           h == ReadUp(d, k)
           good == {i \in Nat : g[i] = h[i]}
<1>2. g[0] = 0 /\ \A i \in 0 .. n - 1 : g[i + 1] = g[i] + d[i] * Power(Base, i)
  BY ReadUpRounds
<1>3. h[0] = 0 /\ \A i \in 0 .. k - 1 : h[i + 1] = h[i] + d[i] * Power(Base, i)
  BY <1>1, ReadUpRounds
<1> HIDE DEF g, h
<1>4. 0 \in good BY <1>2, <1>3
<1>5. ASSUME NEW i \in 0 .. k - 1, i \in good PROVE i + 1 \in good
  <2>1. i \in 0 .. n - 1 OBVIOUS
  <2>2. QED BY <1>2, <1>3, <1>5, <2>1
<1> HIDE DEF good
<1>6. \A i \in 0 .. k : i \in good BY <1>1, <1>4, <1>5, Arrays!UpTo
<1>7. g[k] = h[k] BY <1>1, <1>6 DEF good
<1>8. QED BY <1>7, ReadIsReadUp DEF g, h

(* One digit more. *)
LEMMA ReadIs ==
  ASSUME NEW d
  PROVE  /\ Read(d, 0) = 0
         /\ \A n \in Nat : Read(d, n + 1) = Read(d, n) + d[n] * Power(Base, n)
<1>1. Read(d, 0) = 0 BY ReadUpRounds, ReadIsReadUp
<1>2. ASSUME NEW n \in Nat PROVE Read(d, n + 1) = Read(d, n) + d[n] * Power(Base, n)
  <2>1. n + 1 \in Nat /\ n \in 0 .. n + 1 - 1 /\ n \in 0 .. n + 1 OBVIOUS
  <2>2. ReadUp(d, n + 1)[n + 1] = ReadUp(d, n + 1)[n] + d[n] * Power(Base, n)
    BY <2>1, ReadUpRounds
  <2>3. QED BY <2>1, <2>2, ReadUpIs, ReadIsReadUp
<1>3. QED BY <1>1, <1>2

(* Digits make numbers, never below what the digits below one make.        *)
LEMMA ReadNatural ==
  ASSUME NEW d, NEW n \in Nat, \A i \in 0 .. n - 1 : d[i] \in Nat
  PROVE  \A k \in 0 .. n : Read(d, k) \in Nat
<1> DEFINE good == {k \in Nat : Read(d, k) \in Nat}
<1>1. 0 \in good BY ReadIs
<1>2. ASSUME NEW k \in 0 .. n - 1, k \in good PROVE k + 1 \in good
  <2>1. k \in Nat /\ k + 1 \in Nat OBVIOUS
  <2> DEFINE p == Power(Base, k)
             r == Read(d, k)
             c == d[k]
  <2>2. p \in Nat /\ r \in Nat /\ c \in Nat BY <1>2, <2>1, PlaceIs
  <2>3. Read(d, k + 1) = r + c * p BY <2>1, ReadIs
  <2> HIDE DEF p, r, c
  <2>4. r + c * p \in Nat BY <2>2
  <2>5. QED BY <2>1, <2>3, <2>4
<1> HIDE DEF good
<1>3. \A k \in 0 .. n : k \in good BY <1>1, <1>2, Arrays!UpTo
<1>4. QED BY <1>3 DEF good

(* Numbers of n digits are below the next power. *)
LEMMA ReadBound ==
  ASSUME NEW d, NEW n \in Nat, \A i \in 0 .. n - 1 : d[i] \in 0 .. Base - 1
  PROVE  \A k \in 0 .. n : Read(d, k) \in Nat /\ Read(d, k) < Power(Base, k)
<1> DEFINE good == {k \in Nat : Read(d, k) \in Nat /\ Read(d, k) < Power(Base, k)}
<1>1. 0 \in good
  <2>1. Power(Base, 0) = 1 /\ Read(d, 0) = 0 BY BaseIs, PowerIs, ReadIs
  <2>2. QED BY <2>1
<1>2. ASSUME NEW k \in 0 .. n - 1, k \in good PROVE k + 1 \in good
  <2>1. k \in Nat /\ k + 1 \in Nat OBVIOUS
  <2> DEFINE p == Power(Base, k)
             r == Read(d, k)
             c == d[k]
  <2>2. p \in Nat /\ r \in Nat /\ r < p /\ c \in 0 .. Base - 1 /\ Base \in Nat
    BY <1>2, <2>1, PlaceIs, BaseIs
  <2>3. Read(d, k + 1) = r + c * p BY <2>1, ReadIs
  <2>4. Power(Base, k + 1) = Base * p BY <2>1, PlaceIs
  <2> HIDE DEF p, r, c
  <2>5. c \in Nat /\ c <= Base - 1 /\ c * p \in Nat BY <2>2
  <2>6. (Base - 1 - c) * p \in Nat BY <2>2, <2>5
  <2>7. (Base - 1 - c) * p = Base * p - p - c * p BY <2>2, <2>5
  <2>8. r + c * p \in Nat /\ r + c * p < Base * p BY <2>2, <2>5, <2>6, <2>7
  <2>9. QED BY <2>1, <2>3, <2>4, <2>8
<1> HIDE DEF good
<1>3. \A k \in 0 .. n : k \in good BY <1>1, <1>2, Arrays!UpTo
<1>4. QED BY <1>3 DEF good

(* Equal digits at the top make equal differences. *)
LEMMA ReadTail ==
  ASSUME NEW d, NEW e, NEW n \in Nat, NEW k \in 0 .. n,
         \A i \in 0 .. n - 1 : d[i] \in Nat /\ e[i] \in Nat,
         \A i \in k .. n - 1 : d[i] = e[i]
  PROVE  /\ Read(d, n) - Read(d, k) = Read(e, n) - Read(e, k)
         /\ Read(d, n) \in Nat /\ Read(e, n) \in Nat /\ Read(d, k) \in Nat /\ Read(e, k) \in Nat
<1>0. \A i \in 0 .. n : Read(d, i) \in Nat /\ Read(e, i) \in Nat BY ReadNatural
<1> DEFINE good == {j \in Nat : Read(d, k + j) - Read(d, k) = Read(e, k + j) - Read(e, k)}
<1>1. 0 \in good
  <2>1. Read(d, k) \in Nat /\ Read(e, k) \in Nat /\ k + 0 = k BY <1>0
  <2>2. QED BY <2>1
<1>2. ASSUME NEW j \in 0 .. n - k - 1, j \in good PROVE j + 1 \in good
  <2>1. j + 1 \in Nat /\ k + j \in 0 .. n /\ k + j \in Nat /\ k + (j + 1) = (k + j) + 1
        /\ k + j \in 0 .. n - 1 /\ k + j \in k .. n - 1
    OBVIOUS
  <2> DEFINE p == Power(Base, k + j)
             r == Read(d, k + j)
             t == Read(e, k + j)
             c == d[k + j]
             x == Read(d, k)
             y == Read(e, k)
  <2>2. p \in Nat /\ r \in Nat /\ t \in Nat /\ x \in Nat /\ y \in Nat /\ c \in Nat
    BY <1>0, <2>1, PlaceIs
  <2>3. Read(d, k + (j + 1)) = r + c * p BY <2>1, ReadIs
  <2>4. e[k + j] = c BY <2>1
  <2>5. Read(e, k + (j + 1)) = t + c * p BY <2>1, <2>4, ReadIs
  <2>6. r - x = t - y BY <1>2
  <2> HIDE DEF p, r, t, c, x, y
  <2>7. c * p \in Nat BY <2>2
  <2>8. (r + c * p) - x = (t + c * p) - y BY <2>2, <2>6, <2>7
  <2>9. Read(d, k + (j + 1)) - x = Read(e, k + (j + 1)) - y BY <2>3, <2>5, <2>8
  <2>10. QED BY <2>1, <2>9 DEF x, y
<1> HIDE DEF good
<1>3. n - k \in Nat /\ k + (n - k) = n OBVIOUS
<1>4. \A j \in 0 .. n - k : j \in good BY <1>1, <1>2, <1>3, Arrays!UpTo
<1>5. n - k \in good BY <1>3, <1>4
<1>6. QED BY <1>0, <1>3, <1>5 DEF good

LEMMA ReadSame ==
  ASSUME NEW d, NEW e, NEW n \in Nat, \A i \in 0 .. n - 1 : d[i] = e[i]
  PROVE  Read(d, n) = Read(e, n)
<1> DEFINE good == {k \in Nat : Read(d, k) = Read(e, k)}
<1>1. 0 \in good BY ReadIs
<1>2. ASSUME NEW k \in 0 .. n - 1, k \in good PROVE k + 1 \in good
  <2>1. k \in Nat /\ k + 1 \in Nat OBVIOUS
  <2>2. Read(d, k + 1) = Read(d, k) + d[k] * Power(Base, k) BY <2>1, ReadIs
  <2>3. Read(e, k + 1) = Read(e, k) + e[k] * Power(Base, k) BY <2>1, ReadIs
  <2>4. d[k] = e[k] /\ Read(d, k) = Read(e, k) BY <1>2
  <2>5. Read(d, k + 1) = Read(e, k + 1) BY <2>2, <2>3, <2>4
  <2>6. QED BY <2>1, <2>5
<1> HIDE DEF good
<1>3. \A k \in 0 .. n : k \in good BY <1>1, <1>2, Arrays!UpTo
<1>4. QED BY <1>3 DEF good

(* The k lowest digits and the others are read one after the other. *)
LEMMA ReadShift ==
  ASSUME NEW d, NEW e, NEW k \in Nat, NEW n \in Nat,
         \A i \in 0 .. k + n - 1 : d[i] \in Nat, \A i \in 0 .. n - 1 : e[i] = d[i + k]
  PROVE  Read(d, k + n) = Read(d, k) + Read(e, n) * Power(Base, k)
<1> DEFINE w == Power(Base, k)
           good == {j \in Nat : Read(d, k + j) = Read(d, k) + Read(e, j) * w}
<1>1. \A i \in 0 .. k + n : Read(d, i) \in Nat
  <2>1. k + n \in Nat OBVIOUS
  <2>2. QED BY <2>1, ReadNatural
<1>2. \A i \in 0 .. n : Read(e, i) \in Nat
  <2>1. \A i \in 0 .. n - 1 : e[i] \in Nat
    <3> TAKE i \in 0 .. n - 1
    <3>1. i + k \in 0 .. k + n - 1 OBVIOUS
    <3>2. QED BY <3>1
  <2>2. QED BY <2>1, ReadNatural
<1>3. w \in Nat BY PlaceIs
<1>4. 0 \in good
  <2>1. Read(e, 0) = 0 /\ k + 0 = k /\ Read(d, k) \in Nat BY <1>1, ReadIs
  <2>2. 0 * w = 0 BY <1>3
  <2>3. QED BY <2>1, <2>2
<1>5. ASSUME NEW j \in 0 .. n - 1, j \in good PROVE j + 1 \in good
  <2> DEFINE x == e[j]
             y == Power(Base, j)
  <2>1. j \in Nat /\ j + 1 \in Nat /\ k + j \in Nat /\ k + (j + 1) = k + j + 1 /\ j + k = k + j
        /\ k + j \in 0 .. k + n - 1
    OBVIOUS
  <2>2. Read(d, k + j + 1) = Read(d, k + j) + d[k + j] * Power(Base, k + j) BY <2>1, ReadIs
  <2>3. Read(e, j + 1) = Read(e, j) + x * y BY <2>1, ReadIs
  <2>4. d[k + j] = x /\ x \in Nat BY <2>1
  <2>5. Power(Base, k + j) = w * y /\ y \in Nat
    <3>1. Power(Base, k + j) = Power(Base, k) * Power(Base, j) BY <2>1, BaseIs, PowerOfSum
    <3>2. y \in Nat BY <2>1, PlaceIs
    <3> HIDE DEF good
    <3>3. QED BY <3>1, <3>2
  <2>6. Read(d, k + j) = Read(d, k) + Read(e, j) * w BY <1>5
  <2>7. Read(d, k) \in Nat /\ Read(e, j) \in Nat BY <1>1, <1>2
  <2> HIDE DEF x, y, w
  <2>8. x * (w * y) = (x * y) * w BY <1>3, <2>4, <2>5
  <2>9. (Read(e, j) + x * y) * w = Read(e, j) * w + (x * y) * w
    <3>1. x * y \in Nat BY <2>4, <2>5
    <3> HIDE DEF good
    <3>2. QED BY <1>3, <2>7, <3>1
  <2>10. Read(d, k + (j + 1)) = Read(d, k) + Read(e, j + 1) * w
    <3>1. Read(e, j) * w \in Nat /\ (x * y) * w \in Nat BY <1>3, <2>4, <2>5, <2>7
    <3>2. QED BY <2>1, <2>2, <2>3, <2>4, <2>5, <2>6, <2>7, <2>8, <2>9, <3>1
  <2>11. QED BY <2>1, <2>10
<1> HIDE DEF good
<1>6. \A j \in 0 .. n : j \in good BY <1>4, <1>5, Arrays!UpTo
<1>7. n \in good BY <1>6
<1>8. QED BY <1>7 DEF good, w

(* Zeros on top change nothing. *)
LEMMA ReadZeros ==
  ASSUME NEW d, NEW n \in Nat, NEW k \in 0 .. n,
         \A i \in 0 .. n - 1 : d[i] \in Nat, \A i \in k .. n - 1 : d[i] = 0
  PROVE  Read(d, n) = Read(d, k)
<1>0. \A i \in 0 .. n : Read(d, i) \in Nat BY ReadNatural
<1> DEFINE good == {j \in Nat : Read(d, k + j) = Read(d, k)}
<1>1. 0 \in good
  <2>1. k + 0 = k OBVIOUS
  <2>2. QED BY <2>1
<1>2. ASSUME NEW j \in 0 .. n - k - 1, j \in good PROVE j + 1 \in good
  <2>1. j + 1 \in Nat /\ k + j \in 0 .. n /\ k + j \in Nat /\ k + (j + 1) = (k + j) + 1
        /\ k + j \in k .. n - 1
    OBVIOUS
  <2> DEFINE p == Power(Base, k + j)
             r == Read(d, k + j)
             c == d[k + j]
  <2>2. p \in Nat /\ r \in Nat /\ c = 0 BY <1>0, <2>1, PlaceIs
  <2>3. Read(d, k + (j + 1)) = r + c * p BY <2>1, ReadIs
  <2>4. r = Read(d, k) BY <1>2
  <2> HIDE DEF p, r, c
  <2>5. r + c * p = r BY <2>2
  <2>6. QED BY <2>1, <2>3, <2>4, <2>5
<1> HIDE DEF good
<1>3. n - k \in Nat /\ k + (n - k) = n OBVIOUS
<1>4. \A j \in 0 .. n - k : j \in good BY <1>1, <1>2, <1>3, Arrays!UpTo
<1>5. n - k \in good BY <1>3, <1>4
<1>6. QED BY <1>3, <1>5 DEF good

LEMMA ReadNothing ==
  ASSUME NEW d, NEW n \in Nat, \A i \in 0 .. n - 1 : d[i] = 0
  PROVE  Read(d, n) = 0
<1> DEFINE z == 0
<1>1. z \in 0 .. n /\ z = 0 /\ \A i \in 0 .. n - 1 : d[i] \in Nat OBVIOUS
<1>2. \A i \in z .. n - 1 : d[i] = 0 OBVIOUS
<1> HIDE DEF z
<1>3. Read(d, n) = Read(d, z) BY <1>1, <1>2, ReadZeros
<1>4. QED BY <1>1, <1>3, ReadIs

(* A digit on top is worth its place. *)
LEMMA ReadTop ==
  ASSUME NEW d, NEW n \in Nat, \A i \in 0 .. n : d[i] \in Nat, d[n] # 0
  PROVE  Read(d, n + 1) \in Nat /\ Read(d, n + 1) >= Power(Base, n)
<1> DEFINE p == Power(Base, n)
           r == Read(d, n)
           c == d[n]
<1>1. n \in 0 .. n /\ n \in 0 .. n + 1 /\ n + 1 \in 0 .. n + 1 /\ n + 1 \in Nat /\ n + 1 - 1 = n
  OBVIOUS
<1>2. r \in Nat /\ Read(d, n + 1) \in Nat BY <1>1, ReadNatural
<1>3. c \in Nat /\ c # 0 /\ p \in Nat BY <1>1, PlaceIs
<1>4. Read(d, n + 1) = r + c * p BY ReadIs
<1> HIDE DEF p, r, c
<1>5. (c - 1) * p \in Nat /\ (c - 1) * p = c * p - p /\ c * p \in Nat BY <1>3
<1>6. r + c * p >= p BY <1>2, <1>3, <1>5
<1>7. QED BY <1>2, <1>4, <1>6 DEF p

(* The highest digit that differs decides. *)
LEMMA ReadLess ==
  ASSUME NEW d, NEW e, NEW n \in Nat, NEW k \in 0 .. n - 1,
         \A i \in 0 .. n - 1 : d[i] \in 0 .. Base - 1 /\ e[i] \in 0 .. Base - 1,
         d[k] < e[k], \A i \in k + 1 .. n - 1 : d[i] = e[i]
  PROVE  Read(d, n) < Read(e, n)
<1> DEFINE p == Power(Base, k)
           r == Read(d, k)
           t == Read(e, k)
           b == d[k]
           c == e[k]
<1>1. k \in Nat /\ k \in 0 .. n /\ k + 1 \in 0 .. n /\ Base \in Nat BY BaseIs
<1>2. /\ r \in Nat /\ r < p /\ t \in Nat /\ p \in Nat
      /\ b \in Nat /\ c \in Nat /\ b < c
  <2>1. \A i \in 0 .. n - 1 : d[i] \in 0 .. Base - 1 OBVIOUS
  <2>2. \A i \in 0 .. n - 1 : e[i] \in 0 .. Base - 1 OBVIOUS
  <2>3. \A i \in 0 .. n : Read(d, i) \in Nat /\ Read(d, i) < Power(Base, i) BY <2>1, ReadBound
  <2>4. \A i \in 0 .. n : Read(e, i) \in Nat BY <2>2, ReadBound
  <2>5. p \in Nat BY <1>1, PlaceIs
  <2>6. b \in Nat /\ c \in Nat /\ b < c BY <1>1, <2>1, <2>2
  <2>7. QED BY <1>1, <2>3, <2>4, <2>5, <2>6
<1>3. Read(d, k + 1) = r + b * p /\ Read(e, k + 1) = t + c * p BY <1>1, ReadIs
<1>4. \A i \in 0 .. n - 1 : d[i] \in Nat /\ e[i] \in Nat BY <1>1
<1>5. /\ Read(d, n) - Read(d, k + 1) = Read(e, n) - Read(e, k + 1)
      /\ Read(d, n) \in Nat /\ Read(e, n) \in Nat
      /\ Read(d, k + 1) \in Nat /\ Read(e, k + 1) \in Nat
  <2>1. \A i \in k + 1 .. n - 1 : d[i] = e[i] OBVIOUS
  <2> DEFINE j == k + 1
  <2>2. j \in 0 .. n /\ \A i \in j .. n - 1 : d[i] = e[i] BY <1>1, <2>1
  <2> HIDE DEF j, p, r, t, b, c
  <2>3. /\ Read(d, n) - Read(d, j) = Read(e, n) - Read(e, j)
        /\ Read(d, n) \in Nat /\ Read(e, n) \in Nat /\ Read(d, j) \in Nat /\ Read(e, j) \in Nat
    BY <1>4, <2>2, ReadTail
  <2>4. QED BY <2>3 DEF j
<1> HIDE DEF p, r, t, b, c
<1>6. (c - b - 1) * p \in Nat /\ (c - b - 1) * p = c * p - b * p - p
      /\ c * p \in Nat /\ b * p \in Nat
  BY <1>2
<1>7. r + b * p < t + c * p BY <1>2, <1>6
<1>8. Read(d, k + 1) < Read(e, k + 1) BY <1>3, <1>7
<1>9. QED BY <1>5, <1>8

(* The digits of a number read back are the number, but for what the       *)
(* places are too few for.                                                 *)
LEMMA ReadOfDigits ==
  ASSUME NEW v \in Nat, NEW n \in Nat, NEW d,
         \A i \in 0 .. n - 1 : d[i] = (v \div Power(Base, i)) % Base
  PROVE  /\ \A k \in 0 .. n : v = Read(d, k) + (v \div Power(Base, k)) * Power(Base, k)
         /\ v < Power(Base, n) => Read(d, n) = v
<1>0. \A i \in 0 .. n - 1 : d[i] \in 0 .. Base - 1
  <2> TAKE i \in 0 .. n - 1
  <2>1. i \in Nat OBVIOUS
  <2>2. v \div Power(Base, i) \in Nat BY <2>1, PlaceIs, DivMod
  <2>3. (v \div Power(Base, i)) % Base \in 0 .. Base - 1 BY <2>2, BaseIs, DivMod
  <2>4. QED BY <2>3
<1>1. \A k \in 0 .. n : Read(d, k) \in Nat /\ Read(d, k) < Power(Base, k) BY <1>0, ReadBound
<1> DEFINE good == {k \in Nat : v = Read(d, k) + (v \div Power(Base, k)) * Power(Base, k)}
<1>2. 0 \in good
  <2>1. Power(Base, 0) = 1 /\ Read(d, 0) = 0 BY BaseIs, PowerIs, ReadIs
  <2>2. v \div 1 = v BY QuotientUnique DEF Positive
  <2>3. QED BY <2>1, <2>2
<1>3. ASSUME NEW k \in 0 .. n - 1, k \in good PROVE k + 1 \in good
  <2>1. k \in Nat /\ k + 1 \in Nat OBVIOUS
  <2> DEFINE p == Power(Base, k)
             q == v \div p
             r == Read(d, k)
             c == q % Base
             s == q \div Base
  <2>2. p \in Positive /\ p \in Nat /\ Base \in Positive /\ Base \in Nat /\ r \in Nat
    BY <1>1, <2>1, PlaceIs, BaseIs
  <2>3. q \in Nat BY <2>2, DivMod
  <2>4. c \in Nat /\ s \in Nat /\ q = Base * s + c BY <2>2, <2>3, DivMod
  <2>5. v = r + q * p BY <1>3
  <2>6. Read(d, k + 1) = r + d[k] * p BY <2>1, ReadIs
  <2>7. d[k] = c OBVIOUS
  <2>8. Power(Base, k + 1) = Base * p BY <2>1, PlaceIs
  <2>9. p * Base = Base * p BY <2>2
  <2>10. s = v \div (Base * p)
    <3>1. (v \div p) \div Base = v \div (p * Base) BY <2>2, QuotientOfQuotient
    <3>2. QED BY <3>1, <2>9
  <2> HIDE DEF p, q, r, c, s
  <2>11. q * p = (Base * s) * p + c * p BY <2>2, <2>3, <2>4
  <2>12. (Base * s) * p = s * (Base * p) BY <2>2, <2>4
  <2>13. c * p \in Nat /\ q * p \in Nat /\ s * (Base * p) \in Nat BY <2>2, <2>3, <2>4
  <2>14. v = (r + c * p) + s * (Base * p) BY <2>2, <2>5, <2>11, <2>12, <2>13
  <2>15. v = Read(d, k + 1) + (v \div Power(Base, k + 1)) * Power(Base, k + 1)
    BY <2>6, <2>7, <2>8, <2>10, <2>14
  <2>16. QED BY <2>1, <2>15
<1> HIDE DEF good
<1>4. \A k \in 0 .. n : k \in good BY <1>2, <1>3, Arrays!UpTo
<1>5. ASSUME v < Power(Base, n) PROVE Read(d, n) = v
  <2>1. Power(Base, n) \in Positive /\ Power(Base, n) \in Nat /\ v = Power(Base, n) * 0 + v
    BY PlaceIs
  <2>2. v \div Power(Base, n) = 0 BY <1>5, <2>1, QuotientUnique
  <2>3. n \in 0 .. n OBVIOUS
  <2>4. v = Read(d, n) + (v \div Power(Base, n)) * Power(Base, n) BY <1>4, <2>3 DEF good
  <2>5. Read(d, n) \in Nat BY <1>1, <2>3
  <2>6. QED BY <2>1, <2>2, <2>4, <2>5
<1>6. QED BY <1>4, <1>5 DEF good

-----------------------------------------------------------------------------
(* Greatest and least elements *)

LEMMA MaxIs ==
  ASSUME NEW n \in Nat, NEW S \in SUBSET (0 .. n), S # {}
  PROVE  Max(S) \in S /\ Max(S) \in 0 .. n /\ \A y \in S : y <= Max(S)
<1> DEFINE T == {n - i : i \in S}
<1>1. T \in SUBSET Nat /\ T # {}
  <2>1. \A i \in S : n - i \in Nat OBVIOUS
  <2>2. PICK i \in S : TRUE OBVIOUS
  <2>3. n - i \in T OBVIOUS
  <2>4. QED BY <2>1, <2>3
<1>2. PICK t \in T : \A u \in T : t <= u BY <1>1, Arrays!LeastExists
<1>3. PICK x \in S : t = n - x OBVIOUS
<1>4. \A y \in S : x >= y
  <2> TAKE y \in S
  <2>1. n - x <= n - y BY <1>2, <1>3
  <2>2. QED BY <2>1
<1>5. \E z \in S : \A y \in S : z >= y BY <1>4
<1>6. Max(S) \in S /\ \A y \in S : Max(S) >= y BY <1>5, Zenon DEF Max
<1>7. QED BY <1>6

LEMMA MinIs ==
  ASSUME NEW S \in SUBSET Nat, S # {}
  PROVE  Min(S) \in S /\ \A y \in S : Min(S) <= y
<1>1. \E x \in S : \A y \in S : x <= y BY Arrays!LeastExists
<1>2. QED BY <1>1, Zenon DEF Min

LEMMA GreaterIs ==
  ASSUME NEW m \in Int, NEW n \in Int
  PROVE  /\ Greater(m, n) \in Int /\ Greater(m, n) >= m /\ Greater(m, n) >= n
         /\ Greater(m, n) = m \/ Greater(m, n) = n
         /\ Lesser(m, n) \in Int /\ Lesser(m, n) <= m /\ Lesser(m, n) <= n
         /\ Lesser(m, n) = m \/ Lesser(m, n) = n
BY DEF Greater, Lesser

LEMMA GreaterZero ==
  ASSUME NEW n \in Int
  PROVE  Greater(0, n) \in Nat /\ Greater(0, n) >= n /\ (Greater(0, n) = 0 \/ Greater(0, n) = n)
BY DEF Greater

-----------------------------------------------------------------------------
(* Numbers *)

IsNumber(x) == x \in [neg : BOOLEAN, digits : Seq(Nat), length : Nat, decimal_pos : Int]
(* The digits are in the storage, and the first of several is not 0. *)
HasRoom(x) == x.length <= Len(x.digits)
IsNormal(x) == x.length >= 2 => x.digits[x.length] # 0
IsCut(x) == IsNumber(x) /\ IsNormal(x) /\ HasRoom(x)
(* No zero is the last of several places. *)
IsTidy(x) == x.decimal_pos > 0 /\ x.length > 0 => Digit(x, 0) # 0
IsTrimmed(x) == IsCut(x) /\ IsTidy(x)
(* Only the number a calculator starts with has no storage for its digit. *)
IsFormed(x) == IsNumber(x) /\ IsNormal(x) /\ IsTidy(x) /\ (HasRoom(x) \/ x.length <= 1)
BelowBase(x) == \A i \in DOMAIN x.digits : x.digits[i] < Base

LEMMA NumberIs ==
  ASSUME NEW neg \in BOOLEAN, NEW digits \in Seq(Nat), NEW length \in Nat, NEW places \in Int
  PROVE  /\ IsNumber(Number(neg, digits, length, places))
         /\ Number(neg, digits, length, places).neg = neg
         /\ Number(neg, digits, length, places).digits = digits
         /\ Number(neg, digits, length, places).length = length
         /\ Number(neg, digits, length, places).decimal_pos = places
BY DEF Number, IsNumber

LEMMA NumberFields ==
  ASSUME NEW x, IsNumber(x)
  PROVE  /\ x.neg \in BOOLEAN /\ x.digits \in Seq(Nat) /\ x.length \in Nat /\ x.decimal_pos \in Int
         /\ Len(x.digits) \in Nat /\ DOMAIN x.digits = 1 .. Len(x.digits)
         /\ \A i \in 1 .. Len(x.digits) : x.digits[i] \in Nat
         /\ x = Number(x.neg, x.digits, x.length, x.decimal_pos)
BY DEF IsNumber, Number

WithSign(x, neg) == [x EXCEPT !.neg = neg]
WithPoint(x, neg, places) == [x EXCEPT !.neg = neg, !.decimal_pos = places]

LEMMA WithSignIs ==
  ASSUME NEW x, IsNumber(x), NEW neg \in BOOLEAN
  PROVE  /\ IsNumber(WithSign(x, neg)) /\ WithSign(x, neg).neg = neg
         /\ WithSign(x, neg).digits = x.digits /\ WithSign(x, neg).length = x.length
         /\ WithSign(x, neg).decimal_pos = x.decimal_pos
BY DEF IsNumber, WithSign

LEMMA WithPointIs ==
  ASSUME NEW x, IsNumber(x), NEW neg \in BOOLEAN, NEW places \in Int
  PROVE  /\ IsNumber(WithPoint(x, neg, places)) /\ WithPoint(x, neg, places).neg = neg
         /\ WithPoint(x, neg, places).digits = x.digits
         /\ WithPoint(x, neg, places).length = x.length
         /\ WithPoint(x, neg, places).decimal_pos = places
BY DEF IsNumber, WithPoint

LEMMA LastZerosIs ==
  ASSUME NEW x, IsNumber(x)
  PROVE  /\ LastZeros(x) \in Nat /\ LastZeros(x) <= Greater(0, Lesser(x.decimal_pos, x.length))
         /\ \A i \in 0 .. LastZeros(x) - 1 : Stored(x, i) = 0
         /\ LastZeros(x) < Greater(0, Lesser(x.decimal_pos, x.length)) =>
              Stored(x, LastZeros(x)) # 0
<1> DEFINE m == Greater(0, Lesser(x.decimal_pos, x.length))
<1>1. m \in Nat
  <2>1. x.decimal_pos \in Int /\ x.length \in Nat BY NumberFields
  <2>2. QED BY <2>1 DEF Greater, Lesser
<1> DEFINE S == {n \in 0 .. Greater(0, Lesser(x.decimal_pos, x.length)) :
                   \A i \in 0 .. n - 1 : Stored(x, i) = 0}
           z == LastZeros(x)
<1>2. z = Max(S) BY DEF LastZeros
<1>3. S = {n \in 0 .. m : \A i \in 0 .. n - 1 : Stored(x, i) = 0} OBVIOUS
<1> HIDE DEF S, m, z
<1>4. S \in SUBSET (0 .. m) /\ S # {}
  <2>1. 0 \in S BY <1>1, <1>3
  <2>2. QED BY <1>3, <2>1
<1>5. z \in 0 .. m /\ z \in S /\ \A n \in S : n <= z BY <1>1, <1>2, <1>4, MaxIs
<1>6. \A i \in 0 .. z - 1 : Stored(x, i) = 0 BY <1>3, <1>5
<1>7. ASSUME z < m, Stored(x, z) = 0 PROVE FALSE
  <2>1. z + 1 \in 0 .. m /\ ~(z + 1 <= z) BY <1>1, <1>5, <1>7
  <2>2. \A i \in 0 .. (z + 1) - 1 : Stored(x, i) = 0
    <3> TAKE i \in 0 .. (z + 1) - 1
    <3>1. i = z \/ i \in 0 .. z - 1 BY <1>1, <1>5
    <3>2. QED BY <1>6, <1>7, <3>1
  <2>3. z + 1 \in S BY <1>3, <2>1, <2>2
  <2>4. QED BY <1>5, <2>1, <2>3
<1>8. QED BY <1>1, <1>5, <1>6, <1>7 DEF m, z

LEMMA TopTrimmedIs ==
  ASSUME NEW x, IsNumber(x), HasRoom(x)
  PROVE  LET y == TopTrimmed(x)
         IN /\ IsCut(y)
            /\ y.neg = x.neg /\ y.digits = x.digits /\ y.decimal_pos = x.decimal_pos
            /\ y.length <= x.length /\ (x.length >= 1 => y.length >= 1)
            /\ \A i \in y.length + 1 .. x.length : x.digits[i] = 0
<1>1. /\ x.neg \in BOOLEAN /\ x.digits \in Seq(Nat) /\ x.length \in Nat /\ x.decimal_pos \in Int
      /\ x = Number(x.neg, x.digits, x.length, x.decimal_pos)
  BY NumberFields
<1> DEFINE S == {1} \cup {i \in 1 .. x.length : x.digits[i] # 0}
           m == IF x.length <= 1 THEN x.length ELSE Max(S)
           y == TopTrimmed(x)
<1>2. y = Number(x.neg, x.digits, m, x.decimal_pos)
  <2>1. y = [x EXCEPT !.length = m] BY DEF TopTrimmed
  <2> HIDE DEF m, y
  <2>2. QED BY <1>1, <2>1 DEF Number
<1>3. /\ m \in Nat /\ m <= x.length /\ (x.length >= 1 => m >= 1)
      /\ \A i \in m + 1 .. x.length : x.digits[i] = 0
      /\ m >= 2 => x.digits[m] # 0
  <2>1. CASE x.length <= 1 BY <1>1, <2>1
  <2>2. CASE x.length > 1
    <3>1. S \in SUBSET (0 .. x.length) /\ S # {} BY <1>1, <2>2
    <3>2. m = Max(S) BY <1>1, <2>2
    <3> DEFINE t == Max(S)
    <3>3. t \in S /\ t \in 0 .. x.length /\ \A i \in S : i <= t BY <1>1, <3>1, MaxIs
    <3> HIDE DEF t
    <3>4. 1 <= t BY <3>3
    <3>5. \A i \in t + 1 .. x.length : x.digits[i] = 0
      <4> TAKE i \in t + 1 .. x.length
      <4>1. i \in 1 .. x.length /\ ~(i <= t) BY <1>1, <3>3, <3>4
      <4>2. QED BY <3>3, <4>1
    <3>6. t >= 2 => x.digits[t] # 0 BY <3>3
    <3>7. m = t BY <3>2 DEF t
    <3> HIDE DEF m, S
    <3>8. QED BY <1>1, <3>3, <3>4, <3>5, <3>6, <3>7
  <2>3. QED BY <1>1, <2>1, <2>2
<1> HIDE DEF m, S, y
<1>4. /\ IsNumber(y) /\ y.neg = x.neg /\ y.digits = x.digits /\ y.decimal_pos = x.decimal_pos
      /\ y.length = m
  BY <1>1, <1>2, <1>3, NumberIs
<1>5. x.length <= Len(x.digits) /\ Len(x.digits) \in Nat BY <1>1 DEF HasRoom
<1>6. y.length <= Len(y.digits) BY <1>1, <1>3, <1>4, <1>5
<1>7. y.length >= 2 => y.digits[y.length] # 0 BY <1>3, <1>4
<1>8. IsCut(y) BY <1>4, <1>6, <1>7 DEF IsCut, HasRoom, IsNormal
<1>9. QED BY <1>1, <1>3, <1>4, <1>8 DEF y

LEMMA LoweredIs ==
  ASSUME NEW x, IsNumber(x), HasRoom(x), NEW n \in 0 .. x.length
  PROVE  LET y == Lowered(x, n)
         IN /\ IsNumber(y) /\ HasRoom(y)
            /\ y.neg = x.neg /\ y.decimal_pos = x.decimal_pos /\ y.length = x.length - n
            /\ \A i \in 1 .. x.length - n : y.digits[i] = x.digits[i + n]
            /\ BelowBase(x) => BelowBase(y)
<1>1. /\ x.neg \in BOOLEAN /\ x.digits \in Seq(Nat) /\ x.length \in Nat /\ x.decimal_pos \in Int
      /\ Len(x.digits) \in Nat /\ DOMAIN x.digits = 1 .. Len(x.digits)
      /\ \A i \in 1 .. Len(x.digits) : x.digits[i] \in Nat
      /\ x = Number(x.neg, x.digits, x.length, x.decimal_pos)
  BY NumberFields
<1>2. x.length <= Len(x.digits) BY DEF HasRoom
<1> DEFINE k == Len(x.digits)
           d == [i \in 1 .. k |-> IF i <= x.length - n THEN x.digits[i + n] ELSE x.digits[i]]
           y == Lowered(x, n)
<1>3. y = Number(x.neg, d, x.length - n, x.decimal_pos)
  <2>1. y = [x EXCEPT !.digits = [i \in 1 .. k |-> IF i <= x.length - n THEN x.digits[i + n] ELSE x.digits[i]],
                      !.length = x.length - n]
    BY <1>1 DEF Lowered
  <2>2. y = [x EXCEPT !.digits = d, !.length = x.length - n] BY <2>1
  <2> HIDE DEF d, y
  <2>3. QED BY <1>1, <2>2 DEF Number
<1>4. \A i \in 1 .. k : \E j \in 1 .. k : d[i] = x.digits[j]
  <2> TAKE i \in 1 .. k
  <2>1. CASE i <= x.length - n
    <3>1. i + n \in 1 .. k BY <1>1, <1>2, <2>1
    <3>2. d[i] = x.digits[i + n] BY <2>1
    <3>3. QED BY <3>1, <3>2
  <2>2. CASE ~(i <= x.length - n)
    <3>1. d[i] = x.digits[i] BY <2>2
    <3>2. QED BY <3>1
  <2>3. QED BY <2>1, <2>2
<1>5. \A i \in 1 .. x.length - n : d[i] = x.digits[i + n]
  <2> TAKE i \in 1 .. x.length - n
  <2>1. i \in 1 .. k /\ i <= x.length - n BY <1>1, <1>2
  <2>2. QED BY <2>1
<1>6. \A i \in 1 .. k : d[i] \in Nat BY <1>1, <1>4
<1>7. d = [i \in 1 .. k |-> d[i]] OBVIOUS
<1> HIDE DEF d
<1>8. d \in [1 .. k -> Nat] BY <1>6, <1>7
<1>9. d \in Seq(Nat) /\ Len(d) = k /\ DOMAIN d = 1 .. k
  <2>1. k \in Nat BY <1>1
  <2> HIDE DEF k
  <2>2. QED BY <1>8, <2>1
<1>10. x.length - n \in Nat BY <1>1
<1> HIDE DEF y
<1>11. /\ IsNumber(y) /\ y.neg = x.neg /\ y.digits = d /\ y.decimal_pos = x.decimal_pos
       /\ y.length = x.length - n
  BY <1>1, <1>3, <1>9, <1>10, NumberIs
<1>12. HasRoom(y) BY <1>1, <1>2, <1>9, <1>11 DEF HasRoom
<1>13. BelowBase(x) => BelowBase(y)
  <2> SUFFICES ASSUME BelowBase(x) PROVE \A i \in 1 .. k : d[i] < Base
    BY <1>9, <1>11 DEF BelowBase
  <2>1. \A j \in 1 .. k : x.digits[j] < Base BY <1>1 DEF BelowBase
  <2>2. QED BY <1>4, <2>1
<1>14. QED BY <1>5, <1>11, <1>12, <1>13 DEF y

LEMMA WithoutTailIs ==
  ASSUME NEW x, IsNumber(x), HasRoom(x)
  PROVE  LET y == WithoutTail(x)
         IN /\ IsNumber(y) /\ HasRoom(y)
            /\ y.neg = x.neg /\ y.decimal_pos = x.decimal_pos /\ y.length = x.length
            /\ \A i \in 1 .. x.length : y.digits[i] = x.digits[i]
            /\ BelowBase(x) => BelowBase(y)
<1>1. /\ x.neg \in BOOLEAN /\ x.digits \in Seq(Nat) /\ x.length \in Nat /\ x.decimal_pos \in Int
      /\ Len(x.digits) \in Nat /\ DOMAIN x.digits = 1 .. Len(x.digits)
      /\ \A i \in 1 .. Len(x.digits) : x.digits[i] \in Nat
      /\ x = Number(x.neg, x.digits, x.length, x.decimal_pos)
  BY NumberFields
<1>2. x.length <= Len(x.digits) BY DEF HasRoom
<1> DEFINE k == Len(x.digits)
           S == {x.length} \cup {i \in DOMAIN x.digits : x.digits[i] # 0}
           m == Max(S)
           d == SubSeq(x.digits, 1, m)
           y == WithoutTail(x)
<1>3. y = Number(x.neg, d, x.length, x.decimal_pos)
  <2>1. y = [x EXCEPT !.digits = d] BY DEF WithoutTail
  <2> HIDE DEF d, y
  <2>2. QED BY <1>1, <2>1 DEF Number
<1>4. m \in 0 .. k /\ x.length <= m
  <2>1. S \in SUBSET (0 .. k) /\ S # {} BY <1>1, <1>2
  <2>2. x.length \in S OBVIOUS
  <2> HIDE DEF S
  <2>3. QED BY <1>1, <2>1, <2>2, MaxIs
<1> HIDE DEF m, S
<1>5. d \in Seq(Nat) /\ Len(d) = m /\ \A i \in 1 .. m : d[i] = x.digits[i] BY <1>1, <1>4
<1>6. DOMAIN d = 1 .. m BY <1>5
<1> HIDE DEF d, y
<1>7. /\ IsNumber(y) /\ y.neg = x.neg /\ y.digits = d /\ y.decimal_pos = x.decimal_pos
      /\ y.length = x.length
  BY <1>1, <1>3, <1>5, NumberIs
<1>8. HasRoom(y) BY <1>4, <1>5, <1>7 DEF HasRoom
<1>9. \A i \in 1 .. x.length : y.digits[i] = x.digits[i]
  <2>1. \A i \in 1 .. x.length : i \in 1 .. m BY <1>1, <1>4
  <2>2. QED BY <1>5, <1>7, <2>1
<1>10. BelowBase(x) => BelowBase(y)
  <2> SUFFICES ASSUME BelowBase(x) PROVE \A i \in 1 .. m : d[i] < Base
    BY <1>6, <1>7 DEF BelowBase
  <2>1. \A j \in 1 .. k : x.digits[j] < Base BY <1>1 DEF BelowBase
  <2>2. QED BY <1>4, <1>5, <2>1
<1>11. QED BY <1>7, <1>8, <1>9, <1>10 DEF y

(* The digits of a number, as they are read. *)
DigitsFrom(x) == [i \in 0 .. x.length - 1 |-> Digit(x, i)]

LEMMA DigitIs ==
  ASSUME NEW x, IsNumber(x), NEW i \in Int
  PROVE  /\ Digit(x, i) \in Nat /\ Stored(x, i) \in Nat
         /\ i >= x.length \/ i < 0 => Digit(x, i) = 0
         /\ i \in 0 .. x.length - 1 => Digit(x, i) = Stored(x, i)
         /\ i \in 0 .. Len(x.digits) - 1 => Stored(x, i) = x.digits[i + 1]
         /\ HasRoom(x) /\ i \in 0 .. x.length - 1 => Digit(x, i) = x.digits[i + 1]
         /\ BelowBase(x) => Digit(x, i) \in 0 .. Base - 1 /\ Stored(x, i) \in 0 .. Base - 1
<1>1. /\ x.digits \in Seq(Nat) /\ x.length \in Nat /\ Len(x.digits) \in Nat
      /\ DOMAIN x.digits = 1 .. Len(x.digits)
      /\ \A j \in 1 .. Len(x.digits) : x.digits[j] \in Nat
  BY NumberFields
<1> DEFINE k == Len(x.digits)
<1>2. CASE i \in 0 .. k - 1
  <2>1. i + 1 \in 1 .. k BY <1>1, <1>2
  <2>2. Stored(x, i) = x.digits[i + 1] /\ x.digits[i + 1] \in Nat BY <1>1, <1>2, <2>1 DEF Stored
  <2>3. BelowBase(x) => x.digits[i + 1] \in 0 .. Base - 1
    <3> DEFINE c == x.digits[i + 1]
    <3>1. BelowBase(x) => c < Base BY <1>1, <2>1 DEF BelowBase
    <3>2. c \in Nat BY <2>2
    <3> HIDE DEF c
    <3>3. BelowBase(x) => c \in 0 .. Base - 1 BY <3>1, <3>2, BaseIs
    <3>4. QED BY <3>3 DEF c
  <2>4. QED BY <1>1, <1>2, <2>2, <2>3, BaseIs DEF Digit, HasRoom
<1>3. CASE i \notin 0 .. k - 1
  <2>1. Stored(x, i) = 0 BY <1>3 DEF Stored
  <2>2. QED BY <1>1, <1>3, <2>1, BaseIs DEF Digit, HasRoom
<1>4. QED BY <1>2, <1>3

LEMMA DigitsFromIs ==
  ASSUME NEW x, IsNumber(x)
  PROVE  /\ Whole(x) = Read(DigitsFrom(x), x.length)
         /\ \A i \in 0 .. x.length - 1 : DigitsFrom(x)[i] = Digit(x, i) /\ Digit(x, i) \in Nat
         /\ BelowBase(x) => \A i \in 0 .. x.length - 1 : Digit(x, i) \in 0 .. Base - 1
         /\ Whole(x) \in Nat
<1>1. x.length \in Nat BY NumberFields
<1>2. Whole(x) = Read(DigitsFrom(x), x.length) BY DEF Whole, DigitsFrom
<1>3. \A i \in 0 .. x.length - 1 : DigitsFrom(x)[i] = Digit(x, i) BY DEF DigitsFrom
<1>4. \A i \in 0 .. x.length - 1 : Digit(x, i) \in Nat BY <1>1, DigitIs
<1>5. BelowBase(x) => \A i \in 0 .. x.length - 1 : Digit(x, i) \in 0 .. Base - 1
  BY <1>1, DigitIs
<1>6. Whole(x) \in Nat
  <2> DEFINE d == DigitsFrom(x)
             n == x.length
  <2>1. n \in Nat /\ \A i \in 0 .. n - 1 : d[i] \in Nat BY <1>1, <1>3, <1>4
  <2> HIDE DEF d, n
  <2>2. \A k \in 0 .. n : Read(d, k) \in Nat BY <2>1, ReadNatural
  <2>3. n \in 0 .. n BY <2>1
  <2>4. Read(d, n) \in Nat BY <2>2, <2>3
  <2>5. QED BY <1>2, <2>4 DEF d, n
<1>7. QED BY <1>2, <1>3, <1>4, <1>5, <1>6

(* Reading any digits that agree with those of a number. *)
LEMMA WholeIs ==
  ASSUME NEW x, IsNumber(x), NEW d, \A i \in 0 .. x.length - 1 : d[i] = Digit(x, i)
  PROVE  Whole(x) = Read(d, x.length)
<1>1. x.length \in Nat BY NumberFields
<1>2. /\ Whole(x) = Read(DigitsFrom(x), x.length)
      /\ \A i \in 0 .. x.length - 1 : DigitsFrom(x)[i] = Digit(x, i)
  BY DigitsFromIs
<1> DEFINE e == DigitsFrom(x)
           n == x.length
<1>3. n \in Nat /\ \A i \in 0 .. n - 1 : d[i] = e[i] BY <1>1, <1>2
<1> HIDE DEF e, n
<1>4. Read(d, n) = Read(e, n) BY <1>3, ReadSame
<1>5. QED BY <1>2, <1>4 DEF e, n

(* Digits on top that are all 0 may be read as well. *)
LEMMA WholeWithZeros ==
  ASSUME NEW x, IsNumber(x), NEW n \in Nat, x.length <= n,
         NEW d, \A i \in 0 .. n - 1 : d[i] = Digit(x, i)
  PROVE  Whole(x) = Read(d, n)
<1>1. x.length \in Nat /\ x.length \in 0 .. n BY NumberFields
<1>2. \A i \in 0 .. n - 1 : d[i] \in Nat
  <2> TAKE i \in 0 .. n - 1
  <2>1. i \in Int OBVIOUS
  <2>2. Digit(x, i) \in Nat BY <2>1, DigitIs
  <2>3. QED BY <2>2
<1>3. \A i \in x.length .. n - 1 : d[i] = 0
  <2> TAKE i \in x.length .. n - 1
  <2>1. i \in Int /\ i >= x.length /\ i \in 0 .. n - 1 BY <1>1
  <2>2. QED BY <2>1, DigitIs
<1> DEFINE k == x.length
<1>4. k \in 0 .. n /\ \A i \in k .. n - 1 : d[i] = 0 BY <1>1, <1>3
<1>5. \A i \in 0 .. k - 1 : d[i] = Digit(x, i) BY <1>1
<1>6. Whole(x) = Read(d, k) BY <1>5, WholeIs
<1> HIDE DEF k
<1>7. Read(d, n) = Read(d, k) BY <1>2, <1>4, ReadZeros
<1>8. QED BY <1>6, <1>7

(* What a number is depends on its digits only. *)
LEMMA SameWhole ==
  ASSUME NEW x, NEW y, IsNumber(x), IsNumber(y), y.length = x.length,
         \A i \in 0 .. x.length - 1 : Digit(y, i) = Digit(x, i)
  PROVE  Whole(y) = Whole(x)
<1> DEFINE d == DigitsFrom(x)
<1>1. Whole(x) = Read(d, x.length) /\ \A i \in 0 .. x.length - 1 : d[i] = Digit(x, i)
  BY DigitsFromIs
<1>2. \A i \in 0 .. y.length - 1 : d[i] = Digit(y, i) BY <1>1
<1> HIDE DEF d
<1>3. Whole(y) = Read(d, y.length) BY <1>2, WholeIs
<1>4. QED BY <1>1, <1>3

(* What is left when the k lowest digits go. *)
LEMMA WholeShifted ==
  ASSUME NEW x, NEW y, IsNumber(x), IsNumber(y), NEW k \in 0 .. x.length, y.length = x.length - k,
         \A i \in 0 .. x.length - k - 1 : Digit(y, i) = Digit(x, i + k)
  PROVE  /\ Whole(x) = Read(DigitsFrom(x), k) + Whole(y) * Power(Base, k)
         /\ Whole(y) \in Nat /\ Read(DigitsFrom(x), k) \in Nat
         /\ BelowBase(x) => Read(DigitsFrom(x), k) < Power(Base, k)
         /\ (\A i \in 0 .. k - 1 : Digit(x, i) = 0) => Read(DigitsFrom(x), k) = 0
<1> DEFINE d == DigitsFrom(x)
           e == DigitsFrom(y)
           n == x.length
           m == y.length
<1>1. /\ Whole(x) = Read(d, n)
      /\ \A i \in 0 .. n - 1 : d[i] = Digit(x, i) /\ d[i] \in Nat
  BY DigitsFromIs
<1>2. /\ Whole(y) = Read(e, m) /\ Whole(y) \in Nat
      /\ \A i \in 0 .. m - 1 : e[i] = Digit(y, i) /\ e[i] \in Nat
  BY DigitsFromIs
<1>3. n \in Nat /\ m \in Nat /\ k \in Nat /\ k + m = n /\ m = n - k /\ k \in 0 .. n BY NumberFields
<1> HIDE DEF d, e
<1>4. \A i \in 0 .. m - 1 : e[i] = d[i + k]
  <2> TAKE i \in 0 .. m - 1
  <2>1. i + k \in 0 .. n - 1 /\ i \in 0 .. x.length - k - 1 BY <1>3
  <2>2. QED BY <1>1, <1>2, <2>1
<1>5. Read(d, n) = Read(d, k) + Read(e, m) * Power(Base, k)
  <2> HIDE DEF n, m
  <2>1. Read(d, k + m) = Read(d, k) + Read(e, m) * Power(Base, k)
    <3>1. \A i \in 0 .. k + m - 1 : d[i] \in Nat BY <1>1, <1>3
    <3>2. QED BY <1>3, <1>4, <3>1, ReadShift
  <2>2. QED BY <1>3, <2>1
<1>6. Read(d, k) \in Nat
  <2>1. \A i \in 0 .. n - 1 : d[i] \in Nat BY <1>1
  <2> HIDE DEF n
  <2>2. QED BY <1>3, <2>1, ReadNatural
<1>7. ASSUME BelowBase(x) PROVE Read(d, k) < Power(Base, k)
  <2>1. \A i \in 0 .. n - 1 : d[i] \in 0 .. Base - 1
    <3> TAKE i \in 0 .. n - 1
    <3>1. i \in Int BY <1>3
    <3>2. QED BY <1>1, <1>7, <3>1, DigitIs
  <2> HIDE DEF n
  <2>2. QED BY <1>3, <2>1, ReadBound
<1>8. ASSUME \A i \in 0 .. k - 1 : Digit(x, i) = 0 PROVE Read(d, k) = 0
  <2>1. \A i \in 0 .. k - 1 : d[i] = 0 /\ d[i] \in Nat BY <1>1, <1>3, <1>8
  <2> DEFINE z == 0
  <2>2. z \in 0 .. k /\ z = 0 BY <1>3
  <2>3. \A i \in z .. k - 1 : d[i] = 0 BY <2>1, <2>2
  <2> HIDE DEF z, n
  <2>4. Read(d, k) = Read(d, z) BY <1>3, <2>1, <2>2, <2>3, ReadZeros
  <2>5. QED BY <2>2, <2>4, ReadIs
<1>9. QED BY <1>1, <1>2, <1>5, <1>6, <1>7, <1>8 DEF d

LEMMA TopTrimmedWhole ==
  ASSUME NEW x, IsNumber(x), HasRoom(x)
  PROVE  Whole(TopTrimmed(x)) = Whole(x)
<1> DEFINE t == TopTrimmed(x)
           n == x.length
           k == t.length
           d == DigitsFrom(x)
<1>1. /\ IsCut(t) /\ t.digits = x.digits /\ k <= n /\ n \in Nat
      /\ \A i \in k + 1 .. n : x.digits[i] = 0
  BY TopTrimmedIs, NumberFields
<1>2. IsNumber(t) /\ HasRoom(t) /\ k \in Nat /\ k \in 0 .. n BY <1>1, NumberFields DEF IsCut
<1> HIDE DEF t
<1>3. /\ Whole(x) = Read(d, n)
      /\ \A i \in 0 .. n - 1 : d[i] = Digit(x, i) /\ d[i] \in Nat
  BY DigitsFromIs
<1> HIDE DEF d
<1>4. \A i \in 0 .. n - 1 : Digit(x, i) = x.digits[i + 1]
  <2> TAKE i \in 0 .. n - 1
  <2>1. i \in Int BY <1>1
  <2>2. QED BY <2>1, DigitIs
<1>5. \A i \in k .. n - 1 : d[i] = 0
  <2> TAKE i \in k .. n - 1
  <2>1. i \in 0 .. n - 1 /\ i + 1 \in k + 1 .. n BY <1>1, <1>2
  <2>2. QED BY <1>1, <1>3, <1>4, <2>1
<1>6. \A i \in 0 .. k - 1 : d[i] = Digit(t, i)
  <2> TAKE i \in 0 .. k - 1
  <2>1. i \in Int /\ i \in 0 .. n - 1 BY <1>1, <1>2
  <2>2. Digit(t, i) = t.digits[i + 1] BY <1>2, <2>1, DigitIs
  <2>3. QED BY <1>1, <1>3, <1>4, <2>1, <2>2
<1>7. Whole(t) = Read(d, k) BY <1>2, <1>6, WholeIs
<1>8. Read(d, n) = Read(d, k)
  <2>1. \A i \in 0 .. n - 1 : d[i] \in Nat BY <1>3
  <2> HIDE DEF n, k
  <2>2. QED BY <1>1, <1>2, <1>5, <2>1, ReadZeros
<1>9. QED BY <1>3, <1>7, <1>8 DEF t

(* A number of usual form has its size. *)
LEMMA WholeBounds ==
  ASSUME NEW x, IsFormed(x)
  PROVE  /\ Whole(x) \in Nat
         /\ BelowBase(x) => Whole(x) < Power(Base, x.length)
         /\ x.length >= 2 => Whole(x) >= Power(Base, x.length - 1)
         /\ Stored(x, 0) # 0 /\ x.length = 1 => Whole(x) > 0
         /\ x.length = 0 => Whole(x) = 0
         /\ IsZero(x) => Whole(x) = 0
<1>1. IsNumber(x) /\ x.length \in Nat /\ (HasRoom(x) \/ x.length <= 1) /\ IsNormal(x)
      /\ Len(x.digits) \in Nat
  BY NumberFields DEF IsFormed
<1> DEFINE d == DigitsFrom(x)
           n == x.length
<1>2. Whole(x) = Read(d, n) /\ Whole(x) \in Nat BY <1>1, DigitsFromIs
<1>3. n \in Nat /\ \A i \in 0 .. n - 1 : d[i] = Digit(x, i) /\ d[i] \in Nat
  BY <1>1, DigitsFromIs
<1>4. ASSUME BelowBase(x) PROVE Whole(x) < Power(Base, x.length)
  <2>1. \A i \in 0 .. n - 1 : d[i] \in 0 .. Base - 1 BY <1>1, <1>3, <1>4, DigitsFromIs
  <2> HIDE DEF d, n
  <2>2. n \in 0 .. n BY <1>3
  <2>3. Read(d, n) < Power(Base, n) BY <1>3, <2>1, <2>2, ReadBound
  <2>4. QED BY <1>2, <2>3 DEF n
<1>5. ASSUME x.length >= 2 PROVE Whole(x) >= Power(Base, x.length - 1)
  <2> DEFINE m == x.length - 1
  <2>1. m \in Nat /\ m + 1 = n /\ m \in 0 .. n - 1 /\ m \in 0 .. Len(x.digits) - 1
        /\ m + 1 = x.length /\ HasRoom(x) /\ m \in 0 .. x.length - 1
    BY <1>1, <1>5 DEF HasRoom
  <2>2. Digit(x, m) = x.digits[m + 1]
    <3>1. m \in Int /\ m \in 0 .. x.length - 1 /\ HasRoom(x) /\ IsNumber(x) BY <1>1, <2>1
    <3> HIDE DEF m, d, n
    <3>2. QED BY <3>1, DigitIs
  <2>3. x.digits[m + 1] # 0 BY <1>1, <1>5, <2>1 DEF IsNormal
  <2>4. d[m] # 0 BY <1>3, <2>1, <2>2, <2>3
  <2>5. \A i \in 0 .. m : d[i] \in Nat BY <1>3, <2>1
  <2> HIDE DEF d, n, m
  <2>6. Read(d, m + 1) >= Power(Base, m) BY <2>1, <2>4, <2>5, ReadTop
  <2>7. QED BY <1>2, <2>1, <2>6 DEF m
<1>6. ASSUME x.length = 1 PROVE Whole(x) = Stored(x, 0)
  <2>1. Power(Base, 0) = 1 /\ Read(d, 0) = 0 BY BaseIs, PowerIs, ReadIs
  <2>2. Read(d, 0 + 1) = Read(d, 0) + d[0] * Power(Base, 0) BY ReadIs
  <2>3. 0 \in 0 .. n - 1 /\ 0 \in 0 .. x.length - 1 BY <1>6
  <2>4. d[0] = Stored(x, 0) /\ d[0] \in Nat
    <3> DEFINE z == 0
    <3>0. z \in Int /\ z \in 0 .. x.length - 1 /\ z = 0 BY <2>3
    <3> HIDE DEF z
    <3>01. Digit(x, z) = Stored(x, z) BY <1>1, <3>0, DigitIs
    <3>1. Digit(x, 0) = Stored(x, 0) BY <3>0, <3>01
    <3>2. d[0] = Digit(x, 0) /\ d[0] \in Nat BY <1>3, <2>3
    <3>3. QED BY <3>1, <3>2
  <2>5. Whole(x) = Read(d, 0 + 1) BY <1>2, <1>6
  <2>6. QED BY <2>1, <2>2, <2>4, <2>5
<1>7. x.length = 0 => Whole(x) = 0 BY <1>2, ReadIs
<1>8. Stored(x, 0) \in Nat BY <1>1, DigitIs
<1>9. QED BY <1>2, <1>4, <1>5, <1>6, <1>7, <1>8 DEF IsZero

(* A calculator goes on with numbers that have at least as many places as  *)
(* none; results that begin so end so.                                     *)
LEMMA TrimIs ==
  ASSUME NEW x, IsNumber(x), HasRoom(x)
  PROVE  /\ IsTrimmed(bignum_trim(x))
         /\ BelowBase(x) => BelowBase(bignum_trim(x))
         /\ x.length >= 1 /\ x.decimal_pos = 0 =>
              /\ bignum_trim(x).length >= 1 /\ bignum_trim(x).decimal_pos = 0
              /\ Whole(bignum_trim(x)) = Whole(x)
              /\ bignum_trim(x).neg = x.neg \/ Whole(x) = 0
         /\ \E k \in 0 .. Greater(0, x.decimal_pos) :
              /\ Whole(x) = Whole(bignum_trim(x)) * Power(Base, k)
              /\ \/ bignum_trim(x).decimal_pos = x.decimal_pos - k /\ bignum_trim(x).neg = x.neg
                 \/ Whole(bignum_trim(x)) = 0
         /\ x.decimal_pos >= 0 => bignum_trim(x).decimal_pos \in 0 .. x.decimal_pos
<1> DEFINE t == TopTrimmed(x)
           n == Greater(0, Lesser(t.decimal_pos, t.length))
           zeros == LastZeros(t)
           l == Lowered(t, zeros)
           p == [l EXCEPT !.decimal_pos = @ - zeros]
           y == WithoutTail(p)
           z == [y EXCEPT !.neg = FALSE, !.decimal_pos = 0]
<1>1. bignum_trim(x) = IF y.length = 1 /\ y.digits[1] = 0 THEN z ELSE y BY DEF bignum_trim
<1>2. /\ x.neg \in BOOLEAN /\ x.digits \in Seq(Nat) /\ x.length \in Nat /\ x.decimal_pos \in Int
      /\ Len(x.digits) \in Nat /\ x.length <= Len(x.digits)
  BY NumberFields DEF HasRoom
<1>3. /\ IsCut(t) /\ Whole(t) = Whole(x) /\ t.neg = x.neg /\ t.digits = x.digits /\ t.decimal_pos = x.decimal_pos
      /\ t.length <= x.length /\ (x.length >= 1 => t.length >= 1)
      /\ \A i \in t.length + 1 .. x.length : x.digits[i] = 0
  BY TopTrimmedIs, TopTrimmedWhole
<1>4. IsNumber(t) /\ HasRoom(t) /\ IsNormal(t) /\ t.length \in Nat /\ t.decimal_pos \in Int
      /\ (BelowBase(x) => BelowBase(t))
  BY <1>3, NumberFields DEF IsTrimmed, IsCut, BelowBase
<1> HIDE DEF t
<1>45. /\ LastZeros(t) \in Nat /\ LastZeros(t) <= n
       /\ \A i \in 0 .. LastZeros(t) - 1 : Stored(t, i) = 0
       /\ LastZeros(t) < n => Stored(t, LastZeros(t)) # 0
  <2>1. IsNumber(t) BY <1>4
  <2> DEFINE m == Greater(0, Lesser(t.decimal_pos, t.length))
  <2>2. /\ LastZeros(t) \in Nat /\ LastZeros(t) <= m
        /\ \A i \in 0 .. LastZeros(t) - 1 : Stored(t, i) = 0
        /\ LastZeros(t) < m => Stored(t, LastZeros(t)) # 0
    BY <2>1, LastZerosIs
  <2>3. n = m OBVIOUS
  <2> HIDE DEF n, m
  <2>4. QED BY <2>2, <2>3
<1>5. /\ n \in Nat /\ (n > 0 => n <= t.length /\ n <= t.decimal_pos) /\ n <= t.length
      /\ n = t.length \/ n >= t.decimal_pos
      /\ n <= Greater(0, t.decimal_pos)
  <2> DEFINE k == Lesser(t.decimal_pos, t.length)
  <2>1. n = Greater(0, k) BY <1>3
  <2>2. k \in Int /\ k <= t.decimal_pos /\ k <= t.length /\ (k = t.decimal_pos \/ k = t.length)
    BY <1>4 DEF Lesser
  <2> HIDE DEF k, n
  <2>3. n \in Int /\ n >= 0 /\ n >= k /\ (n = 0 \/ n = k) BY <2>1, <2>2, GreaterIs
  <2>4. Greater(0, t.decimal_pos) >= 0 /\ Greater(0, t.decimal_pos) >= t.decimal_pos
        /\ Greater(0, t.decimal_pos) \in Int
    BY <1>4, GreaterZero
  <2>5. QED BY <1>4, <2>2, <2>3, <2>4
<1> HIDE DEF n
<1>6. zeros \in 0 .. n /\ zeros \in Nat
  <2>1. QED BY <1>45, <1>5
<1> HIDE DEF zeros
<1>7. zeros \in 0 .. t.length /\ zeros <= n BY <1>4, <1>5, <1>6
<1>8. /\ IsNumber(l) /\ HasRoom(l)
      /\ l.neg = t.neg /\ l.decimal_pos = t.decimal_pos /\ l.length = t.length - zeros
      /\ \A i \in 1 .. t.length - zeros : l.digits[i] = t.digits[i + zeros]
      /\ BelowBase(t) => BelowBase(l)
  BY <1>4, <1>7, LoweredIs
<1> HIDE DEF l
<1>9. /\ IsNumber(p) /\ HasRoom(p) /\ p.neg = l.neg /\ p.digits = l.digits
      /\ p.length = l.length /\ p.decimal_pos = l.decimal_pos - zeros
      /\ (BelowBase(l) => BelowBase(p))
  <2>1. l = Number(l.neg, l.digits, l.length, l.decimal_pos)
        /\ l.neg \in BOOLEAN /\ l.digits \in Seq(Nat) /\ l.length \in Nat /\ l.decimal_pos \in Int
    BY <1>8, NumberFields
  <2>2. p = Number(l.neg, l.digits, l.length, l.decimal_pos - zeros) BY <2>1 DEF Number
  <2>3. l.decimal_pos - zeros \in Int BY <1>6, <2>1
  <2> HIDE DEF p
  <2>4. IsNumber(p) /\ p.neg = l.neg /\ p.digits = l.digits
        /\ p.length = l.length /\ p.decimal_pos = l.decimal_pos - zeros
    BY <2>1, <2>2, <2>3, NumberIs
  <2>5. QED BY <1>8, <2>4 DEF HasRoom, BelowBase
<1> HIDE DEF p
<1>10. /\ IsNumber(y) /\ HasRoom(y)
       /\ y.neg = p.neg /\ y.decimal_pos = p.decimal_pos /\ y.length = p.length
       /\ \A i \in 1 .. p.length : y.digits[i] = p.digits[i]
       /\ BelowBase(p) => BelowBase(y)
  BY <1>9, WithoutTailIs
<1> HIDE DEF y
<1>11. /\ IsNumber(z) /\ z.neg = FALSE /\ z.decimal_pos = 0 /\ z.length = y.length
       /\ z.digits = y.digits
  <2>1. z = WithPoint(y, FALSE, 0) BY DEF WithPoint
  <2> DEFINE plus == FALSE
             none == 0
  <2>2. plus \in BOOLEAN /\ none \in Int /\ plus = FALSE /\ none = 0 OBVIOUS
  <2> HIDE DEF plus, none, z
  <2>3. z = WithPoint(y, plus, none) BY <2>1, <2>2
  <2>4. IsNumber(z) /\ z.neg = plus /\ z.decimal_pos = none /\ z.length = y.length
        /\ z.digits = y.digits
    BY <1>10, <2>2, <2>3, WithPointIs
  <2>5. QED BY <2>2, <2>4
<1> HIDE DEF z
<1>12. y.length = t.length - zeros /\ y.length \in Nat
       /\ \A i \in 1 .. t.length - zeros : y.digits[i] = t.digits[i + zeros]
  BY <1>8, <1>9, <1>10, NumberFields
<1>13. IsNormal(y)
  <2> SUFFICES ASSUME y.length >= 2 PROVE y.digits[y.length] # 0 BY DEF IsNormal
  <2>1. t.length >= 2 BY <1>4, <1>6, <1>12
  <2>2. t.digits[t.length] # 0 BY <1>4, <2>1 DEF IsNormal
  <2> DEFINE i == t.length - zeros
  <2>3. i \in 1 .. t.length - zeros /\ i + zeros = t.length /\ i = y.length BY <1>4, <1>6, <1>12
  <2>4. y.digits[i] = t.digits[i + zeros] BY <1>12, <2>3
  <2>5. QED BY <2>2, <2>3, <2>4
<1>135. \A i \in 0 .. t.length - zeros - 1 : Digit(y, i) = Digit(t, i + zeros)
  <2> TAKE i \in 0 .. t.length - zeros - 1
  <2> DEFINE j == i + zeros
  <2>1. /\ i \in Int /\ i \in 0 .. y.length - 1 /\ i + 1 \in 1 .. t.length - zeros
        /\ j \in Int /\ j \in 0 .. t.length - 1 /\ (i + 1) + zeros = j + 1
    BY <1>4, <1>6, <1>12
  <2>2. Digit(y, i) = y.digits[i + 1] BY <1>10, <2>1, DigitIs
  <2> HIDE DEF j
  <2>3. Digit(t, j) = t.digits[j + 1] BY <1>4, <2>1, DigitIs
  <2>4. Digit(y, i) = Digit(t, j) BY <1>12, <2>1, <2>2, <2>3
  <2>5. QED BY <2>4 DEF j
<1>136. IsTidy(y)
  <2> SUFFICES ASSUME y.decimal_pos > 0, y.length > 0 PROVE Digit(y, 0) # 0 BY DEF IsTidy
  <2>1. y.decimal_pos = t.decimal_pos - zeros BY <1>8, <1>9, <1>10
  <2>2. zeros < n BY <1>4, <1>5, <1>6, <1>12, <2>1
  <2>3. Stored(t, zeros) # 0 BY <1>45, <2>2 DEF zeros
  <2>4. 0 \in 0 .. t.length - zeros - 1 /\ 0 + zeros = zeros /\ zeros < t.length /\ zeros \in Int
    BY <1>4, <1>6, <1>12
  <2>5. Digit(t, zeros) = Stored(t, zeros) BY <2>4 DEF Digit
  <2>6. Digit(y, 0) = Digit(t, zeros) BY <1>135, <2>4
  <2>7. QED BY <2>3, <2>5, <2>6
<1>14. IsTrimmed(y) /\ IsTrimmed(z)
  <2>1. HasRoom(z) BY <1>10, <1>11 DEF HasRoom
  <2>2. IsNormal(z) /\ IsTidy(z) BY <1>11, <1>13 DEF IsNormal, IsTidy
  <2>3. QED BY <1>10, <1>11, <1>13, <1>136, <2>1, <2>2 DEF IsTrimmed, IsCut
<1>15. IsTrimmed(bignum_trim(x)) BY <1>1, <1>14
<1>16. ASSUME BelowBase(x) PROVE BelowBase(bignum_trim(x))
  <2>1. BelowBase(y) BY <1>4, <1>8, <1>9, <1>10, <1>16
  <2>2. BelowBase(z) BY <1>11, <2>1 DEF BelowBase
  <2>3. QED BY <1>1, <2>1, <2>2
<1>17. Whole(x) = Whole(y) * Power(Base, zeros) /\ Whole(y) \in Nat /\ Power(Base, zeros) \in Nat
  <2>1. zeros \in 0 .. t.length /\ y.length = t.length - zeros BY <1>4, <1>6, <1>7, <1>12
  <2>2. \A i \in 0 .. zeros - 1 : Digit(t, i) = 0
    <3> TAKE i \in 0 .. zeros - 1
    <3>1. i < t.length /\ Stored(t, i) = 0 BY <1>4, <1>45, <1>6, <2>1 DEF zeros
    <3>2. QED BY <3>1 DEF Digit
  <2>3. /\ Whole(t) = Read(DigitsFrom(t), zeros) + Whole(y) * Power(Base, zeros)
        /\ Whole(y) \in Nat /\ Read(DigitsFrom(t), zeros) = 0
    BY <1>4, <1>10, <1>135, <2>1, <2>2, WholeShifted
  <2>4. Power(Base, zeros) \in Nat BY <1>6, PlaceIs
  <2>5. QED BY <1>3, <2>3, <2>4
<1>18. Whole(z) = Whole(y)
  <2>1. \A i \in Int : Digit(z, i) = Digit(y, i) BY <1>11 DEF Digit, Stored
  <2>2. \A i \in 0 .. y.length - 1 : Digit(z, i) = Digit(y, i) BY <1>12, <2>1
  <2>3. QED BY <1>10, <1>11, <2>2, SameWhole
<1>19. y.length = 1 /\ y.digits[1] = 0 => Whole(y) = 0
  <2> SUFFICES ASSUME y.length = 1, y.digits[1] = 0 PROVE Whole(y) = 0 OBVIOUS
  <2>1. IsFormed(y) BY <1>14 DEF IsFormed, IsTrimmed, IsCut
  <2>2. Stored(y, 0) = 0
    <3>1. Len(y.digits) \in Nat /\ Len(y.digits) >= 1 BY <1>10, NumberFields DEF HasRoom
    <3>2. QED BY <3>1 DEF Stored
  <2>3. IsZero(y) BY <2>2 DEF IsZero
  <2>4. QED BY <2>1, <2>3, WholeBounds
<1>20. \E k \in 0 .. Greater(0, x.decimal_pos) :
         /\ Whole(x) = Whole(bignum_trim(x)) * Power(Base, k)
         /\ \/ bignum_trim(x).decimal_pos = x.decimal_pos - k /\ bignum_trim(x).neg = x.neg
            \/ Whole(bignum_trim(x)) = 0
  <2>1. zeros \in 0 .. Greater(0, x.decimal_pos)
    <3> DEFINE m == x.decimal_pos
    <3>0. m \in Int BY <1>2
    <3> HIDE DEF m
    <3>01. Greater(0, m) \in Int BY <3>0, GreaterZero
    <3>1. Greater(0, x.decimal_pos) \in Int BY <3>01 DEF m
    <3>2. QED BY <1>3, <1>5, <1>6, <3>1
  <2>2. Whole(bignum_trim(x)) = Whole(y) BY <1>1, <1>18
  <2>3. \/ bignum_trim(x).decimal_pos = x.decimal_pos - zeros /\ bignum_trim(x).neg = x.neg
        \/ Whole(y) = 0
    <3>1. y.decimal_pos = x.decimal_pos - zeros /\ y.neg = x.neg BY <1>3, <1>8, <1>9, <1>10
    <3>2. QED BY <1>1, <1>19, <3>1
  <2>4. QED BY <1>17, <2>1, <2>2, <2>3
<1>21. ASSUME x.length >= 1, x.decimal_pos = 0
       PROVE  /\ bignum_trim(x).length >= 1 /\ bignum_trim(x).decimal_pos = 0
              /\ Whole(bignum_trim(x)) = Whole(x)
              /\ bignum_trim(x).neg = x.neg \/ Whole(x) = 0
  <2>1. zeros = 0 BY <1>3, <1>4, <1>5, <1>6, <1>21
  <2>2. y.length = t.length /\ y.length >= 1 BY <1>3, <1>4, <1>12, <1>21, <2>1
  <2>3. y.decimal_pos = 0 /\ y.neg = x.neg BY <1>3, <1>8, <1>9, <1>10, <1>21, <2>1
  <2>4. Whole(y) = Whole(x)
    <3>1. Power(Base, 0) = 1 BY BaseIs, PowerIs
    <3>2. QED BY <1>17, <2>1, <3>1
  <2>5. CASE ~(y.length = 1 /\ y.digits[1] = 0)
    <3>1. bignum_trim(x) = y BY <1>1, <2>5
    <3>2. QED BY <2>2, <2>3, <2>4, <3>1
  <2>6. CASE y.length = 1 /\ y.digits[1] = 0
    <3>1. bignum_trim(x) = z BY <1>1, <2>6
    <3>2. Whole(x) = 0 BY <1>19, <2>4, <2>6
    <3>3. QED BY <1>11, <1>18, <2>2, <2>4, <3>1, <3>2
  <2>7. QED BY <2>5, <2>6
<1>22. ASSUME x.decimal_pos >= 0 PROVE bignum_trim(x).decimal_pos \in 0 .. x.decimal_pos
  <2>1. y.decimal_pos = x.decimal_pos - zeros BY <1>3, <1>8, <1>9, <1>10
  <2>2. zeros <= x.decimal_pos
    <3>1. Greater(0, t.decimal_pos) = x.decimal_pos BY <1>2, <1>3, <1>22 DEF Greater
    <3>2. QED BY <1>2, <1>5, <1>6, <3>1
  <2>3. y.decimal_pos \in 0 .. x.decimal_pos /\ z.decimal_pos \in 0 .. x.decimal_pos
    BY <1>2, <1>6, <1>11, <1>22, <2>1, <2>2
  <2>4. QED BY <1>1, <2>3
<1>23. QED BY <1>15, <1>16, <1>20, <1>21, <1>22

(* Trimming keeps what a number with places is. *)
LEMMA TrimMultiple ==
  ASSUME NEW x, IsNumber(x), HasRoom(x)
  PROVE  /\ MultipleOf(bignum_trim(x), Whole(x), x.decimal_pos)
         /\ Whole(bignum_trim(x)) # 0 => bignum_trim(x).neg = x.neg
<1> DEFINE t == bignum_trim(x)
<1>1. PICK k \in 0 .. Greater(0, x.decimal_pos) :
        /\ Whole(x) = Whole(t) * Power(Base, k)
        /\ \/ t.decimal_pos = x.decimal_pos - k /\ t.neg = x.neg
           \/ Whole(t) = 0
  BY TrimIs
<1>2. IsNumber(t) BY TrimIs DEF IsTrimmed, IsCut
<1> HIDE DEF t
<1>3. x.decimal_pos \in Int /\ Whole(t) \in Nat BY <1>2, NumberFields, DigitsFromIs
<1>4. k \in Nat
  <2>1. Greater(0, x.decimal_pos) \in Int BY <1>3, GreaterZero
  <2>2. QED BY <2>1
<1> DEFINE w == Power(Base, k)
<1>5. w \in Nat /\ w >= 1 /\ Whole(x) = Whole(t) * w BY <1>1, <1>4, PlaceIs
<1>6. CASE Whole(t) = 0
  <2>1. Whole(x) = 0 BY <1>5, <1>6
  <2>2. QED BY <1>6, <2>1 DEF MultipleOf, t
<1>7. CASE Whole(t) # 0
  <2>1. t.decimal_pos = x.decimal_pos - k /\ t.neg = x.neg BY <1>1, <1>7
  <2>2. Whole(x) # 0
    <3> DEFINE q == Whole(t)
    <3>1. q \in Nat /\ q >= 1 /\ Whole(x) = q * w BY <1>3, <1>5, <1>7
    <3> HIDE DEF q, w
    <3>2. (q - 1) * w \in Nat /\ (q - 1) * w = q * w - w BY <1>5, <3>1
    <3>3. QED BY <1>5, <3>1, <3>2
  <2>3. t.decimal_pos <= x.decimal_pos /\ x.decimal_pos - t.decimal_pos = k BY <1>3, <1>4, <2>1
  <2>4. QED BY <1>5, <2>1, <2>2, <2>3 DEF MultipleOf, t
<1>8. QED BY <1>6, <1>7

(* Whole numbers a calculation may start from, and its results. *)
IsOperand(x) == IsFormed(x) /\ IsWhole(x)
ResultsAre(results, n) == \A r \in results : IsTrimmed(r) /\ IsWhole(r) /\ Value(r) = n

LEMMA ResultsHaveValue ==
  ASSUME NEW results, NEW n, ResultsAre(results, n)
  PROVE  ValueIs(results, n)
BY DEF ResultsAre, ValueIs

LEMMA TrimmedIsFormed == ASSUME NEW x, IsTrimmed(x) PROVE IsFormed(x)
BY DEF IsTrimmed, IsCut, IsFormed

LEMMA OperandIs ==
  ASSUME NEW x, IsOperand(x)
  PROVE  /\ IsNumber(x) /\ IsFormed(x) /\ BelowBase(x)
         /\ x.length \in Nat /\ x.length >= 1 /\ x.decimal_pos = 0 /\ x.neg \in BOOLEAN
         /\ Whole(x) \in Nat /\ Whole(x) < Power(Base, x.length)
         /\ x.length >= 2 => Whole(x) >= Power(Base, x.length - 1)
         /\ \A i \in Int : Digit(x, i) \in 0 .. Base - 1 /\ Digit(x, i) \in Nat
         /\ IntLength(x) = x.length
<1>1. IsNumber(x) /\ IsFormed(x) /\ BelowBase(x) /\ x.length > 0 /\ x.decimal_pos = 0
  BY DEF IsOperand, IsFormed, IsWhole, Proper, BelowBase
<1>2. x.length \in Nat /\ x.neg \in BOOLEAN BY <1>1, NumberFields
<1>3. /\ Whole(x) \in Nat /\ Whole(x) < Power(Base, x.length)
      /\ x.length >= 2 => Whole(x) >= Power(Base, x.length - 1)
  BY <1>1, WholeBounds
<1>4. \A i \in Int : Digit(x, i) \in 0 .. Base - 1 /\ Digit(x, i) \in Nat BY <1>1, DigitIs
<1>5. IntLength(x) = x.length BY <1>1, <1>2 DEF IntLength
<1>6. QED BY <1>1, <1>2, <1>3, <1>4, <1>5

LEMMA IsWholeIs ==
  ASSUME NEW x, x.length > 0, x.decimal_pos = 0, BelowBase(x)
  PROVE  IsWhole(x)
BY DEF IsWhole, Proper, BelowBase

LEMMA SignKeepsNumber ==
  ASSUME NEW x, IsTrimmed(x), NEW neg \in BOOLEAN
  PROVE  /\ IsTrimmed(WithSign(x, neg)) /\ Whole(WithSign(x, neg)) = Whole(x)
         /\ BelowBase(x) => BelowBase(WithSign(x, neg))
         /\ IsWhole(x) => IsWhole(WithSign(x, neg))
         /\ WithSign(x, neg).neg = neg
<1> DEFINE y == WithSign(x, neg)
<1>0. IsNumber(x) BY DEF IsTrimmed, IsCut
<1>1. IsNumber(y) /\ y.neg = neg /\ y.digits = x.digits /\ y.length = x.length
      /\ y.decimal_pos = x.decimal_pos
  BY <1>0, WithSignIs
<1> HIDE DEF y
<1>2. IsTrimmed(y)
  <2>1. IsCut(y) BY <1>1 DEF IsTrimmed, IsCut, IsNormal, HasRoom
  <2>2. \A i \in Int : Digit(y, i) = Digit(x, i) BY <1>1 DEF Digit, Stored
  <2>3. IsTidy(y) BY <1>1, <2>2 DEF IsTrimmed, IsTidy
  <2>4. QED BY <2>1, <2>3 DEF IsTrimmed
<1>3. \A i \in 0 .. x.length - 1 : Digit(y, i) = Digit(x, i) BY <1>1 DEF Digit, Stored
<1>4. Whole(y) = Whole(x) BY <1>0, <1>1, <1>3, SameWhole
<1>5. BelowBase(x) => BelowBase(y) BY <1>1 DEF BelowBase
<1>6. IsWhole(x) => IsWhole(y) BY <1>1 DEF IsWhole, Proper
<1>7. QED BY <1>1, <1>2, <1>4, <1>5, <1>6 DEF y

LEMMA ValueOf ==
  ASSUME NEW x, Whole(x) \in Nat, x.neg \in BOOLEAN
  PROVE  /\ Value(x) \in Int /\ (Value(x) = 0 <=> Whole(x) = 0)
         /\ (x.neg /\ Value(x) = -Whole(x)) \/ (~x.neg /\ Value(x) = Whole(x))
BY DEF Value

-----------------------------------------------------------------------------
(* Copies, and what is kept of a result *)

LEMMA CopyIs ==
  ASSUME NEW x, IsFormed(x), NEW y \in bignum_copy(x)
  PROVE  /\ IsTrimmed(y) /\ y.neg = x.neg /\ y.length = x.length /\ y.decimal_pos = x.decimal_pos
         /\ BelowBase(x) => BelowBase(y)
         /\ Whole(y) = Whole(x)
         /\ IsWhole(x) => IsWhole(y)
<1>1. /\ x.neg \in BOOLEAN /\ x.digits \in Seq(Nat) /\ x.length \in Nat /\ x.decimal_pos \in Int
      /\ x = Number(x.neg, x.digits, x.length, x.decimal_pos)
      /\ IsNumber(x) /\ IsNormal(x) /\ (HasRoom(x) \/ x.length <= 1)
  BY NumberFields DEF IsFormed
<1> DEFINE n == x.length
           d == [i \in 1 .. n |-> Digit(x, i - 1)]
<1>2. y = [x EXCEPT !.digits = d] BY DEF bignum_copy
<1>3. y = Number(x.neg, d, n, x.decimal_pos)
  <2> HIDE DEF d
  <2>1. QED BY <1>1, <1>2 DEF Number
<1>4. \A i \in 1 .. n : d[i] = Digit(x, i - 1) /\ i - 1 \in Int OBVIOUS
<1>5. \A i \in 1 .. n : d[i] \in Nat
  <2> TAKE i \in 1 .. n
  <2> DEFINE j == i - 1
  <2>1. j \in Int /\ d[i] = Digit(x, j) BY <1>4
  <2> HIDE DEF j, d
  <2>2. QED BY <1>1, <2>1, DigitIs
<1>6. d \in Seq(Nat) /\ Len(d) = n /\ DOMAIN d = 1 .. n
  <2>1. d = [i \in 1 .. n |-> d[i]] /\ n \in Nat BY <1>1
  <2> HIDE DEF d, n
  <2>2. d \in [1 .. n -> Nat] BY <1>5, <2>1
  <2>3. QED BY <2>1, <2>2
<1> HIDE DEF d
<1>7. /\ IsNumber(y) /\ y.neg = x.neg /\ y.digits = d /\ y.length = n
      /\ y.decimal_pos = x.decimal_pos
  BY <1>1, <1>3, <1>6, NumberIs
<1>8. HasRoom(y) BY <1>1, <1>6, <1>7 DEF HasRoom
<1>9. IsNormal(y)
  <2> SUFFICES ASSUME y.length >= 2 PROVE y.digits[y.length] # 0 BY DEF IsNormal
  <2> DEFINE j == n - 1
  <2>1. n >= 2 /\ n \in 1 .. n /\ HasRoom(x) /\ j \in Int /\ j \in 0 .. x.length - 1 /\ j + 1 = n
    BY <1>1, <1>7
  <2>2. d[n] = Digit(x, j) BY <1>4, <2>1
  <2> HIDE DEF j
  <2>3. Digit(x, j) = x.digits[j + 1] BY <1>1, <2>1, DigitIs
  <2>4. x.digits[n] # 0 BY <1>1, <2>1 DEF IsNormal
  <2>5. QED BY <1>7, <2>1, <2>2, <2>3, <2>4
<1>10. IsCut(y) BY <1>7, <1>8, <1>9 DEF IsCut
<1>11. BelowBase(x) => BelowBase(y)
  <2> SUFFICES ASSUME BelowBase(x) PROVE \A i \in 1 .. n : d[i] < Base
    BY <1>6, <1>7 DEF BelowBase
  <2> TAKE i \in 1 .. n
  <2> DEFINE j == i - 1
  <2>1. j \in Int /\ d[i] = Digit(x, j) BY <1>4
  <2> HIDE DEF j
  <2>2. Digit(x, j) \in 0 .. Base - 1 BY <1>1, <2>1, DigitIs
  <2>3. QED BY <2>1, <2>2, BaseIs
<1>12. \A i \in 0 .. x.length - 1 : Digit(y, i) = Digit(x, i)
  <2> TAKE i \in 0 .. x.length - 1
  <2>1. i \in Int /\ i \in 0 .. y.length - 1 /\ i + 1 \in 1 .. n /\ i + 1 - 1 = i BY <1>1, <1>7
  <2>2. Digit(y, i) = y.digits[i + 1] BY <1>7, <1>8, <2>1, DigitIs
  <2>3. d[i + 1] = Digit(x, i) BY <1>4, <2>1
  <2>4. QED BY <1>7, <2>2, <2>3
<1>13. Whole(y) = Whole(x) BY <1>1, <1>7, <1>12, SameWhole
<1>14. IsWhole(x) => IsWhole(y)
  <2> SUFFICES ASSUME IsWhole(x) PROVE IsWhole(y) OBVIOUS
  <2>1. x.length > 0 /\ x.decimal_pos = 0 /\ BelowBase(x) BY DEF IsWhole, Proper, BelowBase
  <2>2. QED BY <1>7, <1>11, <2>1, IsWholeIs
<1>15. IsTidy(y)
  <2>1. x.length > 0 => 0 \in 0 .. x.length - 1 BY <1>1
  <2>2. IsTidy(x) BY DEF IsFormed
  <2>3. x.length > 0 => Digit(y, 0) = Digit(x, 0) BY <1>12, <2>1
  <2>4. QED BY <1>7, <2>2, <2>3 DEF IsTidy
<1>16. QED BY <1>7, <1>10, <1>11, <1>13, <1>14, <1>15 DEF IsTrimmed

(* A zero in place of all digits. *)
Emptied(x) == [x EXCEPT !.digits = <<0>> \o SubSeq(@, 2, Len(@)), !.length = 1]

LEMMA EmptiedIs ==
  ASSUME NEW x, IsNumber(x)
  PROVE  LET y == Emptied(x)
         IN /\ IsNumber(y) /\ HasRoom(y) /\ (BelowBase(x) => BelowBase(y)) /\ y.length = 1 /\ Whole(y) = 0
            /\ y.neg = x.neg /\ y.decimal_pos = x.decimal_pos
<1> DEFINE k == Len(x.digits)
           t == SubSeq(x.digits, 2, k)
           f == <<0>>
           e == f \o t
           y == Emptied(x)
<1>1. /\ x.neg \in BOOLEAN /\ x.digits \in Seq(Nat) /\ x.length \in Nat /\ x.decimal_pos \in Int
      /\ x = Number(x.neg, x.digits, x.length, x.decimal_pos)
      /\ Len(x.digits) \in Nat /\ DOMAIN x.digits = 1 .. Len(x.digits)
      /\ \A i \in 1 .. Len(x.digits) : x.digits[i] \in Nat
  BY NumberFields
<1>2. t \in Seq(Nat) BY <1>1
<1>3. Len(t) \in Nat /\ Len(t) = (IF k >= 2 THEN k - 1 ELSE 0)
      /\ \A i \in 1 .. Len(t) : t[i] = x.digits[i + 1]
  BY <1>1
<1>4. f \in Seq(Nat) /\ Len(f) = 1 /\ f[1] = 0 OBVIOUS
<1>5. y = [x EXCEPT !.digits = e, !.length = 1] BY DEF Emptied
<1> HIDE DEF t, f, y
<1>6. /\ e \in Seq(Nat) /\ Len(e) = Len(f) + Len(t)
      /\ \A i \in 1 .. Len(f) + Len(t) : e[i] = IF i <= Len(f) THEN f[i] ELSE t[i - Len(f)]
  BY <1>2, <1>4, Arrays!ConcatProperties
<1> HIDE DEF e
<1>7. /\ Len(e) >= 1 /\ Len(e) \in Nat /\ e[1] = 0
      /\ \A i \in 2 .. Len(e) : e[i] = t[i - 1]
  BY <1>3, <1>4, <1>6
<1>8. ASSUME BelowBase(x) PROVE \A i \in 1 .. Len(e) : e[i] < Base
  <2> TAKE i \in 1 .. Len(e)
  <2>1. CASE i = 1 BY <1>7, <2>1, BaseIs
  <2>2. CASE i # 1
    <3>1. i \in 2 .. Len(e) /\ i - 1 \in 1 .. Len(t) BY <1>3, <1>4, <1>6, <1>7, <2>2
    <3>2. e[i] = x.digits[(i - 1) + 1] BY <1>3, <1>7, <3>1
    <3>3. (i - 1) + 1 = i /\ i \in 1 .. k BY <1>1, <1>3, <3>1
    <3>4. x.digits[i] < Base BY <1>1, <1>8, <3>3 DEF BelowBase
    <3>5. QED BY <3>2, <3>3, <3>4
  <2>3. QED BY <2>1, <2>2
<1> DEFINE one == 1
<1>9. one \in Nat /\ one = 1 /\ y = [x EXCEPT !.digits = e, !.length = one] BY <1>5
<1> HIDE DEF one
<1>10. y = Number(x.neg, e, one, x.decimal_pos) BY <1>1, <1>9 DEF Number
<1>11. /\ IsNumber(y) /\ y.digits = e /\ y.length = one /\ y.neg = x.neg
       /\ y.decimal_pos = x.decimal_pos
  <2>1. x.neg \in BOOLEAN /\ e \in Seq(Nat) /\ one \in Nat /\ x.decimal_pos \in Int BY <1>1, <1>6, <1>9
  <2>2. QED BY <1>10, <2>1, NumberIs
<1>12. HasRoom(y) BY <1>7, <1>9, <1>11 DEF HasRoom
<1>13. BelowBase(x) => BelowBase(y)
  <2>1. DOMAIN e = 1 .. Len(e) BY <1>6
  <2>2. QED BY <1>8, <1>11, <2>1 DEF BelowBase
<1>14. Whole(y) = 0
  <2> DEFINE d == DigitsFrom(y)
             z == 0
  <2>1. z \in Int /\ z \in 0 .. y.length - 1 /\ z = 0 BY <1>9, <1>11
  <2> HIDE DEF d, z
  <2>2. Digit(y, z) = y.digits[z + 1] BY <1>11, <1>12, <2>1, DigitIs
  <2>3. Digit(y, 0) = 0 BY <1>7, <1>11, <2>1, <2>2
  <2>4. Whole(y) = Read(d, one) /\ \A i \in 0 .. one - 1 : d[i] = Digit(y, i)
    BY <1>11, DigitsFromIs DEF d
  <2>5. \A i \in 0 .. one - 1 : d[i] = 0
    <3> TAKE i \in 0 .. one - 1
    <3>1. i = 0 BY <1>9
    <3>2. QED BY <2>3, <2>4, <3>1
  <2>6. Read(d, one) = 0 BY <1>9, <2>5, ReadNothing
  <2>7. QED BY <2>4, <2>6
<1>15. QED BY <1>9, <1>11, <1>12, <1>13, <1>14 DEF y

LEMMA WithoutPlacesIs ==
  ASSUME NEW x, IsTrimmed(x), NEW n \in Nat
  PROVE  IsTrimmed(WithoutPlaces(x, n)) /\ (BelowBase(x) => BelowBase(WithoutPlaces(x, n)))
<1>1. x.length \in Nat /\ x.decimal_pos \in Int /\ IsNumber(x) /\ HasRoom(x)
  BY NumberFields DEF IsTrimmed, IsCut
<1> DEFINE u == Emptied(x)
           v == IF n < x.length THEN Lowered(x, n) ELSE u
           y == [v EXCEPT !.decimal_pos = x.decimal_pos - n]
<1>2. WithoutPlaces(x, n) = bignum_trim(y) BY DEF WithoutPlaces, Emptied
<1>3. /\ IsNumber(v) /\ HasRoom(v) /\ (BelowBase(x) => BelowBase(v))
  <2>1. CASE n < x.length
    <3>1. n \in 0 .. x.length /\ v = Lowered(x, n) BY <1>1, <2>1
    <3> HIDE DEF v
    <3>2. QED BY <1>1, <3>1, LoweredIs
  <2>2. CASE ~(n < x.length)
    <3>1. v = u BY <2>2
    <3> HIDE DEF v
    <3>2. QED BY <1>1, <3>1, EmptiedIs
  <2>3. QED BY <2>1, <2>2
<1> HIDE DEF v
<1>4. /\ IsNumber(y) /\ y.digits = v.digits /\ y.length = v.length
  <2>1. v.neg \in BOOLEAN /\ x.decimal_pos - n \in Int /\ v = Number(v.neg, v.digits, v.length, v.decimal_pos)
        /\ v.digits \in Seq(Nat) /\ v.length \in Nat
    BY <1>1, <1>3, NumberFields
  <2> DEFINE q == x.decimal_pos - n
  <2>2. q \in Int /\ y = [v EXCEPT !.decimal_pos = q] BY <2>1
  <2> HIDE DEF q, y
  <2>3. y = Number(v.neg, v.digits, v.length, q) BY <2>1, <2>2 DEF Number
  <2>4. QED BY <2>1, <2>2, <2>3, NumberIs
<1> HIDE DEF y
<1>5. HasRoom(y) /\ (BelowBase(x) => BelowBase(y)) BY <1>3, <1>4 DEF HasRoom, BelowBase
<1>6. QED BY <1>2, <1>4, <1>5, TrimIs

LEMMA KeptIs ==
  ASSUME NEW x, IsTrimmed(x), NEW precision \in Nat
  PROVE  /\ IsTrimmed(Kept(x, precision)) /\ (BelowBase(x) => BelowBase(Kept(x, precision)))
         /\ x.decimal_pos = 0 => Kept(x, precision) = x
<1> DEFINE y == IF x.decimal_pos > precision
                THEN WithoutPlaces(x, x.decimal_pos - precision) ELSE x
           over == Lesser(y.length - BIGNUM_MAX_DIGITS, y.decimal_pos)
<1>1. Kept(x, precision) = IF over > 0 THEN WithoutPlaces(y, over) ELSE y BY DEF Kept
<1>2. x.decimal_pos \in Int BY NumberFields DEF IsTrimmed, IsCut
<1>3. IsTrimmed(y) /\ (BelowBase(x) => BelowBase(y))
  <2> DEFINE k == x.decimal_pos - precision
  <2>1. CASE x.decimal_pos > precision
    <3>1. k \in Nat /\ y = WithoutPlaces(x, k) BY <1>2, <2>1
    <3> HIDE DEF k
    <3>2. QED BY <3>1, WithoutPlacesIs
  <2>2. CASE ~(x.decimal_pos > precision) BY <2>2
  <2>3. QED BY <2>1, <2>2
<1>4. x.decimal_pos = 0 => y = x BY <1>2
<1> HIDE DEF y
<1>5. y.length \in Nat /\ y.decimal_pos \in Int BY <1>3, NumberFields DEF IsTrimmed, IsCut
<1>6. over \in Int /\ (y.decimal_pos = 0 => ~(over > 0))
  BY <1>5, BignumAssumption DEF Lesser
<1> HIDE DEF over
<1>7. CASE over > 0
  <2>1. over \in Nat BY <1>6, <1>7
  <2>2. QED BY <1>1, <1>3, <1>4, <1>6, <1>7, <2>1, WithoutPlacesIs
<1>8. CASE ~(over > 0) BY <1>1, <1>3, <1>4, <1>8
<1>9. QED BY <1>7, <1>8

LEMMA DivModInt ==
  ASSUME NEW n \in Nat \ {0}, NEW a \in Int
  PROVE  a \div n \in Int /\ a % n \in 0 .. n - 1 /\ a = n * (a \div n) + (a % n)
OBVIOUS

-----------------------------------------------------------------------------
(* Numbers with places, brought to the same places *)

IsFraction(x) == IsFormed(x) /\ BelowBase(x) /\ x.decimal_pos >= 0
(* The number without its sign and its point, with p places. *)
Size(x, p) == Whole(x) * Power(Base, p - x.decimal_pos)
AlignedDigits(x, p, n) == [i \in 0 .. n - 1 |-> Aligned(x, i, p)]

LEMMA FractionIs ==
  ASSUME NEW x, IsFraction(x)
  PROVE  /\ IsNumber(x) /\ IsFormed(x) /\ BelowBase(x) /\ x.neg \in BOOLEAN
         /\ x.length \in Nat /\ x.decimal_pos \in Nat
         /\ Whole(x) \in Nat /\ Whole(x) < Power(Base, x.length)
         /\ IntLength(x) \in Int /\ x.length = IntLength(x) + x.decimal_pos
<1>1. IsNumber(x) /\ IsFormed(x) /\ BelowBase(x) /\ x.decimal_pos >= 0
  BY DEF IsFraction, IsFormed
<1>2. x.length \in Nat /\ x.decimal_pos \in Int /\ x.neg \in BOOLEAN BY <1>1, NumberFields
<1>3. Whole(x) \in Nat /\ Whole(x) < Power(Base, x.length) BY <1>1, WholeBounds
<1>4. IntLength(x) = x.length - x.decimal_pos BY DEF IntLength
<1>5. QED BY <1>1, <1>2, <1>3, <1>4

LEMMA OperandIsFraction ==
  ASSUME NEW x, IsOperand(x)
  PROVE  IsFraction(x) /\ Size(x, 0) = Whole(x)
<1>1. IsFormed(x) /\ BelowBase(x) /\ x.decimal_pos = 0 /\ Whole(x) \in Nat BY OperandIs
<1>2. Power(Base, 0) = 1 BY BaseIs, PowerIs
<1>3. QED BY <1>1, <1>2 DEF IsFraction, Size

(* The size in digits of a number brought to p places. *)
LEMMA SizeIs ==
  ASSUME NEW x, IsFraction(x), NEW p \in Int, x.decimal_pos <= p
  PROVE  /\ p - x.decimal_pos \in Nat /\ x.length + (p - x.decimal_pos) = IntLength(x) + p
         /\ Size(x, p) \in Nat /\ (Size(x, p) = 0 <=> Whole(x) = 0)
         /\ \A n \in Nat : n >= IntLength(x) + p => Size(x, p) < Power(Base, n)
         /\ \A n \in Nat : x.length >= 2 /\ n < IntLength(x) + p => Size(x, p) >= Power(Base, n)
<1> DEFINE k == p - x.decimal_pos
           l == x.length
           m == Whole(x)
           w == Power(Base, k)
<1>1. /\ l \in Nat /\ x.decimal_pos \in Nat /\ m \in Nat /\ m < Power(Base, l)
      /\ IntLength(x) \in Int /\ l = IntLength(x) + x.decimal_pos /\ IsFormed(x)
  BY FractionIs
<1>2. k \in Nat /\ l + k = IntLength(x) + p BY <1>1
<1>3. Size(x, p) = m * w BY DEF Size
<1>4. w \in Nat /\ w >= 1 BY <1>2, PlaceIs
<1>5. l >= 2 => m >= Power(Base, l - 1) BY <1>1, WholeBounds
<1> HIDE DEF k, l, m, w
<1>6. m * w \in Nat /\ (m * w = 0 <=> m = 0)
  <2>1. m * (w - 1) \in Nat /\ m * (w - 1) = m * w - m BY <1>1, <1>4
  <2>2. m * w \in Nat BY <1>1, <1>4
  <2>3. QED BY <1>1, <1>4, <2>1, <2>2
<1>7. ASSUME NEW n \in Nat, n >= IntLength(x) + p PROVE m * w < Power(Base, n)
  <2> DEFINE v == Power(Base, l)
  <2>1. v \in Nat /\ m < v BY <1>1, PlaceIs
  <2>2. Power(Base, l + k) = v * w BY <1>1, <1>2, BaseIs, PowerOfSum DEF w
  <2>3. Power(Base, l + k) <= Power(Base, n) BY <1>1, <1>2, <1>7, PlacesGrow
  <2>4. Power(Base, n) \in Nat /\ Power(Base, l + k) \in Nat BY <1>1, <1>2, PlaceIs
  <2> HIDE DEF v
  <2>5. (v - 1 - m) * w \in Nat /\ (v - 1 - m) * w = v * w - w - m * w BY <1>1, <1>4, <2>1
  <2>6. m * w < v * w BY <1>4, <1>6, <2>1, <2>2, <2>4, <2>5
  <2>7. QED BY <1>6, <2>2, <2>3, <2>4, <2>6
<1>8. ASSUME NEW n \in Nat, l >= 2, n < IntLength(x) + p PROVE m * w >= Power(Base, n)
  <2> DEFINE i == l - 1
             v == Power(Base, i)
  <2>1. i \in Nat /\ n <= i + k /\ i + k \in Nat BY <1>1, <1>2, <1>8
  <2>2. v \in Nat /\ m >= v BY <1>5, <1>8, <2>1, PlaceIs
  <2> HIDE DEF i
  <2>3. Power(Base, i + k) = v * w BY <1>2, <2>1, BaseIs, PowerOfSum DEF w
  <2>4. Power(Base, n) <= Power(Base, i + k) BY <2>1, PlacesGrow
  <2>5. Power(Base, n) \in Nat /\ Power(Base, i + k) \in Nat BY <2>1, PlaceIs
  <2> HIDE DEF v
  <2>6. (m - v) * w \in Nat /\ (m - v) * w = m * w - v * w BY <1>1, <1>4, <2>2
  <2>7. QED BY <1>6, <2>3, <2>4, <2>5, <2>6
<1>9. Size(x, p) \in Nat /\ (Size(x, p) = 0 <=> Whole(x) = 0) BY <1>3, <1>6 DEF m
<1>10. \A n \in Nat : n >= IntLength(x) + p => Size(x, p) < Power(Base, n) BY <1>3, <1>7
<1>11. \A n \in Nat : x.length >= 2 /\ n < IntLength(x) + p => Size(x, p) >= Power(Base, n)
  BY <1>3, <1>8 DEF l
<1>12. QED BY <1>2, <1>9, <1>10, <1>11 DEF k, l

LEMMA AlignedAre ==
  ASSUME NEW x, IsNumber(x), BelowBase(x), NEW p \in Int, NEW n \in Nat
  PROVE  \A i \in 0 .. n - 1 : /\ AlignedDigits(x, p, n)[i] = Aligned(x, i, p)
                               /\ Aligned(x, i, p) \in 0 .. Base - 1
<1> TAKE i \in 0 .. n - 1
<1> DEFINE j == i - p + x.decimal_pos
<1>1. j \in Int BY NumberFields
<1>2. Aligned(x, i, p) = Digit(x, j) BY DEF Aligned
<1>3. AlignedDigits(x, p, n)[i] = Aligned(x, i, p) BY DEF AlignedDigits
<1> HIDE DEF j
<1>4. Digit(x, j) \in 0 .. Base - 1 BY <1>1, DigitIs
<1>5. QED BY <1>2, <1>3, <1>4

(* A number is brought to more places by zeros behind its last. *)
LEMMA AlignedReads ==
  ASSUME NEW x, IsFraction(x), NEW p \in Int, x.decimal_pos <= p,
         NEW n \in Nat, n >= IntLength(x) + p
  PROVE  Read(AlignedDigits(x, p, n), n) = Size(x, p)
<1> DEFINE k == p - x.decimal_pos
           m == n - k
           d == AlignedDigits(x, p, n)
           e == [i \in 0 .. m - 1 |-> Digit(x, i)]
<1>1. IsNumber(x) /\ BelowBase(x) /\ x.length \in Nat /\ x.decimal_pos \in Nat BY FractionIs
<1>2. k \in Nat /\ x.length + k = IntLength(x) + p BY SizeIs
<1>3. m \in Nat /\ x.length <= m /\ k + m = n BY <1>1, <1>2
<1>4. \A i \in 0 .. n - 1 : d[i] = Aligned(x, i, p) /\ Aligned(x, i, p) \in 0 .. Base - 1
  BY <1>1, AlignedAre
<1>5. \A i \in 0 .. n - 1 : d[i] = Digit(x, i - k) /\ d[i] \in Nat
  <2> TAKE i \in 0 .. n - 1
  <2>1. i - p + x.decimal_pos = i - k BY <1>1
  <2>2. Aligned(x, i, p) = Digit(x, i - k) BY <2>1 DEF Aligned
  <2>3. QED BY <1>4, <2>2, BaseIs
<1>6. \A i \in 0 .. m - 1 : e[i] = Digit(x, i) OBVIOUS
<1> HIDE DEF d, e
<1>7. \A i \in 0 .. m - 1 : e[i] = d[i + k]
  <2> TAKE i \in 0 .. m - 1
  <2>1. i + k \in 0 .. n - 1 /\ (i + k) - k = i BY <1>2, <1>3
  <2> HIDE DEF k, m
  <2>2. QED BY <1>5, <1>6, <2>1
<1>8. \A i \in 0 .. k - 1 : d[i] = 0
  <2> TAKE i \in 0 .. k - 1
  <2> DEFINE j == i - k
  <2>1. i \in 0 .. n - 1 /\ j \in Int /\ j < 0 BY <1>2, <1>3
  <2>2. d[i] = Digit(x, j) BY <1>5, <2>1
  <2> HIDE DEF j, k, m
  <2>3. Digit(x, j) = 0 BY <1>1, <2>1, DigitIs
  <2>4. QED BY <2>2, <2>3
<1> HIDE DEF k, m
<1>9. Read(d, k + m) = Read(d, k) + Read(e, m) * Power(Base, k)
  <2>1. \A i \in 0 .. k + m - 1 : d[i] \in Nat
    <3> TAKE i \in 0 .. k + m - 1
    <3>1. i \in 0 .. n - 1 BY <1>2, <1>3
    <3>2. QED BY <1>5, <3>1
  <2>2. QED BY <1>2, <1>3, <1>7, <2>1, ReadShift
<1>10. Read(d, k) = 0 BY <1>2, <1>8, ReadNothing
<1>11. Whole(x) = Read(e, m) BY <1>1, <1>3, <1>6, WholeWithZeros
<1>12. Whole(x) \in Nat /\ Power(Base, k) \in Nat BY <1>1, <1>2, DigitsFromIs, PlaceIs
<1>13. Read(d, n) = Whole(x) * Power(Base, k)
  <2> DEFINE q == Whole(x) * Power(Base, k)
  <2>1. q \in Nat BY <1>12
  <2>2. Read(d, n) = 0 + q BY <1>3, <1>9, <1>10, <1>11
  <2>3. QED BY <2>1, <2>2
<1>14. QED BY <1>13 DEF Size, d, k

(* A number trimmed from p places that are worth v. *)
TrimmedFrom(r, v, p) ==
  \E x : /\ IsNumber(x) /\ HasRoom(x) /\ BelowBase(x) /\ x.length >= 1
         /\ x.decimal_pos = p /\ Whole(x) = v /\ r = bignum_trim(x)

LEMMA TrimmedFromBy ==
  ASSUME NEW neg \in BOOLEAN, NEW s \in Seq(Nat), NEW n \in Nat, n >= 1, Len(s) = n,
         \A i \in 1 .. n : s[i] \in 0 .. Base - 1, NEW p \in Int,
         NEW d, \A i \in 0 .. n - 1 : d[i] = s[i + 1], NEW r, r = bignum_trim(Number(neg, s, n, p))
  PROVE  TrimmedFrom(r, Read(d, n), p)
<1> DEFINE x == Number(neg, s, n, p)
<1>1. IsNumber(x) /\ x.digits = s /\ x.length = n /\ x.decimal_pos = p BY NumberIs
<1>2. r = bignum_trim(x) OBVIOUS
<1> HIDE DEF x
<1>3. HasRoom(x) BY <1>1 DEF HasRoom
<1>4. BelowBase(x)
  <2>1. DOMAIN s = 1 .. n OBVIOUS
  <2>2. \A i \in 1 .. n : s[i] < Base BY BaseIs
  <2>3. QED BY <1>1, <2>1, <2>2 DEF BelowBase
<1>5. \A i \in 0 .. x.length - 1 : d[i] = Digit(x, i)
  <2> TAKE i \in 0 .. x.length - 1
  <2>1. i \in Int /\ i \in 0 .. n - 1 BY <1>1
  <2>2. Digit(x, i) = x.digits[i + 1] BY <1>1, <1>3, <2>1, DigitIs
  <2>3. QED BY <1>1, <2>1, <2>2
<1>6. Whole(x) = Read(d, n) BY <1>1, <1>5, WholeIs
<1>7. QED BY <1>1, <1>2, <1>3, <1>4, <1>6 DEF TrimmedFrom

LEMMA TrimmedWhole ==
  ASSUME NEW r, NEW v, TrimmedFrom(r, v, 0)
  PROVE  IsTrimmed(r) /\ IsWhole(r) /\ Whole(r) = v
<1>1. PICK x : /\ IsNumber(x) /\ HasRoom(x) /\ BelowBase(x) /\ x.length >= 1
               /\ x.decimal_pos = 0 /\ Whole(x) = v /\ r = bignum_trim(x)
  BY DEF TrimmedFrom
<1>2. /\ IsTrimmed(r) /\ BelowBase(r) /\ r.length >= 1 /\ r.decimal_pos = 0 /\ Whole(r) = v
  BY <1>1, TrimIs
<1>3. r.length > 0
  <2>1. IsNumber(r) BY <1>2 DEF IsTrimmed, IsCut
  <2>2. r.length \in Nat BY <2>1, NumberFields
  <2>3. QED BY <1>2, <2>2
<1>4. QED BY <1>2, <1>3, IsWholeIs

LEMMA TrimmedSize ==
  ASSUME NEW r, NEW v, NEW p \in Nat, TrimmedFrom(r, v, p)
  PROVE  IsTrimmed(r) /\ r.decimal_pos \in 0 .. p /\ Whole(r) \in Nat /\ Size(r, p) = v
<1>1. PICK x : /\ IsNumber(x) /\ HasRoom(x) /\ BelowBase(x) /\ x.length >= 1
               /\ x.decimal_pos = p /\ Whole(x) = v /\ r = bignum_trim(x)
  BY DEF TrimmedFrom
<1>2. IsTrimmed(r) /\ MultipleOf(r, v, p) BY <1>1, TrimIs, TrimMultiple
<1>3. r.decimal_pos \in 0 .. p
  <2>1. x.decimal_pos >= 0 BY <1>1
  <2>2. QED BY <1>1, <2>1, TrimIs
<1>4. Whole(r) \in Nat
  <2>1. IsNumber(r) BY <1>2 DEF IsTrimmed, IsCut
  <2>2. QED BY <2>1, DigitsFromIs
<1>5. Size(r, p) = v
  <2> DEFINE k == p - r.decimal_pos
  <2>1. k \in Nat BY <1>3
  <2>2. Power(Base, k) \in Nat BY <2>1, PlaceIs
  <2>3. CASE v = 0
    <3>1. Whole(r) = 0 BY <1>2, <2>3 DEF MultipleOf
    <3>2. QED BY <2>2, <2>3, <3>1 DEF Size
  <2>4. CASE v # 0 BY <1>2, <2>4 DEF MultipleOf, Size
  <2>5. QED BY <2>3, <2>4
<1>6. QED BY <1>2, <1>3, <1>4, <1>5

-----------------------------------------------------------------------------
(* Sums, digit by digit *)

Column(a, b, p, i) == Aligned(a, i, p) + Aligned(b, i, p)
CarryStep(a, b, p, g, i) ==
  IF i = 0 THEN 0 ELSE (Column(a, b, p, i - 1) + g[i - 1]) \div Base
Carrying(a, b, p, n, g) == g = [i \in 0 .. n |-> CarryStep(a, b, p, g, i)]
Carry(a, b, p, n) == CHOOSE g : Carrying(a, b, p, n, g)
SumDigits(a, b, p, n) ==
  [i \in 1 .. n |-> (Column(a, b, p, i - 1) + Carry(a, b, p, n)[i - 1]) % Base]
SumPlaces(a, b) == Greater(a.decimal_pos, b.decimal_pos)
SumSpace(a, b) == SumLength(a, b) + SumPlaces(a, b) + 1

LEMMA AddAbsIs ==
  ASSUME NEW a, NEW b
  PROVE  bignum_add_abs(a, b) =
           IF ~bignum_ensure_capacity(SumSpace(a, b) + 1) THEN {}
           ELSE {bignum_trim(Number(FALSE, SumDigits(a, b, SumPlaces(a, b), SumSpace(a, b)),
                                    SumSpace(a, b), SumPlaces(a, b)))}
BY DEF bignum_add_abs, SumDigits, SumPlaces, SumSpace, Column, CarryStep, Carrying, Carry

LEMMA CarryingExists ==
  ASSUME NEW a, NEW b, NEW p, NEW n \in Nat
  PROVE  \E g : Carrying(a, b, p, n, g)
<1> DEFINE good == {k \in Nat : \E g : Carrying(a, b, p, k, g)}
<1>1. 0 \in good
  <2> DEFINE g == [i \in 0 .. 0 |-> 0]
  <2>1. \A i \in 0 .. 0 : CarryStep(a, b, p, g, i) = 0 BY DEF CarryStep
  <2>2. Carrying(a, b, p, 0, g) BY <2>1 DEF Carrying
  <2>3. QED BY <2>2
<1>2. ASSUME NEW k \in 0 .. n - 1, k \in good PROVE k + 1 \in good
  <2>1. k \in Nat /\ k + 1 \in Nat OBVIOUS
  <2>2. PICK g : Carrying(a, b, p, k, g) BY <1>2
  <2> DEFINE h == [i \in 0 .. k + 1 |-> IF i = k + 1 THEN CarryStep(a, b, p, g, i) ELSE g[i]]
  <2>3. ASSUME NEW i \in 0 .. k + 1 PROVE h[i] = CarryStep(a, b, p, h, i)
    <3>1. h[i] = CarryStep(a, b, p, g, i) BY <2>1, <2>2 DEF Carrying
    <3>2. i # 0 => h[i - 1] = g[i - 1] BY <2>1
    <3> HIDE DEF h
    <3>3. QED BY <3>1, <3>2 DEF CarryStep
  <2>4. h = [i \in 0 .. k + 1 |-> h[i]] OBVIOUS
  <2> HIDE DEF h
  <2>5. h = [i \in 0 .. k + 1 |-> CarryStep(a, b, p, h, i)] BY <2>3, <2>4
  <2>6. Carrying(a, b, p, k + 1, h) BY <2>5 DEF Carrying
  <2>7. QED BY <2>1, <2>6
<1> HIDE DEF good
<1>3. \A k \in 0 .. n : k \in good BY <1>1, <1>2, Arrays!UpTo
<1>4. n \in good BY <1>3
<1>5. QED BY <1>4 DEF good

LEMMA CarryRounds ==
  ASSUME NEW a, NEW b, NEW p, NEW n \in Nat
  PROVE  /\ Carry(a, b, p, n)[0] = 0
         /\ \A i \in 0 .. n - 1 :
              Carry(a, b, p, n)[i + 1] = (Column(a, b, p, i) + Carry(a, b, p, n)[i]) \div Base
<1> DEFINE g == Carry(a, b, p, n)
<1>1. \E h : Carrying(a, b, p, n, h) BY CarryingExists
<1>2. Carrying(a, b, p, n, g) BY <1>1 DEF Carry
<1> HIDE DEF g
<1>3. \A i \in 0 .. n : g[i] = CarryStep(a, b, p, g, i) BY <1>2 DEF Carrying
<1>4. g[0] = 0
  <2>1. 0 \in 0 .. n OBVIOUS
  <2>2. g[0] = CarryStep(a, b, p, g, 0) BY <1>3, <2>1
  <2>3. QED BY <2>2 DEF CarryStep
<1>5. ASSUME NEW i \in 0 .. n - 1 PROVE g[i + 1] = (Column(a, b, p, i) + g[i]) \div Base
  <2>1. i + 1 \in 0 .. n /\ i + 1 # 0 /\ i + 1 - 1 = i OBVIOUS
  <2>2. QED BY <1>3, <2>1 DEF CarryStep
<1>6. QED BY <1>4, <1>5 DEF g

LEMMA ColumnIs ==
  ASSUME NEW a, NEW b, IsNumber(a), IsNumber(b), NEW p \in Int, NEW i \in Int
  PROVE  Aligned(a, i, p) \in Nat /\ Aligned(b, i, p) \in Nat /\ Column(a, b, p, i) \in Nat
<1>1. i - p + a.decimal_pos \in Int /\ i - p + b.decimal_pos \in Int BY NumberFields
<1>2. Aligned(a, i, p) \in Nat BY <1>1, DigitIs DEF Aligned
<1>3. Aligned(b, i, p) \in Nat BY <1>1, DigitIs DEF Aligned
<1>4. QED BY <1>2, <1>3 DEF Column

(* In every place what is carried and the digit make the column.           *)
LEMMA SumDigitsAre ==
  ASSUME NEW a, NEW b, IsNumber(a), IsNumber(b), NEW p \in Int, NEW n \in Nat
  PROVE  /\ \A k \in 0 .. n : Carry(a, b, p, n)[k] \in Nat
         /\ SumDigits(a, b, p, n) \in Seq(Nat) /\ Len(SumDigits(a, b, p, n)) = n
         /\ \A i \in 1 .. n : SumDigits(a, b, p, n)[i] \in 0 .. Base - 1
         /\ \A i \in 0 .. n - 1 :
              Column(a, b, p, i) + Carry(a, b, p, n)[i]
                = Base * Carry(a, b, p, n)[i + 1] + SumDigits(a, b, p, n)[i + 1]
<1> DEFINE c == Carry(a, b, p, n)
           s == SumDigits(a, b, p, n)
           good == {k \in Nat : c[k] \in Nat}
<1>1. c[0] = 0 /\ \A i \in 0 .. n - 1 : c[i + 1] = (Column(a, b, p, i) + c[i]) \div Base
  BY CarryRounds
<1>2. \A i \in 1 .. n : s[i] = (Column(a, b, p, i - 1) + c[i - 1]) % Base BY DEF SumDigits
<1>3. s = [i \in 1 .. n |-> s[i]] BY DEF SumDigits
<1> HIDE DEF c, s
<1>4. 0 \in good BY <1>1
<1>5. ASSUME NEW k \in 0 .. n - 1, k \in good PROVE k + 1 \in good
  <2>1. k \in Nat /\ k + 1 \in Nat /\ k \in Int OBVIOUS
  <2> DEFINE t == Column(a, b, p, k) + c[k]
  <2>2. t \in Nat BY <1>5, <2>1, ColumnIs
  <2>3. c[k + 1] = t \div Base BY <1>1
  <2> HIDE DEF t
  <2>4. c[k + 1] \in Nat BY <2>2, <2>3, BaseIs, DivMod
  <2>5. QED BY <2>1, <2>4
<1>6. \A k \in 0 .. n : k \in good
  <2> HIDE DEF good
  <2>1. QED BY <1>4, <1>5, Arrays!UpTo
<1>7. \A k \in 0 .. n : c[k] \in Nat BY <1>6
<1>8. ASSUME NEW i \in 0 .. n - 1
      PROVE  /\ s[i + 1] \in 0 .. Base - 1
             /\ Column(a, b, p, i) + c[i] = Base * c[i + 1] + s[i + 1]
  <2>1. i \in Int /\ i \in 0 .. n /\ i + 1 \in 1 .. n /\ i + 1 - 1 = i OBVIOUS
  <2> DEFINE t == Column(a, b, p, i) + c[i]
  <2>2. t \in Nat BY <1>7, <2>1, ColumnIs
  <2>3. c[i + 1] = t \div Base BY <1>1
  <2>4. s[i + 1] = t % Base BY <1>2, <2>1
  <2> HIDE DEF t
  <2>5. s[i + 1] \in 0 .. Base - 1 /\ t = Base * c[i + 1] + s[i + 1]
    BY <2>2, <2>3, <2>4, BaseIs, DivMod
  <2>6. QED BY <2>5 DEF t
<1>9. \A i \in 1 .. n : s[i] \in 0 .. Base - 1
  <2> TAKE i \in 1 .. n
  <2> DEFINE j == i - 1
  <2>1. j \in 0 .. n - 1 /\ j + 1 = i OBVIOUS
  <2> HIDE DEF j
  <2>2. s[j + 1] \in 0 .. Base - 1 BY <1>8, <2>1
  <2>3. QED BY <2>1, <2>2
<1>10. s \in Seq(Nat) /\ Len(s) = n
  <2>1. \A i \in 1 .. n : s[i] \in Nat BY <1>9, BaseIs
  <2>2. s \in [1 .. n -> Nat] BY <1>3, <2>1
  <2>3. QED BY <2>2
<1>11. QED BY <1>7, <1>8, <1>9, <1>10 DEF c, s

(* Results have room for every digit of both numbers. *)
LEMMA SumSpaceIs ==
  ASSUME NEW a, NEW b, IsNumber(a), IsNumber(b)
  PROVE  /\ SumPlaces(a, b) \in Int
         /\ SumSpace(a, b) \in Nat /\ SumSpace(a, b) >= 1
<1> DEFINE p == SumPlaces(a, b)
           l == SumLength(a, b)
<1>1. a.length \in Nat /\ a.decimal_pos \in Int /\ b.length \in Nat /\ b.decimal_pos \in Int
  BY NumberFields
<1>2. p \in Int /\ p >= a.decimal_pos /\ p >= b.decimal_pos BY <1>1, GreaterIs DEF SumPlaces
<1>3. l = a.length - a.decimal_pos \/ l = b.length - b.decimal_pos BY DEF SumLength, IntLength
<1>4. SumSpace(a, b) = l + p + 1 BY DEF SumSpace
<1> HIDE DEF l, p
<1>5. SumSpace(a, b) \in Nat /\ SumSpace(a, b) >= 1 BY <1>1, <1>2, <1>3, <1>4
<1>6. QED BY <1>2, <1>5 DEF p

LEMMA AddAbsTrimmed ==
  ASSUME NEW a, NEW b, IsNumber(a), IsNumber(b), NEW r \in bignum_add_abs(a, b)
  PROVE  IsTrimmed(r)
<1> DEFINE p == SumPlaces(a, b)
           n == SumSpace(a, b)
           s == SumDigits(a, b, p, n)
           x == Number(FALSE, s, n, p)
<1>1. r = bignum_trim(x) BY AddAbsIs
<1>2. p \in Int /\ n \in Nat /\ n >= 1 BY SumSpaceIs
<1> HIDE DEF p, n
<1>3. s \in Seq(Nat) /\ Len(s) = n BY <1>2, SumDigitsAre
<1> HIDE DEF s
<1>4. IsNumber(x) /\ x.digits = s /\ x.length = n
  <2> DEFINE plus == FALSE
  <2>1. plus \in BOOLEAN /\ x = Number(plus, s, n, p) OBVIOUS
  <2> HIDE DEF x, plus
  <2>2. QED BY <1>2, <1>3, <2>1, NumberIs
<1> HIDE DEF x
<1>5. HasRoom(x) BY <1>2, <1>3, <1>4 DEF HasRoom
<1>6. QED BY <1>1, <1>4, <1>5, TrimIs

(* The digits of a sum, read up to any place, and what is carried there are *)
(* the sum of those of the two numbers; nothing is carried out of the last. *)
LEMMA SumReads ==
  ASSUME NEW a, NEW b, IsNumber(a), IsNumber(b), BelowBase(a), BelowBase(b),
         NEW p \in Int, NEW n \in Nat, n >= 1,
         NEW d, \A i \in 0 .. n - 1 : d[i] = SumDigits(a, b, p, n)[i + 1],
         NEW j \in Nat, NEW k \in Nat,
         j = Read(AlignedDigits(a, p, n), n), k = Read(AlignedDigits(b, p, n), n),
         j < Power(Base, n - 1), k < Power(Base, n - 1)
  PROVE  Read(d, n) = j + k
<1> DEFINE s == SumDigits(a, b, p, n)
           c == Carry(a, b, p, n)
           u == AlignedDigits(a, p, n)
           v == AlignedDigits(b, p, n)
<1>1. /\ \A i \in 0 .. n : c[i] \in Nat
      /\ \A i \in 1 .. n : s[i] \in 0 .. Base - 1
      /\ \A i \in 0 .. n - 1 : Column(a, b, p, i) + c[i] = Base * c[i + 1] + s[i + 1]
  <2> HIDE DEF s, c
  <2>1. /\ \A i \in 0 .. n : Carry(a, b, p, n)[i] \in Nat
        /\ \A i \in 1 .. n : SumDigits(a, b, p, n)[i] \in 0 .. Base - 1
        /\ \A i \in 0 .. n - 1 :
              Column(a, b, p, i) + Carry(a, b, p, n)[i]
                = Base * Carry(a, b, p, n)[i + 1] + SumDigits(a, b, p, n)[i + 1]
    BY SumDigitsAre
  <2>2. QED BY <2>1 DEF s, c
<1>2. c[0] = 0 BY CarryRounds
<1>3. \A i \in 0 .. n - 1 : u[i] = Aligned(a, i, p) /\ Aligned(a, i, p) \in 0 .. Base - 1
  BY AlignedAre
<1>4. \A i \in 0 .. n - 1 : v[i] = Aligned(b, i, p) /\ Aligned(b, i, p) \in 0 .. Base - 1
  BY AlignedAre
<1>5. \A i \in 0 .. n - 1 : d[i] = s[i + 1] OBVIOUS
<1>6. j = Read(u, n) /\ k = Read(v, n) OBVIOUS
<1> HIDE DEF s, c, u, v
<1>7. \A i \in 0 .. n - 1 : Column(a, b, p, i) = u[i] + v[i] BY <1>3, <1>4 DEF Column
<1>8. \A i \in 0 .. n - 1 : /\ u[i] \in 0 .. Base - 1 /\ v[i] \in 0 .. Base - 1
                            /\ d[i] \in 0 .. Base - 1
  <2> TAKE i \in 0 .. n - 1
  <2>1. i + 1 \in 1 .. n OBVIOUS
  <2>2. QED BY <1>1, <1>3, <1>4, <1>5, <2>1
<1>10. \A i \in 0 .. n : /\ Read(u, i) \in Nat /\ Read(v, i) \in Nat
                         /\ Read(d, i) \in Nat /\ Read(d, i) < Power(Base, i)
  <2>1. \A i \in 0 .. n - 1 : u[i] \in 0 .. Base - 1 BY <1>8
  <2>2. \A i \in 0 .. n - 1 : v[i] \in 0 .. Base - 1 BY <1>8
  <2>3. \A i \in 0 .. n - 1 : d[i] \in 0 .. Base - 1 BY <1>8
  <2>4. \A i \in 0 .. n : Read(u, i) \in Nat BY <2>1, ReadBound
  <2>5. \A i \in 0 .. n : Read(v, i) \in Nat BY <2>2, ReadBound
  <2>6. \A i \in 0 .. n : Read(d, i) \in Nat /\ Read(d, i) < Power(Base, i) BY <2>3, ReadBound
  <2>7. QED BY <2>4, <2>5, <2>6
<1> DEFINE good == {i \in Nat : Read(d, i) + c[i] * Power(Base, i) = Read(u, i) + Read(v, i)}
<1>11. 0 \in good
  <2>1. Power(Base, 0) = 1 /\ Read(d, 0) = 0 /\ Read(u, 0) = 0 /\ Read(v, 0) = 0
    BY BaseIs, PowerIs, ReadIs
  <2>2. QED BY <1>2, <2>1
<1>12. ASSUME NEW i \in 0 .. n - 1, i \in good PROVE i + 1 \in good
  <2>1. i \in Nat /\ i + 1 \in Nat /\ i \in 0 .. n /\ i + 1 \in 0 .. n OBVIOUS
  <2> DEFINE w == Power(Base, i)
             x == Read(u, i)
             y == Read(v, i)
             z == Read(d, i)
             e == u[i]
             f == v[i]
             g == d[i]
             m == c[i]
             q == c[i + 1]
  <2>2. w \in Nat /\ Base \in Nat /\ Power(Base, i + 1) = Base * w BY <2>1, PlaceIs, BaseIs
  <2>3. x \in Nat /\ y \in Nat /\ z \in Nat BY <1>10, <2>1
  <2>4. m \in Nat /\ q \in Nat BY <1>1, <2>1
  <2>5. e \in Nat /\ f \in Nat /\ g \in Nat BY <1>8, BaseIs
  <2>6. e + f + m = Base * q + g BY <1>1, <1>5, <1>7
  <2>7. z + m * w = x + y BY <1>12
  <2>8. /\ Read(u, i + 1) = x + e * w
        /\ Read(v, i + 1) = y + f * w
        /\ Read(d, i + 1) = z + g * w
    BY <2>1, ReadIs
  <2> HIDE DEF w, x, y, z, e, f, g, m, q
  <2>9. (e + f + m) * w = e * w + f * w + m * w BY <2>2, <2>4, <2>5
  <2>10. (Base * q + g) * w = q * (Base * w) + g * w BY <2>2, <2>4, <2>5
  <2>11. e * w \in Nat /\ f * w \in Nat /\ m * w \in Nat /\ g * w \in Nat /\ q * (Base * w) \in Nat
    BY <2>2, <2>4, <2>5
  <2>12. (z + g * w) + q * (Base * w) = (x + e * w) + (y + f * w)
    BY <2>3, <2>6, <2>7, <2>9, <2>10, <2>11
  <2>13. Read(d, i + 1) + c[i + 1] * Power(Base, i + 1) = Read(u, i + 1) + Read(v, i + 1)
    BY <2>2, <2>8, <2>12 DEF q
  <2>14. QED BY <2>1, <2>13
<1>13. \A i \in 0 .. n : i \in good
  <2> HIDE DEF good
  <2>1. QED BY <1>11, <1>12, Arrays!UpTo
<1>14. Read(d, n) + c[n] * Power(Base, n) = j + k
  <2>1. n \in 0 .. n OBVIOUS
  <2>2. QED BY <1>6, <1>13, <2>1
<1>15. c[n] = 0
  <2> DEFINE w == Power(Base, n - 1)
             q == c[n]
             z == Read(d, n)
  <2>1. n - 1 \in Nat /\ n \in 0 .. n /\ n - 1 + 1 = n OBVIOUS
  <2>2. w \in Nat /\ Power(Base, n) = Base * w
    <3> DEFINE m == n - 1
    <3>1. m \in Nat /\ m + 1 = n BY <2>1
    <3> HIDE DEF m
    <3>2. Power(Base, m) \in Nat /\ Power(Base, m + 1) = Base * Power(Base, m) BY <3>1, PlaceIs
    <3>3. QED BY <3>1, <3>2 DEF m
  <2>3. j < w /\ k < w OBVIOUS
  <2>4. q \in Nat /\ z \in Nat BY <1>1, <1>10, <2>1
  <2>5. z + q * (Base * w) = j + k BY <1>14, <2>2
  <2> HIDE DEF w, q, z
  <2>6. Base * w >= w + w
    <3>1. (Base - 2) * w \in Nat /\ (Base - 2) * w = Base * w - (w + w) BY <2>2, BaseIs
    <3>2. QED BY <2>2, <3>1, BaseIs
  <2>7. SUFFICES ASSUME q >= 1 PROVE FALSE BY <2>4 DEF q
  <2>8. q * (Base * w) >= Base * w
    <3> DEFINE t == Base * w
    <3>1. t \in Nat BY <2>2, BaseIs
    <3> HIDE DEF t
    <3>2. (q - 1) * t \in Nat /\ (q - 1) * t = q * t - t BY <2>4, <2>7, <3>1
    <3>3. q * t >= t BY <2>4, <3>1, <3>2
    <3>4. QED BY <3>3 DEF t
  <2>9. q * (Base * w) \in Nat /\ Base * w \in Nat BY <2>2, <2>4, BaseIs
  <2>10. QED BY <2>2, <2>3, <2>4, <2>5, <2>6, <2>8, <2>9
<1>16. Power(Base, n) \in Nat /\ Read(d, n) \in Nat
  <2>1. n \in 0 .. n OBVIOUS
  <2>2. QED BY <1>10, <2>1, PlaceIs
<1>17. QED BY <1>14, <1>15, <1>16

(* The sum of two numbers without zeros behind the point only. *)
LEMMA AddAbsSize ==
  ASSUME NEW a, NEW b, IsFraction(a), IsFraction(b), IntLength(a) >= 0, IntLength(b) >= 0,
         NEW r \in bignum_add_abs(a, b)
  PROVE  TrimmedFrom(r, Size(a, SumPlaces(a, b)) + Size(b, SumPlaces(a, b)), SumPlaces(a, b))
<1> DEFINE p == SumPlaces(a, b)
           n == SumSpace(a, b)
           s == SumDigits(a, b, p, n)
           d == [i \in 0 .. n - 1 |-> s[i + 1]]
           plus == FALSE
<1>1. /\ IsNumber(a) /\ BelowBase(a) /\ IntLength(a) \in Int /\ a.decimal_pos \in Nat
      /\ IsNumber(b) /\ BelowBase(b) /\ IntLength(b) \in Int /\ b.decimal_pos \in Nat
  BY FractionIs
<1>2. p \in Nat /\ a.decimal_pos <= p /\ b.decimal_pos <= p BY <1>1 DEF SumPlaces, Greater
<1>3. n \in Nat /\ n >= 1 /\ n - 1 \in Nat /\ IntLength(a) + p <= n - 1 /\ IntLength(b) + p <= n - 1
  <2>1. SumLength(a, b) \in Int /\ SumLength(a, b) >= IntLength(a) /\ SumLength(a, b) >= IntLength(b)
    BY <1>1 DEF SumLength, UnsignedGreater
  <2>2. n = SumLength(a, b) + p + 1 BY DEF SumSpace
  <2> HIDE DEF n, p
  <2>3. QED BY <1>1, <1>2, <2>1, <2>2
<1>4. r = bignum_trim(Number(plus, s, n, p)) BY AddAbsIs
<1>5. plus \in BOOLEAN OBVIOUS
<1> HIDE DEF p, n, plus
<1>6. s \in Seq(Nat) /\ Len(s) = n /\ \A i \in 1 .. n : s[i] \in 0 .. Base - 1
  BY <1>1, <1>2, <1>3, SumDigitsAre
<1>7. \A i \in 0 .. n - 1 : d[i] = s[i + 1] OBVIOUS
<1> HIDE DEF d
<1>8. Read(d, n) = Size(a, p) + Size(b, p)
  <2> DEFINE j == Read(AlignedDigits(a, p, n), n)
             k == Read(AlignedDigits(b, p, n), n)
             m == n - 1
  <2>1. j = Size(a, p) /\ k = Size(b, p) BY <1>1, <1>2, <1>3, AlignedReads
  <2>2. m \in Nat /\ m >= IntLength(a) + p /\ m >= IntLength(b) + p BY <1>3
  <2> HIDE DEF m
  <2>3. Size(a, p) \in Nat /\ Size(a, p) < Power(Base, m) BY <1>2, <2>2, SizeIs
  <2>4. Size(b, p) \in Nat /\ Size(b, p) < Power(Base, m) BY <1>2, <2>2, SizeIs
  <2>5. j \in Nat /\ k \in Nat /\ j < Power(Base, n - 1) /\ k < Power(Base, n - 1)
    BY <2>1, <2>3, <2>4 DEF m
  <2>6. j = Read(AlignedDigits(a, p, n), n) /\ k = Read(AlignedDigits(b, p, n), n) OBVIOUS
  <2> HIDE DEF j, k
  <2>7. Read(d, n) = j + k BY <1>1, <1>2, <1>3, <1>7, <2>5, <2>6, SumReads
  <2>8. QED BY <2>1, <2>7
<1> HIDE DEF s
<1>9. TrimmedFrom(r, Read(d, n), p)
  <2>1. /\ plus \in BOOLEAN /\ s \in Seq(Nat) /\ n \in Nat /\ n >= 1 /\ Len(s) = n /\ p \in Int
        /\ \A i \in 1 .. n : s[i] \in 0 .. Base - 1
        /\ \A i \in 0 .. n - 1 : d[i] = s[i + 1]
    BY <1>2, <1>3, <1>5, <1>6, <1>7
  <2>2. QED BY <1>4, <2>1, TrimmedFromBy
<1>10. QED BY <1>8, <1>9 DEF p

(* The sum of whole numbers. *)
LEMMA AddAbsExact ==
  ASSUME NEW a, NEW b, IsOperand(a), IsOperand(b), NEW r \in bignum_add_abs(a, b)
  PROVE  IsTrimmed(r) /\ IsWhole(r) /\ Whole(r) = Whole(a) + Whole(b)
<1>1. IsFraction(a) /\ Size(a, 0) = Whole(a) /\ IsFraction(b) /\ Size(b, 0) = Whole(b)
  BY OperandIsFraction
<1>2. /\ a.decimal_pos = 0 /\ b.decimal_pos = 0 /\ IntLength(a) >= 0 /\ IntLength(b) >= 0
  BY OperandIs
<1>3. SumPlaces(a, b) = 0 BY <1>2 DEF SumPlaces, Greater
<1> DEFINE p == SumPlaces(a, b)
           v == Size(a, p) + Size(b, p)
<1>4. TrimmedFrom(r, v, p) BY <1>1, <1>2, AddAbsSize
<1>5. p = 0 /\ v = Whole(a) + Whole(b) BY <1>1, <1>3
<1> HIDE DEF p, v
<1>6. TrimmedFrom(r, v, 0) BY <1>4, <1>5
<1>7. QED BY <1>5, <1>6, TrimmedWhole

-----------------------------------------------------------------------------
(* Differences, digit by digit *)

Gap(a, b, p, i) == Aligned(a, i, p) - Aligned(b, i, p)
BorrowStep(a, b, p, g, i) == IF i > 0 /\ Gap(a, b, p, i - 1) < g[i - 1] THEN 1 ELSE 0
Borrowing(a, b, p, n, g) == g = [i \in 0 .. n |-> BorrowStep(a, b, p, g, i)]
Borrow(a, b, p, n) == CHOOSE g : Borrowing(a, b, p, n, g)
DifferenceDigits(a, b, p, n) ==
  [i \in 1 .. n |-> (Gap(a, b, p, i - 1) - Borrow(a, b, p, n)[i - 1]) % Base]
DifferenceSpace(a, b) == Greater(a.length, SumPlaces(a, b))

LEMMA SubAbsIs ==
  ASSUME NEW a, NEW b
  PROVE  bignum_sub_abs(a, b) =
           IF ~bignum_ensure_capacity(DifferenceSpace(a, b) + 1) THEN {}
           ELSE {bignum_trim(Number(FALSE,
                   DifferenceDigits(a, b, SumPlaces(a, b), DifferenceSpace(a, b)),
                   DifferenceSpace(a, b), SumPlaces(a, b)))}
BY DEF bignum_sub_abs, DifferenceDigits, SumPlaces, DifferenceSpace, Gap, BorrowStep, Borrowing,
       Borrow

LEMMA BorrowingExists ==
  ASSUME NEW a, NEW b, NEW p, NEW n \in Nat
  PROVE  \E g : Borrowing(a, b, p, n, g)
<1> DEFINE good == {k \in Nat : \E g : Borrowing(a, b, p, k, g)}
<1>1. 0 \in good
  <2> DEFINE g == [i \in 0 .. 0 |-> 0]
  <2>1. \A i \in 0 .. 0 : BorrowStep(a, b, p, g, i) = 0 BY DEF BorrowStep
  <2>2. Borrowing(a, b, p, 0, g) BY <2>1 DEF Borrowing
  <2>3. QED BY <2>2
<1>2. ASSUME NEW k \in 0 .. n - 1, k \in good PROVE k + 1 \in good
  <2>1. k \in Nat /\ k + 1 \in Nat OBVIOUS
  <2>2. PICK g : Borrowing(a, b, p, k, g) BY <1>2
  <2> DEFINE h == [i \in 0 .. k + 1 |-> IF i = k + 1 THEN BorrowStep(a, b, p, g, i) ELSE g[i]]
  <2>3. ASSUME NEW i \in 0 .. k + 1 PROVE h[i] = BorrowStep(a, b, p, h, i)
    <3>1. h[i] = BorrowStep(a, b, p, g, i) BY <2>1, <2>2 DEF Borrowing
    <3>2. i > 0 => h[i - 1] = g[i - 1] BY <2>1
    <3> HIDE DEF h
    <3>3. QED BY <3>1, <3>2 DEF BorrowStep
  <2>4. h = [i \in 0 .. k + 1 |-> h[i]] OBVIOUS
  <2> HIDE DEF h
  <2>5. h = [i \in 0 .. k + 1 |-> BorrowStep(a, b, p, h, i)] BY <2>3, <2>4
  <2>6. Borrowing(a, b, p, k + 1, h) BY <2>5 DEF Borrowing
  <2>7. QED BY <2>1, <2>6
<1> HIDE DEF good
<1>3. \A k \in 0 .. n : k \in good BY <1>1, <1>2, Arrays!UpTo
<1>4. n \in good BY <1>3
<1>5. QED BY <1>4 DEF good

LEMMA BorrowRounds ==
  ASSUME NEW a, NEW b, NEW p, NEW n \in Nat
  PROVE  /\ Borrow(a, b, p, n)[0] = 0
         /\ \A i \in 0 .. n : Borrow(a, b, p, n)[i] \in {0, 1}
         /\ \A i \in 0 .. n - 1 :
              Borrow(a, b, p, n)[i + 1] = IF Gap(a, b, p, i) < Borrow(a, b, p, n)[i] THEN 1 ELSE 0
<1> DEFINE g == Borrow(a, b, p, n)
<1>1. \E h : Borrowing(a, b, p, n, h) BY BorrowingExists
<1>2. Borrowing(a, b, p, n, g) BY <1>1 DEF Borrow
<1> HIDE DEF g
<1>3. \A i \in 0 .. n : g[i] = BorrowStep(a, b, p, g, i) BY <1>2 DEF Borrowing
<1>4. g[0] = 0
  <2>1. 0 \in 0 .. n OBVIOUS
  <2>2. g[0] = BorrowStep(a, b, p, g, 0) BY <1>3, <2>1
  <2>3. QED BY <2>2 DEF BorrowStep
<1>5. ASSUME NEW i \in 0 .. n - 1
      PROVE g[i + 1] = IF Gap(a, b, p, i) < g[i] THEN 1 ELSE 0
  <2>1. i + 1 \in 0 .. n /\ i + 1 > 0 /\ i + 1 - 1 = i OBVIOUS
  <2>2. QED BY <1>3, <2>1 DEF BorrowStep
<1>6. \A i \in 0 .. n : g[i] \in {0, 1} BY <1>3 DEF BorrowStep
<1>7. QED BY <1>4, <1>5, <1>6 DEF g

LEMMA DifferenceDigitsAre ==
  ASSUME NEW a, NEW b, IsNumber(a), IsNumber(b), NEW p \in Int, NEW n \in Nat
  PROVE  /\ DifferenceDigits(a, b, p, n) \in Seq(Nat) /\ Len(DifferenceDigits(a, b, p, n)) = n
         /\ \A i \in 1 .. n : DifferenceDigits(a, b, p, n)[i] \in 0 .. Base - 1
<1> DEFINE c == Borrow(a, b, p, n)
           s == DifferenceDigits(a, b, p, n)
<1>1. \A i \in 0 .. n : c[i] \in {0, 1} BY BorrowRounds
<1>2. \A i \in 1 .. n : s[i] = (Gap(a, b, p, i - 1) - c[i - 1]) % Base BY DEF DifferenceDigits
<1>3. s = [i \in 1 .. n |-> s[i]] BY DEF DifferenceDigits
<1> HIDE DEF c, s
<1>4. \A i \in 1 .. n : s[i] \in 0 .. Base - 1
  <2> TAKE i \in 1 .. n
  <2> DEFINE j == i - 1
             t == Gap(a, b, p, j) - c[j]
  <2>1. j \in Int /\ j \in 0 .. n OBVIOUS
  <2>2. s[i] = t % Base BY <1>2
  <2> HIDE DEF j
  <2>3. Gap(a, b, p, j) \in Int BY <2>1, ColumnIs DEF Gap
  <2>4. t \in Int BY <1>1, <2>1, <2>3
  <2> HIDE DEF t
  <2>5. t % Base \in 0 .. Base - 1
    <3>1. Base \in Nat \ {0} BY BaseIs
    <3>2. QED BY <2>4, <3>1, DivModInt
  <2>6. QED BY <2>2, <2>5
<1>5. \A i \in 1 .. n : s[i] \in Nat BY <1>4, BaseIs
<1>6. s \in [1 .. n -> Nat] BY <1>3, <1>5
<1>7. s \in Seq(Nat) /\ Len(s) = n BY <1>6
<1>8. QED BY <1>4, <1>7 DEF s

LEMMA SubAbsTrimmed ==
  ASSUME NEW a, NEW b, IsNumber(a), IsNumber(b), NEW r \in bignum_sub_abs(a, b)
  PROVE  IsTrimmed(r)
<1> DEFINE p == SumPlaces(a, b)
           n == DifferenceSpace(a, b)
           s == DifferenceDigits(a, b, p, n)
           x == Number(FALSE, s, n, p)
<1>1. r = bignum_trim(x) BY SubAbsIs
<1>2. p \in Int /\ n \in Nat
  <2>1. a.length \in Nat /\ p \in Int BY NumberFields, SumSpaceIs
  <2>2. n = Greater(a.length, p) BY DEF DifferenceSpace
  <2> HIDE DEF n, p
  <2>3. QED BY <2>1, <2>2 DEF Greater
<1> HIDE DEF p, n
<1>3. s \in Seq(Nat) /\ Len(s) = n BY <1>2, DifferenceDigitsAre
<1> HIDE DEF s
<1>4. IsNumber(x) /\ x.digits = s /\ x.length = n
  <2> DEFINE plus == FALSE
  <2>1. plus \in BOOLEAN /\ x = Number(plus, s, n, p) OBVIOUS
  <2> HIDE DEF x, plus
  <2>2. QED BY <1>2, <1>3, <2>1, NumberIs
<1> HIDE DEF x
<1>5. HasRoom(x) BY <1>2, <1>3, <1>4 DEF HasRoom
<1>6. QED BY <1>1, <1>4, <1>5, TrimIs

(* Of two whole numbers the larger has no fewer digits. *)
LEMMA LargerIsLonger ==
  ASSUME NEW a, NEW b, IsOperand(a), IsOperand(b), Whole(b) <= Whole(a)
  PROVE  b.length <= a.length
<1>1. /\ a.length \in Nat /\ b.length \in Nat /\ a.length >= 1 /\ b.length >= 1
      /\ Whole(a) \in Nat /\ Whole(b) \in Nat /\ Whole(a) < Power(Base, a.length)
      /\ b.length >= 2 => Whole(b) >= Power(Base, b.length - 1)
  BY OperandIs
<1>2. SUFFICES ASSUME a.length < b.length PROVE FALSE BY <1>1
<1> DEFINE k == a.length
           n == b.length - 1
<1>3. k \in Nat /\ n \in Nat /\ k <= n /\ b.length >= 2 BY <1>1, <1>2
<1>4. Whole(b) >= Power(Base, n) BY <1>1, <1>3
<1>5. Whole(a) < Power(Base, k) BY <1>1
<1> HIDE DEF k, n
<1>6. Power(Base, k) <= Power(Base, n) /\ Power(Base, k) \in Nat /\ Power(Base, n) \in Nat
  BY <1>3, PlacesGrow, PlaceIs
<1>7. QED BY <1>1, <1>4, <1>5, <1>6

(* Digit by digit, a difference and the smaller number are the larger. *)
LEMMA DifferenceReads ==
  ASSUME NEW a, NEW b, IsNumber(a), IsNumber(b), BelowBase(a), BelowBase(b),
         NEW p \in Int, NEW n \in Nat,
         NEW d, \A i \in 0 .. n - 1 : d[i] = DifferenceDigits(a, b, p, n)[i + 1],
         NEW i \in Nat, NEW j \in Nat,
         i = Read(AlignedDigits(a, p, n), n), j = Read(AlignedDigits(b, p, n), n), j <= i
  PROVE  Read(d, n) = i - j
<1> DEFINE s == DifferenceDigits(a, b, p, n)
           c == Borrow(a, b, p, n)
           u == AlignedDigits(a, p, n)
           v == AlignedDigits(b, p, n)
<1>1. \A k \in 0 .. n - 1 : s[k + 1] = (Gap(a, b, p, k) - c[k]) % Base
  <2> TAKE k \in 0 .. n - 1
  <2>1. k + 1 \in 1 .. n /\ k + 1 - 1 = k OBVIOUS
  <2>2. QED BY <2>1 DEF DifferenceDigits
<1>2. \A k \in 1 .. n : s[k] \in 0 .. Base - 1 BY DifferenceDigitsAre
<1>3. \A k \in 0 .. n - 1 : u[k] = Aligned(a, k, p) /\ Aligned(a, k, p) \in 0 .. Base - 1
  BY AlignedAre
<1>4. \A k \in 0 .. n - 1 : v[k] = Aligned(b, k, p) /\ Aligned(b, k, p) \in 0 .. Base - 1
  BY AlignedAre
<1>5. \A k \in 0 .. n - 1 : d[k] = s[k + 1] OBVIOUS
<1>6. /\ c[0] = 0
      /\ \A k \in 0 .. n : c[k] \in {0, 1}
      /\ \A k \in 0 .. n - 1 : c[k + 1] = IF Gap(a, b, p, k) < c[k] THEN 1 ELSE 0
  <2> HIDE DEF s, u, v
  <2>1. QED BY BorrowRounds
<1>7. i = Read(u, n) /\ j = Read(v, n) OBVIOUS
<1> HIDE DEF s, c, u, v
<1>8. \A k \in 0 .. n - 1 : Gap(a, b, p, k) = u[k] - v[k] BY <1>3, <1>4 DEF Gap
<1>9. \A k \in 0 .. n - 1 : d[k] = (Gap(a, b, p, k) - c[k]) % Base BY <1>1, <1>5
<1>10. \A k \in 0 .. n - 1 : /\ u[k] \in 0 .. Base - 1 /\ v[k] \in 0 .. Base - 1
                             /\ d[k] \in 0 .. Base - 1
  <2> TAKE k \in 0 .. n - 1
  <2>1. k + 1 \in 1 .. n OBVIOUS
  <2>2. QED BY <1>2, <1>3, <1>4, <1>5, <2>1
<1>12. \A k \in 0 .. n : /\ Read(u, k) \in Nat /\ Read(v, k) \in Nat
                         /\ Read(d, k) \in Nat /\ Read(d, k) < Power(Base, k)
  <2>1. \A k \in 0 .. n - 1 : u[k] \in 0 .. Base - 1 BY <1>10
  <2>2. \A k \in 0 .. n - 1 : v[k] \in 0 .. Base - 1 BY <1>10
  <2>3. \A k \in 0 .. n - 1 : d[k] \in 0 .. Base - 1 BY <1>10
  <2>4. \A k \in 0 .. n : Read(u, k) \in Nat BY <2>1, ReadBound
  <2>5. \A k \in 0 .. n : Read(v, k) \in Nat BY <2>2, ReadBound
  <2>6. \A k \in 0 .. n : Read(d, k) \in Nat /\ Read(d, k) < Power(Base, k) BY <2>3, ReadBound
  <2>7. QED BY <2>4, <2>5, <2>6
<1> DEFINE good == {k \in Nat : Read(d, k) + Read(v, k) = Read(u, k) + c[k] * Power(Base, k)}
<1>13. 0 \in good
  <2>1. Power(Base, 0) = 1 /\ Read(d, 0) = 0 /\ Read(u, 0) = 0 /\ Read(v, 0) = 0
    BY BaseIs, PowerIs, ReadIs
  <2>2. QED BY <1>6, <2>1
<1>14. ASSUME NEW k \in 0 .. n - 1, k \in good PROVE k + 1 \in good
  <2>1. k \in Nat /\ k + 1 \in Nat /\ k \in 0 .. n /\ k + 1 \in 0 .. n OBVIOUS
  <2> DEFINE w == Power(Base, k)
             x == Read(u, k)
             y == Read(v, k)
             z == Read(d, k)
             e == u[k]
             f == v[k]
             g == d[k]
             m == c[k]
             q == c[k + 1]
  <2>2. w \in Nat /\ Base \in Nat /\ Base > 1 /\ Power(Base, k + 1) = Base * w
    BY <2>1, PlaceIs, BaseIs
  <2>3. x \in Nat /\ y \in Nat /\ z \in Nat BY <1>12, <2>1
  <2>4. m \in {0, 1} /\ q \in {0, 1} BY <1>6, <2>1
  <2>5. e \in 0 .. Base - 1 /\ f \in 0 .. Base - 1 /\ g \in 0 .. Base - 1 BY <1>10
  <2>6. g = (e - f - m) % Base /\ q = IF e - f < m THEN 1 ELSE 0
    <3>1. Gap(a, b, p, k) = e - f BY <1>8
    <3>2. g = (Gap(a, b, p, k) - c[k]) % Base BY <1>9
    <3>3. q = IF Gap(a, b, p, k) < c[k] THEN 1 ELSE 0 BY <1>6
    <3>4. QED BY <3>1, <3>2, <3>3
  <2>7. z + y = x + m * w BY <1>14
  <2>8. /\ Read(u, k + 1) = x + e * w
        /\ Read(v, k + 1) = y + f * w
        /\ Read(d, k + 1) = z + g * w
    BY <2>1, ReadIs
  <2> HIDE DEF w, x, y, z, e, f, g, m, q
  <2>9. g + f + m = e + Base * q
    <3> DEFINE t == e - f - m
               h == t \div Base
    <3>1. t \in Int /\ Base \in Nat \ {0} /\ g = t % Base BY <2>2, <2>4, <2>5, <2>6
    <3> HIDE DEF t
    <3>2. h \in Int /\ t = Base * h + g BY <3>1, DivModInt
    <3> HIDE DEF h
    <3>3. t \in 0 .. Base - 1 \/ t \in -Base .. -1 BY <2>2, <2>4, <2>5 DEF t
    <3>4. (t < 0 <=> q = 1) /\ (q = 0 <=> t >= 0) BY <2>2, <2>4, <2>5, <2>6 DEF t
    <3>5. h = -q
      <4>1. h >= 1 => Base * h >= Base
        <5>1. h >= 1 => (h - 1) * Base \in Nat /\ (h - 1) * Base = Base * h - Base BY <2>2, <3>2
        <5>2. QED BY <2>2, <3>2, <5>1
      <4>2. h <= -2 => Base * h <= -(Base + Base)
        <5>1. h <= -2 => (-2 - h) * Base \in Nat /\ (-2 - h) * Base = -(Base * h) - (Base + Base)
          BY <2>2, <3>2
        <5>2. Base * h \in Int BY <2>2, <3>2
        <5>3. QED BY <2>2, <3>2, <5>1, <5>2
      <4>3. Base * h \in Int BY <2>2, <3>2
      <4>4. h <= 0 /\ h >= -1 BY <2>2, <2>5, <3>2, <3>3, <4>1, <4>2, <4>3
      <4>5. h = 0 => t >= 0 BY <2>2, <2>5, <3>2
      <4>6. h = -1 => t < 0 BY <2>2, <2>5, <3>2
      <4>7. QED BY <2>4, <3>2, <3>4, <4>4, <4>5, <4>6
    <3>6. Base * h = -(Base * q) BY <2>2, <2>4, <3>5
    <3>7. Base * q \in Int BY <2>2, <2>4
    <3>8. QED BY <2>2, <2>4, <2>5, <3>2, <3>6, <3>7 DEF t
  <2>10. e \in Nat /\ f \in Nat /\ g \in Nat /\ m \in Nat /\ q \in Nat BY <2>2, <2>4, <2>5
  <2>11. (g + f + m) * w = g * w + f * w + m * w BY <2>2, <2>10
  <2>12. (e + Base * q) * w = e * w + q * (Base * w) BY <2>2, <2>10
  <2>13. e * w \in Nat /\ f * w \in Nat /\ m * w \in Nat /\ g * w \in Nat /\ q * (Base * w) \in Nat
    BY <2>2, <2>10
  <2>14. (z + g * w) + (y + f * w) = (x + e * w) + q * (Base * w)
    BY <2>3, <2>7, <2>9, <2>11, <2>12, <2>13
  <2>15. Read(d, k + 1) + Read(v, k + 1) = Read(u, k + 1) + c[k + 1] * Power(Base, k + 1)
    BY <2>2, <2>8, <2>14 DEF q
  <2>16. QED BY <2>1, <2>15
<1>15. \A k \in 0 .. n : k \in good
  <2> HIDE DEF good
  <2>1. QED BY <1>13, <1>14, Arrays!UpTo
<1>16. Read(d, n) + j = i + c[n] * Power(Base, n)
  <2>1. n \in 0 .. n OBVIOUS
  <2>2. QED BY <1>7, <1>15, <2>1
<1>17. Read(d, n) = i - j
  <2> DEFINE w == Power(Base, n)
             q == c[n]
             z == Read(d, n)
  <2>1. n \in 0 .. n OBVIOUS
  <2>2. w \in Nat /\ q \in {0, 1} /\ z \in Nat /\ z < w BY <1>6, <1>12, <2>1, PlaceIs
  <2>3. z + j = i + q * w BY <1>16
  <2> HIDE DEF w, q, z
  <2>4. q = 1 => q * w = w BY <2>2
  <2>5. q = 0 BY <2>2, <2>3, <2>4
  <2>6. z = i - j BY <2>2, <2>3, <2>5
  <2>7. QED BY <2>6 DEF z
<1>18. QED BY <1>17

(* The difference of two numbers, if the larger has all the places and is   *)
(* at least as long before the point.                                       *)
LEMMA SubAbsSize ==
  ASSUME NEW a, NEW b, IsFraction(a), IsFraction(b), b.decimal_pos <= a.decimal_pos,
         IntLength(a) > 0, IntLength(b) <= IntLength(a),
         Size(b, a.decimal_pos) <= Size(a, a.decimal_pos), NEW r \in bignum_sub_abs(a, b)
  PROVE  TrimmedFrom(r, Size(a, a.decimal_pos) - Size(b, a.decimal_pos), a.decimal_pos)
<1> DEFINE p == a.decimal_pos
           n == a.length
           s == DifferenceDigits(a, b, p, n)
           d == [i \in 0 .. n - 1 |-> s[i + 1]]
           plus == FALSE
<1>1. /\ IsNumber(a) /\ BelowBase(a) /\ IntLength(a) \in Int /\ p \in Nat /\ n \in Nat
      /\ IsNumber(b) /\ BelowBase(b) /\ IntLength(b) \in Int /\ b.decimal_pos \in Nat
      /\ n = IntLength(a) + p
  BY FractionIs
<1>2. SumPlaces(a, b) = p BY <1>1 DEF SumPlaces, Greater
<1>3. DifferenceSpace(a, b) = n BY <1>1, <1>2 DEF DifferenceSpace, Greater
<1>4. r = bignum_trim(Number(plus, s, n, p)) BY <1>2, <1>3, SubAbsIs
<1>5. n >= 1 /\ p <= p /\ n >= IntLength(a) + p /\ n >= IntLength(b) + p /\ p \in Int
      /\ b.decimal_pos <= p /\ plus \in BOOLEAN
  BY <1>1
<1>6. Read(AlignedDigits(a, p, n), n) = Size(a, p)
  <2>1. a.decimal_pos <= p BY <1>5
  <2> HIDE DEF p, n
  <2>2. QED BY <1>1, <1>5, <2>1, AlignedReads
<1>7. Size(a, p) \in Nat
  <2>1. a.decimal_pos <= p BY <1>5
  <2> HIDE DEF p
  <2>2. QED BY <1>5, <2>1, SizeIs
<1>8. Size(b, p) <= Size(a, p) OBVIOUS
<1> HIDE DEF p, n, plus
<1>9. Read(AlignedDigits(b, p, n), n) = Size(b, p) /\ Size(b, p) \in Nat
  BY <1>1, <1>5, AlignedReads, SizeIs
<1>10. s \in Seq(Nat) /\ Len(s) = n /\ \A i \in 1 .. n : s[i] \in 0 .. Base - 1
  BY <1>1, <1>5, DifferenceDigitsAre
<1>11. \A i \in 0 .. n - 1 : d[i] = s[i + 1] OBVIOUS
<1> HIDE DEF d
<1>12. Read(d, n) = Size(a, p) - Size(b, p)
  <2> DEFINE i == Size(a, p)
             j == Size(b, p)
  <2>1. /\ i \in Nat /\ j \in Nat /\ j <= i
        /\ i = Read(AlignedDigits(a, p, n), n) /\ j = Read(AlignedDigits(b, p, n), n)
    BY <1>6, <1>7, <1>8, <1>9
  <2> HIDE DEF i, j
  <2>2. IsNumber(a) /\ IsNumber(b) /\ BelowBase(a) /\ BelowBase(b) /\ p \in Int /\ n \in Nat
    BY <1>1, <1>5
  <2>3. \A k \in 0 .. n - 1 : d[k] = DifferenceDigits(a, b, p, n)[k + 1] BY <1>11
  <2>4. Read(d, n) = i - j BY <2>1, <2>2, <2>3, DifferenceReads
  <2>5. QED BY <2>4 DEF i, j
<1> HIDE DEF s
<1>13. TrimmedFrom(r, Read(d, n), p)
  <2>1. /\ plus \in BOOLEAN /\ s \in Seq(Nat) /\ n \in Nat /\ n >= 1 /\ Len(s) = n /\ p \in Int
        /\ \A i \in 1 .. n : s[i] \in 0 .. Base - 1
        /\ \A i \in 0 .. n - 1 : d[i] = s[i + 1]
    BY <1>1, <1>5, <1>10, <1>11
  <2>2. QED BY <1>4, <2>1, TrimmedFromBy
<1>14. QED BY <1>12, <1>13 DEF p

(* The difference of whole numbers, the smaller from the larger. *)
LEMMA SubAbsExact ==
  ASSUME NEW a, NEW b, IsOperand(a), IsOperand(b), Whole(b) <= Whole(a),
         NEW r \in bignum_sub_abs(a, b)
  PROVE  IsTrimmed(r) /\ IsWhole(r) /\ Whole(r) = Whole(a) - Whole(b)
<1>1. IsFraction(a) /\ Size(a, 0) = Whole(a) /\ IsFraction(b) /\ Size(b, 0) = Whole(b)
  BY OperandIsFraction
<1>2. /\ a.decimal_pos = 0 /\ b.decimal_pos = 0 /\ IntLength(a) = a.length /\ IntLength(b) = b.length
      /\ a.length \in Nat /\ a.length >= 1
  BY OperandIs
<1>3. b.length <= a.length BY LargerIsLonger
<1> DEFINE p == a.decimal_pos
           v == Size(a, p) - Size(b, p)
<1>4. b.decimal_pos <= a.decimal_pos /\ IntLength(a) > 0 /\ IntLength(b) <= IntLength(a)
      /\ Size(b, a.decimal_pos) <= Size(a, a.decimal_pos)
  BY <1>1, <1>2, <1>3
<1>5. TrimmedFrom(r, v, p) BY <1>1, <1>4, SubAbsSize
<1>6. p = 0 /\ v = Whole(a) - Whole(b) BY <1>1, <1>2
<1> HIDE DEF p, v
<1>7. TrimmedFrom(r, v, 0) BY <1>5, <1>6
<1>8. QED BY <1>6, <1>7, TrimmedWhole

-----------------------------------------------------------------------------
(* Comparisons, sums and differences with signs *)

(* A number with more digits before the point is larger. *)
LEMMA LongerIsLarger ==
  ASSUME NEW a, NEW b, IsFraction(a), IsFraction(b), NEW p \in Nat,
         a.decimal_pos <= p, b.decimal_pos <= p, 0 < IntLength(a), IntLength(a) < IntLength(b)
  PROVE  Size(a, p) < Size(b, p)
<1> DEFINE n == IntLength(a) + p
<1>1. /\ IntLength(a) \in Int /\ IntLength(b) \in Int /\ b.length \in Nat
      /\ b.decimal_pos \in Nat /\ b.length = IntLength(b) + b.decimal_pos
  BY FractionIs
<1>2. n \in Nat /\ n >= IntLength(a) + p /\ n < IntLength(b) + p /\ b.length >= 2 BY <1>1
<1> HIDE DEF n
<1>3. Size(a, p) \in Nat /\ Size(a, p) < Power(Base, n) BY <1>2, SizeIs
<1>4. Size(b, p) \in Nat /\ Size(b, p) >= Power(Base, n) BY <1>2, SizeIs
<1>5. Power(Base, n) \in Nat BY <1>2, PlaceIs
<1>6. QED BY <1>3, <1>4, <1>5

LEMMA CompareAbsSize ==
  ASSUME NEW a, NEW b, IsFraction(a), IsFraction(b), Comparable(a, b)
  PROVE  bignum_compare_abs(a, b) = Sign(Size(a, a.decimal_pos) - Size(b, a.decimal_pos))
<1> DEFINE n == a.length
           p == a.decimal_pos
           diff == [i \in 0 .. n - 1 |-> Digit(a, i) - Digit(b, i - a.decimal_pos + b.decimal_pos)]
           apart == {i \in DOMAIN diff : diff[i] # 0}
<1>1. /\ IsNumber(a) /\ BelowBase(a) /\ IntLength(a) \in Int /\ p \in Nat /\ n \in Nat
      /\ IsNumber(b) /\ BelowBase(b) /\ IntLength(b) \in Int /\ b.decimal_pos \in Nat
      /\ n = IntLength(a) + p
  BY FractionIs
<1>2. b.decimal_pos <= p /\ a.decimal_pos <= p /\ 0 < IntLength(a) /\ 0 < IntLength(b)
      /\ p \in Int
  BY <1>1 DEF Comparable
<1>3. bignum_compare_abs(a, b) =
        IF IntLength(a) # IntLength(b) THEN Sign(IntLength(a) - IntLength(b))
        ELSE IF apart # {} THEN Sign(diff[Max(apart)])
        ELSE IF \E i \in a.decimal_pos .. b.decimal_pos - 1 : Digit(b, i) # 0 THEN -1
        ELSE 0
  BY DEF bignum_compare_abs
<1>4. \A i \in a.decimal_pos .. b.decimal_pos - 1 : FALSE BY <1>1, <1>2
<1>5. \A i \in 0 .. n - 1 : diff[i] = Aligned(a, i, p) - Aligned(b, i, p)
  <2> TAKE i \in 0 .. n - 1
  <2>1. i - p + a.decimal_pos = i BY <1>1
  <2>2. Aligned(a, i, p) = Digit(a, i) BY <2>1 DEF Aligned
  <2>3. Aligned(b, i, p) = Digit(b, i - a.decimal_pos + b.decimal_pos) BY DEF Aligned
  <2>4. QED BY <2>2, <2>3
<1>55. DOMAIN diff = 0 .. n - 1 OBVIOUS
<1>6. \A i : i \in apart <=> i \in 0 .. n - 1 /\ diff[i] # 0 BY <1>55
<1>65. Size(a, p) \in Nat /\ Size(b, p) \in Nat
  <2> HIDE DEF p
  <2>1. QED BY <1>1, <1>2, SizeIs
<1> HIDE DEF diff, apart
<1>7. CASE IntLength(a) # IntLength(b)
  <2>1. IntLength(a) < IntLength(b) => Size(a, p) < Size(b, p)
    <3> HIDE DEF p
    <3>1. QED BY <1>1, <1>2, LongerIsLarger
  <2>2. IntLength(b) < IntLength(a) => Size(b, p) < Size(a, p)
    <3> HIDE DEF p
    <3>1. QED BY <1>1, <1>2, LongerIsLarger
  <2>3. bignum_compare_abs(a, b) = Sign(IntLength(a) - IntLength(b)) BY <1>3, <1>7
  <2> DEFINE k == Size(a, p)
             m == Size(b, p)
  <2>4. k \in Nat /\ m \in Nat /\ (IntLength(a) < IntLength(b) => k < m)
        /\ (IntLength(b) < IntLength(a) => m < k)
    BY <1>65, <2>1, <2>2
  <2> HIDE DEF k, m
  <2>5. bignum_compare_abs(a, b) = Sign(k - m) BY <1>1, <1>7, <2>3, <2>4 DEF Sign
  <2>6. QED BY <2>5 DEF k, m
<1>8. CASE IntLength(a) = IntLength(b)
  <2> DEFINE u == AlignedDigits(a, p, n)
             v == AlignedDigits(b, p, n)
             j == Size(a, p)
             m == Size(b, p)
  <2>0. \A i \in 0 .. n - 1 : u[i] = Aligned(a, i, p) /\ Aligned(a, i, p) \in 0 .. Base - 1
    <3> HIDE DEF p, n
    <3>1. QED BY <1>1, <1>2, AlignedAre
  <2>01. \A i \in 0 .. n - 1 : v[i] = Aligned(b, i, p) /\ Aligned(b, i, p) \in 0 .. Base - 1
    <3> HIDE DEF p, n
    <3>1. QED BY <1>1, <1>2, AlignedAre
  <2>02. j = Read(u, n) /\ m = Read(v, n) /\ j \in Nat /\ m \in Nat
    <3>1. n >= IntLength(a) + p /\ n >= IntLength(b) + p BY <1>1, <1>8
    <3> HIDE DEF p, n
    <3>2. Read(u, n) = Size(a, p) BY <1>1, <1>2, <3>1, AlignedReads
    <3>3. Read(v, n) = Size(b, p) BY <1>1, <1>2, <3>1, AlignedReads
    <3>4. QED BY <1>65, <3>2, <3>3
  <2> HIDE DEF u, v
  <2>1. \A i \in 0 .. n - 1 : /\ u[i] \in 0 .. Base - 1 /\ v[i] \in 0 .. Base - 1
                              /\ diff[i] = u[i] - v[i]
    BY <1>5, <2>0, <2>01
  <2>2. j = Read(u, n) /\ m = Read(v, n) /\ j \in Nat /\ m \in Nat BY <2>02
  <2>25. bignum_compare_abs(a, b) =
           IF apart # {} THEN Sign(diff[Max(apart)]) ELSE 0
    BY <1>3, <1>4, <1>8
  <2> HIDE DEF j, m
  <2>3. ASSUME apart = {} PROVE bignum_compare_abs(a, b) = Sign(j - m)
    <3>1. \A i \in 0 .. n - 1 : u[i] = v[i]
      <4> TAKE i \in 0 .. n - 1
      <4>1. diff[i] = 0 BY <1>6, <2>3
      <4>2. diff[i] = u[i] - v[i] /\ u[i] \in Int /\ v[i] \in Int BY <2>1, BaseIs
      <4>3. QED BY <4>1, <4>2
    <3>2. Read(u, n) = Read(v, n)
      <4> HIDE DEF n
      <4>1. QED BY <1>1, <3>1, ReadSame
    <3>3. bignum_compare_abs(a, b) = 0 BY <2>25, <2>3
    <3>4. QED BY <2>2, <3>2, <3>3 DEF Sign
  <2>4. ASSUME apart # {} PROVE bignum_compare_abs(a, b) = Sign(j - m)
    <3> DEFINE k == Max(apart)
    <3>1. k \in apart /\ \A i \in apart : i <= k
      <4>1. apart \in SUBSET (0 .. n) BY <1>1, <1>6
      <4> HIDE DEF n
      <4>2. QED BY <1>1, <2>4, <4>1, MaxIs
    <3>2. bignum_compare_abs(a, b) = Sign(diff[k]) BY <2>25, <2>4
    <3> HIDE DEF k
    <3>3. k \in 0 .. n - 1 /\ diff[k] # 0 BY <1>6, <3>1
    <3>4. \A i \in k + 1 .. n - 1 : u[i] = v[i]
      <4> TAKE i \in k + 1 .. n - 1
      <4>1. i \in 0 .. n - 1 /\ ~(i <= k) BY <1>1, <3>3
      <4>2. diff[i] = 0 BY <1>6, <3>1, <4>1
      <4>3. diff[i] = u[i] - v[i] /\ u[i] \in Int /\ v[i] \in Int BY <2>1, <4>1, BaseIs
      <4>4. QED BY <4>2, <4>3
    <3>5. diff[k] = u[k] - v[k] /\ u[k] \in Int /\ v[k] \in Int BY <2>1, <3>3, BaseIs
    <3>6. \A i \in 0 .. n - 1 : u[i] \in 0 .. Base - 1 /\ v[i] \in 0 .. Base - 1 BY <2>1
    <3>7. \A i \in 0 .. n - 1 : v[i] \in 0 .. Base - 1 /\ u[i] \in 0 .. Base - 1 BY <2>1
    <3>8. \A i \in k + 1 .. n - 1 : v[i] = u[i] BY <3>4
    <3>9. n \in Nat BY <1>1
    <3> HIDE DEF n
    <3>10. CASE u[k] < v[k]
      <4>1. Read(u, n) < Read(v, n) BY <3>3, <3>4, <3>6, <3>9, <3>10, ReadLess
      <4>2. QED BY <2>2, <3>2, <3>5, <3>10, <4>1 DEF Sign
    <3>11. CASE v[k] < u[k]
      <4>1. Read(v, n) < Read(u, n) BY <3>3, <3>7, <3>8, <3>9, <3>11, ReadLess
      <4>2. QED BY <2>2, <3>2, <3>5, <3>11, <4>1 DEF Sign
    <3>12. QED BY <3>3, <3>5, <3>10, <3>11
  <2>5. bignum_compare_abs(a, b) = Sign(j - m) BY <2>3, <2>4
  <2>6. QED BY <2>5 DEF j, m
<1>9. QED BY <1>7, <1>8

LEMMA CompareAbsExact ==
  ASSUME NEW a, NEW b, IsOperand(a), IsOperand(b)
  PROVE  bignum_compare_abs(a, b) = Sign(Whole(a) - Whole(b))
<1>1. IsFraction(a) /\ Size(a, 0) = Whole(a) /\ IsFraction(b) /\ Size(b, 0) = Whole(b)
  BY OperandIsFraction
<1>2. /\ a.decimal_pos = 0 /\ b.decimal_pos = 0 /\ IntLength(a) = a.length /\ IntLength(b) = b.length
      /\ a.length \in Nat /\ a.length >= 1 /\ b.length \in Nat /\ b.length >= 1
  BY OperandIs
<1>3. Comparable(a, b) BY <1>2 DEF Comparable
<1>4. bignum_compare_abs(a, b) = Sign(Size(a, a.decimal_pos) - Size(b, a.decimal_pos))
  BY <1>1, <1>3, CompareAbsSize
<1>5. QED BY <1>1, <1>2, <1>4

(* What a number is worth, with its sign. *)
LEMMA ScaledIs ==
  ASSUME NEW x, x.neg \in BOOLEAN, Whole(x) \in Nat, NEW p \in Int, p - x.decimal_pos \in Nat
  PROVE  /\ Scaled(x, p) \in Int /\ Size(x, p) \in Nat
         /\ Scaled(x, p) = IF x.neg THEN -Size(x, p) ELSE Size(x, p)
<1> DEFINE k == p - x.decimal_pos
           w == Power(Base, k)
           m == Whole(x)
<1>1. w \in Nat /\ m \in Nat BY PlaceIs
<1>2. Scaled(x, p) = (IF x.neg THEN -m ELSE m) * w /\ Size(x, p) = m * w
  BY DEF Scaled, Value, Size
<1> HIDE DEF w, m
<1>3. m * w \in Nat /\ (-m) * w = -(m * w) BY <1>1
<1>4. QED BY <1>2, <1>3

LEMMA CompareScaled ==
  ASSUME NEW a, NEW b, IsFraction(a), IsFraction(b)
  PROVE  ComparisonIs(bignum_compare(a, b), a, b)
<1> SUFFICES ASSUME Comparable(a, b), Whole(a) # 0 \/ Whole(b) # 0
             PROVE  bignum_compare(a, b)
                      = Sign(Scaled(a, a.decimal_pos) - Scaled(b, a.decimal_pos))
  BY DEF ComparisonIs
<1> DEFINE p == a.decimal_pos
           j == Size(a, p)
           k == Size(b, p)
           x == Scaled(a, p)
           y == Scaled(b, p)
<1>1. /\ a.neg \in BOOLEAN /\ b.neg \in BOOLEAN /\ Whole(a) \in Nat /\ Whole(b) \in Nat
      /\ p \in Nat /\ p \in Int /\ b.decimal_pos \in Nat
  BY FractionIs
<1>2. a.decimal_pos <= p /\ b.decimal_pos <= p BY <1>1 DEF Comparable
<1>3. bignum_compare_abs(a, b) = Sign(j - k) BY CompareAbsSize
<1> HIDE DEF p
<1>4. /\ j \in Nat /\ (j = 0 <=> Whole(a) = 0) /\ p - a.decimal_pos \in Nat
      /\ k \in Nat /\ (k = 0 <=> Whole(b) = 0) /\ p - b.decimal_pos \in Nat
  BY <1>1, <1>2, SizeIs
<1>5. x = (IF a.neg THEN -j ELSE j) /\ y = (IF b.neg THEN -k ELSE k)
  BY <1>1, <1>4, ScaledIs
<1>6. j # 0 \/ k # 0 BY <1>4
<1>65. j \in Nat /\ k \in Nat BY <1>4
<1> HIDE DEF j, k, x, y
<1>7. bignum_compare(a, b) = Sign(x - y)
  <2>1. CASE a.neg = b.neg
    <3>1. bignum_compare(a, b) = IF a.neg THEN -Sign(j - k) ELSE Sign(j - k)
      BY <1>3, <2>1 DEF bignum_compare
    <3>2. x - y = IF a.neg THEN k - j ELSE j - k BY <1>1, <1>5, <1>65, <2>1
    <3>3. QED BY <1>1, <1>65, <3>1, <3>2 DEF Sign
  <2>2. CASE a.neg # b.neg
    <3>1. bignum_compare(a, b) = IF a.neg THEN -1 ELSE 1 BY <2>2 DEF bignum_compare
    <3>2. x - y = IF a.neg THEN -(j + k) ELSE j + k BY <1>1, <1>5, <1>65, <2>2
    <3>3. j + k > 0 BY <1>6, <1>65
    <3>4. QED BY <1>1, <1>65, <3>1, <3>2, <3>3 DEF Sign
  <2>3. QED BY <2>1, <2>2
<1>8. QED BY <1>7 DEF x, y, p

LEMMA CompareExact ==
  ASSUME NEW a, NEW b, IsOperand(a), IsOperand(b), Value(a) # 0 \/ Value(b) # 0
  PROVE  bignum_compare(a, b) = Sign(Value(a) - Value(b))
<1>1. IsFraction(a) /\ IsFraction(b) BY OperandIsFraction
<1>2. /\ a.decimal_pos = 0 /\ b.decimal_pos = 0 /\ IntLength(a) = a.length /\ IntLength(b) = b.length
      /\ a.length \in Nat /\ a.length >= 1 /\ b.length \in Nat /\ b.length >= 1
      /\ a.neg \in BOOLEAN /\ b.neg \in BOOLEAN /\ Whole(a) \in Nat /\ Whole(b) \in Nat
  BY OperandIs
<1>3. Comparable(a, b) BY <1>2 DEF Comparable
<1>4. /\ Value(a) \in Int /\ (Value(a) = 0 <=> Whole(a) = 0)
      /\ Value(b) \in Int /\ (Value(b) = 0 <=> Whole(b) = 0)
  BY <1>2, ValueOf
<1>5. bignum_compare(a, b) = Sign(Scaled(a, a.decimal_pos) - Scaled(b, a.decimal_pos))
  BY <1>1, <1>3, <1>4, CompareScaled DEF ComparisonIs
<1>6. Scaled(a, 0) = Value(a) /\ Scaled(b, 0) = Value(b)
  <2>1. Power(Base, 0) = 1 BY BaseIs, PowerIs
  <2>2. QED BY <1>2, <1>4, <2>1 DEF Scaled
<1>7. QED BY <1>2, <1>5, <1>6

LEMMA SignedIs ==
  ASSUME NEW neg \in BOOLEAN, NEW results, NEW r \in Signed(neg, results)
  PROVE  \E x \in results : r = WithSign(x, neg)
BY DEF Signed, WithSign

LEMMA SignedTrimmed ==
  ASSUME NEW neg \in BOOLEAN, NEW results, \A x \in results : IsTrimmed(x),
         NEW r \in Signed(neg, results)
  PROVE  IsTrimmed(r)
BY SignedIs, SignKeepsNumber

LEMMA SignedExact ==
  ASSUME NEW neg \in BOOLEAN, NEW results, NEW n \in Nat,
         \A x \in results : IsTrimmed(x) /\ IsWhole(x) /\ Whole(x) = n
  PROVE  ResultsAre(Signed(neg, results), IF neg THEN -n ELSE n)
<1> SUFFICES ASSUME NEW r \in Signed(neg, results)
             PROVE  IsTrimmed(r) /\ IsWhole(r) /\ Value(r) = IF neg THEN -n ELSE n
  BY DEF ResultsAre
<1>1. PICK x \in results : r = WithSign(x, neg) BY SignedIs
<1>2. IsTrimmed(r) /\ Whole(r) = Whole(x) /\ IsWhole(r) /\ r.neg = neg
  BY <1>1, SignKeepsNumber
<1>3. QED BY <1>2 DEF Value

LEMMA AddTrimmed ==
  ASSUME NEW a, NEW b, IsNumber(a), IsNumber(b), NEW r \in bignum_add(a, b)
  PROVE  IsTrimmed(r)
<1>1. a.neg \in BOOLEAN /\ b.neg \in BOOLEAN BY NumberFields
<1>2. \A x \in bignum_add_abs(a, b) : IsTrimmed(x) BY AddAbsTrimmed
<1>3. \A x \in bignum_sub_abs(a, b) : IsTrimmed(x) BY SubAbsTrimmed
<1>4. \A x \in bignum_sub_abs(b, a) : IsTrimmed(x) BY SubAbsTrimmed
<1>5. \/ r \in Signed(a.neg, bignum_add_abs(a, b))
      \/ r \in Signed(a.neg, bignum_sub_abs(a, b))
      \/ r \in Signed(b.neg, bignum_sub_abs(b, a))
  BY DEF bignum_add
<1>6. QED BY <1>1, <1>2, <1>3, <1>4, <1>5, SignedTrimmed

LEMMA SubTrimmed ==
  ASSUME NEW a, NEW b, IsNumber(a), IsNumber(b), NEW r \in bignum_sub(a, b)
  PROVE  IsTrimmed(r)
<1>1. a.neg \in BOOLEAN BY NumberFields
<1>2. \A x \in bignum_add_abs(a, b) : IsTrimmed(x) BY AddAbsTrimmed
<1>3. \A x \in bignum_sub_abs(a, b) : IsTrimmed(x) BY SubAbsTrimmed
<1>4. \A x \in bignum_sub_abs(b, a) : IsTrimmed(x) BY SubAbsTrimmed
<1> DEFINE other == ~a.neg
<1>5. \/ r \in Signed(a.neg, bignum_add_abs(a, b))
      \/ r \in Signed(a.neg, bignum_sub_abs(a, b))
      \/ r \in Signed(other, bignum_sub_abs(b, a))
  BY DEF bignum_sub
<1>6. other \in BOOLEAN BY <1>1
<1> HIDE DEF other
<1>7. QED BY <1>1, <1>2, <1>3, <1>4, <1>5, <1>6, SignedTrimmed

(* What the absolute values of two whole numbers yield. *)
LEMMA AbsoluteExact ==
  ASSUME NEW a, NEW b, IsOperand(a), IsOperand(b)
  PROVE  /\ \A x \in bignum_add_abs(a, b) :
              IsTrimmed(x) /\ IsWhole(x) /\ Whole(x) = Whole(a) + Whole(b)
         /\ bignum_compare_abs(a, b) >= 0 =>
              /\ Whole(a) - Whole(b) \in Nat
              /\ \A x \in bignum_sub_abs(a, b) :
                   IsTrimmed(x) /\ IsWhole(x) /\ Whole(x) = Whole(a) - Whole(b)
         /\ ~(bignum_compare_abs(a, b) >= 0) =>
              /\ Whole(b) - Whole(a) \in Nat
              /\ \A x \in bignum_sub_abs(b, a) :
                   IsTrimmed(x) /\ IsWhole(x) /\ Whole(x) = Whole(b) - Whole(a)
<1>1. Whole(a) \in Nat /\ Whole(b) \in Nat BY OperandIs
<1>2. bignum_compare_abs(a, b) = Sign(Whole(a) - Whole(b)) BY CompareAbsExact
<1>3. bignum_compare_abs(a, b) >= 0 <=> Whole(b) <= Whole(a) BY <1>1, <1>2 DEF Sign
<1>4. \A x \in bignum_add_abs(a, b) :
        IsTrimmed(x) /\ IsWhole(x) /\ Whole(x) = Whole(a) + Whole(b)
  BY AddAbsExact
<1>5. ASSUME bignum_compare_abs(a, b) >= 0
      PROVE  /\ Whole(a) - Whole(b) \in Nat
             /\ \A x \in bignum_sub_abs(a, b) :
                   IsTrimmed(x) /\ IsWhole(x) /\ Whole(x) = Whole(a) - Whole(b)
  <2>1. Whole(b) <= Whole(a) BY <1>3, <1>5
  <2>2. QED BY <1>1, <2>1, SubAbsExact
<1>6. ASSUME ~(bignum_compare_abs(a, b) >= 0)
      PROVE  /\ Whole(b) - Whole(a) \in Nat
             /\ \A x \in bignum_sub_abs(b, a) :
                   IsTrimmed(x) /\ IsWhole(x) /\ Whole(x) = Whole(b) - Whole(a)
  <2>1. Whole(a) <= Whole(b) BY <1>1, <1>3, <1>6
  <2>2. QED BY <1>1, <2>1, SubAbsExact
<1>7. QED BY <1>4, <1>5, <1>6

LEMMA AddExact ==
  ASSUME NEW a, NEW b, IsOperand(a), IsOperand(b)
  PROVE  ResultsAre(bignum_add(a, b), Value(a) + Value(b))
<1>1. a.neg \in BOOLEAN /\ b.neg \in BOOLEAN /\ Whole(a) \in Nat /\ Whole(b) \in Nat
  BY OperandIs
<1> DEFINE m == Whole(a)
           n == Whole(b)
<1>2. m \in Nat /\ n \in Nat /\ m + n \in Nat BY <1>1
<1>3. /\ \A x \in bignum_add_abs(a, b) : IsTrimmed(x) /\ IsWhole(x) /\ Whole(x) = m + n
      /\ bignum_compare_abs(a, b) >= 0 =>
           /\ m - n \in Nat
           /\ \A x \in bignum_sub_abs(a, b) : IsTrimmed(x) /\ IsWhole(x) /\ Whole(x) = m - n
      /\ ~(bignum_compare_abs(a, b) >= 0) =>
           /\ n - m \in Nat
           /\ \A x \in bignum_sub_abs(b, a) : IsTrimmed(x) /\ IsWhole(x) /\ Whole(x) = n - m
  BY AbsoluteExact
<1>4. Value(a) = (IF a.neg THEN -m ELSE m) /\ Value(b) = (IF b.neg THEN -n ELSE n) BY DEF Value
<1> HIDE DEF m, n
<1>5. CASE a.neg = b.neg
  <2> DEFINE k == m + n
  <2>1. k \in Nat /\ \A x \in bignum_add_abs(a, b) : IsTrimmed(x) /\ IsWhole(x) /\ Whole(x) = k
    BY <1>2, <1>3
  <2>2. Value(a) + Value(b) = IF a.neg THEN -k ELSE k BY <1>1, <1>2, <1>4, <1>5
  <2>3. bignum_add(a, b) = Signed(a.neg, bignum_add_abs(a, b)) BY <1>5 DEF bignum_add
  <2> HIDE DEF k
  <2>4. ResultsAre(Signed(a.neg, bignum_add_abs(a, b)), IF a.neg THEN -k ELSE k)
    BY <1>1, <2>1, SignedExact
  <2>5. QED BY <2>2, <2>3, <2>4
<1>6. CASE a.neg # b.neg /\ bignum_compare_abs(a, b) >= 0
  <2> DEFINE k == m - n
  <2>1. k \in Nat /\ \A x \in bignum_sub_abs(a, b) : IsTrimmed(x) /\ IsWhole(x) /\ Whole(x) = k
    BY <1>3, <1>6
  <2>2. Value(a) + Value(b) = IF a.neg THEN -k ELSE k BY <1>1, <1>2, <1>4, <1>6
  <2>3. bignum_add(a, b) = Signed(a.neg, bignum_sub_abs(a, b)) BY <1>6 DEF bignum_add
  <2> HIDE DEF k
  <2>4. ResultsAre(Signed(a.neg, bignum_sub_abs(a, b)), IF a.neg THEN -k ELSE k)
    BY <1>1, <2>1, SignedExact
  <2>5. QED BY <2>2, <2>3, <2>4
<1>7. CASE a.neg # b.neg /\ ~(bignum_compare_abs(a, b) >= 0)
  <2> DEFINE k == n - m
  <2>1. k \in Nat /\ \A x \in bignum_sub_abs(b, a) : IsTrimmed(x) /\ IsWhole(x) /\ Whole(x) = k
    BY <1>3, <1>7
  <2>2. Value(a) + Value(b) = IF b.neg THEN -k ELSE k BY <1>1, <1>2, <1>4, <1>7
  <2>3. bignum_add(a, b) = Signed(b.neg, bignum_sub_abs(b, a)) BY <1>7 DEF bignum_add
  <2> HIDE DEF k
  <2>4. ResultsAre(Signed(b.neg, bignum_sub_abs(b, a)), IF b.neg THEN -k ELSE k)
    BY <1>1, <2>1, SignedExact
  <2>5. QED BY <2>2, <2>3, <2>4
<1>8. QED BY <1>5, <1>6, <1>7

LEMMA SubExact ==
  ASSUME NEW a, NEW b, IsOperand(a), IsOperand(b)
  PROVE  ResultsAre(bignum_sub(a, b), Value(a) - Value(b))
<1>1. a.neg \in BOOLEAN /\ b.neg \in BOOLEAN /\ Whole(a) \in Nat /\ Whole(b) \in Nat
  BY OperandIs
<1> DEFINE m == Whole(a)
           n == Whole(b)
<1>2. m \in Nat /\ n \in Nat /\ m + n \in Nat BY <1>1
<1>3. /\ \A x \in bignum_add_abs(a, b) : IsTrimmed(x) /\ IsWhole(x) /\ Whole(x) = m + n
      /\ bignum_compare_abs(a, b) >= 0 =>
           /\ m - n \in Nat
           /\ \A x \in bignum_sub_abs(a, b) : IsTrimmed(x) /\ IsWhole(x) /\ Whole(x) = m - n
      /\ ~(bignum_compare_abs(a, b) >= 0) =>
           /\ n - m \in Nat
           /\ \A x \in bignum_sub_abs(b, a) : IsTrimmed(x) /\ IsWhole(x) /\ Whole(x) = n - m
  BY AbsoluteExact
<1>4. Value(a) = (IF a.neg THEN -m ELSE m) /\ Value(b) = (IF b.neg THEN -n ELSE n) BY DEF Value
<1> HIDE DEF m, n
<1>5. CASE a.neg # b.neg
  <2> DEFINE k == m + n
  <2>1. k \in Nat /\ \A x \in bignum_add_abs(a, b) : IsTrimmed(x) /\ IsWhole(x) /\ Whole(x) = k
    BY <1>2, <1>3
  <2>2. Value(a) - Value(b) = IF a.neg THEN -k ELSE k BY <1>1, <1>2, <1>4, <1>5
  <2>3. bignum_sub(a, b) = Signed(a.neg, bignum_add_abs(a, b)) BY <1>5 DEF bignum_sub
  <2> HIDE DEF k
  <2>4. ResultsAre(Signed(a.neg, bignum_add_abs(a, b)), IF a.neg THEN -k ELSE k)
    BY <1>1, <2>1, SignedExact
  <2>5. QED BY <2>2, <2>3, <2>4
<1>6. CASE a.neg = b.neg /\ bignum_compare_abs(a, b) >= 0
  <2> DEFINE k == m - n
  <2>1. k \in Nat /\ \A x \in bignum_sub_abs(a, b) : IsTrimmed(x) /\ IsWhole(x) /\ Whole(x) = k
    BY <1>3, <1>6
  <2>2. Value(a) - Value(b) = IF a.neg THEN -k ELSE k BY <1>1, <1>2, <1>4, <1>6
  <2>3. bignum_sub(a, b) = Signed(a.neg, bignum_sub_abs(a, b)) BY <1>6 DEF bignum_sub
  <2> HIDE DEF k
  <2>4. ResultsAre(Signed(a.neg, bignum_sub_abs(a, b)), IF a.neg THEN -k ELSE k)
    BY <1>1, <2>1, SignedExact
  <2>5. QED BY <2>2, <2>3, <2>4
<1>7. CASE a.neg = b.neg /\ ~(bignum_compare_abs(a, b) >= 0)
  <2> DEFINE k == n - m
             other == ~a.neg
  <2>1. k \in Nat /\ \A x \in bignum_sub_abs(b, a) : IsTrimmed(x) /\ IsWhole(x) /\ Whole(x) = k
    BY <1>3, <1>7
  <2>2. Value(a) - Value(b) = IF other THEN -k ELSE k BY <1>1, <1>2, <1>4, <1>7
  <2>3. bignum_sub(a, b) = Signed(other, bignum_sub_abs(b, a)) BY <1>7 DEF bignum_sub
  <2>4. other \in BOOLEAN BY <1>1
  <2> HIDE DEF k, other
  <2>5. ResultsAre(Signed(other, bignum_sub_abs(b, a)), IF other THEN -k ELSE k)
    BY <2>1, <2>4, SignedExact
  <2>6. QED BY <2>2, <2>3, <2>5
<1>8. QED BY <1>5, <1>6, <1>7

-----------------------------------------------------------------------------
(* Sums and differences of numbers with places *)

LEMMA SquareOrder ==
  ASSUME NEW j \in Nat, NEW k \in Nat, NEW x \in Int, NEW y \in Int,
         x = j \/ x = -j, y = k \/ y = -k
  PROVE  Power(x, 2) >= Power(y, 2) <=> k <= j
<1> DEFINE two == 2
           one == 1
           none == 0
<1>1. none \in Nat /\ one \in Nat /\ none + 1 = one /\ one + 1 = two OBVIOUS
<1>2. two = 2 OBVIOUS
<1> HIDE DEF two, one, none
<1>3. ASSUME NEW m \in Int PROVE Power(m, two) = m * m
  <2>1. Power(m, 0) = 1 BY PowerIs
  <2>2. none = 0 BY DEF none
  <2>3. Power(m, none + 1) = m * Power(m, none) BY <1>1, PowerIs
  <2>4. Power(m, one + 1) = m * Power(m, one) BY <1>1, PowerIs
  <2>5. Power(m, one) = m BY <1>1, <2>1, <2>2, <2>3
  <2>6. QED BY <1>1, <2>4, <2>5
<1>4. Power(x, two) = x * x /\ Power(y, two) = y * y BY <1>3
<1>5. x * x = j * j /\ y * y = k * k
  <2>1. (-j) * (-j) = j * j /\ (-k) * (-k) = k * k OBVIOUS
  <2>2. QED BY <2>1
<1>6. k <= j => k * k <= j * j
  <2> SUFFICES ASSUME k <= j PROVE k * k <= j * j OBVIOUS
  <2> DEFINE i == j - k
  <2>1. i \in Nat /\ j = k + i OBVIOUS
  <2> HIDE DEF i
  <2>2. (k + i) * (k + i) = k * k + k * i + k * i + i * i BY <2>1
  <2>3. k * i \in Nat /\ i * i \in Nat /\ k * k \in Nat BY <2>1
  <2>4. QED BY <2>1, <2>2, <2>3
<1>7. ~(k <= j) => j * j < k * k
  <2> SUFFICES ASSUME ~(k <= j) PROVE j * j < k * k OBVIOUS
  <2> DEFINE i == k - j
  <2>1. i \in Nat /\ i >= 1 /\ k = j + i OBVIOUS
  <2> HIDE DEF i
  <2>2. (j + i) * (j + i) = j * j + j * i + j * i + i * i BY <2>1
  <2>3. j * i \in Nat /\ i * i \in Nat /\ j * j \in Nat BY <2>1
  <2>4. i * i >= 1
    <3>1. (i - 1) * i \in Nat /\ i * i = (i - 1) * i + i BY <2>1
    <3>2. QED BY <2>1, <2>3, <3>1
  <2>5. QED BY <2>1, <2>2, <2>3, <2>4
<1>8. j * j \in Nat /\ k * k \in Nat OBVIOUS
<1>9. Power(x, two) >= Power(y, two) <=> k <= j BY <1>4, <1>5, <1>6, <1>7, <1>8
<1>10. QED BY <1>2, <1>9

LEMMA SignedSize ==
  ASSUME NEW neg \in BOOLEAN, NEW results, NEW v \in Nat, NEW p \in Nat,
         \A x \in results : TrimmedFrom(x, v, p), NEW r \in Signed(neg, results)
  PROVE  r.decimal_pos <= p /\ Scaled(r, p) = IF neg THEN -v ELSE v
<1>1. PICK x \in results : r = WithSign(x, neg) BY SignedIs
<1>2. IsTrimmed(x) /\ x.decimal_pos \in 0 .. p /\ Whole(x) \in Nat /\ Size(x, p) = v
  BY TrimmedSize
<1>3. Whole(r) = Whole(x) /\ r.neg = neg BY <1>1, <1>2, SignKeepsNumber
<1>4. r.decimal_pos = x.decimal_pos
  <2>1. IsNumber(x) BY <1>2 DEF IsTrimmed, IsCut
  <2>2. QED BY <1>1, <2>1, WithSignIs
<1>5. Size(r, p) = v BY <1>2, <1>3, <1>4 DEF Size
<1>6. p - r.decimal_pos \in Nat /\ r.decimal_pos <= p /\ p \in Int BY <1>2, <1>4
<1>7. Scaled(r, p) = IF r.neg THEN -Size(r, p) ELSE Size(r, p)
  BY <1>2, <1>3, <1>6, ScaledIs
<1>8. QED BY <1>3, <1>5, <1>6, <1>7

(* The number b, with sign s, is added to a. *)
Added(a, b, s) ==
  IF a.neg = s THEN Signed(a.neg, bignum_add_abs(a, b))
  ELSE IF bignum_compare_abs(a, b) >= 0 THEN Signed(a.neg, bignum_sub_abs(a, b))
  ELSE Signed(s, bignum_sub_abs(b, a))
HasWindow(a, b, s, p) ==
  IF a.neg = s THEN IntLength(a) >= 0 /\ IntLength(b) >= 0
  ELSE Comparable(a, b) /\ IF Size(b, p) <= Size(a, p) THEN a.decimal_pos = p ELSE b.decimal_pos = p

LEMMA AddedScaled ==
  ASSUME NEW a, NEW b, IsFraction(a), IsFraction(b), NEW s \in BOOLEAN,
         HasWindow(a, b, s, SumPlaces(a, b)), NEW r \in Added(a, b, s)
  PROVE  LET p == SumPlaces(a, b)
         IN /\ r.decimal_pos <= p
            /\ Scaled(r, p) = (IF a.neg THEN -Size(a, p) ELSE Size(a, p))
                                + (IF s THEN -Size(b, p) ELSE Size(b, p))
<1> DEFINE p == SumPlaces(a, b)
           j == Size(a, p)
           k == Size(b, p)
<1>1. /\ a.neg \in BOOLEAN /\ a.decimal_pos \in Nat /\ b.decimal_pos \in Nat
      /\ IntLength(a) \in Int /\ IntLength(b) \in Int
  BY FractionIs
<1>2. /\ p \in Nat /\ p \in Int /\ a.decimal_pos <= p /\ b.decimal_pos <= p
      /\ (b.decimal_pos <= a.decimal_pos => p = a.decimal_pos)
  BY <1>1 DEF SumPlaces, Greater
<1>3. HasWindow(a, b, s, p) OBVIOUS
<1>4. ASSUME a.neg = s, NEW x \in bignum_add_abs(a, b) PROVE TrimmedFrom(x, j + k, p)
  BY <1>3, <1>4, AddAbsSize DEF HasWindow
<1> HIDE DEF p
<1>5. j \in Nat /\ k \in Nat BY <1>2, SizeIs
<1>6. CASE a.neg = s
  <2> DEFINE v == j + k
  <2>1. v \in Nat /\ \A x \in bignum_add_abs(a, b) : TrimmedFrom(x, v, p) BY <1>4, <1>5, <1>6
  <2>2. r \in Signed(a.neg, bignum_add_abs(a, b)) BY <1>6 DEF Added
  <2> HIDE DEF v
  <2>3. r.decimal_pos <= p /\ Scaled(r, p) = IF a.neg THEN -v ELSE v
    BY <1>1, <1>2, <2>1, <2>2, SignedSize
  <2>4. (IF a.neg THEN -v ELSE v) = (IF a.neg THEN -j ELSE j) + (IF s THEN -k ELSE k)
    <3>1. v = j + k BY DEF v
    <3> HIDE DEF j, k
    <3>2. QED BY <1>1, <1>5, <1>6, <3>1
  <2>5. QED BY <2>3, <2>4 DEF p
<1>7. ASSUME a.neg # s
      PROVE  /\ Comparable(a, b) /\ p = a.decimal_pos /\ b.decimal_pos <= a.decimal_pos
             /\ 0 < IntLength(a) /\ 0 < IntLength(b)
             /\ (k <= j <=> bignum_compare_abs(a, b) >= 0)
             /\ (IntLength(a) < IntLength(b) => j < k) /\ (IntLength(b) < IntLength(a) => k < j)
             /\ (k <= j \/ b.decimal_pos = p)
  <2>1. Comparable(a, b) /\ (k <= j \/ b.decimal_pos = p) BY <1>3, <1>7 DEF HasWindow
  <2>2. /\ p = a.decimal_pos /\ b.decimal_pos <= a.decimal_pos
        /\ 0 < IntLength(a) /\ 0 < IntLength(b)
    BY <1>1, <1>2, <2>1 DEF Comparable
  <2>3. bignum_compare_abs(a, b) = Sign(j - k) BY <2>1, <2>2, CompareAbsSize
  <2>4. k <= j <=> bignum_compare_abs(a, b) >= 0
    <3> HIDE DEF j, k
    <3>1. QED BY <1>5, <2>3 DEF Sign
  <2>5. IntLength(a) < IntLength(b) => j < k BY <1>2, <2>2, LongerIsLarger
  <2>6. IntLength(b) < IntLength(a) => k < j BY <1>2, <2>2, LongerIsLarger
  <2>7. QED BY <2>1, <2>2, <2>4, <2>5, <2>6
<1>8. CASE a.neg # s /\ bignum_compare_abs(a, b) >= 0
  <2> DEFINE v == j - k
  <2>1. /\ p = a.decimal_pos /\ b.decimal_pos <= a.decimal_pos /\ 0 < IntLength(a) /\ k <= j
        /\ (IntLength(a) < IntLength(b) => j < k)
    BY <1>7, <1>8
  <2>2. v \in Nat /\ IntLength(b) <= IntLength(a) /\ IntLength(a) > 0
    <3> HIDE DEF j, k
    <3>1. QED BY <1>1, <1>5, <2>1
  <2>3. ASSUME NEW x \in bignum_sub_abs(a, b) PROVE TrimmedFrom(x, v, p)
    <3>1. TrimmedFrom(x, Size(a, a.decimal_pos) - Size(b, a.decimal_pos), a.decimal_pos)
      BY <2>1, <2>2, SubAbsSize
    <3>2. QED BY <2>1, <3>1
  <2>4. r \in Signed(a.neg, bignum_sub_abs(a, b)) BY <1>8 DEF Added
  <2> HIDE DEF v
  <2>5. r.decimal_pos <= p /\ Scaled(r, p) = IF a.neg THEN -v ELSE v
    BY <1>1, <1>2, <2>2, <2>3, <2>4, SignedSize
  <2>6. (IF a.neg THEN -v ELSE v) = (IF a.neg THEN -j ELSE j) + (IF s THEN -k ELSE k)
    <3>1. v = j - k BY DEF v
    <3> HIDE DEF j, k
    <3>2. QED BY <1>1, <1>5, <1>8, <3>1
  <2>7. QED BY <2>5, <2>6 DEF p
<1>9. CASE a.neg # s /\ ~(bignum_compare_abs(a, b) >= 0)
  <2> DEFINE v == k - j
  <2>1. /\ p = a.decimal_pos /\ b.decimal_pos = p /\ 0 < IntLength(b) /\ ~(k <= j)
        /\ (IntLength(b) < IntLength(a) => k < j)
    BY <1>7, <1>9
  <2>2. v \in Nat /\ IntLength(a) <= IntLength(b) /\ IntLength(b) > 0 /\ j <= k
        /\ a.decimal_pos <= b.decimal_pos
    <3> HIDE DEF j, k
    <3>1. QED BY <1>1, <1>5, <2>1
  <2>3. ASSUME NEW x \in bignum_sub_abs(b, a) PROVE TrimmedFrom(x, v, p)
    <3>1. TrimmedFrom(x, Size(b, b.decimal_pos) - Size(a, b.decimal_pos), b.decimal_pos)
      BY <2>1, <2>2, SubAbsSize
    <3>2. QED BY <2>1, <3>1
  <2>4. r \in Signed(s, bignum_sub_abs(b, a)) BY <1>9 DEF Added
  <2> HIDE DEF v
  <2>5. r.decimal_pos <= p /\ Scaled(r, p) = IF s THEN -v ELSE v
    BY <1>2, <2>2, <2>3, <2>4, SignedSize
  <2>6. (IF s THEN -v ELSE v) = (IF a.neg THEN -j ELSE j) + (IF s THEN -k ELSE k)
    <3>1. v = k - j BY DEF v
    <3> HIDE DEF j, k
    <3>2. QED BY <1>1, <1>5, <1>9, <3>1
  <2>7. QED BY <2>5, <2>6 DEF p
<1>10. QED BY <1>6, <1>8, <1>9

LEMMA WindowIs ==
  ASSUME NEW a, NEW c, IsFraction(a), IsFraction(c), WindowHolds(a, c)
  PROVE  HasWindow(a, c, c.neg, SumPlaces(a, c))
<1> DEFINE p == SumPlaces(a, c)
           j == Size(a, p)
           k == Size(c, p)
           x == Scaled(a, p)
           y == Scaled(c, p)
           larger == IF Power(x, 2) >= Power(y, 2) THEN a ELSE c
<1>1. IF a.neg = c.neg THEN IntLength(a) >= 0 /\ IntLength(c) >= 0
      ELSE Comparable(a, c) /\ larger.decimal_pos = p
  BY DEF WindowHolds, SumPlaces
<1>2. /\ a.neg \in BOOLEAN /\ c.neg \in BOOLEAN /\ Whole(a) \in Nat /\ Whole(c) \in Nat
      /\ a.decimal_pos \in Nat /\ c.decimal_pos \in Nat
  BY FractionIs
<1>3. p \in Int /\ p - a.decimal_pos \in Nat /\ p - c.decimal_pos \in Nat
  BY <1>2 DEF SumPlaces, Greater
<1> HIDE DEF p
<1>4. x \in Int /\ j \in Nat /\ x = IF a.neg THEN -j ELSE j BY <1>2, <1>3, ScaledIs
<1>5. y \in Int /\ k \in Nat /\ y = IF c.neg THEN -k ELSE k BY <1>2, <1>3, ScaledIs
<1>6. Power(x, 2) >= Power(y, 2) <=> k <= j
  <2> HIDE DEF x, y, j, k
  <2>1. (x = j \/ x = -j) /\ (y = k \/ y = -k) BY <1>4, <1>5
  <2>2. QED BY <1>4, <1>5, <2>1, SquareOrder
<1>7. larger = IF k <= j THEN a ELSE c
  <2> HIDE DEF x, y, j, k
  <2>1. QED BY <1>6
<1> HIDE DEF larger
<1>8. QED BY <1>1, <1>7 DEF HasWindow, p

LEMMA SumOf ==
  ASSUME NEW a, NEW c, IsFraction(a), IsFraction(c), NEW results,
         WindowHolds(a, c) =>
           \A r \in results :
             LET p == SumPlaces(a, c)
             IN /\ r.decimal_pos <= p
                /\ Scaled(r, p) = (IF a.neg THEN -Size(a, p) ELSE Size(a, p))
                                    + (IF c.neg THEN -Size(c, p) ELSE Size(c, p))
  PROVE  SumIs(results, a, c)
<1> DEFINE p == SumPlaces(a, c)
<1>1. /\ a.neg \in BOOLEAN /\ c.neg \in BOOLEAN /\ Whole(a) \in Nat /\ Whole(c) \in Nat
      /\ a.decimal_pos \in Nat /\ c.decimal_pos \in Nat
  BY FractionIs
<1>2. p \in Int /\ p - a.decimal_pos \in Nat /\ p - c.decimal_pos \in Nat
  BY <1>1 DEF SumPlaces, Greater
<1>3. ASSUME WindowHolds(a, c), NEW r \in results
      PROVE  /\ r.decimal_pos <= p
             /\ Scaled(r, p) = (IF a.neg THEN -Size(a, p) ELSE Size(a, p))
                                 + (IF c.neg THEN -Size(c, p) ELSE Size(c, p))
  BY <1>3
<1>4. p = Greater(a.decimal_pos, c.decimal_pos) BY DEF SumPlaces
<1> HIDE DEF p
<1>5. Scaled(a, p) = IF a.neg THEN -Size(a, p) ELSE Size(a, p) BY <1>1, <1>2, ScaledIs
<1>6. Scaled(c, p) = IF c.neg THEN -Size(c, p) ELSE Size(c, p) BY <1>1, <1>2, ScaledIs
<1>7. ASSUME WindowHolds(a, c), NEW r \in results
      PROVE  r.decimal_pos <= p /\ Scaled(r, p) = Scaled(a, p) + Scaled(c, p)
  BY <1>3, <1>5, <1>6, <1>7
<1>8. QED BY <1>4, <1>7 DEF SumIs

LEMMA AddScaled ==
  ASSUME NEW a, NEW b, IsFraction(a), IsFraction(b)
  PROVE  SumIs(bignum_add(a, b), a, b)
<1>1. b.neg \in BOOLEAN BY FractionIs
<1>2. bignum_add(a, b) = Added(a, b, b.neg) BY DEF bignum_add, Added
<1>3. ASSUME WindowHolds(a, b), NEW r \in bignum_add(a, b)
      PROVE  LET p == SumPlaces(a, b)
             IN /\ r.decimal_pos <= p
                /\ Scaled(r, p) = (IF a.neg THEN -Size(a, p) ELSE Size(a, p))
                                    + (IF b.neg THEN -Size(b, p) ELSE Size(b, p))
  <2>1. HasWindow(a, b, b.neg, SumPlaces(a, b)) BY <1>3, WindowIs
  <2>2. r \in Added(a, b, b.neg) BY <1>2, <1>3
  <2> DEFINE s == b.neg
  <2>3. s \in BOOLEAN /\ HasWindow(a, b, s, SumPlaces(a, b)) /\ r \in Added(a, b, s)
    BY <1>1, <2>1, <2>2
  <2> HIDE DEF s
  <2>4. LET p == SumPlaces(a, b)
        IN /\ r.decimal_pos <= p
           /\ Scaled(r, p) = (IF a.neg THEN -Size(a, p) ELSE Size(a, p))
                               + (IF s THEN -Size(b, p) ELSE Size(b, p))
    BY <2>3, AddedScaled
  <2>5. QED BY <2>4 DEF s
<1>4. QED BY <1>3, SumOf

(* A subtraction adds the number with the other sign. *)
LEMMA SubScaled ==
  ASSUME NEW a, NEW b, IsFraction(a), IsFraction(b)
  PROVE  SumIs(bignum_sub(a, b), a, [b EXCEPT !.neg = ~@])
<1> DEFINE s == ~b.neg
           c == WithSign(b, s)
<1>1. a.neg \in BOOLEAN /\ b.neg \in BOOLEAN /\ s \in BOOLEAN /\ IsNumber(b) BY FractionIs
<1>2. [b EXCEPT !.neg = ~@] = c BY DEF WithSign
<1>3. bignum_sub(a, b) = Added(a, b, s)
  <2>1. (a.neg # b.neg <=> a.neg = s) /\ (a.neg = b.neg => s = ~a.neg) BY <1>1
  <2> HIDE DEF s
  <2>2. QED BY <2>1 DEF bignum_sub, Added
<1> HIDE DEF s
<1>4. /\ IsNumber(c) /\ c.neg = s /\ c.digits = b.digits /\ c.length = b.length
      /\ c.decimal_pos = b.decimal_pos
  BY <1>1, WithSignIs
<1> HIDE DEF c
<1>5. \A i \in Int : Digit(c, i) = Digit(b, i) BY <1>4 DEF Digit, Stored
<1>6. IsFraction(c)
  <2>1. IsFormed(c)
    <3>1. Digit(c, 0) = Digit(b, 0) BY <1>5
    <3>2. IsFormed(b) BY FractionIs
    <3>3. QED BY <1>4, <3>1, <3>2 DEF IsFormed, IsNormal, IsTidy, HasRoom
  <2>2. BelowBase(c) /\ c.decimal_pos >= 0 BY <1>4 DEF IsFraction, BelowBase
  <2>3. QED BY <2>1, <2>2 DEF IsFraction
<1>7. Whole(c) = Whole(b)
  <2>1. \A i \in 0 .. b.length - 1 : Digit(c, i) = Digit(b, i) BY <1>5
  <2>2. QED BY <1>1, <1>4, <2>1, SameWhole
<1>8. IntLength(c) = IntLength(b) /\ SumPlaces(a, c) = SumPlaces(a, b)
      /\ (Comparable(a, c) <=> Comparable(a, b))
  BY <1>4 DEF IntLength, SumPlaces, Comparable
<1>9. \A p : Size(c, p) = Size(b, p) BY <1>4, <1>7 DEF Size
<1>10. ASSUME WindowHolds(a, c), NEW r \in bignum_sub(a, b)
       PROVE  LET p == SumPlaces(a, c)
              IN /\ r.decimal_pos <= p
                 /\ Scaled(r, p) = (IF a.neg THEN -Size(a, p) ELSE Size(a, p))
                                     + (IF c.neg THEN -Size(c, p) ELSE Size(c, p))
  <2>1. HasWindow(a, c, c.neg, SumPlaces(a, c)) BY <1>6, <1>10, WindowIs
  <2>2. HasWindow(a, b, s, SumPlaces(a, b)) BY <1>4, <1>8, <1>9, <2>1 DEF HasWindow
  <2>3. r \in Added(a, b, s) BY <1>3, <1>10
  <2>4. LET p == SumPlaces(a, b)
        IN /\ r.decimal_pos <= p
           /\ Scaled(r, p) = (IF a.neg THEN -Size(a, p) ELSE Size(a, p))
                               + (IF s THEN -Size(b, p) ELSE Size(b, p))
    BY <1>1, <2>2, <2>3, AddedScaled
  <2>5. QED BY <1>4, <1>8, <1>9, <2>4
<1>11. SumIs(bignum_sub(a, b), a, c) BY <1>6, <1>10, SumOf
<1>12. QED BY <1>2, <1>11

-----------------------------------------------------------------------------
(* Places cut off *)

(* A trimmed number that is v if the point is p places before its end. *)
Worth(x, v, p, neg) ==
  /\ IsTrimmed(x) /\ BelowBase(x) /\ x.decimal_pos \in 0 .. p /\ Whole(x) \in Nat
  /\ Whole(x) * Power(Base, p - x.decimal_pos) = v
  /\ Whole(x) # 0 => x.neg = neg

LEMMA TrimWorth ==
  ASSUME NEW x, IsNumber(x), HasRoom(x), BelowBase(x), x.length >= 1, x.decimal_pos \in Nat
  PROVE  Worth(bignum_trim(x), Whole(x), x.decimal_pos, x.neg)
<1> DEFINE r == bignum_trim(x)
           v == Whole(x)
           p == x.decimal_pos
<1>1. TrimmedFrom(r, v, p) BY DEF TrimmedFrom
<1>2. BelowBase(r) /\ (Whole(r) # 0 => r.neg = x.neg) BY TrimIs, TrimMultiple
<1>3. p \in Nat OBVIOUS
<1> HIDE DEF r, v, p
<1>4. IsTrimmed(r) /\ r.decimal_pos \in 0 .. p /\ Whole(r) \in Nat /\ Size(r, p) = v
  BY <1>1, <1>3, TrimmedSize
<1>5. Worth(r, v, p, x.neg) BY <1>2, <1>4 DEF Worth, Size
<1>6. QED BY <1>5 DEF r, v, p

(* What is left of the digits when the n lowest go. *)
LEMMA LoweredWhole ==
  ASSUME NEW x, IsNumber(x), HasRoom(x), BelowBase(x), NEW n \in 0 .. x.length
  PROVE  Whole(Lowered(x, n)) = Whole(x) \div Power(Base, n)
<1> DEFINE y == Lowered(x, n)
           r == Read(DigitsFrom(x), n)
           w == Power(Base, n)
<1>1. /\ IsNumber(y) /\ HasRoom(y) /\ y.length = x.length - n
      /\ \A i \in 1 .. x.length - n : y.digits[i] = x.digits[i + n]
  BY LoweredIs
<1>2. x.length \in Nat /\ n \in Nat BY NumberFields
<1> HIDE DEF y
<1>3. \A i \in 0 .. x.length - n - 1 : Digit(y, i) = Digit(x, i + n)
  <2> TAKE i \in 0 .. x.length - n - 1
  <2> DEFINE j == i + n
  <2>1. /\ i \in Int /\ i \in 0 .. y.length - 1 /\ i + 1 \in 1 .. x.length - n
        /\ j \in Int /\ j \in 0 .. x.length - 1 /\ (i + 1) + n = j + 1
    BY <1>1, <1>2
  <2>2. Digit(y, i) = y.digits[i + 1] BY <1>1, <2>1, DigitIs
  <2> HIDE DEF j
  <2>3. Digit(x, j) = x.digits[j + 1] BY <2>1, DigitIs
  <2>4. Digit(y, i) = Digit(x, j) BY <1>1, <2>1, <2>2, <2>3
  <2>5. QED BY <2>4 DEF j
<1>4. Whole(x) = r + Whole(y) * w /\ Whole(y) \in Nat /\ r \in Nat /\ r < w
  BY <1>1, <1>3, WholeShifted
<1>5. w \in Positive /\ w \in Nat /\ Whole(x) \in Nat BY <1>2, PlaceIs, DigitsFromIs
<1> DEFINE q == Whole(y)
           v == Whole(x)
<1>6. v = w * q + r /\ q \in Nat /\ v \in Nat BY <1>4, <1>5
<1> HIDE DEF q, v, r, w
<1>7. v \div w = q BY <1>4, <1>5, <1>6, QuotientUnique
<1>8. QED BY <1>7 DEF q, v, w, y

LEMMA WithoutPlacesWorth ==
  ASSUME NEW x, IsTrimmed(x), BelowBase(x), NEW n \in Nat, n <= x.decimal_pos
  PROVE  Worth(WithoutPlaces(x, n), Whole(x) \div Power(Base, n), x.decimal_pos - n, x.neg)
<1>1. /\ IsNumber(x) /\ HasRoom(x) /\ IsFormed(x) /\ x.length \in Nat /\ x.decimal_pos \in Int
      /\ Whole(x) \in Nat
  <2>1. IsNumber(x) /\ HasRoom(x) BY DEF IsTrimmed, IsCut
  <2>2. QED BY <2>1, NumberFields, DigitsFromIs, TrimmedIsFormed
<1> DEFINE u == Emptied(x)
           v == IF n < x.length THEN Lowered(x, n) ELSE u
           y == [v EXCEPT !.decimal_pos = x.decimal_pos - n]
           q == Whole(x) \div Power(Base, n)
<1>2. WithoutPlaces(x, n) = bignum_trim(y) BY DEF WithoutPlaces, Emptied
<1>3. /\ IsNumber(v) /\ HasRoom(v) /\ BelowBase(v) /\ v.length >= 1 /\ v.neg = x.neg
      /\ Whole(v) = q
  <2>1. CASE n < x.length
    <3>1. n \in 0 .. x.length /\ v = Lowered(x, n) BY <1>1, <2>1
    <3>2. x.length - n >= 1 BY <1>1, <2>1
    <3> HIDE DEF v
    <3>3. QED BY <1>1, <3>1, <3>2, LoweredIs, LoweredWhole
  <2>2. CASE ~(n < x.length)
    <3>1. v = u BY <2>2
    <3> HIDE DEF v
    <3>2. IsNumber(u) /\ HasRoom(u) /\ BelowBase(u) /\ u.length = 1 /\ Whole(u) = 0 /\ u.neg = x.neg
      BY <1>1, EmptiedIs
    <3> HIDE DEF u
    <3>3. q = 0
      <4> DEFINE m == Whole(x)
                 w == Power(Base, n)
                 z == 0
      <4>1. m < Power(Base, x.length) BY <1>1, WholeBounds
      <4>2. Power(Base, x.length) <= w /\ Power(Base, x.length) \in Nat
        <5> DEFINE l == x.length
        <5>1. l \in Nat /\ l <= n BY <1>1, <2>2
        <5> HIDE DEF l
        <5>2. Power(Base, l) <= Power(Base, n) BY <5>1, PlacesGrow
        <5>3. Power(Base, l) \in Nat BY <5>1, PlaceIs
        <5>4. QED BY <5>2, <5>3 DEF l
      <4>3. w \in Positive /\ w \in Nat /\ m \in Nat /\ z \in Nat /\ z = 0 BY <1>1, PlaceIs
      <4> HIDE DEF m, w, z
      <4>4. m < w /\ m = w * z + m BY <4>1, <4>2, <4>3
      <4>5. m \div w = z BY <4>3, <4>4, QuotientUnique
      <4>6. QED BY <4>3, <4>5 DEF m, w
    <3>4. QED BY <3>1, <3>2, <3>3
  <2>3. QED BY <2>1, <2>2
<1> HIDE DEF v, u, q
<1> DEFINE p == x.decimal_pos - n
<1>4. p \in Nat BY <1>1
<1>5. v.neg \in BOOLEAN /\ v.digits \in Seq(Nat) /\ v.length \in Nat
      /\ v = Number(v.neg, v.digits, v.length, v.decimal_pos)
  BY <1>3, NumberFields
<1>6. y = [v EXCEPT !.decimal_pos = p] OBVIOUS
<1> HIDE DEF p, y
<1>7. y = Number(v.neg, v.digits, v.length, p) BY <1>5, <1>6 DEF Number
<1>8. IsNumber(y) /\ y.digits = v.digits /\ y.length = v.length /\ y.neg = x.neg /\ y.decimal_pos = p
  BY <1>3, <1>4, <1>5, <1>7, NumberIs
<1>9. HasRoom(y) /\ BelowBase(y) BY <1>3, <1>8 DEF HasRoom, BelowBase
<1>10. Whole(y) = q
  <2>1. \A i \in 0 .. v.length - 1 : Digit(y, i) = Digit(v, i) BY <1>8 DEF Digit, Stored
  <2>2. Whole(y) = Whole(v) BY <1>3, <1>8, <2>1, SameWhole
  <2>3. QED BY <1>3, <2>2
<1>11. Worth(bignum_trim(y), Whole(y), y.decimal_pos, y.neg)
  <2>1. y.length >= 1 /\ y.decimal_pos \in Nat BY <1>3, <1>4, <1>8
  <2>2. QED BY <1>8, <1>9, <2>1, TrimWorth
<1>12. QED BY <1>2, <1>8, <1>10, <1>11 DEF p, q

(* The number of digits of a number, which no other has.                   *)
LEMMA CountOfIs ==
  ASSUME NEW n \in Nat
  PROVE  /\ CountOf(n) \in Nat /\ CountOf(n) >= 1 /\ n < Power(Base, CountOf(n))
         /\ CountOf(n) = 1 \/ n >= Power(Base, CountOf(n) - 1)
<1>1. \E len \in 1 .. n + 1 : IsLength(Base, n, len) BY BaseIs, LengthExists
<1>2. CountOf(n) = CHOOSE len \in 1 .. n + 1 : IsLength(Base, n, len) BY DEF CountOf, IsLength
<1>3. CountOf(n) \in 1 .. n + 1 /\ IsLength(Base, n, CountOf(n)) BY <1>1, <1>2
<1>4. QED BY <1>3 DEF IsLength

LEMMA CountUnique ==
  ASSUME NEW n \in Nat, NEW k \in Nat, k >= 1, n < Power(Base, k), k = 1 \/ n >= Power(Base, k - 1)
  PROVE  CountOf(n) = k
<1> DEFINE c == CountOf(n)
<1>1. c \in Nat /\ c >= 1 /\ n < Power(Base, c) /\ (c = 1 \/ n >= Power(Base, c - 1)) BY CountOfIs
<1> HIDE DEF c
<1>2. ASSUME NEW i \in Nat, NEW j \in Nat, j >= 1, i < j, n < Power(Base, i),
             j = 1 \/ n >= Power(Base, j - 1), i >= 1
      PROVE  FALSE
  <2> DEFINE m == j - 1
  <2>1. m \in Nat /\ i <= m /\ j # 1 BY <1>2
  <2>2. n >= Power(Base, m) BY <1>2, <2>1
  <2> HIDE DEF m
  <2>3. Power(Base, i) <= Power(Base, m) /\ Power(Base, i) \in Nat /\ Power(Base, m) \in Nat
    BY <2>1, PlacesGrow, PlaceIs
  <2>4. QED BY <1>2, <2>2, <2>3
<1>3. ~(c < k) BY <1>1, <1>2
<1>4. ~(k < c) BY <1>1, <1>2
<1>5. c = k BY <1>1, <1>3, <1>4
<1>6. QED BY <1>5 DEF c

(* Cutting e places off all that there may be.                              *)
Shortened(x, p, e) ==
  IF e > p - x.decimal_pos THEN WithoutPlaces(x, e - (p - x.decimal_pos)) ELSE x

LEMMA ShortenedWorth ==
  ASSUME NEW x, NEW v, NEW p \in Nat, NEW neg, Worth(x, v, p, neg), NEW e \in 0 .. p
  PROVE  /\ v \in Nat /\ v \div Power(Base, e) \in Nat
         /\ Worth(Shortened(x, p, e), v \div Power(Base, e), p - e, neg)
<1> DEFINE m == Whole(x)
           h == p - x.decimal_pos
           w == Power(Base, h)
           u == Power(Base, e)
<1>1. /\ IsTrimmed(x) /\ BelowBase(x) /\ x.decimal_pos \in 0 .. p /\ m \in Nat
      /\ m * w = v /\ (m # 0 => x.neg = neg)
  BY DEF Worth
<1>2. h \in Nat /\ e \in Nat /\ x.decimal_pos = p - h /\ h <= p BY <1>1
<1>3. w \in Nat /\ w \in Positive /\ u \in Nat /\ u \in Positive BY <1>2, PlaceIs
<1>4. v \in Nat
  <2> HIDE DEF m, w
  <2>1. m * w \in Nat BY <1>1, <1>3
  <2>2. QED BY <1>1, <2>1
<1>5. v \div u \in Nat
  <2> HIDE DEF u
  <2>1. QED BY <1>3, <1>4, DivMod
<1>6. CASE e > h
  <2> DEFINE n == e - h
             s == Power(Base, n)
             y == WithoutPlaces(x, n)
             q == m \div s
  <2>1. n \in Nat /\ n <= x.decimal_pos /\ h + n = e /\ x.decimal_pos - n = p - e BY <1>2, <1>6
  <2>2. Shortened(x, p, e) = y BY <1>6 DEF Shortened
  <2>3. s \in Positive /\ s \in Nat BY <2>1, PlaceIs
  <2>4. Worth(y, q, p - e, x.neg)
    <3> DEFINE g == p - e
    <3>1. x.decimal_pos - n = g BY <2>1
    <3> HIDE DEF g, n
    <3>2. Worth(WithoutPlaces(x, n), Whole(x) \div Power(Base, n), x.decimal_pos - n, x.neg)
      BY <1>1, <2>1, WithoutPlacesWorth
    <3>3. QED BY <3>1, <3>2 DEF g
  <2>5. v \div u = q
    <3>1. u = w * s
      <4> HIDE DEF h, n
      <4>1. Power(Base, h + n) = Power(Base, h) * Power(Base, n) BY <1>2, <2>1, BaseIs, PowerOfSum
      <4>2. QED BY <2>1, <4>1
    <3> HIDE DEF m, w, s, u
    <3>2. v \div w = m
      <4> DEFINE z == 0
      <4>1. z \in Nat /\ z < w /\ z = 0 BY <1>3 DEF Positive
      <4>2. v = w * m + z BY <1>1, <1>3, <4>1
      <4> HIDE DEF z
      <4>3. QED BY <1>1, <1>3, <1>4, <4>1, <4>2, QuotientUnique
    <3>3. (v \div w) \div s = v \div (w * s) BY <1>3, <1>4, <2>3, QuotientOfQuotient
    <3>4. QED BY <3>1, <3>2, <3>3
  <2>6. Whole(y) # 0 => x.neg = neg
    <3>1. m = 0 => q = 0
      <4> DEFINE z == 0
      <4>1. z \in Nat /\ z < s /\ z = 0 BY <2>3 DEF Positive
      <4> HIDE DEF s, m
      <4>2. z = s * z + z BY <2>3, <4>1
      <4> HIDE DEF z
      <4>3. z \div s = z BY <2>3, <4>1, <4>2, QuotientUnique
      <4>4. QED BY <4>1, <4>3
    <3>2. q = 0 => Whole(y) = 0
      <4>1. SUFFICES ASSUME q = 0 PROVE Whole(y) = 0 OBVIOUS
      <4> DEFINE i == Whole(y)
                 j == Power(Base, p - e - y.decimal_pos)
      <4>2. i \in Nat /\ i * j = 0 /\ y.decimal_pos \in 0 .. p - e BY <2>4, <4>1 DEF Worth
      <4>3. p - e - y.decimal_pos \in Nat BY <4>2
      <4>4. j \in Nat /\ j >= 1 BY <4>3, PlaceIs
      <4> HIDE DEF i, j
      <4>5. i * (j - 1) \in Nat /\ i * (j - 1) = i * j - i BY <4>2, <4>4
      <4>6. i = 0 BY <4>2, <4>5
      <4>7. QED BY <4>6 DEF i
    <3>3. QED BY <1>1, <3>1, <3>2
  <2>7. Worth(y, q, p - e, neg) BY <2>4, <2>6 DEF Worth
  <2>8. QED BY <1>4, <1>5, <2>2, <2>5, <2>7
<1>7. CASE ~(e > h)
  <2> DEFINE n == h - e
             s == Power(Base, n)
  <2>1. n \in Nat /\ e + n = h /\ p - e - x.decimal_pos = n /\ x.decimal_pos \in 0 .. p - e
    BY <1>1, <1>2, <1>7
  <2>2. Shortened(x, p, e) = x BY <1>7 DEF Shortened
  <2>3. s \in Nat BY <2>1, PlaceIs
  <2>4. w = u * s
    <3> HIDE DEF h, n
    <3>1. Power(Base, e + n) = Power(Base, e) * Power(Base, n) BY <1>2, <2>1, BaseIs, PowerOfSum
    <3>2. QED BY <2>1, <3>1
  <2>5. v \div u = m * s
    <3> DEFINE z == 0
               t == m * s
    <3>1. z \in Nat /\ z < u /\ z = 0 BY <1>3 DEF Positive
    <3> HIDE DEF m, w, s, u
    <3>2. t \in Nat BY <1>1, <2>3
    <3>3. u * (m * s) = m * (u * s) BY <1>1, <1>3, <2>3
    <3> HIDE DEF t
    <3>4. v = u * t BY <1>1, <2>4, <3>3 DEF t
    <3>5. u * t \in Nat BY <1>3, <3>2
    <3>6. v = u * t + z BY <3>1, <3>4, <3>5
    <3> HIDE DEF z
    <3>7. v \div u = t BY <1>3, <1>4, <3>1, <3>2, <3>6, QuotientUnique
    <3>8. QED BY <3>7 DEF t
  <2>6. Worth(x, m * s, p - e, neg)
    <3> DEFINE g == p - e
    <3>1. g - x.decimal_pos = n /\ x.decimal_pos \in 0 .. g BY <2>1
    <3> HIDE DEF g, n
    <3>2. Worth(x, m * s, g, neg) BY <1>1, <3>1 DEF Worth
    <3>3. QED BY <3>2 DEF g
  <2>7. QED BY <1>4, <1>5, <2>2, <2>5, <2>6
<1>8. QED BY <1>6, <1>7

(* The digits of a number brought to more places are its own and zeros.    *)
LEMMA CountOfWorth ==
  ASSUME NEW x, NEW v, NEW p \in Nat, NEW neg, Worth(x, v, p, neg), v # 0
  PROVE  CountOf(v) = x.length + (p - x.decimal_pos) /\ x.length >= 1
<1> DEFINE m == Whole(x)
           h == p - x.decimal_pos
           l == x.length
           j == l - 1
           w == Power(Base, h)
<1>1. /\ IsFormed(x) /\ BelowBase(x) /\ x.decimal_pos \in 0 .. p /\ m \in Nat /\ m * w = v
      /\ l \in Nat
  BY TrimmedIsFormed, NumberFields DEF Worth, IsFormed
<1>2. h \in Nat BY <1>1
<1>3. w \in Nat /\ w >= 1 BY <1>2, PlaceIs
<1>4. m # 0
  <2> HIDE DEF m, w
  <2>1. SUFFICES ASSUME m = 0 PROVE FALSE OBVIOUS
  <2>2. m * w = 0 BY <1>3, <2>1
  <2>3. QED BY <1>1, <2>2
<1>5. /\ m < Power(Base, l) /\ (l >= 2 => m >= Power(Base, l - 1)) /\ (l = 0 => m = 0)
  BY <1>1, WholeBounds
<1>6. l >= 1 /\ j \in Nat /\ l = j + 1 BY <1>1, <1>4, <1>5
<1>7. m >= Power(Base, j)
  <2>1. CASE l >= 2 BY <1>5, <2>1
  <2>2. CASE l = 1
    <3>1. j = 0 /\ Power(Base, 0) = 1 BY <2>2, BaseIs, PowerIs
    <3>2. QED BY <1>1, <1>4, <3>1
  <2>3. QED BY <1>1, <1>6, <2>1, <2>2
<1> DEFINE a == Power(Base, l)
           b == Power(Base, j)
           c == l + h
           d == j + h
<1>8. a \in Nat /\ b \in Nat BY <1>1, <1>6, PlaceIs
<1>9. c \in Nat /\ c >= 1 /\ c - 1 = d /\ d \in Nat BY <1>1, <1>2, <1>6
<1>10. Power(Base, c) = a * w /\ Power(Base, d) = b * w BY <1>1, <1>2, <1>6, BaseIs, PowerOfSum
<1>105. m < a /\ m >= b BY <1>5, <1>7
<1> HIDE DEF m, h, l, j, w, a, b, c, d
<1>11. v \in Nat /\ v < Power(Base, c) /\ v >= Power(Base, d)
  <2>1. (a - 1 - m) * w \in Nat /\ (a - 1 - m) * w = a * w - w - m * w BY <1>1, <1>3, <1>8, <1>105
  <2>2. (m - b) * w \in Nat /\ (m - b) * w = m * w - b * w BY <1>1, <1>3, <1>8, <1>105
  <2>3. m * w \in Nat /\ a * w \in Nat /\ b * w \in Nat BY <1>1, <1>3, <1>8
  <2>4. QED BY <1>1, <1>3, <1>10, <2>1, <2>2, <2>3
<1>12. CountOf(v) = c
  <2>1. c = 1 \/ v >= Power(Base, c - 1) BY <1>9, <1>11
  <2>2. QED BY <1>9, <1>11, <2>1, CountUnique
<1>13. QED BY <1>6, <1>12 DEF c, l, h

CutFor(p, precision) == Greater(0, p - precision)
OverFor(q, p) == Greater(0, Lesser(CountOf(q) - BIGNUM_MAX_DIGITS, p))

(* What is kept of a number is that number without the places beyond the   *)
(* precision, and then without those for which there are not enough digits. *)
LEMMA KeptWorth ==
  ASSUME NEW x, NEW v, NEW p \in Nat, NEW neg, Worth(x, v, p, neg), NEW precision \in Nat,
         NEW cut, cut = CutFor(p, precision), NEW q, q = v \div Power(Base, cut),
         NEW g, g = OverFor(q, p - cut)
  PROVE  /\ v \in Nat /\ cut \in 0 .. p /\ g \in 0 .. p - cut
         /\ Worth(Kept(x, precision), q \div Power(Base, g), p - cut - g, neg)
<1> DEFINE y == IF x.decimal_pos > precision
                THEN WithoutPlaces(x, x.decimal_pos - precision) ELSE x
           over == Lesser(y.length - BIGNUM_MAX_DIGITS, y.decimal_pos)
           max == BIGNUM_MAX_DIGITS
<1>0. max \in Nat /\ max >= 1 BY BignumAssumption
<1>1. Kept(x, precision) = IF over > 0 THEN WithoutPlaces(y, over) ELSE y BY DEF Kept
<1>2. x.decimal_pos \in 0 .. p BY DEF Worth
<1>3. cut \in 0 .. p /\ cut = IF p - precision > 0 THEN p - precision ELSE 0
  BY DEF CutFor, Greater
<1>4. y = Shortened(x, p, cut)
  <2>1. CASE x.decimal_pos > precision
    <3>1. cut > p - x.decimal_pos /\ cut - (p - x.decimal_pos) = x.decimal_pos - precision
      BY <1>2, <1>3, <2>1
    <3>2. QED BY <2>1, <3>1 DEF Shortened
  <2>2. CASE ~(x.decimal_pos > precision)
    <3>1. ~(cut > p - x.decimal_pos) BY <1>2, <1>3, <2>2
    <3>2. QED BY <2>2, <3>1 DEF Shortened
  <2>3. QED BY <2>1, <2>2
<1> HIDE DEF y
<1> DEFINE k == p - cut
<1>5. k \in Nat BY <1>3
<1>6. v \in Nat /\ q \in Nat /\ Worth(y, q, k, neg) BY <1>3, <1>4, ShortenedWorth
<1>7. /\ IsFormed(y) /\ y.decimal_pos \in 0 .. k /\ y.length \in Nat /\ Whole(y) \in Nat
      /\ Whole(y) * Power(Base, k - y.decimal_pos) = q
  BY <1>6, TrimmedIsFormed, NumberFields DEF Worth, IsFormed
<1>8. g = IF Lesser(CountOf(q) - max, k) > 0 THEN Lesser(CountOf(q) - max, k) ELSE 0
  <2> DEFINE all == Lesser(CountOf(q) - max, k)
  <2>1. g = Greater(0, all) BY DEF OverFor
  <2>2. all \in Int
    <3> DEFINE n == CountOf(q) - max
    <3>1. n \in Int
      <4>1. CountOf(q) \in Nat BY <1>6, CountOfIs
      <4>2. QED BY <1>0, <4>1
    <3> HIDE DEF n, k
    <3>2. Lesser(n, k) \in Int BY <1>5, <3>1 DEF Lesser
    <3>3. QED BY <3>2 DEF n
  <2> HIDE DEF all
  <2>3. g = IF all > 0 THEN all ELSE 0 BY <2>1, <2>2 DEF Greater
  <2>4. QED BY <2>3 DEF all
<1>9. over = IF y.length - max < y.decimal_pos THEN y.length - max ELSE y.decimal_pos
  BY DEF Lesser
<1> HIDE DEF k, over, max
<1>10. CASE q = 0
  <2>1. Whole(y) = 0
    <3> DEFINE n == k - y.decimal_pos
               i == Whole(y)
               j == Power(Base, n)
    <3>1. n \in Nat BY <1>5, <1>7
    <3>2. j \in Nat /\ j >= 1 BY <3>1, PlaceIs
    <3>3. i \in Nat /\ i * j = 0 BY <1>7, <1>10
    <3> HIDE DEF i, j, n
    <3>4. i * (j - 1) \in Nat /\ i * (j - 1) = i * j - i BY <3>2, <3>3
    <3>5. i = 0 BY <3>3, <3>4
    <3>6. QED BY <3>5 DEF i
  <2>2. y.length <= 1
    <3> DEFINE n == y.length - 1
    <3>1. SUFFICES ASSUME y.length >= 2 PROVE FALSE BY <1>7
    <3>2. n \in Nat BY <1>7, <3>1
    <3>3. Whole(y) >= Power(Base, n) BY <1>7, <3>1, WholeBounds
    <3> HIDE DEF n
    <3>4. Power(Base, n) \in Nat /\ Power(Base, n) >= 1 BY <3>2, PlaceIs
    <3>5. QED BY <2>1, <3>3, <3>4
  <2>3. ~(over > 0) BY <1>0, <1>7, <1>9, <2>2
  <2>4. CountOf(q) = 1
    <3> DEFINE one == 1
    <3>1. one \in Nat /\ one >= 1 /\ one = 1 OBVIOUS
    <3> HIDE DEF one
    <3>2. Power(Base, one) \in Nat /\ Power(Base, one) >= 1 BY <3>1, PlaceIs
    <3>3. q < Power(Base, one) BY <1>10, <3>2
    <3>4. CountOf(q) = one BY <1>6, <3>1, <3>3, CountUnique
    <3>5. QED BY <3>1, <3>4
  <2>5. g = 0 BY <1>0, <1>5, <1>8, <2>4 DEF Lesser
  <2>6. q \div Power(Base, g) = q
    <3>1. Power(Base, g) = 1 BY <2>5, BaseIs, PowerIs
    <3>2. QED BY <1>6, <3>1
  <2>7. Kept(x, precision) = y BY <1>1, <2>3
  <2>8. k - g = k BY <1>5, <2>5
  <2>9. g \in 0 .. k BY <1>5, <2>5
  <2>10. Worth(Kept(x, precision), q \div Power(Base, g), k - g, neg) BY <1>6, <2>6, <2>7, <2>8
  <2>11. QED BY <1>3, <1>6, <2>9, <2>10 DEF k
<1>11. CASE q # 0
  <2> DEFINE h == k - y.decimal_pos
             all == Lesser(CountOf(q) - max, k)
  <2>1. CountOf(q) = y.length + h BY <1>5, <1>6, <1>11, CountOfWorth
  <2>2. h \in Nat /\ y.decimal_pos = k - h BY <1>5, <1>7
  <2>3. all = IF CountOf(q) - max < k THEN CountOf(q) - max ELSE k BY DEF Lesser
  <2> HIDE DEF h, all
  <2>4. all = over + h /\ over \in Int /\ all \in Int /\ all <= k
    BY <1>0, <1>5, <1>7, <1>9, <2>1, <2>2, <2>3
  <2>5. g = (IF all > 0 THEN all ELSE 0) BY <1>8 DEF all
  <2>6. g \in 0 .. k /\ (g > h <=> over > 0) /\ (g > h => g - h = over) BY <1>5, <2>2, <2>4, <2>5
  <2>7. Kept(x, precision) = Shortened(y, k, g)
    <3>1. CASE over > 0
      <4>1. g > k - y.decimal_pos /\ g - (k - y.decimal_pos) = over BY <2>6, <3>1 DEF h
      <4>2. QED BY <1>1, <3>1, <4>1 DEF Shortened
    <3>2. CASE ~(over > 0)
      <4>1. ~(g > k - y.decimal_pos) BY <2>6, <3>2 DEF h
      <4>2. QED BY <1>1, <3>2, <4>1 DEF Shortened
    <3>3. QED BY <3>1, <3>2
  <2>8. Worth(Shortened(y, k, g), q \div Power(Base, g), k - g, neg)
    BY <1>5, <1>6, <2>6, ShortenedWorth
  <2>9. Worth(Kept(x, precision), q \div Power(Base, g), k - g, neg) BY <2>7, <2>8
  <2>10. QED BY <1>3, <1>6, <2>6, <2>9 DEF k
<1>12. QED BY <1>10, <1>11

-----------------------------------------------------------------------------
(* Products, quotients and remainders *)

LEMMA DigitsOfAre ==
  ASSUME NEW v \in Nat, NEW n \in Nat
  PROVE  /\ DigitsOf(v, n) \in Seq(Nat) /\ Len(DigitsOf(v, n)) = n
         /\ \A i \in 1 .. n : DigitsOf(v, n)[i] \in 0 .. Base - 1
         /\ \A i \in 0 .. n - 1 : DigitsOf(v, n)[i + 1] = (v \div Power(Base, i)) % Base
<1> DEFINE s == DigitsOf(v, n)
<1>1. \A i \in 1 .. n : s[i] = (v \div Power(Base, i - 1)) % Base BY DEF DigitsOf
<1>2. s = [i \in 1 .. n |-> s[i]] BY DEF DigitsOf
<1> HIDE DEF s
<1>3. \A i \in 1 .. n : s[i] \in 0 .. Base - 1
  <2> TAKE i \in 1 .. n
  <2> DEFINE j == i - 1
             q == v \div Power(Base, j)
  <2>1. j \in Nat OBVIOUS
  <2>2. s[i] = q % Base BY <1>1
  <2> HIDE DEF j
  <2>3. q \in Nat BY <2>1, PlaceIs, DivMod
  <2> HIDE DEF q
  <2>4. q % Base \in 0 .. Base - 1 BY <2>3, BaseIs, DivMod
  <2>5. QED BY <2>2, <2>4
<1>4. \A i \in 1 .. n : s[i] \in Nat BY <1>3, BaseIs
<1>5. s \in [1 .. n -> Nat] BY <1>2, <1>4
<1>6. s \in Seq(Nat) /\ Len(s) = n BY <1>5
<1>7. \A i \in 0 .. n - 1 : s[i + 1] = (v \div Power(Base, i)) % Base
  <2> TAKE i \in 0 .. n - 1
  <2>1. i + 1 \in 1 .. n /\ i + 1 - 1 = i OBVIOUS
  <2>2. QED BY <1>1, <2>1
<1>8. QED BY <1>3, <1>6, <1>7 DEF s

(* A value written with enough digits, wherever the point is. *)
LEMMA WrittenIs ==
  ASSUME NEW neg \in BOOLEAN, NEW v \in Nat, NEW n \in Nat, v < Power(Base, n), NEW p \in Int
  PROVE  LET x == Number(neg, DigitsOf(v, n), n, p)
         IN /\ IsNumber(x) /\ HasRoom(x) /\ BelowBase(x) /\ Whole(x) = v
            /\ x.neg = neg /\ x.length = n /\ x.decimal_pos = p
<1> DEFINE s == DigitsOf(v, n)
           d == [i \in 0 .. n - 1 |-> s[i + 1]]
           x == Number(neg, s, n, p)
<1>1. /\ s \in Seq(Nat) /\ Len(s) = n
      /\ \A i \in 1 .. n : s[i] \in 0 .. Base - 1
      /\ \A i \in 0 .. n - 1 : s[i + 1] = (v \div Power(Base, i)) % Base
  BY DigitsOfAre
<1> HIDE DEF s
<1>2. \A i \in 0 .. n - 1 : d[i] = s[i + 1] OBVIOUS
<1>3. \A i \in 0 .. n - 1 : d[i] = (v \div Power(Base, i)) % Base BY <1>1, <1>2
<1> HIDE DEF d
<1>4. Read(d, n) = v BY <1>3, ReadOfDigits
<1>5. IsNumber(x) /\ x.neg = neg /\ x.digits = s /\ x.length = n /\ x.decimal_pos = p
  BY <1>1, NumberIs
<1> HIDE DEF x
<1>6. HasRoom(x) BY <1>1, <1>5 DEF HasRoom
<1>7. BelowBase(x)
  <2>1. DOMAIN s = 1 .. n BY <1>1
  <2>2. \A i \in 1 .. n : s[i] < Base BY <1>1, BaseIs
  <2>3. QED BY <1>5, <2>1, <2>2 DEF BelowBase
<1>8. \A i \in 0 .. x.length - 1 : d[i] = Digit(x, i)
  <2> TAKE i \in 0 .. x.length - 1
  <2>1. i \in Int /\ i \in 0 .. n - 1 BY <1>5
  <2>2. Digit(x, i) = x.digits[i + 1] BY <1>5, <1>6, <2>1, DigitIs
  <2>3. QED BY <1>2, <1>5, <2>1, <2>2
<1>9. Whole(x) = v BY <1>4, <1>5, <1>8, WholeIs
<1>10. QED BY <1>5, <1>6, <1>7, <1>9 DEF x, s

(* A whole number written with enough digits and trimmed. *)
LEMMA WrittenAndTrimmed ==
  ASSUME NEW neg \in BOOLEAN, NEW v \in Nat, NEW n \in Nat, n >= 1, v < Power(Base, n)
  PROVE  LET r == bignum_trim(Number(neg, DigitsOf(v, n), n, 0))
         IN /\ IsTrimmed(r) /\ IsWhole(r) /\ Whole(r) = v
            /\ r.neg = neg \/ v = 0
<1> DEFINE none == 0
           x == Number(neg, DigitsOf(v, n), n, none)
           r == bignum_trim(x)
<1>1. none \in Int /\ none = 0 OBVIOUS
<1> HIDE DEF none
<1>2. /\ IsNumber(x) /\ HasRoom(x) /\ BelowBase(x) /\ Whole(x) = v
      /\ x.neg = neg /\ x.length = n /\ x.decimal_pos = none
  BY <1>1, WrittenIs
<1> HIDE DEF x
<1>3. x.length >= 1 /\ x.decimal_pos = 0 BY <1>1, <1>2
<1>4. /\ IsTrimmed(r) /\ BelowBase(r) /\ r.length >= 1 /\ r.decimal_pos = 0 /\ Whole(r) = v
      /\ r.neg = neg \/ v = 0
  BY <1>2, <1>3, TrimIs
<1> HIDE DEF r
<1>5. r.length > 0
  <2>1. IsNumber(r) BY <1>4 DEF IsTrimmed, IsCut
  <2>2. r.length \in Nat BY <2>1, NumberFields
  <2>3. QED BY <1>4, <2>2
<1>6. IsWhole(r) BY <1>4, <1>5, IsWholeIs
<1>7. QED BY <1>1, <1>4, <1>6 DEF r, x

(* Every written value may be trimmed. *)
LEMMA WrittenTrimmed ==
  ASSUME NEW neg \in BOOLEAN, NEW s \in Seq(Nat), NEW n \in Nat, Len(s) = n, NEW p \in Int
  PROVE  IsTrimmed(bignum_trim(Number(neg, s, n, p)))
<1> DEFINE x == Number(neg, s, n, p)
<1>1. IsNumber(x) /\ x.digits = s /\ x.length = n BY NumberIs
<1> HIDE DEF x
<1>2. HasRoom(x) BY <1>1 DEF HasRoom
<1>3. QED BY <1>1, <1>2, TrimIs DEF x

Product(a, b) ==
  Number(a.neg # b.neg, DigitsOf(Whole(a) * Whole(b), Greater(1, a.length + b.length)),
         Greater(1, a.length + b.length), a.decimal_pos + b.decimal_pos)

LEMMA MulIs ==
  ASSUME NEW a, NEW b, NEW r \in bignum_mul(a, b)
  PROVE  r \in bignum_copy(Kept(bignum_trim(Product(a, b)), BIGNUM_DEFAULT_PRECISION))
BY DEF bignum_mul, Product

LEMMA MulTrimmed ==
  ASSUME NEW a, NEW b, IsNumber(a), IsNumber(b), NEW r \in bignum_mul(a, b)
  PROVE  IsTrimmed(r)
<1> DEFINE v == Whole(a) * Whole(b)
           n == Greater(1, a.length + b.length)
           p == a.decimal_pos + b.decimal_pos
           neg == a.neg # b.neg
           t == bignum_trim(Product(a, b))
           k == Kept(t, BIGNUM_DEFAULT_PRECISION)
<1>1. r \in bignum_copy(k) BY MulIs
<1>2. v \in Nat
  <2>1. Whole(a) \in Nat /\ Whole(b) \in Nat BY DigitsFromIs
  <2>2. QED BY <2>1
<1>3. n \in Nat /\ p \in Int /\ neg \in BOOLEAN BY NumberFields DEF Greater
<1>4. t = bignum_trim(Number(neg, DigitsOf(v, n), n, p)) BY DEF Product
<1> HIDE DEF v, n, p, neg, t
<1>5. DigitsOf(v, n) \in Seq(Nat) /\ Len(DigitsOf(v, n)) = n BY <1>2, <1>3, DigitsOfAre
<1>6. IsTrimmed(t) BY <1>3, <1>4, <1>5, WrittenTrimmed
<1>7. IsTrimmed(k) BY <1>6, BignumAssumption, KeptIs
<1> HIDE DEF k
<1>8. QED BY <1>1, <1>7, TrimmedIsFormed, CopyIs

(* A product has no more digits than its factors together. *)
LEMMA ProductBelow ==
  ASSUME NEW i \in Nat, NEW j \in Nat, NEW m \in Nat, NEW k \in Nat,
         m < Power(Base, i), k < Power(Base, j)
  PROVE  m * k \in Nat /\ m * k < Power(Base, i + j)
<1> DEFINE x == Power(Base, i)
           y == Power(Base, j)
<1>1. x \in Nat /\ y \in Nat /\ m < x /\ k < y BY PlaceIs
<1>2. Power(Base, i + j) = x * y BY BaseIs, PowerOfSum
<1> HIDE DEF x, y
<1>3. m * (y - k) \in Nat /\ m * (y - k) = m * y - m * k BY <1>1
<1>4. (x - 1 - m) * y \in Nat /\ (x - 1 - m) * y = x * y - y - m * y BY <1>1
<1>5. m * y \in Nat /\ m * k \in Nat /\ x * y \in Nat BY <1>1
<1>6. m * k < x * y BY <1>1, <1>3, <1>4, <1>5
<1>7. QED BY <1>2, <1>5, <1>6

LEMMA MulExact ==
  ASSUME NEW a, NEW b, IsOperand(a), IsOperand(b)
  PROVE  ResultsAre(bignum_mul(a, b), Value(a) * Value(b))
<1> SUFFICES ASSUME NEW r \in bignum_mul(a, b)
             PROVE  IsTrimmed(r) /\ IsWhole(r) /\ Value(r) = Value(a) * Value(b)
  BY DEF ResultsAre
<1> DEFINE m == Whole(a)
           k == Whole(b)
           v == m * k
           n == Greater(1, a.length + b.length)
           neg == a.neg # b.neg
           t == bignum_trim(Product(a, b))
<1>1. r \in bignum_copy(Kept(t, BIGNUM_DEFAULT_PRECISION)) BY MulIs
<1>2. /\ a.length \in Nat /\ b.length \in Nat /\ a.length >= 1 /\ b.length >= 1
      /\ a.decimal_pos = 0 /\ b.decimal_pos = 0 /\ a.neg \in BOOLEAN /\ b.neg \in BOOLEAN
      /\ m \in Nat /\ k \in Nat /\ m < Power(Base, a.length) /\ k < Power(Base, b.length)
  BY OperandIs
<1>3. n \in Nat /\ n >= 1 /\ n = a.length + b.length /\ neg \in BOOLEAN BY <1>2 DEF Greater
<1>4. v \in Nat /\ v < Power(Base, n) BY <1>2, <1>3, ProductBelow
<1>5. t = bignum_trim(Number(neg, DigitsOf(v, n), n, 0)) BY <1>2 DEF Product
<1>6. Value(a) = (IF a.neg THEN -m ELSE m) /\ Value(b) = (IF b.neg THEN -k ELSE k) BY DEF Value
<1>7. IF neg THEN Value(a) * Value(b) = -v ELSE Value(a) * Value(b) = v
  <2>1. m \in Nat /\ k \in Nat /\ a.neg \in BOOLEAN /\ b.neg \in BOOLEAN BY <1>2
  <2> HIDE DEF m, k
  <2>2. (-m) * k = -(m * k) /\ m * (-k) = -(m * k) /\ (-m) * (-k) = m * k BY <2>1
  <2>3. QED BY <1>6, <2>1, <2>2
<1> HIDE DEF m, k, v, n, neg, t
<1>8. IsTrimmed(t) /\ IsWhole(t) /\ Whole(t) = v /\ (t.neg = neg \/ v = 0)
  BY <1>3, <1>4, <1>5, WrittenAndTrimmed
<1>9. Kept(t, BIGNUM_DEFAULT_PRECISION) = t
  <2>1. t.decimal_pos = 0 BY <1>8 DEF IsWhole
  <2>2. QED BY <1>8, <2>1, BignumAssumption, KeptIs
<1>10. r \in bignum_copy(t) BY <1>1, <1>9
<1>11. IsTrimmed(r) /\ IsWhole(r) /\ Whole(r) = v /\ r.neg = t.neg
  BY <1>8, <1>10, TrimmedIsFormed, CopyIs
<1>12. Value(r) = Value(a) * Value(b)
  <2>1. Value(r) = IF r.neg THEN -v ELSE v BY <1>11 DEF Value
  <2>2. CASE r.neg = neg BY <1>3, <1>7, <2>1, <2>2
  <2>3. CASE v = 0 BY <1>3, <1>7, <2>1, <2>3
  <2>4. QED BY <1>8, <1>11, <2>2, <2>3
<1>13. QED BY <1>11, <1>12

(* Products are exact but for the places that are cut off. *)
LEMMA MulScaled ==
  ASSUME NEW a, NEW b, IsFraction(a), IsFraction(b)
  PROVE  ProductIs(bignum_mul(a, b), a, b)
<1> DEFINE n == Whole(a) * Whole(b)
           p == a.decimal_pos + b.decimal_pos
           precision == BIGNUM_DEFAULT_PRECISION
           cut == CutFor(p, precision)
           q == n \div Power(Base, cut)
           g == OverFor(q, p - cut)
           unit == Power(Base, cut + g)
           neg == a.neg # b.neg
           len == Greater(1, a.length + b.length)
<1> SUFFICES ASSUME NEW r \in bignum_mul(a, b)
             PROVE  MultipleOf(r, unit * (n \div unit), p) /\ (Whole(r) # 0 => r.neg = neg)
  BY DEF ProductIs, CutFor, OverFor
<1>1. /\ a.length \in Nat /\ b.length \in Nat /\ a.decimal_pos \in Nat /\ b.decimal_pos \in Nat
      /\ Whole(a) \in Nat /\ Whole(b) \in Nat
      /\ Whole(a) < Power(Base, a.length) /\ Whole(b) < Power(Base, b.length)
  BY FractionIs
<1>2. /\ p \in Nat /\ precision \in Nat /\ neg \in BOOLEAN
      /\ len \in Nat /\ len >= 1 /\ a.length + b.length <= len
  <2>1. len \in Nat /\ len >= 1 /\ a.length + b.length <= len BY <1>1 DEF Greater
  <2>2. p \in Nat /\ neg \in BOOLEAN BY <1>1
  <2>3. precision \in Nat BY BignumAssumption
  <2> HIDE DEF len, p, neg, precision
  <2>4. QED BY <2>1, <2>2, <2>3
<1>3. n \in Nat /\ n < Power(Base, len)
  <2> DEFINE k == a.length + b.length
  <2>1. k \in Nat /\ k <= len BY <1>1, <1>2
  <2>2. n \in Nat /\ n < Power(Base, k) BY <1>1, ProductBelow
  <2> HIDE DEF k, n, len
  <2>3. Power(Base, k) <= Power(Base, len) /\ Power(Base, k) \in Nat /\ Power(Base, len) \in Nat
    BY <1>2, <2>1, PlacesGrow, PlaceIs
  <2>4. QED BY <2>2, <2>3
<1> DEFINE x == Number(neg, DigitsOf(n, len), len, p)
           t == bignum_trim(x)
           k == Kept(t, precision)
<1>4. r \in bignum_copy(k)
  <2>1. Product(a, b) = x BY DEF Product
  <2> HIDE DEF x
  <2>2. QED BY <2>1, MulIs
<1> HIDE DEF n, p, precision, neg, len
<1>5. Worth(t, n, p, neg)
  <2>1. p \in Int BY <1>2
  <2>2. /\ IsNumber(x) /\ HasRoom(x) /\ BelowBase(x) /\ Whole(x) = n
        /\ x.neg = neg /\ x.length = len /\ x.decimal_pos = p
    BY <1>2, <1>3, <2>1, WrittenIs
  <2> HIDE DEF x
  <2>3. x.length >= 1 /\ x.decimal_pos \in Nat BY <1>2, <2>2
  <2>4. Worth(bignum_trim(x), Whole(x), x.decimal_pos, x.neg) BY <2>2, <2>3, TrimWorth
  <2>5. QED BY <2>2, <2>4
<1> HIDE DEF t, x, cut, q, g
<1>6. /\ cut \in 0 .. p /\ g \in 0 .. p - cut
      /\ Worth(k, q \div Power(Base, g), p - cut - g, neg)
  <2>1. cut = CutFor(p, precision) /\ q = n \div Power(Base, cut) /\ g = OverFor(q, p - cut)
    BY DEF cut, q, g
  <2>2. QED BY <1>2, <1>5, <2>1, KeptWorth
<1> HIDE DEF k
<1>7. /\ Whole(r) = Whole(k) /\ r.neg = k.neg /\ r.decimal_pos = k.decimal_pos
  BY <1>4, <1>6, TrimmedIsFormed, CopyIs DEF Worth
<1> DEFINE s == p - cut - g
           h == s - r.decimal_pos
           j == cut + g
           d == q \div Power(Base, g)
           m == Whole(r)
           w == Power(Base, h)
<1>8. s \in Nat /\ j \in Nat /\ cut \in Nat /\ g \in Nat /\ s + j = p BY <1>2, <1>6
<1>9. r.decimal_pos \in 0 .. s /\ m \in Nat /\ m * w = d /\ (m # 0 => r.neg = neg)
  <2> HIDE DEF d
  <2>1. QED BY <1>6, <1>7 DEF Worth, d
<1>10. h \in Nat /\ h + j = p - r.decimal_pos /\ r.decimal_pos <= p BY <1>2, <1>8, <1>9
<1>11. n \div unit = d
  <2> DEFINE u == Power(Base, cut)
             v == Power(Base, g)
  <2>1. u \in Positive /\ v \in Positive BY <1>8, PlaceIs
  <2>2. unit = u * v BY <1>8, BaseIs, PowerOfSum
  <2>3. q = n \div u BY DEF q
  <2> HIDE DEF u, unit
  <2>4. (n \div u) \div v = n \div (u * v) BY <1>3, <2>1, QuotientOfQuotient
  <2>5. QED BY <2>2, <2>3, <2>4
<1>12. unit \in Nat /\ unit >= 1 /\ w \in Nat /\ w >= 1 BY <1>8, <1>10, PlaceIs
<1>13. Power(Base, p - r.decimal_pos) = w * unit
  <2>1. Power(Base, h + j) = Power(Base, h) * Power(Base, j) BY <1>8, <1>10, BaseIs, PowerOfSum
  <2> HIDE DEF h
  <2>2. QED BY <1>10, <2>1
<1> HIDE DEF s, h, j, d, m, w, unit
<1>14. MultipleOf(r, unit * d, p)
  <2>1. m * (w * unit) = unit * (m * w) BY <1>9, <1>12
  <2>2. m * (w * unit) = unit * d BY <1>9, <2>1
  <2>3. ASSUME unit * d = 0 PROVE m = 0
    <3>1. w * unit \in Nat /\ w * unit >= 1
      <4>1. w * (unit - 1) \in Nat /\ w * (unit - 1) = w * unit - w /\ w * unit \in Nat BY <1>12
      <4>2. QED BY <1>12, <4>1
    <3> DEFINE z == w * unit
    <3>2. z \in Nat /\ z >= 1 /\ m * z = 0 BY <2>2, <2>3, <3>1
    <3> HIDE DEF z
    <3>3. m * (z - 1) \in Nat /\ m * (z - 1) = m * z - m BY <1>9, <3>2
    <3>4. QED BY <1>9, <3>2, <3>3
  <2>4. Whole(r) = m BY DEF m
  <2> DEFINE c == unit * d
  <2>5. Whole(r) * Power(Base, p - r.decimal_pos) = c BY <1>13, <2>2, <2>4
  <2>6. c = 0 => Whole(r) = 0 BY <2>3, <2>4
  <2> HIDE DEF c
  <2>7. MultipleOf(r, c, p) BY <1>10, <2>5, <2>6 DEF MultipleOf
  <2>8. QED BY <2>7 DEF c
<1>15. QED BY <1>9, <1>11, <1>14 DEF m

(* Only zero is divided by nothing. *)
LEMMA NotZero ==
  ASSUME NEW b, IsFormed(b), ~IsZero(b), b.length # 0
  PROVE  Whole(b) \in Nat /\ Whole(b) > 0
<1>1. b.length \in Nat BY NumberFields DEF IsFormed
<1>2. /\ Whole(b) \in Nat /\ (b.length >= 2 => Whole(b) >= Power(Base, b.length - 1))
      /\ (Stored(b, 0) # 0 /\ b.length = 1 => Whole(b) > 0)
  BY WholeBounds
<1>3. CASE b.length >= 2
  <2> DEFINE n == b.length - 1
  <2>1. n \in Nat BY <1>1, <1>3
  <2>2. Whole(b) >= Power(Base, n) BY <1>2, <1>3
  <2> HIDE DEF n
  <2>3. Power(Base, n) \in Nat /\ Power(Base, n) >= 1 BY <2>1, PlaceIs
  <2>4. QED BY <1>2, <2>2, <2>3
<1>4. CASE b.length = 1 BY <1>2, <1>4 DEF IsZero
<1>5. QED BY <1>1, <1>3, <1>4

LEMMA QuotientIsDigits ==
  ASSUME NEW v \in Nat, NEW b, IsFormed(b), ~IsZero(b), NEW n \in Nat
  PROVE  Quotient(v, b, n) \in Seq(Nat) /\ Len(Quotient(v, b, n)) = n
<1>1. CASE b.length = 0
  <2> DEFINE s == [i \in 1 .. n |-> Base]
  <2>1. Quotient(v, b, n) = s BY <1>1 DEF Quotient
  <2>2. s \in [1 .. n -> Nat] BY BaseIs
  <2> HIDE DEF s
  <2>3. s \in Seq(Nat) /\ Len(s) = n BY <2>2
  <2>4. QED BY <2>1, <2>3
<1>2. CASE b.length # 0
  <2> DEFINE q == v \div Whole(b)
  <2>1. Whole(b) \in Positive BY <1>2, NotZero DEF Positive
  <2>2. q \in Nat BY <2>1, DivMod
  <2>3. Quotient(v, b, n) = DigitsOf(q, n) BY <1>2 DEF Quotient
  <2> HIDE DEF q
  <2>4. QED BY <2>2, <2>3, DigitsOfAre
<1>3. QED BY <1>1, <1>2

LEMMA DivTrimmed ==
  ASSUME NEW a, NEW b, IsFormed(a), IsFormed(b), NEW precision \in Nat,
         NEW r \in bignum_div(a, b, precision)
  PROVE  IsTrimmed(r)
<1> DEFINE scale == precision + GUARD_DIGITS
           len == IF Whole(a) = 0 THEN a.length ELSE a.length + scale
           v == Whole(a) * Power(Base, scale)
           neg == a.neg # b.neg
           p == scale + a.decimal_pos - b.decimal_pos
           s == Quotient(v, b, len)
<1>1. r = bignum_trim(Number(neg, s, len, p)) /\ ~IsZero(b) BY DEF bignum_div
<1>2. /\ a.length \in Nat /\ a.decimal_pos \in Int /\ b.decimal_pos \in Int
      /\ IsNumber(a) /\ Whole(a) \in Nat
  BY NumberFields, DigitsFromIs DEF IsFormed
<1>3. scale \in Nat BY BignumAssumption
<1> HIDE DEF scale
<1>4. len \in Nat /\ p \in Int /\ neg \in BOOLEAN BY <1>2, <1>3
<1>5. v \in Nat
  <2>1. Power(Base, scale) \in Nat BY <1>3, PlaceIs
  <2>2. QED BY <1>2, <2>1
<1> HIDE DEF len, v, neg, p
<1>6. s \in Seq(Nat) /\ Len(s) = len BY <1>1, <1>4, <1>5, QuotientIsDigits
<1> HIDE DEF s
<1>7. QED BY <1>1, <1>4, <1>6, WrittenTrimmed

LEMMA ZeroDividesNothing ==
  ASSUME NEW a, NEW b, IsOperand(b), Value(b) = 0
  PROVE  bignum_mod(a, b) = {} /\ bignum_div(a, b, 0) = {}
<1>1. IsFormed(b) /\ b.length >= 1 /\ b.length \in Nat /\ Whole(b) \in Nat BY OperandIs
<1>2. Whole(b) = 0 BY <1>1 DEF Value
<1>3. IsZero(b) BY <1>1, <1>2, NotZero
<1>4. QED BY <1>3 DEF bignum_mod, bignum_div

(* Quotients are exact but for the places after those that were asked for. *)
LEMMA DivScaled ==
  ASSUME NEW a, NEW b, IsFraction(a), IsFraction(b), Whole(b) # 0, NEW precision \in Nat
  PROVE  QuotientIs(bignum_div(a, b, precision), a, b, precision)
<1> DEFINE scale == precision + GUARD_DIGITS
           w == Power(Base, scale)
           m == Whole(a)
           k == Whole(b)
           v == m * w
           q == v \div k
           len == IF m = 0 THEN a.length ELSE a.length + scale
           neg == a.neg # b.neg
           p == scale + a.decimal_pos - b.decimal_pos
           x == Number(neg, DigitsOf(q, len), len, p)
<1> SUFFICES ASSUME NEW r \in bignum_div(a, b, precision)
             PROVE  MultipleOf(r, q, p) /\ (Whole(r) # 0 => r.neg = neg)
  BY DEF QuotientIs
<1>1. /\ a.length \in Nat /\ a.decimal_pos \in Nat /\ b.decimal_pos \in Nat
      /\ m \in Nat /\ k \in Nat /\ m < Power(Base, a.length)
      /\ IsFormed(b) /\ b.length \in Nat
  BY FractionIs
<1>2. scale \in Nat BY BignumAssumption
<1>3. b.length # 0 BY <1>1, WholeBounds
<1>4. r = bignum_trim(x)
  <2>1. Quotient(v, b, len) = DigitsOf(q, len) BY <1>3 DEF Quotient
  <2>2. r = bignum_trim(Number(neg, Quotient(v, b, len), len, p)) BY DEF bignum_div
  <2> HIDE DEF v, q, len, neg, p
  <2>3. QED BY <2>1, <2>2
<1> HIDE DEF scale
<1>5. /\ w \in Nat /\ w >= 1 /\ k \in Positive /\ neg \in BOOLEAN /\ p \in Int /\ len \in Nat
  <2>1. w \in Nat /\ w >= 1 BY <1>2, PlaceIs
  <2>2. k \in Positive BY <1>1 DEF Positive
  <2>3. neg \in BOOLEAN /\ p \in Int /\ len \in Nat BY <1>1, <1>2
  <2> HIDE DEF w, k, neg, p, len
  <2>4. QED BY <2>1, <2>2, <2>3
<1> HIDE DEF neg, p
<1>6. v \in Nat /\ v < Power(Base, len)
  <2>1. CASE m = 0
    <3> DEFINE z == 0
    <3>1. v = 0
      <4> HIDE DEF w
      <4>1. QED BY <1>5, <2>1
    <3>2. Power(Base, len) \in Nat /\ Power(Base, len) >= 1 BY <1>5, PlaceIs
    <3> HIDE DEF v, len
    <3>3. QED BY <3>1, <3>2
  <2>2. CASE m # 0
    <3> DEFINE l == a.length
               u == Power(Base, l)
    <3>1. len = l + scale /\ l \in Nat /\ u \in Nat /\ m < u BY <1>1, <2>2, PlaceIs
    <3>2. Power(Base, l + scale) = u * w BY <1>2, <3>1, BaseIs, PowerOfSum
    <3> HIDE DEF l, u, m, w, len
    <3>3. (u - 1 - m) * w \in Nat /\ (u - 1 - m) * w = u * w - w - m * w BY <1>1, <1>5, <3>1
    <3>4. m * w \in Nat /\ u * w \in Nat BY <1>1, <1>5, <3>1
    <3>5. QED BY <1>5, <3>1, <3>2, <3>3, <3>4
  <2>3. QED BY <2>1, <2>2
<1> HIDE DEF v, m, w
<1>7. q \in Nat /\ q <= v
  <2> DEFINE s == v % k
  <2>1. k \in Nat /\ k >= 1 BY <1>5 DEF Positive
  <2>2. q \in Nat /\ s \in 0 .. k - 1 /\ v = k * q + s BY <1>5, <1>6, DivMod
  <2> HIDE DEF q, s, k
  <2>3. (k - 1) * q \in Nat /\ (k - 1) * q = k * q - q BY <2>1, <2>2
  <2>4. QED BY <1>6, <2>1, <2>2, <2>3
<1>8. q < Power(Base, len)
  <2>1. Power(Base, len) \in Nat BY <1>5, PlaceIs
  <2> HIDE DEF q, len
  <2>2. QED BY <1>6, <1>7, <2>1
<1> HIDE DEF q, len
<1>9. /\ IsNumber(x) /\ HasRoom(x) /\ Whole(x) = q /\ x.neg = neg /\ x.decimal_pos = p
  BY <1>5, <1>7, <1>8, WrittenIs
<1> HIDE DEF x
<1>10. MultipleOf(r, q, p) /\ (Whole(r) # 0 => r.neg = neg) BY <1>4, <1>9, TrimMultiple
<1>11. QED BY <1>10

Remainder(a, b) == Number(FALSE, DigitsOf(Whole(a) % Whole(b), b.length), b.length, 0)

LEMMA ModIs ==
  ASSUME NEW a, NEW b, NEW r \in bignum_mod(a, b)
  PROVE  /\ r = bignum_trim(WithSign(bignum_trim(Remainder(a, b)), a.neg))
         /\ ~IsZero(b) /\ ~HasPlaces(a) /\ ~HasPlaces(b)
BY DEF bignum_mod, WithSign, Remainder

LEMMA ModTrimmed ==
  ASSUME NEW a, NEW b, IsFormed(a), IsFormed(b), ModReturns(a, b), NEW r \in bignum_mod(a, b)
  PROVE  IsTrimmed(r)
<1> DEFINE v == Whole(a) % Whole(b)
           n == b.length
           t == bignum_trim(Remainder(a, b))
           u == WithSign(t, a.neg)
<1>1. r = bignum_trim(u) /\ ~IsZero(b) /\ b.length > 0 BY ModIs DEF ModReturns
<1>2. /\ n \in Nat /\ a.neg \in BOOLEAN /\ Whole(a) \in Nat /\ b.length # 0
  BY <1>1, NumberFields, DigitsFromIs DEF IsFormed
<1>3. Whole(b) \in Positive BY <1>1, <1>2, NotZero DEF Positive
<1>4. v \in Nat BY <1>2, <1>3, DivMod
<1> HIDE DEF v
<1>5. IsTrimmed(t)
  <2> DEFINE plus == FALSE
             none == 0
             s == DigitsOf(v, n)
  <2>1. plus \in BOOLEAN /\ none \in Int OBVIOUS
  <2>2. t = bignum_trim(Number(plus, s, n, none)) BY DEF Remainder, v
  <2> HIDE DEF plus, none, t, n
  <2>3. s \in Seq(Nat) /\ Len(s) = n BY <1>2, <1>4, DigitsOfAre
  <2> HIDE DEF s
  <2>4. QED BY <1>2, <2>1, <2>2, <2>3, WrittenTrimmed
<1> HIDE DEF t
<1>6. IsTrimmed(u) BY <1>2, <1>5, SignKeepsNumber
<1> HIDE DEF u
<1>7. QED BY <1>1, <1>6, TrimIs DEF IsTrimmed, IsCut

LEMMA ModExact ==
  ASSUME NEW a, NEW b, IsOperand(a), IsOperand(b), Value(b) # 0
  PROVE  ResultsAre(bignum_mod(a, b), (IF Value(a) < 0 THEN -1 ELSE 1) * (Whole(a) % Whole(b)))
<1> DEFINE v == Whole(a) % Whole(b)
           n == b.length
           t == bignum_trim(Remainder(a, b))
           u == WithSign(t, a.neg)
<1> SUFFICES ASSUME NEW r \in bignum_mod(a, b)
             PROVE  IsTrimmed(r) /\ IsWhole(r) /\ Value(r) = (IF Value(a) < 0 THEN -1 ELSE 1) * v
  BY DEF ResultsAre
<1>1. r = bignum_trim(u) BY ModIs
<1>2. /\ n \in Nat /\ n >= 1 /\ a.neg \in BOOLEAN /\ Whole(a) \in Nat
      /\ Whole(b) \in Nat /\ Whole(b) < Power(Base, n)
  BY OperandIs
<1>3. Whole(b) \in Positive BY <1>2 DEF Positive, Value
<1>4. v \in Nat /\ v < Power(Base, n) /\ (Whole(a) = 0 => v = 0)
  <2>1. v \in 0 .. Whole(b) - 1 BY <1>2, <1>3, DivMod
  <2>2. Whole(a) = 0 => v = 0
    <3>1. ASSUME Whole(a) = 0 PROVE Whole(a) = Whole(b) * 0 + 0 BY <1>2, <3>1
    <3>2. 0 < Whole(b) BY <1>3 DEF Positive
    <3>3. QED BY <1>2, <1>3, <3>1, <3>2, QuotientUnique
  <2>3. Power(Base, n) \in Nat BY <1>2, PlaceIs
  <2> HIDE DEF v
  <2>4. QED BY <1>2, <2>1, <2>2, <2>3
<1> HIDE DEF v
<1>5. IsTrimmed(t) /\ IsWhole(t) /\ Whole(t) = v
  <2> DEFINE plus == FALSE
  <2>1. plus \in BOOLEAN OBVIOUS
  <2>2. t = bignum_trim(Number(plus, DigitsOf(v, n), n, 0)) BY DEF Remainder, v
  <2> HIDE DEF plus, t, n
  <2>3. QED BY <1>2, <1>4, <2>1, <2>2, WrittenAndTrimmed
<1> HIDE DEF t
<1>6. IsTrimmed(u) /\ IsWhole(u) /\ Whole(u) = v /\ u.neg = a.neg BY <1>2, <1>5, SignKeepsNumber
<1> HIDE DEF u
<1>7. /\ IsTrimmed(r) /\ IsWhole(r) /\ Whole(r) = v /\ (r.neg = a.neg \/ v = 0)
  <2>1. /\ IsNumber(u) /\ HasRoom(u) /\ u.length > 0 /\ u.decimal_pos = 0 /\ BelowBase(u)
    BY <1>6 DEF IsTrimmed, IsCut, IsWhole, Proper, BelowBase
  <2>2. u.length >= 1 BY <2>1, NumberFields
  <2>3. /\ IsTrimmed(r) /\ BelowBase(r) /\ r.length >= 1 /\ r.decimal_pos = 0
        /\ Whole(r) = Whole(u) /\ (r.neg = u.neg \/ Whole(u) = 0)
    BY <1>1, <2>1, <2>2, TrimIs
  <2>4. r.length > 0 BY <2>3, NumberFields DEF IsTrimmed, IsCut
  <2>5. IsWhole(r) BY <2>3, <2>4, IsWholeIs
  <2>6. QED BY <1>6, <2>3, <2>5
<1>8. Value(r) = (IF Value(a) < 0 THEN -1 ELSE 1) * v
  <2>1. Value(r) = IF r.neg THEN -v ELSE v BY <1>7 DEF Value
  <2>2. Value(a) = IF a.neg THEN -Whole(a) ELSE Whole(a) BY DEF Value
  <2>3. CASE v = 0
    <3> DEFINE w == -v
    <3>0. w \in Int /\ v + w = 0 BY <1>4
    <3> HIDE DEF w
    <3>01. w = v BY <1>4, <2>3, <3>0
    <3>1. -v = v BY <3>01 DEF w
    <3>2. \A k \in Int : k * v = v BY <1>4, <2>3
    <3>3. -1 \in Int /\ 1 \in Int OBVIOUS
    <3>4. QED BY <2>1, <3>1, <3>2, <3>3
  <2>4. CASE v # 0
    <3>1. Whole(a) # 0 /\ r.neg = a.neg BY <1>4, <1>7, <2>4
    <3>2. Value(a) < 0 <=> a.neg BY <1>2, <2>2, <3>1
    <3>3. (-1) * v = -v /\ 1 * v = v BY <1>4
    <3>4. QED BY <1>2, <2>1, <3>1, <3>2, <3>3
  <2>5. QED BY <2>3, <2>4
<1>9. QED BY <1>7, <1>8

-----------------------------------------------------------------------------
(* Powers by squaring *)

LEMMA TwoIs ==
  ASSUME NEW n \in Nat
  PROVE  /\ Power(2, n) \in Nat /\ Power(2, n) >= 1 /\ Power(2, n) \in Positive
         /\ Power(2, n + 1) = Power(2, n) + Power(2, n)
<1> DEFINE two == 2
<1>1. two \in Positive /\ two \in Int /\ two = 2 BY DEF Positive
<1> HIDE DEF two
<1>2. Power(two, n) \in Positive /\ Power(two, n) \in Nat BY <1>1, PowerPositive
<1>3. Power(two, n + 1) = two * Power(two, n) BY <1>1, PowerIs
<1> DEFINE p == Power(two, n)
<1>4. p \in Nat /\ p # 0 BY <1>2 DEF Positive
<1> HIDE DEF p
<1>5. two * p = p + p BY <1>1, <1>4
<1>6. QED BY <1>1, <1>2, <1>3, <1>4, <1>5 DEF p

LEMMA BelowPowerOfTwo == ASSUME NEW n \in Nat PROVE n < Power(2, n)
<1> DEFINE two == 2
<1>1. two \in Positive /\ two > 1 /\ two = 2 BY DEF Positive
<1> HIDE DEF two
<1>2. n < Power(two, n) BY <1>1, BelowPower
<1>3. QED BY <1>1, <1>2

(* The number of bits of an exponent. *)
IsBitCount(e, n) == e < Power(2, n) /\ (n = 0 \/ e >= Power(2, n - 1))
BitCount(e) == CHOOSE n \in 0 .. e : IsBitCount(e, n)

LEMMA BitCountIs ==
  ASSUME NEW e \in Nat
  PROVE  BitCount(e) \in 0 .. e /\ e < Power(2, BitCount(e))
<1> DEFINE S == {n \in Nat : e < Power(2, n)}
<1>1. e \in S BY BelowPowerOfTwo
<1>2. S \in SUBSET Nat /\ S # {} BY <1>1
<1>3. PICK n \in S : \A k \in S : n <= k BY <1>2, Arrays!LeastExists
<1>4. n \in 0 .. e /\ n \in Nat /\ e < Power(2, n) BY <1>1, <1>3
<1>5. n = 0 \/ e >= Power(2, n - 1)
  <2> SUFFICES ASSUME n # 0 PROVE e >= Power(2, n - 1) OBVIOUS
  <2> DEFINE k == n - 1
  <2>1. k \in Nat /\ ~(n <= k) BY <1>4
  <2>2. k \notin S BY <1>3, <2>1
  <2>3. Power(2, k) \in Nat /\ ~(e < Power(2, k)) BY <2>1, <2>2, TwoIs
  <2>4. QED BY <2>3
<1>6. \E i \in 0 .. e : IsBitCount(e, i) BY <1>4, <1>5 DEF IsBitCount
<1>7. BitCount(e) \in 0 .. e /\ IsBitCount(e, BitCount(e)) BY <1>6 DEF BitCount
<1>8. QED BY <1>7 DEF IsBitCount

(* The lowest bits of an exponent, one by one. *)
LEMMA NextBit ==
  ASSUME NEW e \in Nat, NEW i \in Nat
  PROVE  /\ e % Power(2, i) \in Nat
         /\ (e \div Power(2, i)) % 2 \in {0, 1}
         /\ (e \div Power(2, i)) % 2 = 1 => e % Power(2, i + 1) = (e % Power(2, i)) + Power(2, i)
         /\ (e \div Power(2, i)) % 2 = 0 => e % Power(2, i + 1) = e % Power(2, i)
<1> DEFINE p == Power(2, i)
           q == e \div p
           r == e % p
           s == q \div 2
           b == q % 2
<1>1. p \in Positive /\ p \in Nat /\ p >= 1 /\ Power(2, i + 1) = p + p BY TwoIs
<1> HIDE DEF p
<1>2. q \in Nat /\ r \in 0 .. p - 1 /\ e = p * q + r BY <1>1, DivMod
<1> HIDE DEF q, r
<1>3. s \in Nat /\ b \in 0 .. 1 /\ q = 2 * s + b BY <1>2
<1> HIDE DEF s, b
<1> DEFINE w == p + p
           t == p * b + r
<1>4. t \in Nat /\ t < w /\ (b = 1 => t = r + p) /\ (b = 0 => t = r)
  <2>1. b = 0 \/ b = 1 BY <1>3
  <2>2. CASE b = 0
    <3>1. t = r BY <1>1, <1>2, <2>2
    <3>2. QED BY <1>1, <1>2, <2>2, <3>1
  <2>3. CASE b = 1
    <3>1. t = r + p BY <1>1, <1>2, <2>3
    <3>2. QED BY <1>1, <1>2, <2>3, <3>1
  <2>4. QED BY <2>1, <2>2, <2>3
<1>5. e = w * s + t
  <2>1. p * q = (p + p) * s + p * b
    <3>1. p * (2 * s + b) = p * (2 * s) + p * b BY <1>1, <1>3
    <3>2. p * (2 * s) = (p + p) * s BY <1>1, <1>3
    <3>3. QED BY <1>3, <3>1, <3>2
  <2>2. (p + p) * s \in Nat /\ p * b \in Nat BY <1>1, <1>3
  <2>3. QED BY <1>2, <2>1, <2>2
<1>6. w \in Positive BY <1>1 DEF Positive
<1> HIDE DEF w, t
<1>7. e % w = t BY <1>3, <1>4, <1>5, <1>6, QuotientUnique
<1>8. e % Power(2, i + 1) = t BY <1>1, <1>7 DEF w
<1>9. QED BY <1>2, <1>3, <1>4, <1>8 DEF r, b, q, p

(* Products of all pairs, and the steps of the two loops. *)
Multiplied(precision, xs, ys) ==
  {Kept(z, precision) : z \in UNION {bignum_mul(x, y) : x \in xs, y \in ys}}
SquareStep(base, precision, g, i) ==
  IF i = 0 THEN bignum_copy(base) ELSE Multiplied(precision, g[i - 1], g[i - 1])
Squaring(base, precision, n, g) ==
  g = [i \in 0 .. n - 1 |-> SquareStep(base, precision, g, i)]
Squares(base, precision, n) == CHOOSE g : Squaring(base, precision, n, g)
PowStep(precision, sq, e, g, i) ==
  IF i = 0 THEN {One}
  ELSE IF (e \div Power(2, i - 1)) % 2 = 1 THEN Multiplied(precision, g[i - 1], sq[i - 1])
  ELSE IF sq[i - 1] = {} THEN {} ELSE g[i - 1]
Powering(precision, sq, e, n, g) == g = [i \in 0 .. n |-> PowStep(precision, sq, e, g, i)]
Powers(precision, sq, e, n) == CHOOSE g : Powering(precision, sq, e, n, g)

LEMMA PowIs ==
  ASSUME NEW base, NEW exponent, NEW precision
  PROVE  LET e == Exponent(exponent)
             n == BitCount(e)
         IN bignum_pow(base, exponent, precision) =
              IF exponent.neg \/ HasPlaces(exponent) \/ e > MAX_EXPONENT THEN {}
              ELSE {bignum_trim(x) : x \in
                      Powers(precision, Squares(base, precision, n), e, n)[n]}
BY DEF bignum_pow, BitCount, IsBitCount, Multiplied, SquareStep, Squaring, Squares, PowStep,
       Powering, Powers

LEMMA SquaringExists ==
  ASSUME NEW base, NEW precision, NEW n \in Nat
  PROVE  \E g : Squaring(base, precision, n, g)
<1> DEFINE good == {k \in Nat : \E g : Squaring(base, precision, k, g)}
<1>1. 0 \in good
  <2> DEFINE g == [i \in 0 .. 0 - 1 |-> SquareStep(base, precision, <<>>, i)]
  <2>1. g = [i \in 0 .. 0 - 1 |-> SquareStep(base, precision, g, i)]
    <3>1. \A i \in 0 .. 0 - 1 : FALSE OBVIOUS
    <3>2. QED BY <3>1
  <2> HIDE DEF g
  <2>2. Squaring(base, precision, 0, g) BY <2>1 DEF Squaring
  <2>3. QED BY <2>2
<1>2. ASSUME NEW k \in 0 .. n - 1, k \in good PROVE k + 1 \in good
  <2>1. k \in Nat /\ k + 1 \in Nat /\ k + 1 - 1 = k OBVIOUS
  <2>2. PICK g : Squaring(base, precision, k, g) BY <1>2
  <2> DEFINE h == [i \in 0 .. k |-> IF i = k THEN SquareStep(base, precision, g, i) ELSE g[i]]
  <2>3. ASSUME NEW i \in 0 .. k PROVE h[i] = SquareStep(base, precision, h, i)
    <3>0. \A j \in 0 .. k - 1 : g[j] = SquareStep(base, precision, g, j) BY <2>2 DEF Squaring
    <3>1. h[i] = SquareStep(base, precision, g, i)
      <4>1. CASE i = k BY <4>1
      <4>2. CASE i # k
        <5>1. i \in 0 .. k - 1 BY <2>1, <4>2
        <5>2. QED BY <3>0, <4>2, <5>1
      <4>3. QED BY <4>1, <4>2
    <3>2. i # 0 => h[i - 1] = g[i - 1] BY <2>1
    <3> HIDE DEF h
    <3>3. QED BY <3>1, <3>2 DEF SquareStep
  <2>4. h = [i \in 0 .. k |-> h[i]] OBVIOUS
  <2> HIDE DEF h
  <2>5. h = [i \in 0 .. k |-> SquareStep(base, precision, h, i)] BY <2>3, <2>4
  <2>6. Squaring(base, precision, k + 1, h) BY <2>1, <2>5 DEF Squaring
  <2>7. QED BY <2>1, <2>6
<1> HIDE DEF good
<1>3. \A k \in 0 .. n : k \in good BY <1>1, <1>2, Arrays!UpTo
<1>4. n \in good BY <1>3
<1>5. QED BY <1>4 DEF good

LEMMA SquareRounds ==
  ASSUME NEW base, NEW precision, NEW n \in Nat
  PROVE  /\ n >= 1 => Squares(base, precision, n)[0] = bignum_copy(base)
         /\ \A i \in 0 .. n - 2 :
              Squares(base, precision, n)[i + 1]
                = Multiplied(precision, Squares(base, precision, n)[i], Squares(base, precision, n)[i])
<1> DEFINE g == Squares(base, precision, n)
<1>1. \E h : Squaring(base, precision, n, h) BY SquaringExists
<1>2. Squaring(base, precision, n, g) BY <1>1 DEF Squares
<1> HIDE DEF g
<1>3. \A i \in 0 .. n - 1 : g[i] = SquareStep(base, precision, g, i) BY <1>2 DEF Squaring
<1>4. ASSUME n >= 1 PROVE g[0] = bignum_copy(base)
  <2>1. 0 \in 0 .. n - 1 BY <1>4
  <2>2. g[0] = SquareStep(base, precision, g, 0) BY <1>3, <2>1
  <2>3. QED BY <2>2 DEF SquareStep
<1>5. ASSUME NEW i \in 0 .. n - 2 PROVE g[i + 1] = Multiplied(precision, g[i], g[i])
  <2>1. i + 1 \in 0 .. n - 1 /\ i + 1 # 0 /\ i + 1 - 1 = i OBVIOUS
  <2>2. QED BY <1>3, <2>1 DEF SquareStep
<1>6. QED BY <1>4, <1>5 DEF g

LEMMA PoweringExists ==
  ASSUME NEW precision, NEW sq, NEW e, NEW n \in Nat
  PROVE  \E g : Powering(precision, sq, e, n, g)
<1> DEFINE good == {k \in Nat : \E g : Powering(precision, sq, e, k, g)}
<1>1. 0 \in good
  <2> DEFINE g == [i \in 0 .. 0 |-> {One}]
  <2>1. \A i \in 0 .. 0 : PowStep(precision, sq, e, g, i) = {One} BY DEF PowStep
  <2>2. Powering(precision, sq, e, 0, g) BY <2>1 DEF Powering
  <2>3. QED BY <2>2
<1>2. ASSUME NEW k \in 0 .. n - 1, k \in good PROVE k + 1 \in good
  <2>1. k \in Nat /\ k + 1 \in Nat OBVIOUS
  <2>2. PICK g : Powering(precision, sq, e, k, g) BY <1>2
  <2> DEFINE h == [i \in 0 .. k + 1 |->
                     IF i = k + 1 THEN PowStep(precision, sq, e, g, i) ELSE g[i]]
  <2>3. ASSUME NEW i \in 0 .. k + 1 PROVE h[i] = PowStep(precision, sq, e, h, i)
    <3>0. \A j \in 0 .. k : g[j] = PowStep(precision, sq, e, g, j) BY <2>2 DEF Powering
    <3>1. h[i] = PowStep(precision, sq, e, g, i)
      <4>1. CASE i = k + 1 BY <4>1
      <4>2. CASE i # k + 1
        <5>1. i \in 0 .. k BY <2>1, <4>2
        <5>2. QED BY <3>0, <4>2, <5>1
      <4>3. QED BY <4>1, <4>2
    <3>2. i # 0 => h[i - 1] = g[i - 1] BY <2>1
    <3> HIDE DEF h
    <3>3. QED BY <3>1, <3>2 DEF PowStep
  <2>4. h = [i \in 0 .. k + 1 |-> h[i]] OBVIOUS
  <2> HIDE DEF h
  <2>5. h = [i \in 0 .. k + 1 |-> PowStep(precision, sq, e, h, i)] BY <2>3, <2>4
  <2>6. Powering(precision, sq, e, k + 1, h) BY <2>5 DEF Powering
  <2>7. QED BY <2>1, <2>6
<1> HIDE DEF good
<1>3. \A k \in 0 .. n : k \in good BY <1>1, <1>2, Arrays!UpTo
<1>4. n \in good BY <1>3
<1>5. QED BY <1>4 DEF good

LEMMA PowerRounds ==
  ASSUME NEW precision, NEW sq, NEW e, NEW n \in Nat
  PROVE  LET g == Powers(precision, sq, e, n)
         IN /\ g[0] = {One}
            /\ \A i \in 0 .. n - 1 :
                 /\ (e \div Power(2, i)) % 2 = 1 => g[i + 1] = Multiplied(precision, g[i], sq[i])
                 /\ ~((e \div Power(2, i)) % 2 = 1) => g[i + 1] = {} \/ g[i + 1] = g[i]
<1> DEFINE g == Powers(precision, sq, e, n)
<1>1. \E h : Powering(precision, sq, e, n, h) BY PoweringExists
<1>2. Powering(precision, sq, e, n, g) BY <1>1 DEF Powers
<1> HIDE DEF g
<1>3. \A i \in 0 .. n : g[i] = PowStep(precision, sq, e, g, i) BY <1>2 DEF Powering
<1>4. g[0] = {One}
  <2>1. 0 \in 0 .. n OBVIOUS
  <2>2. g[0] = PowStep(precision, sq, e, g, 0) BY <1>3, <2>1
  <2>3. QED BY <2>2 DEF PowStep
<1>5. ASSUME NEW i \in 0 .. n - 1
      PROVE  /\ (e \div Power(2, i)) % 2 = 1 => g[i + 1] = Multiplied(precision, g[i], sq[i])
             /\ ~((e \div Power(2, i)) % 2 = 1) => g[i + 1] = {} \/ g[i + 1] = g[i]
  <2>1. i + 1 \in 0 .. n /\ i + 1 # 0 /\ i + 1 - 1 = i OBVIOUS
  <2>2. g[i + 1] = PowStep(precision, sq, e, g, i + 1) BY <1>3, <2>1
  <2>3. PowStep(precision, sq, e, g, i + 1) =
          IF (e \div Power(2, i)) % 2 = 1 THEN Multiplied(precision, g[i], sq[i])
          ELSE IF sq[i] = {} THEN {} ELSE g[i]
    BY <2>1 DEF PowStep
  <2>4. QED BY <2>2, <2>3
<1>6. QED BY <1>4, <1>5 DEF g

AllTrimmed(xs) == \A x \in xs : IsTrimmed(x)

LEMMA MultipliedTrimmed ==
  ASSUME NEW precision \in Nat, NEW xs, NEW ys, AllTrimmed(xs), AllTrimmed(ys)
  PROVE  AllTrimmed(Multiplied(precision, xs, ys))
<1> SUFFICES ASSUME NEW r \in Multiplied(precision, xs, ys) PROVE IsTrimmed(r) BY DEF AllTrimmed
<1>0. PICK x \in xs, y \in ys : \E z \in bignum_mul(x, y) : r = Kept(z, precision) BY DEF Multiplied
<1>1. PICK z \in bignum_mul(x, y) : r = Kept(z, precision) BY <1>0
<1>2. IsNumber(x) /\ IsNumber(y) BY DEF AllTrimmed, IsTrimmed, IsCut
<1>3. IsTrimmed(z) BY <1>2, MulTrimmed
<1>4. QED BY <1>1, <1>3, KeptIs

LEMMA MultipliedExact ==
  ASSUME NEW precision \in Nat, NEW xs, NEW ys, NEW m \in Int, NEW n \in Int,
         ResultsAre(xs, m), ResultsAre(ys, n)
  PROVE  ResultsAre(Multiplied(precision, xs, ys), m * n)
<1> SUFFICES ASSUME NEW r \in Multiplied(precision, xs, ys)
             PROVE IsTrimmed(r) /\ IsWhole(r) /\ Value(r) = m * n
  BY DEF ResultsAre
<1>0. PICK x \in xs, y \in ys : \E z \in bignum_mul(x, y) : r = Kept(z, precision) BY DEF Multiplied
<1>1. PICK z \in bignum_mul(x, y) : r = Kept(z, precision) BY <1>0
<1>2. IsOperand(x) /\ IsOperand(y) /\ Value(x) = m /\ Value(y) = n
  BY TrimmedIsFormed DEF ResultsAre, IsOperand
<1>3. IsTrimmed(z) /\ IsWhole(z) /\ Value(z) = m * n BY <1>2, MulExact DEF ResultsAre
<1>4. z.decimal_pos = 0 BY <1>3 DEF IsWhole
<1>5. r = z BY <1>1, <1>3, <1>4, KeptIs
<1>6. QED BY <1>3, <1>5

LEMMA OneIs == IsTrimmed(One) /\ IsWhole(One) /\ Value(One) = 1
<1> DEFINE plus == FALSE
           s == <<1>>
           none == 0
           one == 1
<1>1. plus \in BOOLEAN /\ s \in Seq(Nat) /\ none \in Int /\ one \in Nat /\ one = 1 /\ none = 0
      /\ One = Number(plus, s, one, none) /\ Len(s) = 1 /\ s[1] = 1 /\ DOMAIN s = {1} /\ ~plus
  BY DEF One
<1> HIDE DEF plus, s, none, one
<1>2. /\ IsNumber(One) /\ One.neg = plus /\ One.digits = s /\ One.length = one
      /\ One.decimal_pos = none
  BY <1>1, NumberIs
<1>3. IsTrimmed(One)
  <2> DEFINE o == One
  <2>0. o.length = one /\ o.digits = s BY <1>2
  <2> HIDE DEF o
  <2>1. HasRoom(One)
    <3>1. Len(o.digits) = 1 /\ o.length = 1 BY <1>1, <2>0
    <3>2. o.length <= Len(o.digits) BY <3>1
    <3>3. QED BY <3>2 DEF HasRoom, o
  <2>2. IsNormal(One) BY <1>1, <1>2 DEF IsNormal
  <2>3. IsTidy(One) BY <1>1, <1>2 DEF IsTidy
  <2>4. QED BY <1>2, <2>1, <2>2, <2>3 DEF IsTrimmed, IsCut
<1>4. BelowBase(One) BY <1>1, <1>2, BaseIs DEF BelowBase
<1>5. IsWhole(One) BY <1>1, <1>2, <1>4, IsWholeIs
<1> DEFINE d == DigitsFrom(One)
<1>6. Whole(One) = Read(d, 1) /\ d[0] = 1
  <2>1. Whole(One) = Read(d, one) /\ \A i \in 0 .. One.length - 1 : d[i] = Digit(One, i)
    BY <1>2, DigitsFromIs
  <2>2. none \in 0 .. One.length - 1 /\ none + 1 = 1 /\ HasRoom(One) BY <1>1, <1>2, <1>3 DEF IsTrimmed, IsCut
  <2>3. Digit(One, none) = One.digits[none + 1] BY <1>1, <1>2, <2>2, DigitIs
  <2>4. d[none] = 1 BY <1>1, <1>2, <2>1, <2>2, <2>3
  <2>5. QED BY <1>1, <2>1, <2>4
<1> HIDE DEF d
<1>7. Read(d, 1) = 1
  <2>1. Power(Base, 0) = 1 /\ Read(d, 0) = 0 BY BaseIs, PowerIs, ReadIs
  <2>2. Read(d, 0 + 1) = Read(d, 0) + d[0] * Power(Base, 0) BY ReadIs
  <2>3. QED BY <1>6, <2>1, <2>2
<1>8. Value(One) = 1 BY <1>1, <1>2, <1>6, <1>7 DEF Value
<1>9. QED BY <1>3, <1>5, <1>8

LEMMA SquaresTrimmed ==
  ASSUME NEW base, IsFormed(base), NEW precision \in Nat, NEW n \in Nat
  PROVE  \A i \in 0 .. n - 1 : AllTrimmed(Squares(base, precision, n)[i])
<1> DEFINE g == Squares(base, precision, n)
           good == {i \in Nat : AllTrimmed(g[i])}
<1>1. /\ n >= 1 => g[0] = bignum_copy(base)
      /\ \A i \in 0 .. n - 2 : g[i + 1] = Multiplied(precision, g[i], g[i])
  BY SquareRounds
<1> HIDE DEF g
<1>2. CASE n = 0 BY <1>2
<1>3. CASE n >= 1
  <2>1. 0 \in good
    <3>1. AllTrimmed(bignum_copy(base)) BY CopyIs DEF AllTrimmed
    <3>2. QED BY <1>1, <1>3, <3>1
  <2>2. ASSUME NEW k \in 0 .. n - 1 - 1, k \in good PROVE k + 1 \in good
    <3>1. k \in 0 .. n - 2 /\ k + 1 \in Nat OBVIOUS
    <3>2. AllTrimmed(g[k]) BY <2>2
    <3>3. AllTrimmed(Multiplied(precision, g[k], g[k])) BY <3>2, MultipliedTrimmed
    <3>4. QED BY <1>1, <3>1, <3>3
  <2> HIDE DEF good
  <2>3. n - 1 \in Nat BY <1>3
  <2>4. \A k \in 0 .. n - 1 : k \in good BY <2>1, <2>2, <2>3, Arrays!UpTo
  <2>5. QED BY <2>4 DEF good, g
<1>4. QED BY <1>2, <1>3

LEMMA PowTrimmed ==
  ASSUME NEW base, NEW exponent, IsFormed(base), IsFormed(exponent), NEW precision \in Nat,
         NEW r \in bignum_pow(base, exponent, precision)
  PROVE  IsTrimmed(r)
<1> DEFINE e == Exponent(exponent)
           n == BitCount(e)
           sq == Squares(base, precision, n)
           g == Powers(precision, sq, e, n)
           good == {i \in Nat : AllTrimmed(g[i])}
<1>1. PICK x \in g[n] : r = bignum_trim(x) BY PowIs
<1>2. e \in Nat
  <2> DEFINE k == Greater(0, exponent.decimal_pos)
  <2>1. k \in Nat /\ Whole(exponent) \in Nat BY NumberFields, DigitsFromIs DEF IsFormed, Greater
  <2>2. e = Whole(exponent) \div Power(Base, k) BY DEF Exponent
  <2> HIDE DEF k, e
  <2>3. QED BY <2>1, <2>2, PlaceIs, DivMod
<1> HIDE DEF e
<1>3. n \in Nat BY <1>2, BitCountIs
<1> HIDE DEF n
<1>4. \A i \in 0 .. n - 1 : AllTrimmed(sq[i]) BY <1>3, SquaresTrimmed
<1> HIDE DEF sq
<1>5. /\ g[0] = {One}
      /\ \A i \in 0 .. n - 1 :
           /\ (e \div Power(2, i)) % 2 = 1 => g[i + 1] = Multiplied(precision, g[i], sq[i])
           /\ ~((e \div Power(2, i)) % 2 = 1) => g[i + 1] = {} \/ g[i + 1] = g[i]
  BY <1>3, PowerRounds
<1> HIDE DEF g
<1>6. 0 \in good BY <1>5, OneIs DEF AllTrimmed
<1>7. ASSUME NEW k \in 0 .. n - 1, k \in good PROVE k + 1 \in good
  <2>1. k + 1 \in Nat /\ AllTrimmed(g[k]) /\ AllTrimmed(sq[k]) BY <1>4, <1>7
  <2>2. AllTrimmed(Multiplied(precision, g[k], sq[k])) BY <2>1, MultipliedTrimmed
  <2>3. AllTrimmed({}) BY DEF AllTrimmed
  <2>4. AllTrimmed(g[k + 1]) BY <1>5, <2>1, <2>2, <2>3
  <2>5. QED BY <2>1, <2>4
<1> HIDE DEF good
<1>8. \A k \in 0 .. n : k \in good BY <1>3, <1>6, <1>7, Arrays!UpTo
<1>9. IsTrimmed(x) BY <1>3, <1>8 DEF good, AllTrimmed
<1>10. QED BY <1>1, <1>9, TrimIs DEF IsTrimmed, IsCut

(* Trimming what is trimmed keeps its value. *)
LEMMA TrimKeepsWhole ==
  ASSUME NEW u, IsTrimmed(u), IsWhole(u)
  PROVE  /\ IsTrimmed(bignum_trim(u)) /\ IsWhole(bignum_trim(u))
         /\ Value(bignum_trim(u)) = Value(u)
<1> DEFINE r == bignum_trim(u)
<1>1. /\ IsNumber(u) /\ HasRoom(u) /\ u.length > 0 /\ u.decimal_pos = 0 /\ BelowBase(u)
  BY DEF IsTrimmed, IsCut, IsWhole, Proper, BelowBase
<1>2. u.length >= 1 /\ Whole(u) \in Nat /\ u.neg \in BOOLEAN BY <1>1, NumberFields, DigitsFromIs
<1>3. /\ IsTrimmed(r) /\ BelowBase(r) /\ r.length >= 1 /\ r.decimal_pos = 0
      /\ Whole(r) = Whole(u) /\ (r.neg = u.neg \/ Whole(u) = 0)
  BY <1>1, <1>2, TrimIs
<1> HIDE DEF r
<1>4. r.length > 0 /\ r.neg \in BOOLEAN BY <1>3, NumberFields DEF IsTrimmed, IsCut
<1>5. IsWhole(r) BY <1>3, <1>4, IsWholeIs
<1>6. Value(r) = Value(u)
  <2>1. CASE r.neg = u.neg BY <1>3, <2>1 DEF Value
  <2>2. CASE Whole(u) = 0
    <3>1. Value(r) = 0 /\ Value(u) = 0 BY <1>2, <1>3, <1>4, <2>2, ValueOf
    <3>2. QED BY <3>1
  <2>3. QED BY <1>3, <2>1, <2>2
<1>7. QED BY <1>3, <1>5, <1>6 DEF r

LEMMA SquaresExact ==
  ASSUME NEW base, IsOperand(base), NEW precision \in Nat, NEW n \in Nat
  PROVE  \A i \in 0 .. n - 1 :
           ResultsAre(Squares(base, precision, n)[i], Power(Value(base), Power(2, i)))
<1> DEFINE g == Squares(base, precision, n)
           v == Value(base)
           good == {i \in Nat : ResultsAre(g[i], Power(v, Power(2, i)))}
<1>1. /\ n >= 1 => g[0] = bignum_copy(base)
      /\ \A i \in 0 .. n - 2 : g[i + 1] = Multiplied(precision, g[i], g[i])
  BY SquareRounds
<1>2. IsFormed(base) /\ v \in Int /\ IsWhole(base) BY OperandIs, ValueOf DEF IsOperand
<1>3. ResultsAre(bignum_copy(base), v)
  <2> SUFFICES ASSUME NEW y \in bignum_copy(base)
               PROVE  IsTrimmed(y) /\ IsWhole(y) /\ Value(y) = v
    BY DEF ResultsAre
  <2>1. IsTrimmed(y) /\ IsWhole(y) /\ y.neg = base.neg /\ Whole(y) = Whole(base)
    BY <1>2, CopyIs
  <2>2. QED BY <2>1 DEF Value
<1> HIDE DEF g, v
<1>4. CASE n = 0 BY <1>4
<1>5. CASE n >= 1
  <2>1. 0 \in good
    <3>1. Power(2, 0) = 1 /\ Power(v, 0) = 1 /\ Power(v, 0 + 1) = v * Power(v, 0)
      BY <1>2, PowerIs
    <3>2. Power(v, 1) = v BY <1>2, <3>1
    <3>3. QED BY <1>1, <1>3, <1>5, <3>1, <3>2
  <2>2. ASSUME NEW k \in 0 .. n - 1 - 1, k \in good PROVE k + 1 \in good
    <3>1. k \in 0 .. n - 2 /\ k + 1 \in Nat /\ k \in Nat OBVIOUS
    <3> DEFINE t == Power(2, k)
               w == Power(v, t)
    <3>2. t \in Nat /\ Power(2, k + 1) = t + t BY <3>1, TwoIs
    <3>3. ResultsAre(g[k], w) BY <2>2
    <3> HIDE DEF t
    <3>4. w \in Int /\ Power(v, t + t) = w * w BY <1>2, <3>2, PowerIs, PowerOfSum
    <3> HIDE DEF w
    <3>5. ResultsAre(Multiplied(precision, g[k], g[k]), w * w) BY <3>3, <3>4, MultipliedExact
    <3>6. QED BY <1>1, <3>1, <3>2, <3>4, <3>5
  <2> HIDE DEF good
  <2>3. n - 1 \in Nat BY <1>5
  <2>4. \A k \in 0 .. n - 1 : k \in good BY <2>1, <2>2, <2>3, Arrays!UpTo
  <2>5. QED BY <2>4 DEF good, g, v
<1>6. QED BY <1>4, <1>5

LEMMA PowExact ==
  ASSUME NEW base, NEW exponent, IsOperand(base), IsOperand(exponent), NEW precision \in Nat
  PROVE  ResultsAre(bignum_pow(base, exponent, precision), Power(Value(base), Value(exponent)))
<1> DEFINE e == Exponent(exponent)
           n == BitCount(e)
           sq == Squares(base, precision, n)
           g == Powers(precision, sq, e, n)
           v == Value(base)
           good == {i \in Nat : ResultsAre(g[i], Power(v, e % Power(2, i)))}
<1> SUFFICES ASSUME NEW r \in bignum_pow(base, exponent, precision)
             PROVE  IsTrimmed(r) /\ IsWhole(r) /\ Value(r) = Power(v, Value(exponent))
  BY DEF ResultsAre
<1>1. ~exponent.neg /\ \E x \in g[n] : r = bignum_trim(x) BY PowIs
<1>2. PICK x \in g[n] : r = bignum_trim(x) BY <1>1
<1>3. e \in Nat /\ e = Value(exponent) /\ v \in Int
  <2>1. Whole(exponent) \in Nat /\ exponent.decimal_pos = 0 /\ Value(exponent) = Whole(exponent)
    BY <1>1, OperandIs DEF Value
  <2>2. Power(Base, 0) = 1 BY BaseIs, PowerIs
  <2>3. e = Whole(exponent) \div 1 BY <2>1, <2>2 DEF Exponent, Greater
  <2>4. v \in Int BY OperandIs, ValueOf
  <2> HIDE DEF e, v
  <2>5. QED BY <2>1, <2>3, <2>4
<1> HIDE DEF e
<1>4. n \in Nat /\ e < Power(2, n) BY <1>3, BitCountIs
<1> HIDE DEF n
<1>5. \A i \in 0 .. n - 1 : ResultsAre(sq[i], Power(v, Power(2, i))) BY <1>4, SquaresExact
<1> HIDE DEF sq
<1>6. /\ g[0] = {One}
      /\ \A i \in 0 .. n - 1 :
           /\ (e \div Power(2, i)) % 2 = 1 => g[i + 1] = Multiplied(precision, g[i], sq[i])
           /\ ~((e \div Power(2, i)) % 2 = 1) => g[i + 1] = {} \/ g[i + 1] = g[i]
  BY <1>4, PowerRounds
<1> HIDE DEF g, v
<1>7. 0 \in good
  <2>1. Power(2, 0) = 1 /\ Power(v, 0) = 1 BY <1>3, PowerIs
  <2>2. e % 1 = 0
    <3>1. e = 1 * e + 0 /\ 1 \in Positive BY <1>3 DEF Positive
    <3>2. QED BY <1>3, <3>1, QuotientUnique
  <2>3. ResultsAre({One}, 1) BY OneIs DEF ResultsAre
  <2>4. QED BY <1>6, <2>1, <2>2, <2>3
<1>8. ASSUME NEW k \in 0 .. n - 1, k \in good PROVE k + 1 \in good
  <2>1. k \in Nat /\ k + 1 \in Nat OBVIOUS
  <2> DEFINE q == (e \div Power(2, k)) % 2
             i == e % Power(2, k)
             j == Power(2, k)
             y == Power(v, i)
             z == Power(v, j)
  <2>2. /\ i \in Nat /\ q \in {0, 1} /\ j \in Nat
        /\ q = 1 => e % Power(2, k + 1) = i + j
        /\ q = 0 => e % Power(2, k + 1) = i
    BY <1>3, <2>1, NextBit, TwoIs
  <2>3. ResultsAre(g[k], y) /\ ResultsAre(sq[k], z) BY <1>5, <1>8
  <2>4. /\ q = 1 => g[k + 1] = Multiplied(precision, g[k], sq[k])
        /\ ~(q = 1) => g[k + 1] = {} \/ g[k + 1] = g[k]
    BY <1>6
  <2> HIDE DEF q, i, j
  <2>5. y \in Int /\ z \in Int /\ Power(v, i + j) = y * z BY <1>3, <2>2, PowerIs, PowerOfSum
  <2>6. CASE q = 1
    <3> HIDE DEF y, z
    <3>1. ResultsAre(Multiplied(precision, g[k], sq[k]), y * z) BY <2>3, <2>5, MultipliedExact
    <3>2. ResultsAre(g[k + 1], Power(v, e % Power(2, k + 1))) BY <2>2, <2>4, <2>5, <2>6, <3>1
    <3>3. QED BY <2>1, <3>2
  <2>7. CASE q = 0
    <3>1. ResultsAre({}, y) BY DEF ResultsAre
    <3>2. ~(q = 1) BY <2>7
    <3>3. g[k + 1] = {} \/ g[k + 1] = g[k] BY <2>4, <3>2
    <3>4. ResultsAre(g[k + 1], y) BY <2>3, <3>1, <3>3
    <3>5. QED BY <2>1, <2>2, <2>7, <3>4
  <2>8. QED BY <2>2, <2>6, <2>7
<1> HIDE DEF good
<1>9. \A k \in 0 .. n : k \in good BY <1>4, <1>7, <1>8, Arrays!UpTo
<1>10. e % Power(2, n) = e
  <2> DEFINE w == Power(2, n)
  <2>1. w \in Positive /\ w \in Nat /\ e < w BY <1>4, TwoIs
  <2> HIDE DEF w
  <2>2. e = w * 0 + e BY <1>3, <2>1
  <2>3. e % w = e BY <1>3, <2>1, <2>2, QuotientUnique
  <2>4. QED BY <2>3 DEF w
<1>11. ResultsAre(g[n], Power(v, e)) BY <1>4, <1>9, <1>10 DEF good
<1>12. IsTrimmed(x) /\ IsWhole(x) /\ Value(x) = Power(v, e) BY <1>11 DEF ResultsAre
<1>13. QED BY <1>2, <1>3, <1>12, TrimKeepsWhole

-----------------------------------------------------------------------------
(* What is read is trimmed, and what is written can be read *)

Decimals == 0 .. Base - 1
IsText(t) == t.neg \in BOOLEAN /\ t.whole \in Seq(Decimals) /\ t.places \in Seq(Decimals)

LEMMA ReadTrimmed ==
  ASSUME NEW t, IsText(t), NEW x \in bignum_from_string(t)
  PROVE  IsTrimmed(x) /\ BelowBase(x) /\ x.decimal_pos >= 0
<1> DEFINE both == t.whole \o t.places
           n == Len(both)
           all == Reverse(both)
           p == Len(t.places)
<1>1. both \in Seq(Decimals) /\ n \in Nat /\ p \in Int /\ t.neg \in BOOLEAN
  <2>1. t.neg \in BOOLEAN /\ t.whole \in Seq(Decimals) /\ t.places \in Seq(Decimals) BY DEF IsText
  <2>2. both \in Seq(Decimals) BY <2>1, Arrays!ConcatProperties
  <2> HIDE DEF both
  <2>3. QED BY <2>1, <2>2
<1>2. \A i \in 1 .. n : both[i] \in Nat /\ both[i] < Base
  <2>1. \A d \in Decimals : d \in Nat /\ d < Base BY BaseIs DEF Decimals
  <2> HIDE DEF both
  <2>2. \A i \in 1 .. n : both[i] \in Decimals BY <1>1
  <2>3. QED BY <2>1, <2>2
<1>3. x = bignum_trim(Number(t.neg, all, Len(all), p)) BY DEF bignum_from_string
<1> HIDE DEF both
<1>4. all = [i \in 1 .. n |-> both[n - i + 1]] BY DEF Reverse
<1>5. all \in Seq(Nat) /\ Len(all) = n /\ \A i \in 1 .. n : all[i] < Base
  <2>1. \A i \in 1 .. n : n - i + 1 \in 1 .. n BY <1>1
  <2>2. \A i \in 1 .. n : both[n - i + 1] \in Nat /\ both[n - i + 1] < Base BY <1>2, <2>1
  <2> HIDE DEF all
  <2>3. QED BY <1>1, <1>4, <2>2
<1>55. p >= 0
  <2>1. t.places \in Seq(Decimals) BY DEF IsText
  <2>2. QED BY <2>1
<1> HIDE DEF n, all, p
<1> DEFINE y == Number(t.neg, all, n, p)
<1>6. IsNumber(y) /\ y.digits = all /\ y.length = n /\ y.decimal_pos = p BY <1>1, <1>5, NumberIs
<1>7. HasRoom(y) BY <1>1, <1>5, <1>6 DEF HasRoom
<1>8. x = bignum_trim(y) BY <1>3, <1>5
<1> HIDE DEF y
<1>85. BelowBase(y)
  <2>1. DOMAIN all = 1 .. n BY <1>5
  <2>2. QED BY <1>5, <1>6, <2>1 DEF BelowBase
<1>9. IsTrimmed(x) /\ BelowBase(x) /\ x.decimal_pos \in 0 .. p
  <2>1. y.decimal_pos >= 0 BY <1>55, <1>6
  <2>2. QED BY <1>6, <1>7, <1>8, <1>85, <2>1, TrimIs
<1>10. QED BY <1>9

LEMMA OperandsTrimmed == ASSUME NEW x \in Operands PROVE IsTrimmed(x)
<1>1. PICK t \in Literals : x \in bignum_from_string(t) BY DEF Operands
<1>2. IsText(t) BY BignumAssumption DEF IsText, Decimals
<1>3. QED BY <1>1, <1>2, ReadTrimmed

LEMMA SomeOfThem ==
  ASSUME NEW s \in Seq(Decimals), NEW m \in Nat \ {0}, NEW n \in 0 .. Len(s)
  PROVE  SubSeq(s, m, n) \in Seq(Decimals)
OBVIOUS

LEMMA WrittenIsText ==
  ASSUME NEW x, IsNumber(x), BelowBase(x), x.decimal_pos >= 0, NEW precision \in Nat
  PROVE  IsText(bignum_to_string(x, precision))
<1> DEFINE n == Greater(0, IntLength(x))
           k == Lesser(precision, x.decimal_pos)
           whole == [i \in 1 .. n |-> Stored(x, x.length - i)]
           S == {Len(whole)} \cup {i \in DOMAIN whole : whole[i] # 0}
           places == [i \in 1 .. k |-> Stored(x, x.decimal_pos - i)]
           Q == {0} \cup {i \in DOMAIN places : places[i] # 0}
           neg == x.neg /\ ~(x.length = 1 /\ Stored(x, 0) = 0)
           w == IF whole = <<>> THEN <<0>> ELSE SubSeq(whole, Min(S), Len(whole))
           q == SubSeq(places, 1, Max(Q))
<1>1. bignum_to_string(x, precision) = Text(neg, w, q) BY DEF bignum_to_string, NoZerosAtTheEnd
<1>2. x.length \in Nat /\ x.decimal_pos \in Nat /\ x.neg \in BOOLEAN BY NumberFields
<1>3. n \in Nat /\ k \in Nat BY <1>2 DEF Greater, Lesser, IntLength
<1>4. \A i \in Int : Stored(x, i) \in Decimals BY DigitIs DEF Decimals
<1>5. 0 \in Decimals BY BignumAssumption DEF Decimals
<1>6. whole \in Seq(Decimals) /\ Len(whole) = n /\ DOMAIN whole = 1 .. n
  <2>1. \A i \in 1 .. n : Stored(x, x.length - i) \in Decimals BY <1>2, <1>3, <1>4
  <2> HIDE DEF n
  <2>2. QED BY <1>3, <2>1
<1>7. places \in Seq(Decimals) /\ Len(places) = k /\ DOMAIN places = 1 .. k
  <2>1. \A i \in 1 .. k : Stored(x, x.decimal_pos - i) \in Decimals BY <1>2, <1>3, <1>4
  <2> HIDE DEF k
  <2>2. QED BY <1>3, <2>1
<1> HIDE DEF n, k, whole, places
<1>8. w \in Seq(Decimals)
  <2>1. CASE whole = <<>>
    <3>1. <<0>> \in Seq(Decimals) BY <1>5
    <3>2. QED BY <2>1, <3>1
  <2>2. CASE whole # <<>>
    <3>1. n # 0 BY <1>6, <2>2
    <3>2. S \in SUBSET Nat /\ S # {} /\ 0 \notin S BY <1>3, <1>6, <3>1
    <3> HIDE DEF S
    <3>3. Min(S) \in Nat \ {0} BY <3>2, MinIs
    <3>4. n \in 0 .. Len(whole) BY <1>3, <1>6
    <3>5. SubSeq(whole, Min(S), n) \in Seq(Decimals) BY <1>6, <3>3, <3>4, SomeOfThem
    <3>6. QED BY <1>6, <2>2, <3>5
  <2>3. QED BY <2>1, <2>2
<1>9. q \in Seq(Decimals)
  <2>1. Q \in SUBSET (0 .. k) /\ Q # {} BY <1>3, <1>7
  <2> HIDE DEF Q
  <2>2. Max(Q) \in 0 .. Len(places) BY <1>3, <1>7, <2>1, MaxIs
  <2>3. 1 \in Nat \ {0} OBVIOUS
  <2>4. QED BY <1>7, <2>2, <2>3, SomeOfThem
<1>10. neg \in BOOLEAN BY <1>2
<1> HIDE DEF neg, w, q
<1>11. QED BY <1>1, <1>8, <1>9, <1>10 DEF Text, IsText

LEMMA RereadTrimmed ==
  ASSUME NEW x, IsFormed(x), Proper(x),
         NEW y \in bignum_from_string(bignum_to_string(x, BIGNUM_DEFAULT_PRECISION))
  PROVE  IsTrimmed(y)
<1>1. IsNumber(x) /\ x.decimal_pos >= 0 /\ BelowBase(x) BY DEF IsFormed, Proper, BelowBase
<1>2. IsText(bignum_to_string(x, BIGNUM_DEFAULT_PRECISION))
  BY <1>1, WrittenIsText, BignumAssumption
<1>3. QED BY <1>2, ReadTrimmed

LowestBits(n, len) == [i \in 1 .. len |-> (n \div Power(2, i - 1)) % 2]

LEMMA BitsOfIs ==
  ASSUME NEW n \in Nat
  PROVE  \E k \in Nat : k >= 1 /\ n < Power(2, k) /\ Bits(n) = LowestBits(n, k)
<1> DEFINE two == 2
           count == CHOOSE k \in 1 .. n + 1 : IsLength(two, n, k)
<1>1. two \in Positive /\ two > 1 /\ two = 2 BY DEF Positive
<1>2. Bits(n) = LowestBits(n, count)
  <2>1. count = CHOOSE len \in 1 .. n + 1 : n < Power(2, len) /\ (len = 1 \/ n >= Power(2, len - 1))
    BY DEF IsLength
  <2> HIDE DEF count
  <2>2. QED BY <2>1 DEF Bits, LowestBits
<1> HIDE DEF two
<1>3. \E k \in 1 .. n + 1 : IsLength(two, n, k) BY <1>1, LengthExists
<1>4. count \in 1 .. n + 1 /\ IsLength(two, n, count) BY <1>3
<1> HIDE DEF count
<1>5. count \in Nat /\ count >= 1 /\ n < Power(2, count) BY <1>1, <1>4 DEF IsLength
<1>6. QED BY <1>2, <1>5

(* The doubling, bit by bit. *)
DoubleStep(bits, g, i) == IF i = 0 THEN 0 ELSE 2 * g[i - 1] + bits[Len(bits) + 1 - i]
Doubling(bits, n, g) == g = [i \in 0 .. n |-> DoubleStep(bits, g, i)]
Doubled(bits, n) == CHOOSE g : Doubling(bits, n, g)

LEMMA FromBitsIs ==
  ASSUME NEW bits
  PROVE  LET n == Doubled(bits, Len(bits))[Len(bits)]
         IN bignum_bitmap_to_number(bits) =
              bignum_trim(Number(FALSE, DigitsOf(n, CountOf(n)), CountOf(n), 0))
BY DEF bignum_bitmap_to_number, Doubled, Doubling, DoubleStep

LEMMA DoublingExists ==
  ASSUME NEW bits, NEW n \in Nat
  PROVE  \E g : Doubling(bits, n, g)
<1> DEFINE good == {k \in Nat : \E g : Doubling(bits, k, g)}
<1>1. 0 \in good
  <2> DEFINE g == [i \in 0 .. 0 |-> 0]
  <2>1. \A i \in 0 .. 0 : DoubleStep(bits, g, i) = 0 BY DEF DoubleStep
  <2>2. Doubling(bits, 0, g) BY <2>1 DEF Doubling
  <2>3. QED BY <2>2
<1>2. ASSUME NEW k \in 0 .. n - 1, k \in good PROVE k + 1 \in good
  <2>1. k \in Nat /\ k + 1 \in Nat OBVIOUS
  <2>2. PICK g : Doubling(bits, k, g) BY <1>2
  <2> DEFINE h == [i \in 0 .. k + 1 |-> IF i = k + 1 THEN DoubleStep(bits, g, i) ELSE g[i]]
  <2>3. ASSUME NEW i \in 0 .. k + 1 PROVE h[i] = DoubleStep(bits, h, i)
    <3>1. h[i] = DoubleStep(bits, g, i) BY <2>1, <2>2 DEF Doubling
    <3>2. i # 0 => h[i - 1] = g[i - 1] BY <2>1
    <3> HIDE DEF h
    <3>3. QED BY <3>1, <3>2 DEF DoubleStep
  <2>4. h = [i \in 0 .. k + 1 |-> h[i]] OBVIOUS
  <2> HIDE DEF h
  <2>5. h = [i \in 0 .. k + 1 |-> DoubleStep(bits, h, i)] BY <2>3, <2>4
  <2>6. Doubling(bits, k + 1, h) BY <2>5 DEF Doubling
  <2>7. QED BY <2>1, <2>6
<1> HIDE DEF good
<1>3. \A k \in 0 .. n : k \in good BY <1>1, <1>2, Arrays!UpTo
<1>4. n \in good BY <1>3
<1>5. QED BY <1>4 DEF good

LEMMA DoubleRounds ==
  ASSUME NEW bits, Len(bits) \in Nat, NEW n \in Nat
  PROVE  /\ Doubled(bits, n)[0] = 0
         /\ \A i \in 0 .. n - 1 :
              Doubled(bits, n)[i + 1] = 2 * Doubled(bits, n)[i] + bits[Len(bits) - i]
<1> DEFINE g == Doubled(bits, n)
<1>1. \E h : Doubling(bits, n, h) BY DoublingExists
<1>2. Doubling(bits, n, g) BY <1>1 DEF Doubled
<1> HIDE DEF g
<1>3. \A i \in 0 .. n : g[i] = DoubleStep(bits, g, i) BY <1>2 DEF Doubling
<1>4. g[0] = 0
  <2>1. 0 \in 0 .. n OBVIOUS
  <2>2. g[0] = DoubleStep(bits, g, 0) BY <1>3, <2>1
  <2>3. QED BY <2>2 DEF DoubleStep
<1>5. ASSUME NEW i \in 0 .. n - 1 PROVE g[i + 1] = 2 * g[i] + bits[Len(bits) - i]
  <2>1. i + 1 \in 0 .. n /\ i + 1 # 0 /\ i + 1 - 1 = i OBVIOUS
  <2>2. Len(bits) + 1 - (i + 1) = Len(bits) - i OBVIOUS
  <2>3. QED BY <1>3, <2>1, <2>2 DEF DoubleStep
<1>6. QED BY <1>4, <1>5 DEF g

LEMMA DoubledNat ==
  ASSUME NEW bits, NEW n \in Nat, Len(bits) = n, \A i \in 1 .. n : bits[i] \in Nat
  PROVE  Doubled(bits, n)[n] \in Nat
<1> DEFINE g == Doubled(bits, n)
           good == {i \in Nat : g[i] \in Nat}
<1>1. g[0] = 0 /\ \A i \in 0 .. n - 1 : g[i + 1] = 2 * g[i] + bits[n - i] BY DoubleRounds
<1> HIDE DEF g
<1>2. 0 \in good BY <1>1
<1>3. ASSUME NEW i \in 0 .. n - 1, i \in good PROVE i + 1 \in good
  <2>1. n - i \in 1 .. n /\ i + 1 \in Nat OBVIOUS
  <2>2. bits[n - i] \in Nat BY <2>1
  <2>3. g[i] \in Nat /\ g[i + 1] = 2 * g[i] + bits[n - i] BY <1>1, <1>3
  <2> DEFINE old == g[i]
             bit == bits[n - i]
  <2> HIDE DEF old, bit
  <2>4. g[i + 1] = 2 * old + bit /\ old \in Nat /\ bit \in Nat BY <2>2, <2>3 DEF old, bit
  <2>5. g[i + 1] \in Nat BY <2>4
  <2>6. QED BY <2>1, <2>5
<1> HIDE DEF good
<1>4. \A i \in 0 .. n : i \in good BY <1>2, <1>3, Arrays!UpTo
<1>5. n \in good BY <1>4
<1>6. QED BY <1>5 DEF good, g

(* A number made a bitmap and a number again is one in its usual form.     *)
LEMMA ConvertedTrimmed ==
  ASSUME NEW x, NEW y, IsFormed(y), Whole(y) \in Nat, NEW bits,
         bits = Reverse(Bits(Whole(y))), x = bignum_bitmap_to_number(bits)
  PROVE  IsTrimmed(x)
<1> DEFINE s == Bits(Whole(y))
<1>1. PICK k \in Nat : s = LowestBits(Whole(y), k) BY BitsOfIs
<1>2. s = [i \in 1 .. k |-> (Whole(y) \div Power(2, i - 1)) % 2] BY <1>1 DEF LowestBits
<1> HIDE DEF s
<1>3. \A i \in 1 .. k : s[i] \in Nat
  <2> TAKE i \in 1 .. k
  <2>1. i - 1 \in Nat OBVIOUS
  <2> DEFINE p == Power(2, i - 1)
             q == Whole(y) \div p
             two == 2
  <2>2. p \in Positive BY <2>1, TwoIs
  <2> HIDE DEF p
  <2>3. q \in Nat BY <2>2, DivMod
  <2>4. two \in Positive BY DEF Positive
  <2> HIDE DEF q, two
  <2>5. q % two \in Nat BY <2>3, <2>4, DivMod
  <2>6. s[i] = q % two BY <1>2 DEF q, p, two
  <2>7. QED BY <2>5, <2>6
<1>4. Len(s) = k
  <2> DEFINE f == [i \in 1 .. k |-> (Whole(y) \div Power(2, i - 1)) % 2]
  <2>1. Len(f) = k OBVIOUS
  <2>2. s = f BY <1>2
  <2> HIDE DEF f
  <2>3. QED BY <2>1, <2>2
<1>5. bits = [i \in 1 .. k |-> s[k - i + 1]] BY <1>4 DEF Reverse, s
<1>6. Len(bits) = k
  <2> DEFINE f == [i \in 1 .. k |-> s[k - i + 1]]
  <2>1. Len(f) = k OBVIOUS
  <2>2. bits = f BY <1>5
  <2> HIDE DEF f
  <2>3. QED BY <2>1, <2>2
<1>7. \A i \in 1 .. k : bits[i] \in Nat
  <2> TAKE i \in 1 .. k
  <2>1. k - i + 1 \in 1 .. k OBVIOUS
  <2>2. bits[i] = s[k - i + 1] BY <1>5
  <2>3. QED BY <1>3, <2>1, <2>2
<1> DEFINE n == Doubled(bits, k)[k]
           plus == FALSE
<1>8. n \in Nat BY <1>6, <1>7, DoubledNat
<1>9. x = bignum_trim(Number(plus, DigitsOf(n, CountOf(n)), CountOf(n), 0))
  BY <1>6, FromBitsIs
<1>10. plus \in BOOLEAN OBVIOUS
<1> HIDE DEF n, plus
<1>11. CountOf(n) \in Nat /\ CountOf(n) >= 1 /\ n < Power(Base, CountOf(n)) BY <1>8, CountOfIs
<1>12. QED BY <1>8, <1>9, <1>10, <1>11, WrittenAndTrimmed

-----------------------------------------------------------------------------
(* The calculator *)

LEMMA ResultTrimmed ==
  ASSUME NEW a, NEW b, IsFormed(a), IsFormed(b), NEW op \in Operators, Returns(op, a, b),
         NEW r \in Result(op, a, b)
  PROVE  IsTrimmed(r)
<1>1. IsNumber(a) /\ IsNumber(b) /\ BIGNUM_DEFAULT_PRECISION \in Nat
  BY BignumAssumption DEF IsFormed
<1>2. CASE op = "+"
  <2>1. r \in bignum_add(a, b) BY <1>2 DEF Result
  <2>2. QED BY <1>1, <2>1, AddTrimmed
<1>3. CASE op = "-"
  <2>1. r \in bignum_sub(a, b) BY <1>3 DEF Result
  <2>2. QED BY <1>1, <2>1, SubTrimmed
<1>4. CASE op = "*"
  <2>1. r \in bignum_mul(a, b) BY <1>4 DEF Result
  <2>2. QED BY <1>1, <2>1, MulTrimmed
<1>5. CASE op = "/"
  <2>1. r \in bignum_div(a, b, BIGNUM_DEFAULT_PRECISION) BY <1>5 DEF Result
  <2>2. QED BY <1>1, <2>1, DivTrimmed
<1>6. CASE op = "%"
  <2>1. r \in bignum_mod(a, b) /\ ModReturns(a, b) BY <1>6 DEF Result, Returns
  <2>2. QED BY <1>1, <2>1, ModTrimmed
<1>7. CASE op = "**"
  <2>1. r \in bignum_pow(a, b, BIGNUM_DEFAULT_PRECISION) BY <1>7 DEF Result
  <2>2. QED BY <1>1, <2>1, PowTrimmed
<1>8. QED BY <1>2, <1>3, <1>4, <1>5, <1>6, <1>7 DEF Operators

(* What every number of the calculator is: its storage holds its digits,    *)
(* the first of several is not 0, and neither is the last of the places.    *)
BignumInv == IsFormed(acc)

LEMMA BignumInit == bignum_create => BignumInv
<1> SUFFICES ASSUME bignum_create PROVE BignumInv OBVIOUS
<1> DEFINE plus == FALSE
           s == <<>>
           one == 1
           none == 0
<1>1. plus \in BOOLEAN /\ s \in Seq(Nat) /\ one \in Nat /\ one = 1 /\ none \in Int /\ none = 0
      /\ acc = Number(plus, s, one, none)
  BY DEF bignum_create
<1> HIDE DEF plus, s, one, none
<1>2. IsNumber(acc) /\ acc.length = one /\ acc.decimal_pos = none /\ none = 0 BY <1>1, NumberIs
<1>3. QED BY <1>1, <1>2 DEF BignumInv, IsFormed, IsNormal, IsTidy

LEMMA BignumStep == BignumInv /\ [BignumNext]_acc => BignumInv'
<1> SUFFICES ASSUME BignumInv, [BignumNext]_acc PROVE BignumInv' OBVIOUS
<1>1. CASE Calculates
  <2>1. PICK op \in Operators, x \in Operands : Computes(op, acc, x) \/ Computes(op, x, acc)
    BY <1>1 DEF Calculates
  <2>2. IsFormed(x) /\ IsFormed(acc) BY OperandsTrimmed, TrimmedIsFormed DEF BignumInv
  <2>3. IsTrimmed(acc')
    <3>1. CASE Computes(op, acc, x) BY <2>2, <3>1, ResultTrimmed DEF Computes
    <3>2. CASE Computes(op, x, acc) BY <2>2, <3>2, ResultTrimmed DEF Computes
    <3>3. QED BY <2>1, <3>1, <3>2
  <2>4. QED BY <2>3, TrimmedIsFormed DEF BignumInv
<1>2. CASE Rereads
  <2>1. IsTrimmed(acc') BY <1>2, RereadTrimmed DEF Rereads, BignumInv
  <2>2. QED BY <2>1, TrimmedIsFormed DEF BignumInv
<1>3. CASE Reads
  <2>1. IsTrimmed(acc') BY <1>3, OperandsTrimmed DEF Reads
  <2>2. QED BY <2>1, TrimmedIsFormed DEF BignumInv
<1>4. CASE Converts
  <2>1. IsOperand(acc) BY <1>4 DEF Converts, BignumInv, IsOperand, IsWhole
  <2>2. IsFormed(acc) /\ Whole(acc) \in Nat BY <2>1, OperandIs
  <2>3. PICK bits \in bignum_number_to_bitmap(acc) : acc' = bignum_bitmap_to_number(bits)
    BY <1>4 DEF Converts
  <2>4. PICK y \in bignum_copy(acc) : bits = Reverse(Bits(Whole(y)))
    BY <2>3 DEF bignum_number_to_bitmap
  <2>5. Whole(y) = Whole(acc) BY <2>2, <2>4, CopyIs
  <2>6. IsTrimmed(acc') BY <2>2, <2>3, <2>4, <2>5, ConvertedTrimmed
  <2>7. QED BY <2>6, TrimmedIsFormed DEF BignumInv
<1>5. CASE UNCHANGED acc BY <1>5 DEF BignumInv
<1>6. QED BY <1>1, <1>2, <1>3, <1>4, <1>5 DEF BignumNext

LEMMA ExactForOperands ==
  ASSUME NEW a, NEW b, IsOperand(a), IsOperand(b)
  PROVE  WholeExactFor(a, b)
<1> DEFINE m == Value(a)
           n == Value(b)
           precision == BIGNUM_DEFAULT_PRECISION
<1>1. precision \in Nat BY BignumAssumption
<1>2. m # 0 \/ n # 0 => bignum_compare(a, b) = Sign(m - n) BY CompareExact
<1>3. ValueIs(bignum_add(a, b), m + n) BY AddExact, ResultsHaveValue
<1>4. ValueIs(bignum_sub(a, b), m - n) BY SubExact, ResultsHaveValue
<1>5. ValueIs(bignum_mul(a, b), m * n) BY MulExact, ResultsHaveValue
<1>6. ValueIs(bignum_pow(a, b, precision), Power(m, n))
  BY <1>1, PowExact, ResultsHaveValue
<1>7. n = 0 => bignum_mod(a, b) = {} /\ bignum_div(a, b, 0) = {} BY ZeroDividesNothing
<1>8. n # 0 => ValueIs(bignum_mod(a, b), (IF m < 0 THEN -1 ELSE 1) * (Whole(a) % Whole(b)))
  BY ModExact, ResultsHaveValue
<1> HIDE DEF m, n, precision
<1>9. QED BY <1>2, <1>3, <1>4, <1>5, <1>6, <1>7, <1>8 DEF WholeExactFor, m, n, precision

BignumSpec == bignum_create /\ [][BignumNext]_acc

(* Whole numbers are calculated exactly by bignum_compare, bignum_add,      *)
(* bignum_sub, bignum_mul, bignum_pow and bignum_mod, whatever has been     *)
(* calculated, written and read before, in every base, and no zero, with or *)
(* without a sign, divides.                                                 *)
THEOREM WholeNumbersExact == BignumSpec => []WholeExact
<1>1. BignumInv => WholeExact
  <2> SUFFICES ASSUME BignumInv, IsWhole(acc), NEW x \in Operands, IsWhole(x)
               PROVE  WholeExactFor(acc, x) /\ WholeExactFor(x, acc)
    BY DEF WholeExact
  <2>1. IsOperand(acc) BY DEF BignumInv, IsOperand
  <2>2. IsOperand(x) BY OperandsTrimmed, TrimmedIsFormed DEF IsOperand
  <2>3. QED BY <2>1, <2>2, ExactForOperands
<1>2. QED BY <1>1, BignumInit, BignumStep, PTL DEF BignumSpec
-----------------------------------------------------------------------------
(* Numbers with places, calculated *)

LEMMA ScaledForFractions ==
  ASSUME NEW a, NEW b, IsFraction(a), IsFraction(b)
  PROVE  ScaledExactFor(a, b)
<1>1. ProductIs(bignum_mul(a, b), a, b) BY MulScaled
<1>2. Whole(b) # 0 => QuotientIs(bignum_div(a, b, 1), a, b, 1)
  <2> DEFINE one == 1
  <2>1. one \in Nat /\ one = 1 OBVIOUS
  <2> HIDE DEF one
  <2>2. Whole(b) # 0 => QuotientIs(bignum_div(a, b, one), a, b, one) BY <2>1, DivScaled
  <2>3. QED BY <2>1, <2>2
<1>3. ComparisonIs(bignum_compare(a, b), a, b) BY CompareScaled
<1>4. SumIs(bignum_add(a, b), a, b) BY AddScaled
<1>5. SumIs(bignum_sub(a, b), a, [b EXCEPT !.neg = ~@]) BY SubScaled
<1>6. QED BY <1>1, <1>2, <1>3, <1>4, <1>5 DEF ScaledExactFor

(* What the calculator reads has no fewer places than none.                *)
LEMMA OperandsAreFractions == ASSUME NEW x \in Operands PROVE IsFraction(x)
<1>1. PICK t \in Literals : x \in bignum_from_string(t) BY DEF Operands
<1>2. IsText(t) BY BignumAssumption DEF IsText, Decimals
<1>3. IsTrimmed(x) /\ BelowBase(x) /\ x.decimal_pos >= 0 BY <1>1, <1>2, ReadTrimmed
<1>4. QED BY <1>3, TrimmedIsFormed DEF IsFraction

(* Whatever has been calculated, written and read before, bignum_mul is     *)
(* exact but for the places it cuts off and never cuts a digit before them, *)
(* bignum_div is exact but for the places after those it was asked for,     *)
(* bignum_compare is right between numbers with a whole part of which the   *)
(* first has no fewer places, and bignum_add and bignum_sub are exact where *)
(* no digit leaves the window of the result, in every base and with every   *)
(* limit on places and digits.                                              *)
THEOREM FractionsScaled == BignumSpec => []ScaledExact
<1>1. BignumInv => ScaledExact
  <2> SUFFICES ASSUME BignumInv, Proper(acc), NEW x \in Operands
               PROVE  ScaledExactFor(acc, x) /\ ScaledExactFor(x, acc)
    BY DEF ScaledExact
  <2>1. IsFraction(acc) BY DEF BignumInv, IsFraction, Proper, BelowBase
  <2>2. IsFraction(x) BY OperandsAreFractions
  <2>3. QED BY <2>1, <2>2, ScaledForFractions
<1>2. QED BY <1>1, BignumInit, BignumStep, PTL DEF BignumSpec
-----------------------------------------------------------------------------
(* Numbers written and read back *)

LEMMA ShownWhole ==
  ASSUME NEW w, NEW q \in Nat, w \in Seq(Decimals), Len(w) = q, q >= 2 => w[1] # 0
  PROVE  LET S == {Len(w)} \cup {i \in DOMAIN w : w[i] # 0}
             s == IF w = <<>> THEN <<0>> ELSE SubSeq(w, Min(S), Len(w))
         IN /\ Len(s) = Greater(1, q)
            /\ q >= 1 => \A i \in 1 .. q : s[i] = w[i]
            /\ q = 0 => s[1] = 0
<1> DEFINE S == {Len(w)} \cup {i \in DOMAIN w : w[i] # 0}
           s == IF w = <<>> THEN <<0>> ELSE SubSeq(w, Min(S), Len(w))
<1>1. DOMAIN w = 1 .. q OBVIOUS
<1>2. ASSUME q = 0 PROVE Len(s) = Greater(1, q) /\ s[1] = 0
  <2>1. w = <<>> BY <1>2
  <2>2. s = <<0>> BY <2>1
  <2>3. Greater(1, q) = 1 BY <1>2 DEF Greater
  <2> HIDE DEF s
  <2>4. QED BY <1>2, <2>2, <2>3
<1>3. ASSUME q >= 1 PROVE Len(s) = Greater(1, q) /\ \A i \in 1 .. q : s[i] = w[i]
  <2>1. w # <<>> BY <1>3
  <2>2. S \in SUBSET Nat /\ 1 \in S /\ \A i \in S : 1 <= i
    <3>1. S \in SUBSET (1 .. q) BY <1>1, <1>3
    <3>2. 1 \in S
      <4>1. CASE q = 1 BY <4>1
      <4>2. CASE q >= 2 BY <1>1, <4>2
      <4>3. QED BY <1>3, <4>1, <4>2
    <3> HIDE DEF S
    <3>3. QED BY <3>1, <3>2
  <2> DEFINE k == Min(S)
  <2>3. s = SubSeq(w, k, q) BY <2>1
  <2> HIDE DEF S
  <2>4. k \in S /\ k <= 1 BY <2>2, MinIs
  <2> HIDE DEF s, k
  <2>5. k = 1 BY <2>2, <2>4
  <2>6. s = SubSeq(w, 1, q) BY <2>3, <2>5
  <2>7. Greater(1, q) = q BY <1>3 DEF Greater
  <2>8. Len(s) = q /\ \A i \in 1 .. q : s[i] = w[i] BY <1>3, <2>6
  <2>9. QED BY <2>7, <2>8
<1> HIDE DEF s
<1>4. /\ Len(s) = Greater(1, q)
      /\ q >= 1 => \A i \in 1 .. q : s[i] = w[i]
      /\ q = 0 => s[1] = 0
  BY <1>2, <1>3
<1>5. QED BY <1>4 DEF s

LEMMA ShownPlaces ==
  ASSUME NEW w, NEW p \in Nat, w \in Seq(Decimals), Len(w) = p, p > 0 => w[p] # 0
  PROVE  NoZerosAtTheEnd(w) = w
<1> DEFINE S == {0} \cup {i \in DOMAIN w : w[i] # 0}
<1>1. S \in SUBSET (0 .. p) /\ S # {} OBVIOUS
<1>2. p \in S
  <2>1. CASE p = 0 BY <2>1
  <2>2. CASE p > 0
    <3>1. p \in DOMAIN w BY <2>2
    <3>2. QED BY <2>2, <3>1
  <2>3. QED BY <2>1, <2>2
<1>3. NoZerosAtTheEnd(w) = SubSeq(w, 1, Max(S)) BY DEF NoZerosAtTheEnd
<1> HIDE DEF S
<1>4. Max(S) = p
  <2>1. Max(S) \in 0 .. p /\ p <= Max(S) BY <1>1, <1>2, MaxIs
  <2>2. QED BY <2>1
<1>5. SubSeq(w, 1, p) = w OBVIOUS
<1>6. QED BY <1>3, <1>4, <1>5

(* The text of a number shows its digits, and a 0 where it has none before *)
(* the point.                                                              *)
LEMMA TextIs ==
  ASSUME NEW x, IsFormed(x), BelowBase(x), x.length > 0,
         x.decimal_pos >= 0, x.decimal_pos <= x.length
  PROVE  LET p == x.decimal_pos
             m == Greater(1, IntLength(x))
             t == bignum_to_string(x, p)
         IN /\ IsText(t) /\ t.neg = (x.neg /\ ~IsZero(x))
            /\ m \in Nat /\ m >= 1 /\ m + p >= x.length
            /\ Len(t.whole) = m /\ \A i \in 1 .. m : t.whole[i] = Digit(x, m + p - i)
            /\ Len(t.places) = p /\ \A i \in 1 .. p : t.places[i] = Digit(x, p - i)
<1> DEFINE n == x.length
           p == x.decimal_pos
           q == n - p
           m == Greater(1, IntLength(x))
           t == bignum_to_string(x, p)
           w == [i \in 1 .. q |-> Stored(x, n - i)]
           places == [i \in 1 .. p |-> Stored(x, p - i)]
           S == {Len(w)} \cup {i \in DOMAIN w : w[i] # 0}
           s == IF w = <<>> THEN <<0>> ELSE SubSeq(w, Min(S), Len(w))
<1>1. /\ IsNumber(x) /\ IsNormal(x) /\ IsTidy(x) /\ (HasRoom(x) \/ n <= 1)
      /\ n \in Nat /\ p \in Nat /\ q \in Nat /\ x.neg \in BOOLEAN
      /\ Len(x.digits) \in Nat
  BY NumberFields DEF IsFormed
<1>2. IsText(t) BY <1>1, WrittenIsText
<1>3. Greater(0, IntLength(x)) = q /\ Lesser(p, p) = p BY <1>1 DEF Greater, Lesser, IntLength
<1>4. t = Text(x.neg /\ ~(n = 1 /\ Stored(x, 0) = 0), s, NoZerosAtTheEnd(places))
  <2> HIDE DEF n, p, q
  <2>1. t = Text(x.neg /\ ~(x.length = 1 /\ Stored(x, 0) = 0), s, NoZerosAtTheEnd(places))
    BY <1>3 DEF bignum_to_string, n, p
  <2>2. QED BY <2>1 DEF n
<1>5. \A i \in Int : Stored(x, i) \in Decimals BY <1>1, DigitIs DEF Decimals
<1>6. \A i \in 0 .. n - 1 : Stored(x, i) = Digit(x, i)
  <2> TAKE i \in 0 .. n - 1
  <2>1. i \in Int BY <1>1
  <2>2. QED BY <1>1, <2>1, DigitIs
<1>7. w \in Seq(Decimals) /\ Len(w) = q /\ \A i \in 1 .. q : w[i] = Digit(x, n - i)
  <2>1. \A i \in 1 .. q : w[i] = Stored(x, n - i) OBVIOUS
  <2>2. \A i \in 1 .. q : n - i \in 0 .. n - 1 /\ n - i \in Int BY <1>1
  <2>3. \A i \in 1 .. q : w[i] \in Decimals BY <1>5, <2>1, <2>2
  <2>4. w = [i \in 1 .. q |-> w[i]] OBVIOUS
  <2> HIDE DEF w
  <2>5. w \in [1 .. q -> Decimals] BY <2>3, <2>4
  <2> HIDE DEF q, n
  <2>6. w \in Seq(Decimals) /\ Len(w) = q BY <1>1, <2>5
  <2>7. QED BY <1>6, <2>1, <2>2, <2>6
<1>8. places \in Seq(Decimals) /\ Len(places) = p /\ \A i \in 1 .. p : places[i] = Digit(x, p - i)
  <2>1. \A i \in 1 .. p : places[i] = Stored(x, p - i) OBVIOUS
  <2>2. \A i \in 1 .. p : p - i \in 0 .. n - 1 /\ p - i \in Int BY <1>1
  <2>3. \A i \in 1 .. p : places[i] \in Decimals BY <1>5, <2>1, <2>2
  <2>4. places = [i \in 1 .. p |-> places[i]] OBVIOUS
  <2> HIDE DEF places
  <2>5. places \in [1 .. p -> Decimals] BY <2>3, <2>4
  <2> HIDE DEF p, n
  <2>6. places \in Seq(Decimals) /\ Len(places) = p BY <1>1, <2>5
  <2>7. QED BY <1>6, <2>1, <2>2, <2>6
<1> HIDE DEF w, places
<1>9. q >= 2 => w[1] # 0
  <2> SUFFICES ASSUME q >= 2 PROVE w[1] # 0 OBVIOUS
  <2> DEFINE i == n - 1
  <2>1. n >= 2 /\ HasRoom(x) /\ i \in Int /\ i \in 0 .. n - 1 /\ i + 1 = n /\ 1 \in 1 .. q
    BY <1>1
  <2>2. w[1] = Digit(x, i) BY <1>7, <2>1
  <2>3. x.digits[i + 1] # 0 BY <1>1, <2>1 DEF IsNormal
  <2> HIDE DEF i
  <2>4. Digit(x, i) = x.digits[i + 1] BY <1>1, <2>1, DigitIs
  <2>5. QED BY <2>2, <2>3, <2>4
<1>10. p > 0 => places[p] # 0
  <2> SUFFICES ASSUME p > 0 PROVE places[p] # 0 OBVIOUS
  <2>1. p \in 1 .. p /\ p - p = 0 BY <1>1
  <2>2. places[p] = Digit(x, 0) BY <1>8, <2>1
  <2>3. QED BY <1>1, <2>2 DEF IsTidy
<1>11. NoZerosAtTheEnd(places) = places
  <2> HIDE DEF p
  <2>1. QED BY <1>1, <1>8, <1>10, ShownPlaces
<1>12. /\ Len(s) = Greater(1, q)
       /\ q >= 1 => \A i \in 1 .. q : s[i] = w[i]
       /\ q = 0 => s[1] = 0
  <2> HIDE DEF q
  <2>1. QED BY <1>1, <1>7, <1>9, ShownWhole
<1> HIDE DEF s
<1>13. t.neg = (x.neg /\ ~IsZero(x)) /\ t.whole = s /\ t.places = places
  BY <1>4, <1>11 DEF Text, IsZero
<1>14. m = Greater(1, q) /\ m \in Nat /\ m >= 1 /\ m + p >= n
       /\ (q >= 1 => m = q) /\ (q = 0 => m = 1)
  BY <1>1 DEF Greater, IntLength
<1>15. \A i \in 1 .. m : s[i] = Digit(x, m + p - i)
  <2>1. CASE q = 0
    <3>1. n \in Int /\ n >= x.length BY <1>1
    <3>2. Digit(x, n) = 0 BY <1>1, <3>1, DigitIs
    <3>3. m = 1 /\ \A i \in 1 .. m : i = 1 /\ m + p - i = n BY <1>1, <1>14, <2>1
    <3>4. QED BY <1>12, <2>1, <3>2, <3>3
  <2>2. CASE q >= 1
    <3>1. m = q /\ \A i \in 1 .. m : m + p - i = n - i BY <1>1, <1>14, <2>2
    <3>2. QED BY <1>7, <1>12, <2>2, <3>1
  <2>3. QED BY <1>1, <2>1, <2>2
<1> HIDE DEF m, t
<1>16. QED BY <1>2, <1>8, <1>12, <1>13, <1>14, <1>15 DEF m, t

(* A lowest digit that is not 0 is what is left by the base. *)
LEMMA LowestDigit ==
  ASSUME NEW x, IsNumber(x), BelowBase(x), x.length >= 1, NEW v \in Nat, Whole(x) = v * Base
  PROVE  Digit(x, 0) = 0
<1> DEFINE d == DigitsFrom(x)
           n == x.length
           m == n - 1
           e == [i \in 0 .. m - 1 |-> d[i + 1]]
           one == 1
           none == 0
<1>1. n \in Nat /\ m \in Nat /\ one + m = n /\ one \in Nat /\ none \in Nat /\ one = 1 /\ none = 0
  BY NumberFields
<1>2. Whole(x) = Read(d, n) /\ \A i \in 0 .. n - 1 : d[i] = Digit(x, i) /\ d[i] \in Nat
  BY DigitsFromIs
<1>3. \A i \in 0 .. n - 1 : d[i] \in 0 .. Base - 1 BY <1>2, DigitsFromIs
<1>4. \A i \in 0 .. m - 1 : e[i] = d[i + one] OBVIOUS
<1> HIDE DEF d, e
<1>5. \A i \in 0 .. one + m - 1 : d[i] \in Nat BY <1>1, <1>2
<1>6. none \in 0 .. n - 1 BY <1>1
<1>7. \A i \in 0 .. m - 1 : e[i] \in Nat
  <2> TAKE i \in 0 .. m - 1
  <2>1. i + one \in 0 .. n - 1 BY <1>1
  <2>2. QED BY <1>2, <1>4, <2>1
<1> HIDE DEF n, m, one, none
<1>8. Read(d, one + m) = Read(d, one) + Read(e, m) * Power(Base, one)
  BY <1>1, <1>4, <1>5, ReadShift
<1>9. Power(Base, one) = Base
  <2>1. Power(Base, none) = 1 /\ Power(Base, none + 1) = Base * Power(Base, none)
    BY <1>1, BaseIs, PowerIs
  <2>2. none + 1 = one BY <1>1
  <2>3. QED BY <2>1, <2>2, BaseIs
<1>10. Read(d, one) = d[none]
  <2>1. Read(d, none) = 0 /\ Read(d, none + 1) = Read(d, none) + d[none] * Power(Base, none)
    BY <1>1, ReadIs
  <2>2. Power(Base, none) = 1 BY <1>1, BaseIs, PowerIs
  <2>3. d[none] \in Nat BY <1>2, <1>6
  <2>4. none + 1 = one BY <1>1
  <2>5. QED BY <2>1, <2>2, <2>3, <2>4
<1>11. Read(e, m) \in Nat
  <2>1. m \in 0 .. m BY <1>1
  <2>2. QED BY <1>1, <1>7, <2>1, ReadNatural
<1> DEFINE c == d[none]
           w == Read(e, m)
           a == Whole(x)
<1>12. c \in Nat /\ c < Base /\ w \in Nat /\ Base \in Positive /\ Base \in Nat
  BY <1>2, <1>3, <1>6, <1>11, BaseIs
<1>13. a = c + w * Base BY <1>1, <1>2, <1>8, <1>9, <1>10
<1> HIDE DEF c, w, a
<1>14. a = Base * w + c /\ a = Base * v + 0 /\ a \in Nat
  <2>1. a = v * Base BY DEF a
  <2>2. v * Base \in Nat /\ v * Base = Base * v BY <1>12
  <2>3. w * Base = Base * w /\ w * Base \in Nat BY <1>12
  <2>4. QED BY <1>12, <1>13, <2>1, <2>2, <2>3
<1>15. a % Base = c BY <1>12, <1>14, QuotientUnique
<1>16. a % Base = 0
  <2>1. none < Base /\ a = Base * v + none BY <1>1, <1>12, <1>14, BaseIs
  <2>2. a % Base = none BY <1>1, <1>12, <1>14, <2>1, QuotientUnique
  <2>3. QED BY <1>1, <2>2
<1>17. c = 0 BY <1>15, <1>16
<1>18. QED BY <1>1, <1>2, <1>6, <1>17 DEF c

(* Numbers of usual form that are not 0 have as many digits as they need. *)
LEMMA NotLonger ==
  ASSUME NEW x, NEW y, IsFormed(x), IsFormed(y), BelowBase(y), x.length >= 1, y.length >= 1,
         Whole(x) = Whole(y)
  PROVE  x.length <= y.length
<1> DEFINE m == x.length
           n == y.length
<1>1. m \in Nat /\ n \in Nat BY NumberFields DEF IsFormed
<1> SUFFICES ASSUME n < m PROVE FALSE BY <1>1
<1> DEFINE k == m - 1
<1>2. k \in Nat /\ n <= k /\ m >= 2 BY <1>1
<1>3. Whole(x) >= Power(Base, k) BY <1>2, WholeBounds
<1>4. Whole(y) < Power(Base, n) /\ Whole(y) \in Nat BY WholeBounds
<1> HIDE DEF m, n, k
<1>5. Power(Base, n) <= Power(Base, k) /\ Power(Base, n) \in Nat /\ Power(Base, k) \in Nat
  BY <1>1, <1>2, PlacesGrow, PlaceIs
<1>6. QED BY <1>3, <1>4, <1>5

LEMMA Joined ==
  ASSUME NEW u \in Seq(Decimals), NEW v \in Seq(Decimals)
  PROVE  /\ Len(u \o v) = Len(u) + Len(v)
         /\ \A i \in 1 .. Len(u) + Len(v) :
              (u \o v)[i] = IF i <= Len(u) THEN u[i] ELSE v[i - Len(u)]
OBVIOUS

(* What is read from the text of a number is that number. *)
LEMMA ReadBackIs ==
  ASSUME NEW x, IsFormed(x), BelowBase(x), x.length > 0,
         x.decimal_pos >= 0, x.decimal_pos <= x.length,
         NEW y \in bignum_from_string(bignum_to_string(x, x.decimal_pos))
  PROVE  /\ IsTrimmed(y) /\ y.length = x.length /\ y.decimal_pos = x.decimal_pos
         /\ Whole(y) = Whole(x) /\ (Whole(x) # 0 => y.neg = x.neg)
<1> DEFINE p == x.decimal_pos
           m == Greater(1, IntLength(x))
           t == bignum_to_string(x, p)
           len == m + p
           both == t.whole \o t.places
           all == Reverse(both)
           z == Number(t.neg, all, len, p)
<1>1. /\ IsNumber(x) /\ IsNormal(x) /\ IsTidy(x)
      /\ x.length \in Nat /\ p \in Nat /\ x.neg \in BOOLEAN
  BY NumberFields DEF IsFormed
<1>2. /\ IsText(t) /\ t.neg = (x.neg /\ ~IsZero(x))
      /\ m \in Nat /\ m >= 1 /\ m + p >= x.length
      /\ Len(t.whole) = m /\ \A i \in 1 .. m : t.whole[i] = Digit(x, m + p - i)
      /\ Len(t.places) = p /\ \A i \in 1 .. p : t.places[i] = Digit(x, p - i)
  BY TextIs
<1> HIDE DEF m
<1>3. t.neg \in BOOLEAN /\ t.whole \in Seq(Decimals) /\ t.places \in Seq(Decimals)
  BY <1>2 DEF IsText
<1>4. y = bignum_trim(Number(t.neg, all, Len(all), p))
  <2>1. y \in bignum_from_string(t) OBVIOUS
  <2> HIDE DEF t
  <2>2. y = bignum_trim(Number(t.neg, Reverse(t.whole \o t.places),
                               Len(Reverse(t.whole \o t.places)), Len(t.places)))
    BY <2>1 DEF bignum_from_string
  <2>3. QED BY <1>2, <2>2
<1> HIDE DEF t, p
<1>5. len \in Nat /\ len >= 1 /\ len >= x.length BY <1>1, <1>2
<1>6. Len(both) = len /\ \A i \in 1 .. len : both[i] = Digit(x, len - i)
  <2> DEFINE u == t.whole
             v == t.places
  <2>1. u \in Seq(Decimals) /\ v \in Seq(Decimals) /\ Len(u) = m /\ Len(v) = p BY <1>2, <1>3
  <2>2. /\ \A i \in 1 .. m : u[i] = Digit(x, m + p - i)
        /\ \A i \in 1 .. p : v[i] = Digit(x, p - i)
    BY <1>2
  <2>0. both = u \o v /\ len = m + p OBVIOUS
  <2> HIDE DEF u, v, both, len
  <2>3. Len(u \o v) = m + p /\ \A i \in 1 .. m + p : (u \o v)[i] = IF i <= m THEN u[i] ELSE v[i - m]
    <3>1. u \in Seq(Decimals) /\ v \in Seq(Decimals) /\ m = Len(u) /\ p = Len(v)
      BY <2>1
    <3> HIDE DEF m, p
    <3>2. QED BY <3>1, Joined
  <2>4. \A i \in 1 .. m + p : (u \o v)[i] = Digit(x, m + p - i)
    <3> TAKE i \in 1 .. m + p
    <3>1. CASE i <= m
      <4>1. i \in 1 .. m BY <1>1, <1>2, <3>1
      <4>2. QED BY <2>2, <2>3, <3>1, <4>1
    <3>2. CASE ~(i <= m)
      <4>1. i - m \in 1 .. p /\ p - (i - m) = m + p - i BY <1>1, <1>2, <3>2
      <4>2. QED BY <2>2, <2>3, <3>2, <4>1
    <3>3. QED BY <3>1, <3>2
  <2> DEFINE g == u \o v
  <2>5. both = g /\ Len(g) = m + p /\ \A i \in 1 .. m + p : g[i] = Digit(x, m + p - i)
    BY <2>0, <2>3, <2>4
  <2> HIDE DEF g
  <2>6. QED BY <1>1, <1>2, <1>5, <2>0, <2>5
<1> HIDE DEF both, len
<1>7. all = [i \in 1 .. len |-> both[len - i + 1]] BY <1>6 DEF Reverse
<1> HIDE DEF all
<1>8. \A i \in 0 .. len - 1 : all[i + 1] = Digit(x, i)
  <2> TAKE i \in 0 .. len - 1
  <2>1. i + 1 \in 1 .. len /\ len - (i + 1) + 1 \in 1 .. len /\ len - (len - (i + 1) + 1) = i
    BY <1>5
  <2>2. all[i + 1] = both[len - (i + 1) + 1] BY <1>7, <2>1
  <2>3. both[len - (i + 1) + 1] = Digit(x, len - (len - (i + 1) + 1)) BY <1>6, <2>1
  <2>4. QED BY <2>1, <2>2, <2>3
<1>9. all \in Seq(Nat) /\ Len(all) = len /\ \A i \in 1 .. len : all[i] < Base
  <2>1. \A i \in 1 .. len : all[i] \in 0 .. Base - 1
    <3> TAKE i \in 1 .. len
    <3> DEFINE j == i - 1
    <3>1. j \in 0 .. len - 1 /\ j + 1 = i /\ j \in Int BY <1>5
    <3> HIDE DEF j
    <3>2. all[j + 1] = Digit(x, j) BY <1>8, <3>1
    <3>3. Digit(x, j) \in 0 .. Base - 1 BY <1>1, <3>1, DigitIs
    <3>4. QED BY <3>1, <3>2, <3>3
  <2>2. \A i \in 1 .. len : all[i] \in Nat /\ all[i] < Base BY <2>1, BaseIs
  <2>3. all = [i \in 1 .. len |-> all[i]] BY <1>7
  <2>4. all \in [1 .. len -> Nat] BY <2>2, <2>3
  <2>5. all \in Seq(Nat) /\ Len(all) = len BY <1>5, <2>4
  <2>6. QED BY <2>2, <2>5
<1>10. IsNumber(z) /\ z.neg = t.neg /\ z.digits = all /\ z.length = len /\ z.decimal_pos = p
  <2>1. p \in Int BY <1>1
  <2> HIDE DEF z
  <2>2. QED BY <1>3, <1>5, <1>9, <2>1, NumberIs DEF z
<1>11. y = bignum_trim(z) BY <1>4, <1>9
<1> HIDE DEF z
<1>12. HasRoom(z) /\ BelowBase(z) BY <1>9, <1>10 DEF HasRoom, BelowBase
<1>13. Whole(z) = Whole(x)
  <2> DEFINE d == DigitsFrom(z)
  <2>1. Whole(z) = Read(d, len) /\ \A i \in 0 .. len - 1 : d[i] = Digit(z, i)
    BY <1>10, DigitsFromIs
  <2> HIDE DEF d
  <2>2. \A i \in 0 .. len - 1 : d[i] = Digit(x, i)
    <3> TAKE i \in 0 .. len - 1
    <3>1. i \in Int /\ i \in 0 .. z.length - 1 BY <1>5, <1>10
    <3>2. Digit(z, i) = z.digits[i + 1] BY <1>10, <1>12, <3>1, DigitIs
    <3>3. QED BY <1>8, <1>10, <2>1, <3>2
  <2>3. Whole(x) = Read(d, len) BY <1>1, <1>5, <2>2, WholeWithZeros
  <2>4. QED BY <2>1, <2>3
<1>14. /\ IsTrimmed(y) /\ BelowBase(y)
       /\ z.length >= 1 /\ z.decimal_pos = 0 =>
            y.length >= 1 /\ y.decimal_pos = 0 /\ Whole(y) = Whole(z)
       /\ \E k \in 0 .. Greater(0, z.decimal_pos) :
            /\ Whole(z) = Whole(y) * Power(Base, k)
            /\ \/ y.decimal_pos = z.decimal_pos - k /\ y.neg = z.neg
               \/ Whole(y) = 0
  BY <1>10, <1>11, <1>12, TrimIs
<1>15. IsFormed(y) /\ y.length \in Nat /\ Whole(y) \in Nat
  <2>1. IsFormed(y) BY <1>14, TrimmedIsFormed
  <2>2. QED BY <2>1, WholeBounds, NumberFields DEF IsFormed
<1>16. Whole(x) \in Nat BY WholeBounds
<1>17. CASE Whole(x) = 0
  <2>1. x.length = 1
    <3>1. ASSUME x.length >= 2 PROVE FALSE
      <4> DEFINE k == x.length - 1
      <4>1. k \in Nat /\ Whole(x) >= Power(Base, k) BY <1>1, <3>1, WholeBounds
      <4> HIDE DEF k
      <4>2. Power(Base, k) \in Nat /\ Power(Base, k) >= 1 BY <4>1, PlaceIs
      <4>3. QED BY <1>17, <4>1, <4>2
    <3>2. QED BY <1>1, <3>1
  <2>2. p = 0
    <3> SUFFICES ASSUME p > 0 PROVE FALSE BY <1>1
    <3>1. Digit(x, 0) # 0 BY <1>1, <2>1 DEF IsTidy, p
    <3>2. Digit(x, 0) = Stored(x, 0) BY <2>1 DEF Digit
    <3>3. Whole(x) > 0 BY <2>1, <3>1, <3>2, WholeBounds
    <3>4. QED BY <1>17, <3>3
  <2>3. y.length >= 1 /\ y.decimal_pos = 0 /\ Whole(y) = Whole(x)
    BY <1>5, <1>10, <1>13, <1>14, <2>2
  <2>4. y.length = 1
    <3>1. ASSUME y.length >= 2 PROVE FALSE
      <4> DEFINE k == y.length - 1
      <4>1. k \in Nat /\ Whole(y) >= Power(Base, k) BY <1>15, <3>1, WholeBounds
      <4> HIDE DEF k
      <4>2. Power(Base, k) \in Nat /\ Power(Base, k) >= 1 BY <4>1, PlaceIs
      <4>3. QED BY <1>17, <2>3, <4>1, <4>2
    <3>2. QED BY <1>15, <2>3, <3>1
  <2>5. QED BY <1>14, <1>17, <2>1, <2>2, <2>3, <2>4 DEF p
<1>18. CASE Whole(x) # 0
  <2>1. PICK k \in 0 .. Greater(0, z.decimal_pos) :
          /\ Whole(z) = Whole(y) * Power(Base, k)
          /\ \/ y.decimal_pos = z.decimal_pos - k /\ y.neg = z.neg
             \/ Whole(y) = 0
    BY <1>14
  <2>2. k \in Nat /\ k <= p
    <3>1. Greater(0, z.decimal_pos) = p BY <1>1, <1>10 DEF Greater
    <3>2. QED BY <1>1, <3>1
  <2>3. Whole(x) = Whole(y) * Power(Base, k) /\ Power(Base, k) \in Nat
    BY <1>13, <2>1, <2>2, PlaceIs
  <2>4. Whole(y) # 0
    <3>1. Whole(y) = 0 => Whole(y) * Power(Base, k) = 0 BY <2>3
    <3>2. QED BY <1>18, <2>3, <3>1
  <2>5. k = 0
    <3> SUFFICES ASSUME k # 0 PROVE FALSE OBVIOUS
    <3> DEFINE j == k - 1
               w == Power(Base, j)
               a == Whole(y)
    <3>1. j \in Nat /\ k = j + 1 /\ p > 0 BY <1>1, <2>2
    <3> HIDE DEF j
    <3>2. Power(Base, k) = Base * w /\ w \in Nat BY <3>1, PlaceIs
    <3>3. a \in Nat /\ Base \in Nat BY <1>15, BaseIs
    <3> HIDE DEF w, a
    <3>4. a * (Base * w) = (a * w) * Base /\ a * w \in Nat BY <3>2, <3>3
    <3>5. Whole(x) = (a * w) * Base BY <2>3, <3>2, <3>4 DEF a
    <3> DEFINE v == a * w
    <3>6. v \in Nat /\ Whole(x) = v * Base BY <3>4, <3>5
    <3> HIDE DEF v
    <3>7. x.length >= 1 BY <1>1
    <3>8. Digit(x, 0) = 0 BY <1>1, <3>6, <3>7, LowestDigit
    <3>9. QED BY <1>1, <3>1, <3>8 DEF IsTidy, p
  <2>6. Whole(y) = Whole(x)
    <3>1. Power(Base, 0) = 1 BY BaseIs, PowerIs
    <3>2. QED BY <1>15, <2>3, <2>5, <3>1
  <2>7. y.decimal_pos = p /\ y.neg = x.neg
    <3>1. y.decimal_pos = p - k /\ y.neg = t.neg BY <1>10, <2>1, <2>4
    <3>2. ~IsZero(x) BY <1>18, WholeBounds
    <3>3. QED BY <1>1, <1>2, <2>5, <3>1, <3>2
  <2>8. y.length >= 1
    <3>1. y.length # 0 BY <1>15, <2>4, WholeBounds
    <3>2. QED BY <1>15, <3>1
  <2>9. y.length = x.length
    <3>1. x.length >= 1 BY <1>1
    <3>2. x.length <= y.length BY <1>14, <1>15, <2>6, <2>8, <3>1, NotLonger
    <3>3. y.length <= x.length BY <1>15, <2>6, <2>8, <3>1, NotLonger
    <3>4. QED BY <1>1, <1>15, <3>2, <3>3
  <2>10. QED BY <1>14, <2>6, <2>7, <2>9 DEF p
<1>19. QED BY <1>17, <1>18

(* Two numbers of the same shape are equal but for their storage. *)
Bare(x) == [x EXCEPT !.digits = <<>>]
BareWithSign(x, neg) == [x EXCEPT !.neg = neg, !.digits = <<>>]

LEMMA SameShape ==
  ASSUME NEW x, NEW y, IsNumber(x), IsNumber(y), y.length = x.length,
         y.decimal_pos = x.decimal_pos
  PROVE  BareWithSign(y, x.neg) = Bare(x)
<1> DEFINE plus == x.neg
           s == <<>>
<1>1. x = Number(plus, x.digits, x.length, x.decimal_pos) BY NumberFields
<1>2. y = Number(y.neg, y.digits, y.length, y.decimal_pos) BY NumberFields
<1> DEFINE z == [y EXCEPT !.neg = plus, !.digits = s]
           w == [x EXCEPT !.digits = s]
<1>3. BareWithSign(y, x.neg) = z /\ Bare(x) = w BY DEF BareWithSign, Bare
<1> HIDE DEF plus, s
<1>4. w = Number(plus, s, x.length, x.decimal_pos) BY <1>1 DEF Number
<1>5. z = Number(plus, s, y.length, y.decimal_pos)
  <2> DEFINE a == y.neg
             b == y.digits
             c == y.length
             d == y.decimal_pos
  <2>1. y = [neg |-> a, digits |-> b, length |-> c, decimal_pos |-> d] BY <1>2 DEF Number
  <2> HIDE DEF a, b, c, d
  <2>2. z = [neg |-> plus, digits |-> s, length |-> c, decimal_pos |-> d]
    <3> DEFINE e == [neg |-> plus, digits |-> b, length |-> c, decimal_pos |-> d]
    <3>1. e = [y EXCEPT !.neg = plus] BY <2>1
    <3>2. [e EXCEPT !.digits = s] = [neg |-> plus, digits |-> s, length |-> c, decimal_pos |-> d]
      OBVIOUS
    <3> HIDE DEF e
    <3>3. z = [e EXCEPT !.digits = s] BY <3>1
    <3>4. QED BY <3>2, <3>3
  <2> HIDE DEF z
  <2>3. QED BY <2>2 DEF Number, c, d
<1> HIDE DEF z, w
<1>6. QED BY <1>3, <1>4, <1>5

(* What bignum_to_string writes of a number bignum_from_string reads back   *)
(* as that number, whatever has been calculated before and in every base.   *)
THEOREM NumbersConvertBack == BignumSpec => []ConversionsAgree
<1>1. BignumInv => ConversionsAgree
  <2> SUFFICES ASSUME BignumInv PROVE ConversionsAgree OBVIOUS
  <2>1. IsFormed(acc) /\ IsNumber(acc) BY DEF BignumInv, IsFormed
  <2>2. ASSUME Proper(acc), acc.length > 0, acc.decimal_pos <= acc.length,
               NEW x \in bignum_from_string(bignum_to_string(acc, acc.decimal_pos))
        PROVE  /\ BareWithSign(x, acc.neg) = Bare(acc)
               /\ Whole(x) = Whole(acc) /\ (Whole(acc) # 0 => x.neg = acc.neg)
    <3>1. BelowBase(acc) /\ acc.decimal_pos >= 0 BY <2>2 DEF Proper, BelowBase
    <3>2. /\ IsTrimmed(x) /\ x.length = acc.length /\ x.decimal_pos = acc.decimal_pos
          /\ Whole(x) = Whole(acc) /\ (Whole(acc) # 0 => x.neg = acc.neg)
      BY <2>1, <2>2, <3>1, ReadBackIs
    <3>3. IsNumber(x) BY <3>2 DEF IsTrimmed, IsCut
    <3>4. QED BY <2>1, <3>2, <3>3, SameShape
  <2>3. QED BY <2>2, Zenon DEF ConversionsAgree, Bare, BareWithSign
<1>2. QED BY <1>1, BignumInit, BignumStep, PTL DEF BignumSpec
=============================================================================

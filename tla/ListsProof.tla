----------------------------- MODULE ListsProof -----------------------------
(***************************************************************************)
(* Lemmas about the operators of Lists, used by the proofs about the       *)
(* components.                                                             *)
(***************************************************************************)
EXTENDS Lists, SequenceTheorems, WellFoundedInduction, TLAPS

-----------------------------------------------------------------------------
(* Facts about finite sets of positions *)

(* A non-empty set of naturals has a least element. *)
LEMMA LeastExists ==
  ASSUME NEW T \in SUBSET Nat, T # {}
  PROVE  \E x \in T : \A y \in T : x <= y
<1> DEFINE R == OpToRel(<, Nat)
<1>1. IsWellFoundedOn(R, Nat) BY NatLessThanWellFounded
<1>2. \A x, y \in Nat : y < x => <<y, x>> \in R BY DEF OpToRel
<1> HIDE DEF R
<1>3. PICK x \in T : \A y \in T : ~ (<<y, x>> \in R) BY <1>1, WFMin
<1>4. ASSUME NEW y \in T PROVE x <= y
  <2>1. x \in Nat /\ y \in Nat OBVIOUS
  <2>2. ~ (y < x) BY <1>2, <1>3, <2>1
  <2>3. QED BY <2>1, <2>2
<1>5. QED BY <1>4

(* What holds for 0 and passes from k to k + 1 holds up to n. *)
LEMMA UpTo ==
  ASSUME NEW n \in Nat, NEW good, 0 \in good,
         \A k \in 0 .. n - 1 : k \in good => k + 1 \in good
  PROVE  \A k \in 0 .. n : k \in good
<1> DEFINE bad == {k \in 0 .. n : k \notin good}
<1>1. SUFFICES ASSUME bad # {} PROVE FALSE OBVIOUS
<1>2. bad \in SUBSET Nat OBVIOUS
<1>3. PICK x \in bad : \A y \in bad : x <= y BY <1>1, <1>2, LeastExists
<1>4. x # 0 /\ x \in 0 .. n BY <1>3
<1>5. x - 1 \in 0 .. n - 1 /\ x - 1 \notin bad BY <1>3, <1>4
<1>6. x - 1 \in good BY <1>5
<1>7. QED BY <1>3, <1>5, <1>6

(* LastOf yields the greatest position of a set, 0 for the empty set. *)
LEMMA LastOfProperties ==
  ASSUME NEW n \in Nat, NEW S \in SUBSET (1 .. n)
  PROVE  /\ LastOf(S) \in 0 .. n
         /\ LastOf(S) = 0 <=> S = {}
         /\ S # {} => LastOf(S) \in S /\ \A y \in S : y <= LastOf(S)
<1>1. CASE S = {} BY <1>1 DEF LastOf
<1>2. CASE S # {}
  <2> DEFINE T == {n - i : i \in S}
  <2>1. T \in SUBSET Nat /\ T # {}
    <3>1. \A i \in S : i \in 1 .. n /\ n - i \in Nat OBVIOUS
    <3>2. T \subseteq Nat BY <3>1
    <3>3. PICK i \in S : TRUE BY <1>2
    <3>4. n - i \in T BY <3>3
    <3>5. QED BY <3>2, <3>4
  <2>2. PICK t \in T : \A u \in T : t <= u BY <2>1, LeastExists
  <2>3. PICK x \in S : t = n - x OBVIOUS
  <2>4. \A y \in S : x >= y
    <3> TAKE y \in S
    <3>1. n - x <= n - y BY <2>2, <2>3
    <3>2. QED BY <3>1
  <2>5. \E z \in S : \A y \in S : z >= y BY <2>4
  <2>6. Max(S) \in S /\ \A y \in S : Max(S) >= y BY <2>5, Zenon DEF Max
  <2>7. LastOf(S) = Max(S) BY <1>2 DEF LastOf
  <2>8. Max(S) \in 1 .. n /\ \A y \in S : y \in 1 .. n BY <2>6
  <2>9. QED BY <1>2, <2>6, <2>7, <2>8
<1>3. QED BY <1>1, <1>2

(* The greatest position is known by its two defining properties. *)
LEMMA LastOfUnique ==
  ASSUME NEW n \in Nat, NEW S \in SUBSET (1 .. n), NEW m \in S, \A y \in S : y <= m
  PROVE  LastOf(S) = m
<1>1. LastOf(S) \in S /\ \A y \in S : y <= LastOf(S) BY LastOfProperties
<1>2. m <= LastOf(S) /\ LastOf(S) <= m BY <1>1
<1>3. m \in 1 .. n /\ LastOf(S) \in 1 .. n BY <1>1
<1>4. QED BY <1>2, <1>3

(* A set of naturals with an upper bound has a greatest element.           *)
LEMMA MaxProperties ==
  ASSUME NEW n \in Nat, NEW S \in SUBSET (0 .. n), S # {}
  PROVE  Max(S) \in S /\ \A y \in S : y <= Max(S)
<1> DEFINE T == {n - i : i \in S}
<1>1. T \in SUBSET Nat /\ T # {}
  <2>1. \A i \in S : n - i \in Nat OBVIOUS
  <2>2. PICK i \in S : TRUE OBVIOUS
  <2>3. n - i \in T OBVIOUS
  <2>4. QED BY <2>1, <2>3
<1>2. PICK t \in T : \A u \in T : t <= u BY <1>1, LeastExists
<1>3. PICK x \in S : t = n - x OBVIOUS
<1>4. \A y \in S : x >= y
  <2> TAKE y \in S
  <2>1. n - x <= n - y BY <1>2, <1>3
  <2>2. QED BY <2>1
<1>5. \E z \in S : \A y \in S : z >= y BY <1>4
<1>6. Max(S) \in S /\ \A y \in S : Max(S) >= y BY <1>5, Zenon DEF Max
<1>7. QED BY <1>6

-----------------------------------------------------------------------------
(* Facts about remainders *)

LEMMA DivisionProperties ==
  ASSUME NEW a \in Nat, NEW n \in Nat \ {0}
  PROVE  a \div n \in Nat /\ a % n \in 0 .. n - 1 /\ a = n * (a \div n) + (a % n)
OBVIOUS

LEMMA NoRemainder ==
  ASSUME NEW n \in Nat \ {0}
  PROVE  n % n = 0 /\ 0 % n = 0
OBVIOUS

(* No multiple of n but 0 is smaller than n.                               *)
LEMMA SmallMultiple ==
  ASSUME NEW n \in Nat \ {0}, NEW d \in Int, n * d \in 0 .. n - 1
  PROVE  d = 0
<1>1. CASE d >= 1
  <2>1. n * d >= n BY <1>1
  <2>2. QED BY <2>1
<1>2. CASE d <= -1
  <2>1. n * d <= -n BY <1>2
  <2>2. QED BY <2>1
<1>3. QED BY <1>1, <1>2

(* The next multiple of n is a multiple of n.                              *)
LEMMA RemainderOfSum ==
  ASSUME NEW a \in Nat, NEW n \in Nat \ {0}, a % n = 0
  PROVE  (a + n) % n = 0
<1> DEFINE q == a \div n
           p == (a + n) \div n
           r == (a + n) % n
<1>1. a + n \in Nat OBVIOUS
<1>2. q \in Nat /\ p \in Nat /\ r \in 0 .. n - 1 BY <1>1, DivisionProperties
<1>3. a = n * q BY DivisionProperties
<1>4. a + n = n * p + r BY <1>1, DivisionProperties
<1> HIDE DEF q, p, r
<1>5. n * (q + 1 - p) = r BY <1>2, <1>3, <1>4
<1>6. q + 1 - p = 0 BY <1>2, <1>5, SmallMultiple
<1>7. QED BY <1>2, <1>5, <1>6 DEF r

-----------------------------------------------------------------------------
(* Facts about the lists *)

LEMMA SameBound ==
  ASSUME NEW m \in Nat, NEW n \in Nat, 1 .. m = 1 .. n
  PROVE  m = n
<1>1. CASE m < n
  <2>1. n \in 1 .. n /\ n \notin 1 .. m BY <1>1
  <2>2. QED BY <2>1
<1>2. CASE n < m
  <2>1. m \in 1 .. m /\ m \notin 1 .. n BY <1>2
  <2>2. QED BY <2>1
<1>3. QED BY <1>1, <1>2

(* Removing a position keeps the other elements in order. *)
LEMMA RemoveAtProperties ==
  ASSUME NEW S, NEW s \in Seq(S), NEW k \in 1 .. Len(s)
  PROVE  /\ RemoveAt(s, k) \in Seq(S)
         /\ Len(RemoveAt(s, k)) = Len(s) - 1
         /\ DOMAIN RemoveAt(s, k) = 1 .. Len(s) - 1
         /\ \A i \in 1 .. Len(s) - 1 :
              RemoveAt(s, k)[i] = IF i < k THEN s[i] ELSE s[i + 1]
<1>1. Len(s) \in Nat /\ Len(s) - 1 \in Nat BY LenProperties
<1>2. \A i \in 1 .. Len(s) - 1 : (IF i < k THEN s[i] ELSE s[i + 1]) \in S
  BY ElementOfSeq, <1>1
<1>3. RemoveAt(s, k) \in Seq(S) BY <1>1, <1>2, IsASeq DEF RemoveAt
<1>4. DOMAIN RemoveAt(s, k) = 1 .. Len(s) - 1 BY DEF RemoveAt
<1>5. Len(RemoveAt(s, k)) = Len(s) - 1 BY <1>1, <1>3, <1>4, LenProperties
<1>6. QED BY <1>3, <1>4, <1>5 DEF RemoveAt

(* Which element of s is where after a removal: a bijection from the new   *)
(* positions to the old ones except the removed one.                       *)
LEMMA RemoveAtBijection ==
  ASSUME NEW S, NEW s \in Seq(S), NEW k \in 1 .. Len(s)
  PROVE  \E f \in [DOMAIN RemoveAt(s, k) -> DOMAIN s \ {k}] :
           /\ \A i \in DOMAIN RemoveAt(s, k) : RemoveAt(s, k)[i] = s[f[i]]
           /\ \A i, j \in DOMAIN RemoveAt(s, k) : f[i] = f[j] => i = j
           /\ \A m \in DOMAIN s \ {k} : \E i \in DOMAIN RemoveAt(s, k) : f[i] = m
<1> DEFINE r == RemoveAt(s, k)
           f == [i \in DOMAIN r |-> IF i < k THEN i ELSE i + 1]
<1>1. DOMAIN s = 1 .. Len(s) /\ Len(s) \in Nat BY LenProperties
<1>2. /\ DOMAIN r = 1 .. Len(s) - 1
      /\ \A i \in 1 .. Len(s) - 1 : r[i] = IF i < k THEN s[i] ELSE s[i + 1]
  BY RemoveAtProperties
<1> HIDE DEF r
<1>3. \A i \in DOMAIN r : f[i] = (IF i < k THEN i ELSE i + 1) OBVIOUS
<1>4. \A i \in DOMAIN r : f[i] \in DOMAIN s \ {k} /\ r[i] = s[f[i]]
  BY <1>1, <1>2, <1>3
<1>5. \A i, j \in DOMAIN r : f[i] = f[j] => i = j BY <1>2, <1>3
<1>6. ASSUME NEW m \in DOMAIN s \ {k} PROVE \E i \in DOMAIN r : f[i] = m
  <2>1. CASE m < k
    <3>1. m \in DOMAIN r /\ f[m] = m BY <1>1, <1>2, <1>3, <2>1
    <3>2. QED BY <3>1
  <2>2. CASE m > k
    <3>1. m - 1 \in DOMAIN r /\ f[m - 1] = m BY <1>1, <1>2, <1>3, <2>2
    <3>2. QED BY <3>1
  <2>3. QED BY <1>1, <2>1, <2>2
<1>7. f \in [DOMAIN r -> DOMAIN s \ {k}] BY <1>4
<1> HIDE DEF f
<1>8. QED BY <1>4, <1>5, <1>6, <1>7 DEF r

(* An element that is present has a first position. *)
LEMMA PositionOfProperties ==
  ASSUME NEW S, NEW s \in Seq(S), NEW e, Contains(s, e)
  PROVE  /\ PositionOf(s, e) \in 1 .. Len(s)
         /\ s[PositionOf(s, e)] = e
         /\ \A j \in 1 .. PositionOf(s, e) - 1 : s[j] # e
<1> DEFINE T == {i \in 1 .. Len(s) : s[i] = e}
<1>1. DOMAIN s = 1 .. Len(s) /\ Len(s) \in Nat BY LenProperties
<1>2. T \in SUBSET Nat /\ T # {} BY <1>1 DEF Contains
<1>3. PICK x \in T : \A y \in T : x <= y BY <1>2, LeastExists
<1>4. x \in 1 .. Len(s) /\ s[x] = e OBVIOUS
<1>5. ASSUME NEW j \in 1 .. x - 1 PROVE s[j] # e
  <2>1. j \in 1 .. Len(s) /\ ~ (x <= j) BY <1>1, <1>4
  <2>2. QED BY <1>3, <2>1
<1>6. \E i \in DOMAIN s : s[i] = e /\ \A j \in 1 .. i - 1 : s[j] # e
  BY <1>1, <1>4, <1>5
<1>7. LET p == PositionOf(s, e)
      IN p \in DOMAIN s /\ s[p] = e /\ \A j \in 1 .. p - 1 : s[j] # e
  BY <1>6, Zenon DEF PositionOf
<1>8. QED BY <1>1, <1>7

(* Removing the only occurrence of an element removes exactly that element *)
(* and keeps the list free of duplicates.                                  *)
LEMMA RemoveElementProperties ==
  ASSUME NEW S, NEW s \in Seq(S), Distinct(s), NEW k \in 1 .. Len(s)
  PROVE  /\ Distinct(RemoveAt(s, k))
         /\ \A e : Contains(RemoveAt(s, k), e) <=> Contains(s, e) /\ e # s[k]
<1> DEFINE r == RemoveAt(s, k)
<1>1. PICK f \in [DOMAIN r -> DOMAIN s \ {k}] :
        /\ \A i \in DOMAIN r : r[i] = s[f[i]]
        /\ \A i, j \in DOMAIN r : f[i] = f[j] => i = j
        /\ \A m \in DOMAIN s \ {k} : \E i \in DOMAIN r : f[i] = m
  BY RemoveAtBijection
<1>2. k \in DOMAIN s BY LenProperties
<1> HIDE DEF r
<1>3. Distinct(r)
  <2> SUFFICES ASSUME NEW i \in DOMAIN r, NEW j \in DOMAIN r, r[i] = r[j] PROVE i = j
    BY DEF Distinct
  <2>1. f[i] = f[j] BY <1>1 DEF Distinct
  <2>2. QED BY <1>1, <2>1
<1>4. ASSUME NEW e, Contains(r, e) PROVE Contains(s, e) /\ e # s[k]
  <2>1. PICK i \in DOMAIN r : r[i] = e BY <1>4 DEF Contains
  <2>2. f[i] \in DOMAIN s /\ f[i] # k /\ s[f[i]] = e BY <1>1, <2>1
  <2>3. QED BY <1>2, <2>2 DEF Contains, Distinct
<1>5. ASSUME NEW e, Contains(s, e), e # s[k] PROVE Contains(r, e)
  <2>1. PICK m \in DOMAIN s \ {k} : s[m] = e BY <1>5 DEF Contains
  <2>2. PICK i \in DOMAIN r : f[i] = m BY <1>1
  <2>3. QED BY <1>1, <2>1, <2>2 DEF Contains
<1>6. QED BY <1>3, <1>4, <1>5 DEF r

(* The elements after an append. *)
LEMMA AppendElements ==
  ASSUME NEW S, NEW s \in Seq(S), NEW e \in S
  PROVE  /\ Append(s, e) \in Seq(S)
         /\ Len(Append(s, e)) = Len(s) + 1
         /\ DOMAIN Append(s, e) = 1 .. Len(s) + 1
         /\ \A i \in 1 .. Len(s) : Append(s, e)[i] = s[i]
         /\ Append(s, e)[Len(s) + 1] = e
         /\ \A x : Contains(Append(s, e), x) <=> Contains(s, x) \/ x = e
         /\ Distinct(s) /\ ~Contains(s, e) => Distinct(Append(s, e))
<1> DEFINE r == Append(s, e)
<1>1. /\ r \in Seq(S) /\ Len(r) = Len(s) + 1
      /\ \A i \in 1 .. Len(s) : r[i] = s[i]
      /\ r[Len(s) + 1] = e
  BY AppendProperties
<1>2. DOMAIN s = 1 .. Len(s) /\ Len(s) \in Nat /\ DOMAIN r = 1 .. Len(s) + 1
  BY <1>1, LenProperties
<1> HIDE DEF r
<1>3. ASSUME NEW x PROVE Contains(r, x) <=> Contains(s, x) \/ x = e
  BY <1>1, <1>2 DEF Contains
<1>4. ASSUME Distinct(s), ~Contains(s, e) PROVE Distinct(r)
  BY <1>1, <1>2, <1>4 DEF Contains, Distinct
<1>5. QED BY <1>1, <1>2, <1>3, <1>4 DEF r

LEMMA DistinctAppend ==
  ASSUME NEW S, NEW s \in Seq(S), NEW e \in S, Distinct(Append(s, e))
  PROVE  Distinct(s) /\ ~Contains(s, e)
<1> DEFINE r == Append(s, e)
<1>1. DOMAIN r = 1 .. Len(s) + 1 /\ r[Len(s) + 1] = e /\ \A i \in 1 .. Len(s) : r[i] = s[i]
  BY AppendElements
<1>2. DOMAIN s = 1 .. Len(s) /\ Len(s) \in Nat BY LenProperties
<1>3. Distinct(r) OBVIOUS
<1> HIDE DEF r
<1>4. QED BY <1>1, <1>2, <1>3 DEF Distinct, Contains

(* What is left of a list after truncation. *)
LEMMA TruncatedProperties ==
  ASSUME NEW S, NEW s \in Seq(S), NEW n \in Nat
  PROVE  /\ Truncated(s, n) \in Seq(S)
         /\ \A x : Contains(Truncated(s, n), x) => Contains(s, x)
         /\ Distinct(s) => Distinct(Truncated(s, n))
<1>1. DOMAIN s = 1 .. Len(s) /\ Len(s) \in Nat BY LenProperties
<1>2. CASE Len(s) <= n BY <1>2 DEF Truncated
<1>3. CASE ~(Len(s) <= n)
  <2> DEFINE r == SubSeq(s, 1, n)
  <2>1. \A i \in 1 .. n : s[i] \in S BY <1>1, <1>3, ElementOfSeq
  <2>2. r \in Seq(S) /\ Len(r) = n /\ \A i \in 1 .. n : r[i] = s[i]
    BY <2>1, SubSeqProperties
  <2>3. DOMAIN r = 1 .. n BY <2>2, LenProperties
  <2>4. Truncated(s, n) = r BY <1>3 DEF Truncated
  <2> HIDE DEF r
  <2>5. \A x : Contains(r, x) => Contains(s, x)
    BY <1>1, <1>3, <2>2, <2>3 DEF Contains
  <2>6. Distinct(s) => Distinct(r) BY <1>1, <1>3, <2>2, <2>3 DEF Distinct
  <2>7. QED BY <2>2, <2>4, <2>5, <2>6
<1>4. QED BY <1>2, <1>3

LEMMA HeadAndTail ==
  ASSUME NEW T, NEW s \in Seq(T), s # <<>>
  PROVE  Head(s) \in T /\ Tail(s) \in Seq(T) /\ s = <<Head(s)>> \o Tail(s)
<1> DEFINE h == <<Head(s)>>
           t == Tail(s)
           r == h \o t
<1>1. Len(s) \in Nat /\ Len(s) > 0 /\ Head(s) \in T BY LenProperties, EmptySeq
<1>2. /\ t \in Seq(T) /\ Len(t) = Len(s) - 1
      /\ \A i \in 1 .. Len(s) - 1 : t[i] = s[i + 1]
  BY <1>1
<1>3. h \in Seq(T) /\ Len(h) = 1 /\ h[1] = s[1] BY <1>1
<1> HIDE DEF h, t
<1>4. /\ r \in Seq(T) /\ Len(r) = Len(h) + Len(t)
      /\ \A i \in 1 .. Len(h) + Len(t) : r[i] = IF i <= Len(h) THEN h[i] ELSE t[i - Len(h)]
  <2>1. h \in Seq(T) /\ t \in Seq(T) BY <1>2, <1>3
  <2>2. QED BY ONLY <2>1, ConcatProperties
<1> HIDE DEF r
<1>5. ASSUME NEW i \in 1 .. Len(s) PROVE s[i] = r[i]
  <2>1. CASE i = 1 BY <1>1, <1>2, <1>3, <1>4, <2>1
  <2>2. CASE i # 1
    <3>1. i - 1 \in 1 .. Len(s) - 1 /\ (i - 1) + 1 = i /\ ~(i <= Len(h))
      BY <1>1, <1>3, <2>2
    <3>2. t[i - 1] = s[i] BY <1>2, <3>1
    <3>3. QED BY <1>1, <1>2, <1>3, <1>4, <3>1, <3>2
  <2>3. QED BY <2>1, <2>2
<1>6. Len(s) = Len(r) BY <1>1, <1>2, <1>3, <1>4
<1>7. s = r BY <1>4, <1>5, <1>6, SeqEqual
<1>8. QED BY <1>1, <1>2, <1>7 DEF h, t, r

-----------------------------------------------------------------------------
(* Induction over the lists of a set *)

LEMMA AppendOfConcat ==
  ASSUME NEW T, NEW s \in Seq(T), NEW u \in Seq(T), NEW e \in T
  PROVE  s \o Append(u, e) = Append(s \o u, e) /\ s \o u \in Seq(T)
<1>1. /\ Append(u, e) = u \o <<e>> /\ Append(s \o u, e) = (s \o u) \o <<e>>
      /\ s \o u \in Seq(T) /\ <<e>> \in Seq(T)
  BY AppendIsConcat, ConcatProperties
<1>2. QED BY <1>1, ConcatAssociative

LEMMA Reassociate ==
  ASSUME NEW T, NEW a \in Seq(T), NEW b \in Seq(T), NEW c \in Seq(T)
  PROVE  a \o (b \o c) = (a \o b) \o c
BY ConcatAssociative, SMTT(30)

(* What holds for the empty list and survives Append holds for every list. *)
LEMMA ByAppending ==
  ASSUME NEW T, NEW good, <<>> \in good,
         \A u \in Seq(T), e \in T : u \in good => Append(u, e) \in good
  PROVE  \A u \in Seq(T) : u \in good
<1> DEFINE fine == {k \in Nat : \A u \in Seq(T) : Len(u) = k => u \in good}
<1>1. 0 \in fine
  <2>1. \A u \in Seq(T) : Len(u) = 0 => u = <<>> OBVIOUS
  <2>2. QED BY <2>1
<1>2. ASSUME NEW k \in Nat, k \in fine PROVE k + 1 \in fine
  <2>1. ASSUME NEW u \in Seq(T), Len(u) = k + 1 PROVE u \in good
    <3>1. u # <<>> BY <2>1
    <3>2. PICK v \in Seq(T), e \in T : u = Append(v, e) BY <3>1, SequenceEmptyOrAppend
    <3>3. Len(u) = Len(v) + 1 /\ Len(v) \in Nat BY <3>2, AppendProperties
    <3>4. Len(v) = k BY <2>1, <3>3
    <3>5. QED BY <1>2, <3>2, <3>4
  <2>2. QED BY <2>1
<1> SUFFICES ASSUME NEW u \in Seq(T) PROVE u \in good OBVIOUS
<1>3. Len(u) \in Nat OBVIOUS
<1>4. Len(u) \in fine
  <2> DEFINE n == Len(u)
  <2>1. n \in Nat BY <1>3
  <2> HIDE DEF n, fine
  <2>2. \A k \in 0 .. n - 1 : k \in fine => k + 1 \in fine BY <1>2, <2>1
  <2>3. \A k \in 0 .. n : k \in fine BY <1>1, <2>1, <2>2, UpTo
  <2>4. QED BY <2>1, <2>3 DEF n
<1>5. QED BY <1>4

-----------------------------------------------------------------------------
(* The elements of a list that are in a set *)

OnlyStep(s, S, g, i) ==
  IF i = 0 THEN <<>>
  ELSE IF s[i] \in S THEN Append(g[i - 1], s[i]) ELSE g[i - 1]
Keeping(s, S, n, g) == g = [i \in 0 .. n |-> OnlyStep(s, S, g, i)]

LEMMA KeepingExists ==
  ASSUME NEW s, NEW S, NEW n \in Nat
  PROVE  \E g : Keeping(s, S, n, g)
<1> DEFINE good == {k \in Nat : \E g : Keeping(s, S, k, g)}
<1>1. 0 \in good
  <2> DEFINE g == [i \in 0 .. 0 |-> <<>>]
  <2>1. \A i \in 0 .. 0 : OnlyStep(s, S, g, i) = <<>> BY DEF OnlyStep
  <2>2. Keeping(s, S, 0, g) BY <2>1 DEF Keeping
  <2>3. QED BY <2>2
<1>2. ASSUME NEW k \in 0 .. n - 1, k \in good PROVE k + 1 \in good
  <2>1. k \in Nat /\ k + 1 \in Nat OBVIOUS
  <2>2. PICK g : Keeping(s, S, k, g) BY <1>2
  <2> DEFINE h == [i \in 0 .. k + 1 |-> IF i = k + 1 THEN OnlyStep(s, S, g, i) ELSE g[i]]
  <2>3. ASSUME NEW i \in 0 .. k + 1 PROVE h[i] = OnlyStep(s, S, h, i)
    <3>1. h[i] = OnlyStep(s, S, g, i) BY <2>1, <2>2 DEF Keeping
    <3>2. i # 0 => h[i - 1] = g[i - 1] BY <2>1
    <3> HIDE DEF h
    <3>3. QED BY <3>1, <3>2 DEF OnlyStep
  <2>4. h = [i \in 0 .. k + 1 |-> h[i]] OBVIOUS
  <2> HIDE DEF h
  <2>5. h = [i \in 0 .. k + 1 |-> OnlyStep(s, S, h, i)] BY <2>3, <2>4
  <2>6. Keeping(s, S, k + 1, h) BY <2>5 DEF Keeping
  <2>7. QED BY <2>1, <2>6
<1> HIDE DEF good
<1>3. \A k \in 0 .. n : k \in good BY <1>1, <1>2, UpTo
<1>4. n \in good BY <1>3
<1>5. QED BY <1>4 DEF good

(* The function that Only builds. *)
Kept(s, S) == CHOOSE g : Keeping(s, S, Len(s), g)

LEMMA OnlyIsKept ==
  ASSUME NEW T, NEW s \in Seq(T), NEW S
  PROVE  /\ Only(s, S) = Kept(s, S)[Len(s)]
         /\ \A i \in 0 .. Len(s) : Kept(s, S)[i] = OnlyStep(s, S, Kept(s, S), i)
<1>1. Len(s) \in Nat OBVIOUS
<1>2. \E g : Keeping(s, S, Len(s), g) BY <1>1, KeepingExists
<1>3. Keeping(s, S, Len(s), Kept(s, S)) BY <1>2 DEF Kept
<1>4. Only(s, S) = Kept(s, S)[Len(s)] BY DEF Only, Kept, Keeping, OnlyStep
<1>5. QED BY <1>3, <1>4 DEF Keeping

LEMMA OnlyOfEmpty == \A S : Only(<<>>, S) = <<>>
<1> SUFFICES ASSUME NEW s, s = <<>>, NEW S PROVE Only(s, S) = <<>> OBVIOUS
<1>1. s \in Seq({}) /\ Len(s) = 0 OBVIOUS
<1>2. Only(s, S) = Kept(s, S)[0] BY <1>1, OnlyIsKept
<1>3. \A i \in 0 .. Len(s) : Kept(s, S)[i] = OnlyStep(s, S, Kept(s, S), i)
  BY <1>1, OnlyIsKept
<1>4. QED BY <1>1, <1>2, <1>3 DEF OnlyStep

LEMMA OnlyOfAppend ==
  ASSUME NEW T, NEW s \in Seq(T), NEW e \in T, NEW S
  PROVE  Only(Append(s, e), S) =
           IF e \in S THEN Append(Only(s, S), e) ELSE Only(s, S)
<1> DEFINE t == Append(s, e)
           n == Len(s)
           g == Kept(s, S)
           h == Kept(t, S)
<1>1. n \in Nat /\ t \in Seq(T) /\ Len(t) = n + 1 OBVIOUS
<1>2. t[n + 1] = e /\ \A i \in 1 .. n : t[i] = s[i] BY AppendProperties
<1>3. Only(s, S) = g[n] /\ \A i \in 0 .. n : g[i] = OnlyStep(s, S, g, i)
  BY OnlyIsKept
<1>4. Only(t, S) = h[n + 1] /\ \A i \in 0 .. n + 1 : h[i] = OnlyStep(t, S, h, i)
  BY <1>1, OnlyIsKept
<1> HIDE DEF t, n, g, h
<1> DEFINE good == {k \in Nat : k <= n => h[k] = g[k]}
<1>5. 0 \in good BY <1>1, <1>3, <1>4 DEF OnlyStep
<1>6. ASSUME NEW k \in 0 .. n - 1, k \in good PROVE k + 1 \in good
  <2>1. k + 1 \in 1 .. n /\ k + 1 \in 0 .. n + 1 /\ k + 1 # 0 /\ (k + 1) - 1 = k
    BY <1>1
  <2>2. h[k] = g[k] BY <1>1, <1>6
  <2>3. h[k + 1] = IF t[k + 1] \in S THEN Append(h[k], t[k + 1]) ELSE h[k]
    BY <1>4, <2>1 DEF OnlyStep
  <2>4. g[k + 1] = IF s[k + 1] \in S THEN Append(g[k], s[k + 1]) ELSE g[k]
    BY <1>3, <2>1 DEF OnlyStep
  <2>5. t[k + 1] = s[k + 1] BY <1>2, <2>1
  <2>6. QED BY <2>1, <2>2, <2>3, <2>4, <2>5
<1>7. h[n] = g[n]
  <2> HIDE DEF good
  <2>1. \A k \in 0 .. n : k \in good BY <1>1, <1>5, <1>6, UpTo
  <2>2. n \in good BY <1>1, <2>1
  <2>3. QED BY <1>1, <2>2 DEF good
<1>8. n + 1 \in 0 .. n + 1 /\ n + 1 # 0 /\ (n + 1) - 1 = n BY <1>1
<1>9. h[n + 1] = IF e \in S THEN Append(h[n], e) ELSE h[n]
  BY <1>2, <1>4, <1>8 DEF OnlyStep
<1>10. QED BY <1>3, <1>4, <1>7, <1>9 DEF t

LEMMA OnlyTyped ==
  ASSUME NEW T, NEW s \in Seq(T), NEW S
  PROVE  Only(s, S) \in Seq(T \cap S)
<1> DEFINE good == {u \in Seq(T) : Only(u, S) \in Seq(T \cap S)}
<1>1. <<>> \in good
  <2>1. Only(<<>>, S) = <<>> BY OnlyOfEmpty
  <2>2. <<>> \in Seq(T) /\ <<>> \in Seq(T \cap S) OBVIOUS
  <2>3. QED BY <2>1, <2>2
<1>2. ASSUME NEW u \in Seq(T), NEW e \in T, u \in good PROVE Append(u, e) \in good
  <2>1. Append(u, e) \in Seq(T) OBVIOUS
  <2>2. Only(u, S) \in Seq(T \cap S) BY <1>2
  <2>3. CASE e \in S
    <3>1. e \in T \cap S BY <2>3
    <3>2. Append(Only(u, S), e) \in Seq(T \cap S) BY <2>2, <3>1
    <3>3. Only(Append(u, e), S) = Append(Only(u, S), e) BY <2>3, OnlyOfAppend
    <3>4. QED BY <2>1, <3>2, <3>3
  <2>4. CASE e \notin S BY <2>1, <2>2, <2>4, OnlyOfAppend
  <2>5. QED BY <2>3, <2>4
<1>3. s \in good
  <2> HIDE DEF good
  <2>1. QED BY <1>1, <1>2, ByAppending
<1>4. QED BY <1>3

LEMMA OnlyConcat ==
  ASSUME NEW T, NEW s \in Seq(T), NEW t \in Seq(T), NEW S
  PROVE  Only(s \o t, S) = Only(s, S) \o Only(t, S)
<1>1. \A u \in Seq(T) : Only(u, S) \in Seq(T \cap S) BY OnlyTyped
<1> DEFINE fine == {u \in Seq(T) : Only(s \o u, S) = Only(s, S) \o Only(u, S)}
<1>2. <<>> \in fine
  <2>1. s \o <<>> = s /\ Only(s, S) \o <<>> = Only(s, S) BY <1>1, ConcatEmptySeq
  <2>2. Only(<<>>, S) = <<>> /\ <<>> \in Seq(T) BY OnlyOfEmpty
  <2>3. QED BY <2>1, <2>2
<1>3. ASSUME NEW u \in Seq(T), NEW e \in T, u \in fine PROVE Append(u, e) \in fine
  <2> DEFINE w == s \o u
             x == Only(s, S)
             y == Only(u, S)
  <2>1. s \o Append(u, e) = Append(w, e) /\ w \in Seq(T) BY AppendOfConcat
  <2>2. Only(w, S) = x \o y BY <1>3
  <2>3. x \in Seq(T \cap S) /\ y \in Seq(T \cap S) BY <1>1
  <2>4. Append(u, e) \in Seq(T) OBVIOUS
  <2>5. Only(Append(w, e), S) = IF e \in S THEN Append(Only(w, S), e) ELSE Only(w, S)
    BY <2>1, OnlyOfAppend
  <2>6. Only(Append(u, e), S) = IF e \in S THEN Append(y, e) ELSE y BY OnlyOfAppend
  <2> HIDE DEF w, x, y
  <2>7. CASE e \in S
    <3>1. e \in T \cap S BY <2>7
    <3>2. x \o Append(y, e) = Append(x \o y, e) BY <2>3, <3>1, AppendOfConcat
    <3>3. Only(Append(w, e), S) = x \o Only(Append(u, e), S)
      BY <2>2, <2>5, <2>6, <2>7, <3>2
    <3>4. QED BY <2>1, <2>4, <3>3 DEF x
  <2>8. CASE e \notin S
    <3>1. Only(Append(w, e), S) = x \o Only(Append(u, e), S)
      BY <2>2, <2>5, <2>6, <2>8
    <3>2. QED BY <2>1, <2>4, <3>1 DEF x
  <2>9. QED BY <2>7, <2>8
<1>4. \A u \in Seq(T) : Only(s \o u, S) = Only(s, S) \o Only(u, S)
  <2> HIDE DEF fine
  <2>1. \A u \in Seq(T) : u \in fine BY <1>2, <1>3, ByAppending
  <2>2. QED BY <2>1 DEF fine
<1>5. QED BY <1>4

LEMMA OnlyOfOne ==
  ASSUME NEW T, NEW e \in T, NEW S
  PROVE  Only(<<e>>, S) = IF e \in S THEN <<e>> ELSE <<>>
<1>1. <<>> \in Seq(T) /\ Append(<<>>, e) = <<e>> OBVIOUS
<1>2. Only(Append(<<>>, e), S) = IF e \in S THEN Append(Only(<<>>, S), e) ELSE Only(<<>>, S)
  BY <1>1, OnlyOfAppend
<1>3. Only(<<>>, S) = <<>> BY OnlyOfEmpty
<1>4. QED BY <1>1, <1>2, <1>3

(* Sets that agree on the elements of a list leave the same of it. *)
LEMMA OnlyAgrees ==
  ASSUME NEW T, NEW s \in Seq(T), NEW S, NEW U,
         \A e : Contains(s, e) => (e \in S <=> e \in U)
  PROVE  Only(s, S) = Only(s, U)
<1> DEFINE Agree(u) == \A e : Contains(u, e) => (e \in S <=> e \in U)
           good == {u \in Seq(T) : Agree(u) => Only(u, S) = Only(u, U)}
<1>1. <<>> \in good BY OnlyOfEmpty
<1>2. ASSUME NEW u \in Seq(T), NEW e \in T, u \in good PROVE Append(u, e) \in good
  <2>1. Append(u, e) \in Seq(T) OBVIOUS
  <2>2. SUFFICES ASSUME Agree(Append(u, e))
                 PROVE  Only(Append(u, e), S) = Only(Append(u, e), U)
    BY <2>1
  <2>3. \A x : Contains(Append(u, e), x) <=> Contains(u, x) \/ x = e BY AppendElements
  <2>4. Agree(u) /\ (e \in S <=> e \in U) BY <2>2, <2>3
  <2>5. Only(u, S) = Only(u, U) BY <1>2, <2>4
  <2>6. /\ Only(Append(u, e), S) = IF e \in S THEN Append(Only(u, S), e) ELSE Only(u, S)
        /\ Only(Append(u, e), U) = IF e \in U THEN Append(Only(u, U), e) ELSE Only(u, U)
    BY OnlyOfAppend
  <2>7. QED BY <2>4, <2>5, <2>6
<1>3. s \in good
  <2> HIDE DEF good
  <2>1. QED BY <1>1, <1>2, ByAppending
<1>4. QED BY <1>3

(* A set that has all elements of a list leaves it as it is. *)
LEMMA OnlyAll ==
  ASSUME NEW T, NEW s \in Seq(T), NEW S, \A e : Contains(s, e) => e \in S
  PROVE  Only(s, S) = s
<1> DEFINE good == {u \in Seq(T) : Only(u, T) = u}
<1>1. <<>> \in good BY OnlyOfEmpty
<1>2. ASSUME NEW u \in Seq(T), NEW e \in T, u \in good PROVE Append(u, e) \in good
  <2>1. Append(u, e) \in Seq(T) OBVIOUS
  <2>2. Only(Append(u, e), T) = Append(Only(u, T), e) BY OnlyOfAppend
  <2>3. QED BY <1>2, <2>1, <2>2
<1>3. s \in good
  <2> HIDE DEF good
  <2>1. QED BY <1>1, <1>2, ByAppending
<1>4. \A e : Contains(s, e) => e \in T BY ElementOfSeq, LenProperties DEF Contains
<1>5. Only(s, S) = Only(s, T) BY <1>4, OnlyAgrees
<1>6. QED BY <1>3, <1>5

(* A set that has none of them leaves nothing. *)
LEMMA OnlyNone ==
  ASSUME NEW T, NEW s \in Seq(T), NEW S, \A e : Contains(s, e) => e \notin S
  PROVE  Only(s, S) = <<>>
<1> DEFINE good == {u \in Seq(T) : Only(u, {}) = <<>>}
<1>1. <<>> \in good BY OnlyOfEmpty
<1>2. ASSUME NEW u \in Seq(T), NEW e \in T, u \in good PROVE Append(u, e) \in good
  <2>1. Append(u, e) \in Seq(T) OBVIOUS
  <2>2. Only(Append(u, e), {}) = Only(u, {}) BY OnlyOfAppend
  <2>3. QED BY <1>2, <2>1, <2>2
<1>3. s \in good
  <2> HIDE DEF good
  <2>1. QED BY <1>1, <1>2, ByAppending
<1>4. Only(s, S) = Only(s, {}) BY OnlyAgrees
<1>5. QED BY <1>3, <1>4

(* What is left after one set and then after another. *)
LEMMA OnlyTwice ==
  ASSUME NEW T, NEW s \in Seq(T), NEW S, NEW U
  PROVE  Only(Only(s, S), U) = Only(s, S \cap U)
<1> DEFINE good == {u \in Seq(T) : Only(Only(u, S), U) = Only(u, S \cap U)}
<1>1. <<>> \in good
  <2>1. Only(<<>>, S) = <<>> /\ Only(<<>>, U) = <<>> /\ Only(<<>>, S \cap U) = <<>>
    BY OnlyOfEmpty
  <2>2. QED BY <2>1
<1>2. ASSUME NEW u \in Seq(T), NEW e \in T, u \in good PROVE Append(u, e) \in good
  <2> DEFINE x == Only(u, S)
  <2>1. Append(u, e) \in Seq(T) OBVIOUS
  <2>2. x \in Seq(T \cap S) BY OnlyTyped
  <2>3. Only(x, U) = Only(u, S \cap U) BY <1>2
  <2>4. Only(Append(u, e), S) = IF e \in S THEN Append(x, e) ELSE x BY OnlyOfAppend
  <2>5. Only(Append(u, e), S \cap U) =
          IF e \in S \cap U THEN Append(Only(u, S \cap U), e) ELSE Only(u, S \cap U)
    BY OnlyOfAppend
  <2> HIDE DEF x
  <2>6. CASE e \in S
    <3> DEFINE R == T \cap S
               V == S \cap U
    <3>1. x \in Seq(R) /\ e \in R BY <2>2, <2>6
    <3>2. e \in V <=> e \in U BY <2>6
    <3> HIDE DEF R
    <3>3. Only(Append(x, e), U) = IF e \in U THEN Append(Only(x, U), e) ELSE Only(x, U)
      BY <3>1, OnlyOfAppend
    <3>4. Only(x, U) = Only(u, V)
          /\ Only(Append(u, e), V) = IF e \in V THEN Append(Only(u, V), e) ELSE Only(u, V)
      BY <2>3, <2>5
    <3>5. Only(Append(u, e), S) = Append(x, e) BY <2>4, <2>6
    <3> HIDE DEF V
    <3>6. Only(Only(Append(u, e), S), U) = Only(Append(u, e), V)
      BY <3>2, <3>3, <3>4, <3>5
    <3>7. QED BY <2>1, <3>6 DEF V
  <2>7. CASE e \notin S
    <3>1. Only(Only(Append(u, e), S), U) = Only(Append(u, e), S \cap U)
      BY <2>3, <2>4, <2>5, <2>7
    <3>2. QED BY <2>1, <3>1
  <2>8. QED BY <2>6, <2>7
<1>3. s \in good
  <2> HIDE DEF good
  <2>1. QED BY <1>1, <1>2, ByAppending
<1>4. QED BY <1>3

(* What is left holds the elements of the set, each as often as before. *)
LEMMA OnlyElements ==
  ASSUME NEW T, NEW s \in Seq(T), NEW S
  PROVE  /\ \A e : Contains(Only(s, S), e) <=> Contains(s, e) /\ e \in S
         /\ Distinct(s) => Distinct(Only(s, S))
<1> DEFINE Elements(u) == \A e : Contains(Only(u, S), e) <=> Contains(u, e) /\ e \in S
           good == {u \in Seq(T) : Elements(u) /\ (Distinct(u) => Distinct(Only(u, S)))}
<1>1. <<>> \in good
  <2>1. Only(<<>>, S) = <<>> BY OnlyOfEmpty
  <2>2. \A e : ~Contains(<<>>, e) BY DEF Contains
  <2>3. QED BY <2>1, <2>2 DEF Distinct
<1>2. ASSUME NEW u \in Seq(T), NEW e \in T, u \in good PROVE Append(u, e) \in good
  <2> DEFINE x == Only(u, S)
  <2>1. Append(u, e) \in Seq(T) OBVIOUS
  <2>2. x \in Seq(T \cap S) BY OnlyTyped
  <2>3. Only(Append(u, e), S) = IF e \in S THEN Append(x, e) ELSE x BY OnlyOfAppend
  <2>4. \A f : Contains(Append(u, e), f) <=> Contains(u, f) \/ f = e BY AppendElements
  <2>5. Distinct(Append(u, e)) => Distinct(u) /\ ~Contains(u, e) BY DistinctAppend
  <2>6. (\A f : Contains(x, f) <=> Contains(u, f) /\ f \in S)
        /\ (Distinct(u) => Distinct(x))
    BY <1>2
  <2> HIDE DEF x
  <2>7. CASE e \in S
    <3>1. e \in T \cap S BY <2>7
    <3>2. /\ \A f : Contains(Append(x, e), f) <=> Contains(x, f) \/ f = e
          /\ Distinct(x) /\ ~Contains(x, e) => Distinct(Append(x, e))
      BY <2>2, <3>1, AppendElements
    <3>3. Elements(Append(u, e)) BY <2>3, <2>4, <2>6, <2>7, <3>2
    <3>4. Distinct(Append(u, e)) => Distinct(Only(Append(u, e), S))
      BY <2>3, <2>5, <2>6, <2>7, <3>2
    <3>5. QED BY <2>1, <3>3, <3>4
  <2>8. CASE e \notin S
    <3>1. Elements(Append(u, e)) BY <2>3, <2>4, <2>6, <2>8
    <3>2. Distinct(Append(u, e)) => Distinct(Only(Append(u, e), S))
      BY <2>3, <2>5, <2>6, <2>8
    <3>3. QED BY <2>1, <3>1, <3>2
  <2>9. QED BY <2>7, <2>8
<1>3. s \in good
  <2> HIDE DEF good
  <2>1. QED BY <1>1, <1>2, ByAppending
<1>4. QED BY <1>3

LEMMA ContainsConcat ==
  ASSUME NEW T, NEW a \in Seq(T), NEW b \in Seq(T), NEW e
  PROVE  Contains(a \o b, e) <=> Contains(a, e) \/ Contains(b, e)
<1> DEFINE c == a \o b
<1>1. /\ Len(c) = Len(a) + Len(b)
      /\ \A i \in 1 .. Len(a) + Len(b) : c[i] = IF i <= Len(a) THEN a[i] ELSE b[i - Len(a)]
      /\ c \in Seq(T)
  BY ConcatProperties
<1>2. /\ Len(a) \in Nat /\ Len(b) \in Nat /\ DOMAIN a = 1 .. Len(a) /\ DOMAIN b = 1 .. Len(b)
      /\ DOMAIN c = 1 .. Len(a) + Len(b)
  BY <1>1, LenProperties
<1> HIDE DEF c
<1>3. ASSUME Contains(c, e) PROVE Contains(a, e) \/ Contains(b, e)
  <2>1. PICK i \in 1 .. Len(a) + Len(b) : c[i] = e BY <1>2, <1>3 DEF Contains
  <2>2. CASE i <= Len(a) BY <1>1, <1>2, <2>1, <2>2 DEF Contains
  <2>3. CASE ~(i <= Len(a))
    <3>1. i - Len(a) \in 1 .. Len(b) /\ c[i] = b[i - Len(a)] BY <1>1, <1>2, <2>3
    <3>2. QED BY <1>2, <2>1, <3>1 DEF Contains
  <2>4. QED BY <2>2, <2>3
<1>4. ASSUME Contains(a, e) PROVE Contains(c, e)
  BY <1>1, <1>2, <1>4, SMTT(30) DEF Contains
<1>5. ASSUME Contains(b, e) PROVE Contains(c, e)
  <2>1. PICK i \in 1 .. Len(b) : b[i] = e BY <1>2, <1>5 DEF Contains
  <2> DEFINE k == i + Len(a)
  <2>2. k \in 1 .. Len(a) + Len(b) /\ ~(k <= Len(a)) /\ k - Len(a) = i BY <1>2
  <2> HIDE DEF k
  <2>3. c[k] = b[i] BY <1>1, <2>2
  <2>4. QED BY <1>2, <2>1, <2>2, <2>3 DEF Contains
<1>6. QED BY <1>3, <1>4, <1>5 DEF c

(* An element that occurs once, taken out from where it is. *)
Around(a, p, b) == (a \o <<p>>) \o b

LEMMA OnlyWithout ==
  ASSUME NEW T, NEW a \in Seq(T), NEW b \in Seq(T), NEW p \in T,
         Distinct(Around(a, p, b))
  PROVE  Only(Around(a, p, b), T \ {p}) = a \o b
<1> DEFINE w == a \o <<p>>
           c == w \o b
           S == T \ {p}
<1>1. w \in Seq(T) /\ <<p>> \in Seq(T) BY ConcatProperties
<1>2. w = Append(a, p) BY AppendIsConcat
<1>3. /\ Len(w) = Len(a) + 1 /\ w[Len(a) + 1] = p
      /\ \A i \in 1 .. Len(a) : w[i] = a[i]
  BY <1>2, AppendProperties
<1> HIDE DEF w
<1>4. /\ Len(c) = Len(w) + Len(b)
      /\ \A i \in 1 .. Len(w) + Len(b) : c[i] = IF i <= Len(w) THEN w[i] ELSE b[i - Len(w)]
      /\ c \in Seq(T)
  BY <1>1, ConcatProperties
<1>5. c = Around(a, p, b) BY DEF w, Around
<1> HIDE DEF c
<1>6. /\ Len(a) \in Nat /\ Len(b) \in Nat /\ DOMAIN a = 1 .. Len(a) /\ DOMAIN b = 1 .. Len(b)
      /\ DOMAIN c = 1 .. Len(w) + Len(b)
  BY <1>4, LenProperties
<1>7. c[Len(a) + 1] = p /\ Len(a) + 1 \in DOMAIN c BY <1>3, <1>4, <1>6
<1>8. ~Contains(a, p)
  <2>1. SUFFICES ASSUME NEW i \in 1 .. Len(a), a[i] = p PROVE FALSE BY <1>6 DEF Contains
  <2>2. c[i] = p /\ i \in DOMAIN c /\ i # Len(a) + 1 BY <1>3, <1>4, <1>6, <2>1
  <2>3. QED BY <1>5, <1>7, <2>2 DEF Distinct
<1>9. ~Contains(b, p)
  <2>1. SUFFICES ASSUME NEW i \in 1 .. Len(b), b[i] = p PROVE FALSE BY <1>6 DEF Contains
  <2>2. i + Len(w) \in DOMAIN c /\ i + Len(w) # Len(a) + 1 /\ c[i + Len(w)] = b[i]
    BY <1>3, <1>4, <1>6, SMTT(30)
  <2>3. QED BY <1>5, <1>7, <2>1, <2>2 DEF Distinct
<1>10. Only(c, S) = Only(w, S) \o Only(b, S)
  <2> HIDE DEF S
  <2>1. Only(w \o b, S) = Only(w, S) \o Only(b, S) BY <1>1, OnlyConcat
  <2>2. QED BY <2>1 DEF c
<1>11. Only(w, S) = Only(a, S)
  <2>1. p \notin S OBVIOUS
  <2> HIDE DEF S
  <2>2. QED BY <1>2, <2>1, OnlyOfAppend
<1>12. \A e : Contains(a, e) \/ Contains(b, e) => e \in S
  BY <1>6, <1>8, <1>9, ElementOfSeq DEF Contains
<1> HIDE DEF S
<1>13. Only(a, S) = a /\ Only(b, S) = b BY <1>12, OnlyAll
<1>14. QED BY <1>5, <1>10, <1>11, <1>13 DEF S

(* The same, with the front in two parts. *)
Within(u, x, p, y) == u \o Around(x, p, y)
Beside(u, x, y) == u \o (x \o y)

LEMMA OnlyDrops ==
  ASSUME NEW T, NEW u \in Seq(T), NEW x \in Seq(T), NEW y \in Seq(T), NEW p \in T,
         Distinct(Within(u, x, p, y))
  PROVE  Only(Within(u, x, p, y), T \ {p}) = Beside(u, x, y)
<1>1. /\ <<p>> \in Seq(T) /\ x \o <<p>> \in Seq(T) /\ u \o x \in Seq(T)
  BY ConcatProperties
<1>2. ASSUME NEW w \in Seq(T) PROVE u \o (w \o y) = (u \o w) \o y BY Reassociate, SMTT(30)
<1>3. \A w \in Seq(T) : u \o (w \o y) = (u \o w) \o y BY <1>2
<1>4. ASSUME NEW w \in Seq(T) PROVE u \o (x \o w) = (u \o x) \o w BY Reassociate
<1>5. Within(u, x, p, y) = Around(u \o x, p, y) BY <1>1, <1>3, <1>4 DEF Around, Within
<1>6. ASSUME NEW z \in Seq(T), Distinct(Around(z, p, y))
      PROVE  Only(Around(z, p, y), T \ {p}) = z \o y
  BY ONLY z \in Seq(T), y \in Seq(T), p \in T, <1>6, OnlyWithout, SMTT(30)
<1>7. QED BY <1>1, <1>5, <1>6, <1>4 DEF Beside
=============================================================================

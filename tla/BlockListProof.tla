---------------------------- MODULE BlockListProof ----------------------------
(***************************************************************************)
(* Theorems about BlockList, for blocks of any size, any limit below which *)
(* they are merged and any values: no block runs over its array, and the   *)
(* chain of blocks implements one sequence.                                *)
(***************************************************************************)
EXTENDS BlockList, SequenceTheorems, TLAPS

LOCAL Arrays == INSTANCE ListsProof

-----------------------------------------------------------------------------
(* Lemmas about a list in three parts, of which the middle one changes *)

Joined(p, m, q) == (p \o m) \o q

LEMMA JoinedProperties ==
  ASSUME NEW T, NEW p \in Seq(T), NEW m \in Seq(T), NEW q \in Seq(T)
  PROVE  /\ Joined(p, m, q) \in Seq(T)
         /\ Len(Joined(p, m, q)) = Len(p) + Len(m) + Len(q)
         /\ \A i \in 1 .. Len(p) + Len(m) + Len(q) :
              Joined(p, m, q)[i] = IF i <= Len(p) THEN p[i]
                                   ELSE IF i <= Len(p) + Len(m) THEN m[i - Len(p)]
                                   ELSE q[i - (Len(p) + Len(m))]
<1> DEFINE r == p \o m
<1>1. /\ r \in Seq(T) /\ Len(r) = Len(p) + Len(m)
      /\ \A i \in 1 .. Len(p) + Len(m) : r[i] = IF i <= Len(p) THEN p[i] ELSE m[i - Len(p)]
  BY ConcatProperties
<1>2. Len(p) \in Nat /\ Len(m) \in Nat /\ Len(q) \in Nat OBVIOUS
<1> HIDE DEF r
<1> DEFINE s == r \o q
<1>3. /\ s \in Seq(T) /\ Len(s) = Len(r) + Len(q)
      /\ \A i \in 1 .. Len(r) + Len(q) : s[i] = IF i <= Len(r) THEN r[i] ELSE q[i - Len(r)]
  <2>1. r \in Seq(T) /\ q \in Seq(T) BY <1>1
  <2>2. QED BY ONLY <2>1, ConcatProperties
<1>4. Joined(p, m, q) = s BY DEF Joined, r, s
<1> HIDE DEF s
<1>5. QED BY <1>1, <1>2, <1>3, <1>4

(* The same, for a proof to take as one fact. *)
IsJoined(s, p, m, q) ==
  /\ Len(s) = Len(p) + Len(m) + Len(q)
  /\ \A i \in 1 .. Len(p) + Len(m) + Len(q) :
       s[i] = IF i <= Len(p) THEN p[i]
              ELSE IF i <= Len(p) + Len(m) THEN m[i - Len(p)] ELSE q[i - (Len(p) + Len(m))]

LEMMA JoinedIs ==
  ASSUME NEW T, NEW p \in Seq(T), NEW m \in Seq(T), NEW q \in Seq(T)
  PROVE  Joined(p, m, q) \in Seq(T) /\ IsJoined(Joined(p, m, q), p, m, q)
BY JoinedProperties DEF IsJoined

LEMMA InsertAtProperties ==
  ASSUME NEW T, NEW s \in Seq(T), NEW i \in 1 .. Len(s) + 1, NEW v \in T
  PROVE  /\ InsertAt(s, i, v) \in Seq(T) /\ Len(InsertAt(s, i, v)) = Len(s) + 1
         /\ \A j \in 1 .. Len(s) + 1 :
              InsertAt(s, i, v)[j] = IF j < i THEN s[j] ELSE IF j = i THEN v ELSE s[j - 1]
<1> DEFINE a == SubSeq(s, 1, i - 1)
           b == SubSeq(s, i, Len(s))
           c == <<v>>
<1>1. Len(s) \in Nat /\ \A j \in 1 .. Len(s) : s[j] \in T BY ElementOfSeq
<1>2. /\ a \in Seq(T) /\ Len(a) = i - 1 /\ \A j \in 1 .. i - 1 : a[j] = s[j]
  <2>1. \A j \in 1 .. i - 1 : s[j] \in T BY <1>1
  <2>2. QED BY <1>1, <2>1, SubSeqProperties
<1>3. /\ b \in Seq(T) /\ Len(b) = (Len(s) - i) + 1
      /\ \A j \in 1 .. (Len(s) - i) + 1 : b[j] = s[(i + j) - 1]
  <2>1. \A j \in i .. Len(s) : s[j] \in T BY <1>1
  <2>2. QED BY <1>1, <2>1, SubSeqProperties
<1>4. c \in Seq(T) /\ Len(c) = 1 /\ c[1] = v OBVIOUS
<1>5. InsertAt(s, i, v) = Joined(a, c, b) BY DEF InsertAt, Joined
<1> HIDE DEF a, b, c
<1> DEFINE r == Joined(a, c, b)
<1>6. /\ r \in Seq(T) /\ Len(r) = Len(a) + Len(c) + Len(b)
      /\ \A j \in 1 .. Len(a) + Len(c) + Len(b) :
           r[j] = IF j <= Len(a) THEN a[j]
                  ELSE IF j <= Len(a) + Len(c) THEN c[j - Len(a)]
                  ELSE b[j - (Len(a) + Len(c))]
  <2>1. a \in Seq(T) /\ b \in Seq(T) /\ c \in Seq(T) BY <1>2, <1>3, <1>4
  <2>2. r \in Seq(T) /\ IsJoined(r, a, c, b) BY ONLY <2>1, JoinedIs
  <2>3. QED BY <2>2 DEF IsJoined
<1> HIDE DEF r
<1>7. Len(r) = Len(s) + 1 BY <1>1, <1>2, <1>3, <1>4, <1>6
<1>8. ASSUME NEW j \in 1 .. Len(s) + 1
      PROVE  r[j] = IF j < i THEN s[j] ELSE IF j = i THEN v ELSE s[j - 1]
  <2>1. CASE j < i BY <1>1, <1>2, <1>3, <1>4, <1>6, <2>1
  <2>2. CASE j = i BY <1>1, <1>2, <1>3, <1>4, <1>6, <2>2
  <2>3. CASE j > i
    <3>1. r[j] = b[j - i] BY <1>1, <1>2, <1>3, <1>4, <1>6, <2>3
    <3>2. j - i \in 1 .. (Len(s) - i) + 1 /\ (i + (j - i)) - 1 = j - 1 BY <1>1, <2>3
    <3>3. QED BY <1>3, <2>3, <3>1, <3>2
  <2>4. QED BY <2>1, <2>2, <2>3
<1>9. QED BY <1>5, <1>6, <1>7, <1>8 DEF r

LEMMA RemoveAtProperties ==
  ASSUME NEW T, NEW s \in Seq(T), NEW i \in 1 .. Len(s)
  PROVE  /\ RemoveAt(s, i) \in Seq(T) /\ Len(RemoveAt(s, i)) = Len(s) - 1
         /\ \A j \in 1 .. Len(s) - 1 : RemoveAt(s, i)[j] = IF j < i THEN s[j] ELSE s[j + 1]
<1> DEFINE a == SubSeq(s, 1, i - 1)
           b == SubSeq(s, i + 1, Len(s))
           r == a \o b
<1>1. Len(s) \in Nat /\ \A j \in 1 .. Len(s) : s[j] \in T BY ElementOfSeq
<1>2. /\ a \in Seq(T) /\ Len(a) = i - 1 /\ \A j \in 1 .. i - 1 : a[j] = s[j]
  <2>1. \A j \in 1 .. i - 1 : s[j] \in T BY <1>1
  <2>2. QED BY <1>1, <2>1, SubSeqProperties
<1>3. /\ b \in Seq(T) /\ Len(b) = Len(s) - i
      /\ \A j \in 1 .. Len(s) - i : b[j] = s[i + j]
  <2>1. \A j \in i + 1 .. Len(s) : s[j] \in T BY <1>1
  <2>2. QED BY <1>1, <2>1, SubSeqProperties
<1>4. RemoveAt(s, i) = r BY DEF RemoveAt
<1> HIDE DEF a, b
<1>5. /\ r \in Seq(T) /\ Len(r) = Len(a) + Len(b)
      /\ \A j \in 1 .. Len(a) + Len(b) : r[j] = IF j <= Len(a) THEN a[j] ELSE b[j - Len(a)]
  BY <1>2, <1>3, ConcatProperties
<1> HIDE DEF r
<1>6. ASSUME NEW j \in 1 .. Len(s) - 1
      PROVE  r[j] = IF j < i THEN s[j] ELSE s[j + 1]
  <2>0. j \in 1 .. Len(a) + Len(b) /\ Len(a) = i - 1 BY <1>1, <1>2, <1>3
  <2>1. CASE j < i BY <1>1, <1>2, <1>5, <2>0, <2>1
  <2>2. CASE j >= i
    <3>1. r[j] = b[j - (i - 1)] BY <1>1, <1>5, <2>0, <2>2
    <3>2. j - (i - 1) \in 1 .. Len(s) - i /\ i + (j - (i - 1)) = j + 1 BY <1>1, <2>2
    <3>3. QED BY <1>3, <2>2, <3>1, <3>2
  <2>3. QED BY <2>1, <2>2
<1>7. Len(r) = Len(s) - 1 BY <1>1, <1>2, <1>3, <1>5
<1>8. QED BY <1>4, <1>5, <1>6, <1>7

(* The same, for a proof to take as one fact. *)
IsInserted(r, s, i, v) ==
  /\ Len(r) = Len(s) + 1
  /\ \A j \in 1 .. Len(s) + 1 : r[j] = IF j < i THEN s[j] ELSE IF j = i THEN v ELSE s[j - 1]
IsRemoved(r, s, i) ==
  /\ Len(r) = Len(s) - 1
  /\ \A j \in 1 .. Len(s) - 1 : r[j] = IF j < i THEN s[j] ELSE s[j + 1]

LEMMA InsertedIs ==
  ASSUME NEW T, NEW s \in Seq(T), NEW i \in 1 .. Len(s) + 1, NEW v \in T
  PROVE  InsertAt(s, i, v) \in Seq(T) /\ IsInserted(InsertAt(s, i, v), s, i, v)
BY InsertAtProperties DEF IsInserted

LEMMA RemovedIs ==
  ASSUME NEW T, NEW s \in Seq(T), NEW i \in 1 .. Len(s)
  PROVE  RemoveAt(s, i) \in Seq(T) /\ IsRemoved(RemoveAt(s, i), s, i)
BY RemoveAtProperties DEF IsRemoved

LEMMA InsertInside ==
  ASSUME NEW T, NEW p \in Seq(T), NEW m \in Seq(T), NEW q \in Seq(T),
         NEW o \in 1 .. Len(m) + 1, NEW v \in T
  PROVE  Joined(p, InsertAt(m, o, v), q) = InsertAt(Joined(p, m, q), Len(p) + o, v)
<1> DEFINE n == InsertAt(m, o, v)
           s == Joined(p, m, q)
           i == Len(p) + o
           l == Joined(p, n, q)
           r == InsertAt(s, i, v)
<1>1. Len(p) \in Nat /\ Len(m) \in Nat /\ Len(q) \in Nat OBVIOUS
<1>2. /\ n \in Seq(T) /\ Len(n) = Len(m) + 1
      /\ \A j \in 1 .. Len(m) + 1 : n[j] = IF j < o THEN m[j] ELSE IF j = o THEN v ELSE m[j - 1]
  BY InsertAtProperties
<1>3. /\ s \in Seq(T) /\ Len(s) = Len(p) + Len(m) + Len(q)
      /\ \A j \in 1 .. Len(p) + Len(m) + Len(q) :
           s[j] = IF j <= Len(p) THEN p[j]
                  ELSE IF j <= Len(p) + Len(m) THEN m[j - Len(p)]
                  ELSE q[j - (Len(p) + Len(m))]
  BY JoinedProperties
<1> HIDE DEF n, s
<1>4. /\ l \in Seq(T) /\ Len(l) = Len(p) + Len(n) + Len(q)
      /\ \A j \in 1 .. Len(p) + Len(n) + Len(q) :
           l[j] = IF j <= Len(p) THEN p[j]
                  ELSE IF j <= Len(p) + Len(n) THEN n[j - Len(p)]
                  ELSE q[j - (Len(p) + Len(n))]
  <2>1. p \in Seq(T) /\ n \in Seq(T) /\ q \in Seq(T) BY <1>2
  <2>2. l \in Seq(T) /\ IsJoined(l, p, n, q) BY ONLY <2>1, JoinedIs
  <2>3. QED BY <2>2 DEF IsJoined
<1>5. i \in 1 .. Len(s) + 1 BY <1>1, <1>3
<1> HIDE DEF l, i
<1>6. /\ r \in Seq(T) /\ Len(r) = Len(s) + 1
      /\ \A j \in 1 .. Len(s) + 1 : r[j] = IF j < i THEN s[j] ELSE IF j = i THEN v ELSE s[j - 1]
  <2>1. s \in Seq(T) /\ i \in 1 .. Len(s) + 1 /\ v \in T BY <1>3, <1>5
  <2>2. r \in Seq(T) /\ IsInserted(r, s, i, v) BY ONLY <2>1, InsertedIs
  <2>3. QED BY <2>2 DEF IsInserted
<1> HIDE DEF r
<1>7. ASSUME NEW j \in 1 .. Len(l) PROVE l[j] = r[j]
  <2>1. CASE j <= Len(p)
    <3>1. l[j] = p[j] /\ s[j] = p[j] BY <1>1, <1>2, <1>3, <1>4, <2>1
    <3>2. r[j] = s[j] BY <1>1, <1>2, <1>3, <1>4, <1>6, <2>1 DEF i
    <3>3. QED BY <3>1, <3>2
  <2>2. CASE j > Len(p) /\ j <= Len(p) + Len(n)
    <3>1. l[j] = n[j - Len(p)] /\ j - Len(p) \in 1 .. Len(m) + 1
      BY <1>1, <1>2, <1>4, <2>2
    <3>2. CASE j < i
      <4>1. l[j] = m[j - Len(p)] BY <1>1, <1>2, <3>1, <3>2 DEF i
      <4>2. r[j] = s[j] /\ s[j] = m[j - Len(p)]
        BY <1>1, <1>2, <1>3, <1>4, <1>6, <2>2, <3>2 DEF i
      <4>3. QED BY <4>1, <4>2
    <3>3. CASE j = i BY <1>1, <1>2, <1>3, <1>4, <1>6, <3>1, <3>3 DEF i
    <3>4. CASE j > i
      <4>1. l[j] = m[(j - 1) - Len(p)]
        <5>1. (j - Len(p)) - 1 = (j - 1) - Len(p) /\ j - Len(p) > o BY <1>1, <3>4 DEF i
        <5>2. QED BY <1>1, <1>2, <3>1, <5>1
      <4>2. r[j] = s[j - 1] BY <1>1, <1>2, <1>3, <1>4, <1>6, <3>4 DEF i
      <4>3. s[j - 1] = m[(j - 1) - Len(p)]
        BY <1>1, <1>2, <1>3, <1>4, <2>2, <3>4, SMTT(30) DEF i
      <4>4. QED BY <4>1, <4>2, <4>3
    <3>5. i \in Int /\ j \in Int BY <1>1 DEF i
    <3>6. QED BY <3>2, <3>3, <3>4, <3>5
  <2>3. CASE j > Len(p) + Len(n)
    <3>1. l[j] = q[j - (Len(p) + Len(n))] BY <1>1, <1>2, <1>4, <2>3
    <3>2. r[j] = s[j - 1] BY <1>1, <1>2, <1>3, <1>4, <1>6, <2>3 DEF i
    <3>3. s[j - 1] = q[(j - 1) - (Len(p) + Len(m))]
      BY <1>1, <1>2, <1>3, <1>4, <2>3, SMTT(30)
    <3>4. (j - 1) - (Len(p) + Len(m)) = j - (Len(p) + Len(n)) BY <1>1, <1>2
    <3>5. QED BY <3>1, <3>2, <3>3, <3>4
  <2>4. QED BY <1>1, <1>2, <2>1, <2>2, <2>3
<1>8. Len(l) = Len(r) BY <1>1, <1>2, <1>3, <1>4, <1>6
<1>9. l = r BY <1>4, <1>6, <1>7, <1>8, SeqEqual
<1>10. QED BY <1>9 DEF l, r, n, s, i

LEMMA RemoveInside ==
  ASSUME NEW T, NEW p \in Seq(T), NEW m \in Seq(T), NEW q \in Seq(T), NEW o \in 1 .. Len(m)
  PROVE  Joined(p, RemoveAt(m, o), q) = RemoveAt(Joined(p, m, q), Len(p) + o)
<1> DEFINE n == RemoveAt(m, o)
           s == Joined(p, m, q)
           i == Len(p) + o
           l == Joined(p, n, q)
           r == RemoveAt(s, i)
<1>1. Len(p) \in Nat /\ Len(m) \in Nat /\ Len(q) \in Nat OBVIOUS
<1>2. /\ n \in Seq(T) /\ Len(n) = Len(m) - 1
      /\ \A j \in 1 .. Len(m) - 1 : n[j] = IF j < o THEN m[j] ELSE m[j + 1]
  BY RemoveAtProperties
<1>3. /\ s \in Seq(T) /\ Len(s) = Len(p) + Len(m) + Len(q)
      /\ \A j \in 1 .. Len(p) + Len(m) + Len(q) :
           s[j] = IF j <= Len(p) THEN p[j]
                  ELSE IF j <= Len(p) + Len(m) THEN m[j - Len(p)]
                  ELSE q[j - (Len(p) + Len(m))]
  BY JoinedProperties
<1> HIDE DEF n, s
<1>4. /\ l \in Seq(T) /\ Len(l) = Len(p) + Len(n) + Len(q)
      /\ \A j \in 1 .. Len(p) + Len(n) + Len(q) :
           l[j] = IF j <= Len(p) THEN p[j]
                  ELSE IF j <= Len(p) + Len(n) THEN n[j - Len(p)]
                  ELSE q[j - (Len(p) + Len(n))]
  <2>1. p \in Seq(T) /\ n \in Seq(T) /\ q \in Seq(T) BY <1>2
  <2>2. l \in Seq(T) /\ IsJoined(l, p, n, q) BY ONLY <2>1, JoinedIs
  <2>3. QED BY <2>2 DEF IsJoined
<1>5. i \in 1 .. Len(s) BY <1>1, <1>3
<1> HIDE DEF l, i
<1>6. /\ r \in Seq(T) /\ Len(r) = Len(s) - 1
      /\ \A j \in 1 .. Len(s) - 1 : r[j] = IF j < i THEN s[j] ELSE s[j + 1]
  <2>1. s \in Seq(T) /\ i \in 1 .. Len(s) BY <1>3, <1>5
  <2>2. r \in Seq(T) /\ IsRemoved(r, s, i) BY ONLY <2>1, RemovedIs
  <2>3. QED BY <2>2 DEF IsRemoved
<1> HIDE DEF r
<1>7. ASSUME NEW j \in 1 .. Len(l) PROVE l[j] = r[j]
  <2>1. CASE j <= Len(p)
    <3>1. l[j] = p[j] /\ s[j] = p[j] BY <1>1, <1>2, <1>3, <1>4, <2>1
    <3>2. r[j] = s[j] BY <1>1, <1>2, <1>3, <1>4, <1>6, <2>1 DEF i
    <3>3. QED BY <3>1, <3>2
  <2>2. CASE j > Len(p) /\ j <= Len(p) + Len(n)
    <3>1. l[j] = n[j - Len(p)] /\ j - Len(p) \in 1 .. Len(m) - 1
      BY <1>1, <1>2, <1>4, <2>2
    <3>2. CASE j < i
      <4>1. l[j] = m[j - Len(p)]
        <5>1. j - Len(p) < o BY <1>1, <3>2 DEF i
        <5>2. QED BY <1>2, <3>1, <5>1
      <4>2. r[j] = s[j] /\ s[j] = m[j - Len(p)]
        BY <1>1, <1>2, <1>3, <1>4, <1>6, <2>2, <3>2, SMTT(30) DEF i
      <4>3. QED BY <4>1, <4>2
    <3>3. CASE j >= i
      <4>1. l[j] = m[(j + 1) - Len(p)]
        <5>1. (j - Len(p)) + 1 = (j + 1) - Len(p) /\ ~(j - Len(p) < o) BY <1>1, <3>3 DEF i
        <5>2. QED BY <1>1, <1>2, <3>1, <5>1
      <4>2. r[j] = s[j + 1] BY <1>1, <1>2, <1>3, <1>4, <1>6, <3>3, SMTT(30) DEF i
      <4>3. s[j + 1] = m[(j + 1) - Len(p)]
        <5>1. /\ j + 1 \in 1 .. Len(p) + Len(m) + Len(q)
              /\ ~(j + 1 <= Len(p)) /\ j + 1 <= Len(p) + Len(m)
          BY <1>1, <1>2, <2>2
        <5>2. QED BY <1>3, <5>1
      <4>4. QED BY <4>1, <4>2, <4>3
    <3>4. i \in Int /\ j \in Int BY <1>1 DEF i
    <3>5. QED BY <3>2, <3>3, <3>4
  <2>3. CASE j > Len(p) + Len(n)
    <3>1. l[j] = q[j - (Len(p) + Len(n))] BY <1>1, <1>2, <1>4, <2>3
    <3>2. r[j] = s[j + 1] BY <1>1, <1>2, <1>3, <1>4, <1>6, <2>3 DEF i
    <3>3. s[j + 1] = q[(j + 1) - (Len(p) + Len(m))]
      <4>1. /\ j + 1 \in 1 .. Len(p) + Len(m) + Len(q)
            /\ ~(j + 1 <= Len(p)) /\ ~(j + 1 <= Len(p) + Len(m))
        BY <1>1, <1>2, <1>4, <2>3
      <4>2. QED BY <1>3, <4>1
    <3>4. (j + 1) - (Len(p) + Len(m)) = j - (Len(p) + Len(n)) BY <1>1, <1>2
    <3>5. QED BY <3>1, <3>2, <3>3, <3>4
  <2>4. QED BY <1>1, <1>2, <2>1, <2>2, <2>3
<1>8. Len(l) = Len(r) BY <1>1, <1>2, <1>3, <1>4, <1>6
<1>9. l = r BY <1>4, <1>6, <1>7, <1>8, SeqEqual
<1>10. QED BY <1>9 DEF l, r, n, s, i

ElementSet(f, k, v) == [f EXCEPT ![k] = v]

LEMMA SetInside ==
  ASSUME NEW T, NEW p \in Seq(T), NEW m \in Seq(T), NEW q \in Seq(T),
         NEW o \in 1 .. Len(m), NEW v \in T
  PROVE  Joined(p, ElementSet(m, o, v), q) = ElementSet(Joined(p, m, q), Len(p) + o, v)
<1> DEFINE n == [m EXCEPT ![o] = v]
           s == Joined(p, m, q)
           i == Len(p) + o
           l == Joined(p, n, q)
           r == [s EXCEPT ![i] = v]
<1>1. Len(p) \in Nat /\ Len(m) \in Nat /\ Len(q) \in Nat OBVIOUS
<1>2. /\ n \in Seq(T) /\ Len(n) = Len(m)
      /\ \A j \in 1 .. Len(m) : n[j] = IF j = o THEN v ELSE m[j]
  BY ExceptSeq
<1>3. /\ s \in Seq(T) /\ Len(s) = Len(p) + Len(m) + Len(q)
      /\ \A j \in 1 .. Len(p) + Len(m) + Len(q) :
           s[j] = IF j <= Len(p) THEN p[j]
                  ELSE IF j <= Len(p) + Len(m) THEN m[j - Len(p)]
                  ELSE q[j - (Len(p) + Len(m))]
  BY JoinedProperties
<1> HIDE DEF n, s
<1>4. /\ l \in Seq(T) /\ Len(l) = Len(p) + Len(n) + Len(q)
      /\ \A j \in 1 .. Len(p) + Len(n) + Len(q) :
           l[j] = IF j <= Len(p) THEN p[j]
                  ELSE IF j <= Len(p) + Len(n) THEN n[j - Len(p)]
                  ELSE q[j - (Len(p) + Len(n))]
  <2>1. p \in Seq(T) /\ n \in Seq(T) /\ q \in Seq(T) BY <1>2
  <2>2. l \in Seq(T) /\ IsJoined(l, p, n, q) BY ONLY <2>1, JoinedIs
  <2>3. QED BY <2>2 DEF IsJoined
<1>5. i \in 1 .. Len(s) BY <1>1, <1>3
<1> HIDE DEF l, i
<1>6. /\ r \in Seq(T) /\ Len(r) = Len(s)
      /\ \A j \in 1 .. Len(s) : r[j] = IF j = i THEN v ELSE s[j]
  BY <1>3, <1>5, ExceptSeq
<1> HIDE DEF r
<1>7. ASSUME NEW j \in 1 .. Len(l) PROVE l[j] = r[j]
  <2>1. CASE j <= Len(p)
    <3>1. l[j] = p[j] /\ s[j] = p[j] BY <1>1, <1>2, <1>3, <1>4, <2>1
    <3>2. r[j] = s[j] BY <1>1, <1>2, <1>3, <1>4, <1>6, <2>1 DEF i
    <3>3. QED BY <3>1, <3>2
  <2>2. CASE j > Len(p) /\ j <= Len(p) + Len(n)
    <3>1. l[j] = n[j - Len(p)] /\ j - Len(p) \in 1 .. Len(m)
      BY <1>1, <1>2, <1>4, <2>2
    <3>2. s[j] = m[j - Len(p)] BY <1>1, <1>2, <1>3, <1>4, <2>2
    <3>3. j - Len(p) = o <=> j = i BY <1>1 DEF i
    <3>4. QED BY <1>1, <1>2, <1>3, <1>4, <1>6, <3>1, <3>2, <3>3
  <2>3. CASE j > Len(p) + Len(n)
    <3>1. l[j] = q[j - (Len(p) + Len(n))] BY <1>1, <1>2, <1>4, <2>3
    <3>2. s[j] = q[j - (Len(p) + Len(m))] BY <1>1, <1>2, <1>3, <1>4, <2>3
    <3>3. r[j] = s[j] BY <1>1, <1>2, <1>3, <1>4, <1>6, <2>3 DEF i
    <3>4. QED BY <1>2, <3>1, <3>2, <3>3
  <2>4. QED BY <1>1, <1>2, <2>1, <2>2, <2>3
<1>8. Len(l) = Len(r) BY <1>1, <1>2, <1>3, <1>4, <1>6
<1>9. l = r BY <1>4, <1>6, <1>7, <1>8, SeqEqual
<1>10. QED BY <1>9 DEF l, r, n, s, i, ElementSet

(* Pushes and pops are insertions and removals at the ends. *)
LEMMA AtTheEnds ==
  ASSUME NEW T, NEW s \in Seq(T), NEW v \in T
  PROVE  /\ <<v>> \o s = InsertAt(s, 1, v)
         /\ Append(s, v) = InsertAt(s, Len(s) + 1, v)
         /\ s # <<>> => Tail(s) = RemoveAt(s, 1) /\ Front(s) = RemoveAt(s, Len(s))
<1>1. Len(s) \in Nat /\ SubSeq(s, 1, Len(s)) = s BY SubSeqFull
<1>2. SubSeq(s, 1, 0) = <<>> /\ SubSeq(s, Len(s) + 1, Len(s)) = <<>>
  BY <1>1, SubSeqEmpty
<1>3. <<v>> \in Seq(T) OBVIOUS
<1>4. <<v>> \o s = InsertAt(s, 1, v)
  <2>1. (<<>> \o <<v>>) = <<v>> BY <1>3, ConcatEmptySeq
  <2>2. QED BY <1>1, <1>2, <2>1 DEF InsertAt
<1>5. Append(s, v) = InsertAt(s, Len(s) + 1, v)
  <2>1. InsertAt(s, Len(s) + 1, v) = (s \o <<v>>) \o <<>>
    <3>1. (Len(s) + 1) - 1 = Len(s) BY <1>1
    <3>2. QED BY <1>1, <1>2, <3>1 DEF InsertAt
  <2>2. s \o <<v>> \in Seq(T) /\ Append(s, v) = s \o <<v>> BY <1>3, AppendIsConcat, ConcatProperties
  <2>3. QED BY <2>1, <2>2, ConcatEmptySeq
<1>6. ASSUME s # <<>>
      PROVE  Tail(s) = RemoveAt(s, 1) /\ Front(s) = RemoveAt(s, Len(s))
  <2> DEFINE t == SubSeq(s, 2, Len(s))
             f == SubSeq(s, 1, Len(s) - 1)
  <2>1. Tail(s) = t /\ Front(s) = f BY <1>6, TailIsSubSeq DEF Front
  <2>2. t \in Seq(T) /\ f \in Seq(T)
    <3>1. \A j \in 1 .. Len(s) : s[j] \in T BY ElementOfSeq
    <3>2. \A j \in 2 .. Len(s) : s[j] \in T BY <1>1, <3>1
    <3>3. \A j \in 1 .. Len(s) - 1 : s[j] \in T BY <1>1, <3>1
    <3>4. QED BY <1>1, <3>2, <3>3, SubSeqProperties
  <2>3. RemoveAt(s, 1) = <<>> \o t /\ RemoveAt(s, Len(s)) = f \o <<>>
    BY <1>2 DEF RemoveAt
  <2> HIDE DEF t, f
  <2>4. QED BY <2>1, <2>2, <2>3, ConcatEmptySeq
<1>7. QED BY <1>4, <1>5, <1>6

-----------------------------------------------------------------------------
(* What a chain of blocks holds *)

Block == [start : Nat, items : Seq(Values)]

JoinStep(chain, g, b) == IF b = 0 THEN <<>> ELSE g[b - 1] \o chain[b].items
Joining(chain, n, g) == g = [b \in 0 .. n |-> JoinStep(chain, g, b)]
Flats(chain) == CHOOSE g : Joining(chain, Len(chain), g)
Flat(chain) == Flats(chain)[Len(chain)]

LEMMA ElementsAreFlat == Elements = Flat(blocks)
BY DEF Elements, Flat, Flats, Joining, JoinStep

LEMMA JoiningExists ==
  ASSUME NEW chain, NEW n \in Nat
  PROVE  \E g : Joining(chain, n, g)
<1> DEFINE good == {k \in Nat : \E g : Joining(chain, k, g)}
<1>1. 0 \in good
  <2> DEFINE g == [b \in 0 .. 0 |-> <<>>]
  <2>1. \A b \in 0 .. 0 : JoinStep(chain, g, b) = <<>> BY DEF JoinStep
  <2>2. Joining(chain, 0, g) BY <2>1 DEF Joining
  <2>3. QED BY <2>2
<1>2. ASSUME NEW k \in 0 .. n - 1, k \in good PROVE k + 1 \in good
  <2>1. k \in Nat /\ k + 1 \in Nat OBVIOUS
  <2>2. PICK g : Joining(chain, k, g) BY <1>2
  <2> DEFINE h == [b \in 0 .. k + 1 |-> IF b = k + 1 THEN JoinStep(chain, g, b) ELSE g[b]]
  <2>3. ASSUME NEW b \in 0 .. k + 1 PROVE h[b] = JoinStep(chain, h, b)
    <3>1. h[b] = JoinStep(chain, g, b) BY <2>1, <2>2 DEF Joining
    <3>2. b # 0 => h[b - 1] = g[b - 1] BY <2>1
    <3> HIDE DEF h
    <3>3. QED BY <3>1, <3>2 DEF JoinStep
  <2>4. h = [b \in 0 .. k + 1 |-> h[b]] OBVIOUS
  <2> HIDE DEF h
  <2>5. h = [b \in 0 .. k + 1 |-> JoinStep(chain, h, b)] BY <2>3, <2>4
  <2>6. Joining(chain, k + 1, h) BY <2>5 DEF Joining
  <2>7. QED BY <2>1, <2>6
<1> HIDE DEF good
<1>3. \A k \in 0 .. n : k \in good BY <1>1, <1>2, Arrays!UpTo
<1>4. n \in good BY <1>3
<1>5. QED BY <1>4 DEF good

LEMMA FlatsProperties ==
  ASSUME NEW T, NEW chain \in Seq(T)
  PROVE  \A b \in 0 .. Len(chain) : Flats(chain)[b] = JoinStep(chain, Flats(chain), b)
<1>1. Len(chain) \in Nat OBVIOUS
<1>2. \E g : Joining(chain, Len(chain), g) BY <1>1, JoiningExists
<1>3. Joining(chain, Len(chain), Flats(chain)) BY <1>2 DEF Flats
<1>4. QED BY <1>3 DEF Joining

LEMMA FlatOfEmpty == Flat(<<>>) = <<>>
<1> SUFFICES ASSUME NEW chain, chain = <<>> PROVE Flat(chain) = <<>> OBVIOUS
<1>1. chain \in Seq({}) /\ Len(chain) = 0 OBVIOUS
<1>2. \A b \in 0 .. Len(chain) : Flats(chain)[b] = JoinStep(chain, Flats(chain), b)
  BY <1>1, FlatsProperties
<1>3. QED BY <1>1, <1>2 DEF JoinStep, Flat

LEMMA FlatOfAppend ==
  ASSUME NEW T, NEW chain \in Seq(T), NEW blk \in T
  PROVE  Flat(Append(chain, blk)) = Flat(chain) \o blk.items
<1> DEFINE t == Append(chain, blk)
           n == Len(chain)
           g == Flats(chain)
           h == Flats(t)
<1>1. n \in Nat /\ t \in Seq(T) /\ Len(t) = n + 1 OBVIOUS
<1>2. t[n + 1] = blk /\ \A b \in 1 .. n : t[b] = chain[b] BY AppendProperties
<1>3. Flat(chain) = g[n] /\ \A b \in 0 .. n : g[b] = JoinStep(chain, g, b)
  BY FlatsProperties DEF Flat
<1>4. Flat(t) = h[n + 1] /\ \A b \in 0 .. n + 1 : h[b] = JoinStep(t, h, b)
  BY <1>1, FlatsProperties DEF Flat
<1> HIDE DEF t, n, g, h
<1> DEFINE good == {k \in Nat : k <= n => h[k] = g[k]}
<1>5. 0 \in good BY <1>1, <1>3, <1>4 DEF JoinStep
<1>6. ASSUME NEW k \in 0 .. n - 1, k \in good PROVE k + 1 \in good
  <2>1. /\ k + 1 \in 1 .. n /\ k + 1 \in 0 .. n /\ k + 1 \in 0 .. n + 1
        /\ k + 1 # 0 /\ (k + 1) - 1 = k /\ k + 1 \in Nat
    BY <1>1
  <2>2. h[k] = g[k] BY <1>1, <1>6
  <2>3. h[k + 1] = h[k] \o t[k + 1].items BY <1>4, <2>1 DEF JoinStep
  <2>4. g[k + 1] = g[k] \o chain[k + 1].items BY <1>3, <2>1 DEF JoinStep
  <2>5. t[k + 1] = chain[k + 1] BY <1>2, <2>1
  <2>6. h[k + 1] = g[k + 1] BY <2>2, <2>3, <2>4, <2>5, Zenon
  <2>7. QED BY <2>1, <2>6
<1>7. h[n] = g[n]
  <2> HIDE DEF good
  <2>1. \A k \in 0 .. n : k \in good BY <1>1, <1>5, <1>6, Arrays!UpTo
  <2>2. n \in good BY <1>1, <2>1
  <2>3. QED BY <1>1, <2>2 DEF good
<1>8. n + 1 \in 0 .. n + 1 /\ n + 1 # 0 /\ (n + 1) - 1 = n BY <1>1
<1>9. h[n + 1] = h[n] \o blk.items BY <1>2, <1>4, <1>8 DEF JoinStep
<1>10. QED BY <1>3, <1>4, <1>7, <1>9 DEF t

LEMMA FlatTyped == ASSUME NEW chain \in Seq(Block) PROVE Flat(chain) \in Seq(Values)
<1> DEFINE good == {u \in Seq(Block) : Flat(u) \in Seq(Values)}
<1>1. <<>> \in good
  <2>1. <<>> \in Seq(Block) /\ <<>> \in Seq(Values) OBVIOUS
  <2>2. QED BY <2>1, FlatOfEmpty, Zenon
<1>2. ASSUME NEW u \in Seq(Block), NEW blk \in Block, u \in good
      PROVE  Append(u, blk) \in good
  <2>1. Flat(u) \in Seq(Values) /\ blk.items \in Seq(Values) BY <1>2 DEF Block
  <2>2. Append(u, blk) \in Seq(Block) OBVIOUS
  <2>3. Flat(Append(u, blk)) = Flat(u) \o blk.items BY FlatOfAppend
  <2>4. QED BY <2>1, <2>2, <2>3, ConcatProperties
<1> HIDE DEF good
<1>3. \A u \in Seq(Block) : u \in good BY <1>1, <1>2, Arrays!ByAppending
<1>4. QED BY <1>3 DEF good

LEMMA FlatConcat ==
  ASSUME NEW c \in Seq(Block), NEW d \in Seq(Block)
  PROVE  Flat(c \o d) = Flat(c) \o Flat(d) /\ c \o d \in Seq(Block)
<1> DEFINE good == {u \in Seq(Block) : Flat(c \o u) = Flat(c) \o Flat(u)}
<1>1. <<>> \in good
  <2>1. c \o <<>> = c /\ Flat(c) \o <<>> = Flat(c) BY FlatTyped, ConcatEmptySeq
  <2>2. <<>> \in Seq(Block) OBVIOUS
  <2>3. QED BY <2>1, <2>2, FlatOfEmpty, Zenon
<1>2. ASSUME NEW u \in Seq(Block), NEW blk \in Block, u \in good
      PROVE  Append(u, blk) \in good
  <2> DEFINE cu == c \o u
             fc == Flat(c)
             fu == Flat(u)
             it == blk.items
  <2>1. c \o Append(u, blk) = Append(cu, blk) /\ cu \in Seq(Block)
    BY Arrays!AppendOfConcat
  <2>2. fc \in Seq(Values) /\ fu \in Seq(Values) /\ it \in Seq(Values)
    BY FlatTyped DEF Block
  <2>3. Flat(cu) = fc \o fu BY <1>2
  <2>4. Flat(Append(u, blk)) = fu \o it BY FlatOfAppend
  <2> HIDE DEF cu, fc, fu, it
  <2>5. Flat(Append(cu, blk)) = Flat(cu) \o it BY <2>1, FlatOfAppend DEF it
  <2>6. fc \o (fu \o it) = (fc \o fu) \o it BY <2>2, Arrays!Reassociate, SMTT(30)
  <2>7. Flat(c \o Append(u, blk)) = Flat(c) \o Flat(Append(u, blk))
    BY <2>1, <2>3, <2>4, <2>5, <2>6 DEF fc
  <2>8. Append(u, blk) \in Seq(Block) OBVIOUS
  <2>9. QED BY <2>7, <2>8
<1> HIDE DEF good
<1>3. \A u \in Seq(Block) : u \in good BY <1>1, <1>2, Arrays!ByAppending
<1>4. QED BY <1>3, ConcatProperties DEF good

LEMMA FlatOfOne ==
  ASSUME NEW x \in Block
  PROVE  Flat(<<x>>) = x.items
<1>1. <<>> \in Seq(Block) /\ Append(<<>>, x) = <<x>> /\ x.items \in Seq(Values) BY DEF Block
<1>2. Flat(Append(<<>>, x)) = Flat(<<>>) \o x.items BY <1>1, FlatOfAppend
<1>3. QED BY <1>1, <1>2, FlatOfEmpty, ConcatEmptySeq

One(x) == <<x>>
Two(x, y) == One(x) \o One(y)

LEMMA OneProperties ==
  ASSUME NEW T, NEW x \in T
  PROVE  One(x) \in Seq(T) /\ Len(One(x)) = 1 /\ One(x)[1] = x
BY DEF One

LEMMA TwoProperties ==
  ASSUME NEW T, NEW x \in T, NEW y \in T
  PROVE  /\ Two(x, y) \in Seq(T) /\ Len(Two(x, y)) = 2
         /\ Two(x, y)[1] = x /\ Two(x, y)[2] = y
<1> DEFINE s == One(x)
           t == One(y)
           u == s \o t
<1>1. /\ s \in Seq(T) /\ t \in Seq(T)
      /\ Len(s) = 1 /\ s[1] = x /\ Len(t) = 1 /\ t[1] = y
  BY OneProperties
<1> HIDE DEF s, t
<1>2. /\ u \in Seq(T) /\ Len(u) = Len(s) + Len(t)
      /\ \A i \in 1 .. Len(s) + Len(t) : u[i] = IF i <= Len(s) THEN s[i] ELSE t[i - Len(s)]
  <2>1. s \in Seq(T) /\ t \in Seq(T) BY <1>1
  <2>2. QED BY ONLY <2>1, ConcatProperties
<1>3. Two(x, y) = u BY DEF Two, u, s, t
<1> HIDE DEF u
<1>4. QED BY <1>1, <1>2, <1>3

LEMMA FlatOfTwo ==
  ASSUME NEW x \in Block, NEW y \in Block
  PROVE  Flat(Two(x, y)) = x.items \o y.items
<1>1. One(x) \in Seq(Block) /\ One(y) \in Seq(Block) BY OneProperties
<1>2. Flat(One(x)) = x.items /\ Flat(One(y)) = y.items BY FlatOfOne DEF One
<1>3. Flat(One(x) \o One(y)) = Flat(One(x)) \o Flat(One(y)) BY <1>1, FlatConcat
<1>4. QED BY <1>2, <1>3 DEF Two

LEMMA FlatJoined ==
  ASSUME NEW l \in Seq(Block), NEW m \in Seq(Block), NEW r \in Seq(Block)
  PROVE  Flat(Joined(l, m, r)) = Joined(Flat(l), Flat(m), Flat(r))
<1>1. l \o m \in Seq(Block) /\ Flat(l \o m) = Flat(l) \o Flat(m) BY FlatConcat
<1>2. Flat((l \o m) \o r) = Flat(l \o m) \o Flat(r) BY <1>1, FlatConcat
<1>3. QED BY <1>1, <1>2 DEF Joined

-----------------------------------------------------------------------------
(* A block, those before it, and those after it *)

Before(chain, b) == SubSeq(chain, 1, b - 1)
After(chain, b) == SubSeq(chain, b + 1, Len(chain))

LEMMA BeforeAndAfter ==
  ASSUME NEW T, NEW chain \in Seq(T), NEW b \in 1 .. Len(chain)
  PROVE  /\ Before(chain, b) \in Seq(T) /\ Len(Before(chain, b)) = b - 1
         /\ \A c \in 1 .. b - 1 : Before(chain, b)[c] = chain[c]
         /\ After(chain, b) \in Seq(T) /\ Len(After(chain, b)) = Len(chain) - b
         /\ \A c \in 1 .. Len(chain) - b : After(chain, b)[c] = chain[b + c]
<1>1. Len(chain) \in Nat /\ \A c \in 1 .. Len(chain) : chain[c] \in T BY ElementOfSeq
<1>2. /\ Before(chain, b) \in Seq(T) /\ Len(Before(chain, b)) = b - 1
      /\ \A c \in 1 .. b - 1 : Before(chain, b)[c] = chain[c]
  <2>1. \A c \in 1 .. b - 1 : chain[c] \in T BY <1>1
  <2>2. QED BY <1>1, <2>1, SubSeqProperties DEF Before
<1>3. /\ After(chain, b) \in Seq(T) /\ Len(After(chain, b)) = Len(chain) - b
      /\ \A c \in 1 .. Len(chain) - b : After(chain, b)[c] = chain[b + c]
  <2>1. \A c \in b + 1 .. Len(chain) : chain[c] \in T BY <1>1
  <2>2. QED BY <1>1, <2>1, SubSeqProperties DEF After
<1>4. QED BY <1>2, <1>3

(* Block b is replaced by y. *)
LEMMA Replaced ==
  ASSUME NEW T, NEW chain \in Seq(T), NEW b \in 1 .. Len(chain), NEW y \in T
  PROVE  /\ [chain EXCEPT ![b] = y] \in Seq(T)
         /\ Len([chain EXCEPT ![b] = y]) = Len(chain)
         /\ [chain EXCEPT ![b] = y] = Joined(Before(chain, b), One(y), After(chain, b))
<1> DEFINE p == Before(chain, b)
           q == After(chain, b)
           o == One(y)
           r == Joined(p, o, q)
           s == [chain EXCEPT ![b] = y]
<1>1. /\ p \in Seq(T) /\ Len(p) = b - 1 /\ \A c \in 1 .. b - 1 : p[c] = chain[c]
      /\ q \in Seq(T) /\ Len(q) = Len(chain) - b
      /\ \A c \in 1 .. Len(chain) - b : q[c] = chain[b + c]
  BY BeforeAndAfter, SMTT(30)
<1>2. o \in Seq(T) /\ Len(o) = 1 /\ o[1] = y BY OneProperties
<1> HIDE DEF p, q, o
<1>3. /\ r \in Seq(T) /\ Len(r) = Len(p) + Len(o) + Len(q)
      /\ \A i \in 1 .. Len(p) + Len(o) + Len(q) :
           r[i] = IF i <= Len(p) THEN p[i]
                  ELSE IF i <= Len(p) + Len(o) THEN o[i - Len(p)]
                  ELSE q[i - (Len(p) + Len(o))]
  <2>1. p \in Seq(T) /\ o \in Seq(T) /\ q \in Seq(T) BY <1>1, <1>2
  <2>2. r \in Seq(T) /\ IsJoined(r, p, o, q) BY ONLY <2>1, JoinedIs
  <2>3. QED BY <2>2 DEF IsJoined
<1> HIDE DEF r
<1>4. /\ s \in Seq(T) /\ Len(s) = Len(chain)
      /\ \A i \in 1 .. Len(chain) : s[i] = IF i = b THEN y ELSE chain[i]
  BY ExceptSeq
<1> HIDE DEF s
<1>5. Len(chain) \in Nat OBVIOUS
<1>6. ASSUME NEW i \in 1 .. Len(s) PROVE s[i] = r[i]
  <2>1. CASE i < b BY <1>1, <1>2, <1>3, <1>4, <1>5, <2>1
  <2>2. CASE i = b BY <1>1, <1>2, <1>3, <1>4, <1>5, <2>2
  <2>3. CASE i > b
    <3>1. r[i] = q[i - b] BY <1>1, <1>2, <1>3, <1>4, <1>5, <2>3
    <3>2. i - b \in 1 .. Len(chain) - b /\ b + (i - b) = i BY <1>4, <1>5, <2>3
    <3>3. QED BY <1>1, <1>4, <2>3, <3>1, <3>2
  <2>4. QED BY <2>1, <2>2, <2>3
<1>7. s = r
  <2>1. Len(s) = Len(r) BY <1>1, <1>2, <1>3, <1>4, <1>5
  <2>2. QED BY <1>3, <1>4, <1>6, <2>1, SeqEqual
<1>8. QED BY <1>4, <1>7 DEF s, r, p, o, q

LEMMA Parts ==
  ASSUME NEW T, NEW chain \in Seq(T), NEW b \in 1 .. Len(chain)
  PROVE  chain = Joined(Before(chain, b), One(chain[b]), After(chain, b))
<1>1. chain[b] \in T BY ElementOfSeq
<1>2. [chain EXCEPT ![b] = chain[b]] = chain
  <2> DEFINE s == [chain EXCEPT ![b] = chain[b]]
  <2>1. /\ s \in Seq(T) /\ Len(s) = Len(chain)
        /\ \A i \in 1 .. Len(chain) : s[i] = IF i = b THEN chain[b] ELSE chain[i]
    BY <1>1, ExceptSeq
  <2> HIDE DEF s
  <2>2. \A i \in 1 .. Len(s) : s[i] = chain[i] BY <2>1
  <2>3. s = chain BY <2>1, <2>2, SeqEqual
  <2>4. QED BY <2>3 DEF s
<1>3. QED BY <1>1, <1>2, Replaced

(* Blocks b and b + 1 become block y. *)
MergedInto(chain, b, y) == RemoveAt([chain EXCEPT ![b] = y], b + 1)

LEMMA Merged ==
  ASSUME NEW T, NEW chain \in Seq(T), NEW b \in 1 .. Len(chain) - 1, NEW y \in T
  PROVE  /\ MergedInto(chain, b, y) \in Seq(T)
         /\ MergedInto(chain, b, y) = Joined(Before(chain, b), One(y), After(chain, b + 1))
         /\ chain = Joined(Before(chain, b), Two(chain[b], chain[b + 1]), After(chain, b + 1))
<1> DEFINE p == Before(chain, b)
           q == After(chain, b + 1)
           o == One(y)
           w == Two(chain[b], chain[b + 1])
           r == Joined(p, o, q)
           t == Joined(p, w, q)
           s == [chain EXCEPT ![b] = y]
           u == RemoveAt(s, b + 1)
<1>1. Len(chain) \in Nat /\ b \in 1 .. Len(chain) /\ b + 1 \in 1 .. Len(chain) OBVIOUS
<1>2. /\ p \in Seq(T) /\ Len(p) = b - 1 /\ \A c \in 1 .. b - 1 : p[c] = chain[c]
  BY <1>1, BeforeAndAfter
<1>3. /\ q \in Seq(T) /\ Len(q) = Len(chain) - (b + 1)
      /\ \A c \in 1 .. Len(chain) - (b + 1) : q[c] = chain[(b + 1) + c]
  BY <1>1, BeforeAndAfter
<1>4. o \in Seq(T) /\ Len(o) = 1 /\ o[1] = y BY OneProperties
<1>5. w \in Seq(T) /\ Len(w) = 2 /\ w[1] = chain[b] /\ w[2] = chain[b + 1]
  <2>1. chain[b] \in T /\ chain[b + 1] \in T BY <1>1, ElementOfSeq
  <2>2. \A x, z \in T : /\ Two(x, z) \in Seq(T) /\ Len(Two(x, z)) = 2
                        /\ Two(x, z)[1] = x /\ Two(x, z)[2] = z
    BY TwoProperties
  <2>3. QED BY <2>1, <2>2, ZenonT(40)
<1> HIDE DEF p, q, o, w
<1>6. /\ r \in Seq(T) /\ Len(r) = Len(p) + Len(o) + Len(q)
      /\ \A i \in 1 .. Len(p) + Len(o) + Len(q) :
           r[i] = IF i <= Len(p) THEN p[i]
                  ELSE IF i <= Len(p) + Len(o) THEN o[i - Len(p)]
                  ELSE q[i - (Len(p) + Len(o))]
  <2>1. p \in Seq(T) /\ o \in Seq(T) /\ q \in Seq(T) BY <1>2, <1>3, <1>4
  <2>2. r \in Seq(T) /\ IsJoined(r, p, o, q) BY ONLY <2>1, JoinedIs
  <2>3. QED BY <2>2 DEF IsJoined
<1> HIDE DEF r
<1>7. /\ t \in Seq(T) /\ Len(t) = Len(p) + Len(w) + Len(q)
      /\ \A i \in 1 .. Len(p) + Len(w) + Len(q) :
           t[i] = IF i <= Len(p) THEN p[i]
                  ELSE IF i <= Len(p) + Len(w) THEN w[i - Len(p)]
                  ELSE q[i - (Len(p) + Len(w))]
  <2>1. p \in Seq(T) /\ w \in Seq(T) /\ q \in Seq(T) BY <1>2, <1>3, <1>5
  <2>2. t \in Seq(T) /\ IsJoined(t, p, w, q) BY ONLY <2>1, JoinedIs
  <2>3. QED BY <2>2 DEF IsJoined
<1> HIDE DEF t
<1>8. /\ s \in Seq(T) /\ Len(s) = Len(chain)
      /\ \A i \in 1 .. Len(chain) : s[i] = IF i = b THEN y ELSE chain[i]
  BY <1>1, ExceptSeq
<1> HIDE DEF s
<1>9. /\ u \in Seq(T) /\ Len(u) = Len(s) - 1
      /\ \A j \in 1 .. Len(s) - 1 : u[j] = IF j < b + 1 THEN s[j] ELSE s[j + 1]
  <2>1. s \in Seq(T) /\ b + 1 \in 1 .. Len(s) BY <1>1, <1>8
  <2>2. u \in Seq(T) /\ IsRemoved(u, s, b + 1) BY ONLY <2>1, RemovedIs
  <2>3. QED BY <2>2 DEF IsRemoved
<1> HIDE DEF u
<1>10. ASSUME NEW i \in 1 .. Len(u) PROVE u[i] = r[i]
  <2>1. CASE i < b BY <1>1, <1>2, <1>3, <1>4, <1>6, <1>8, <1>9, <2>1, SMTT(30)
  <2>2. CASE i = b BY <1>1, <1>2, <1>3, <1>4, <1>6, <1>8, <1>9, <2>2
  <2>3. CASE i > b
    <3>1. r[i] = q[i - b]
      <4>1. i \in 1 .. Len(p) + Len(o) + Len(q) /\ ~(i <= Len(p)) /\ ~(i <= Len(p) + Len(o))
        BY <1>1, <1>2, <1>3, <1>4, <1>8, <1>9, <2>3
      <4>2. i - (Len(p) + Len(o)) = i - b BY <1>1, <1>2, <1>4
      <4>3. QED BY <1>6, <4>1, <4>2
    <3>2. i - b \in 1 .. Len(chain) - (b + 1) /\ (b + 1) + (i - b) = i + 1
      BY <1>1, <1>8, <1>9, <2>3
    <3>3. u[i] = chain[i + 1] BY <1>1, <1>8, <1>9, <2>3
    <3>4. QED BY <1>3, <3>1, <3>2, <3>3
  <2>4. QED BY <1>1, <2>1, <2>2, <2>3
<1>11. u = r
  <2>1. Len(u) = Len(r) BY <1>1, <1>2, <1>3, <1>4, <1>6, <1>8, <1>9
  <2>2. QED BY <1>6, <1>9, <1>10, <2>1, SeqEqual
<1>12. ASSUME NEW i \in 1 .. Len(chain) PROVE chain[i] = t[i]
  <2>1. CASE i < b
    <3>1. i \in 1 .. Len(p) + Len(w) + Len(q) /\ i <= Len(p) /\ i \in 1 .. b - 1
      BY <1>1, <1>2, <1>3, <1>5, <2>1
    <3>2. QED BY <1>2, <1>7, <3>1
  <2>2. CASE i = b
    <3>1. /\ i \in 1 .. Len(p) + Len(w) + Len(q) /\ ~(i <= Len(p))
          /\ i <= Len(p) + Len(w) /\ i - Len(p) = 1
      BY <1>1, <1>2, <1>3, <1>5, <2>2
    <3>2. t[i] = w[1] BY <1>7, <3>1
    <3>3. QED BY <1>5, <2>2, <3>2
  <2>3. CASE i = b + 1 BY <1>1, <1>2, <1>3, <1>5, <1>7, <2>3
  <2>4. CASE i > b + 1
    <3>1. t[i] = q[i - (b + 1)]
      <4>1. i \in 1 .. Len(p) + Len(w) + Len(q) /\ ~(i <= Len(p)) /\ ~(i <= Len(p) + Len(w))
        BY <1>1, <1>2, <1>3, <1>5, <2>4
      <4>2. i - (Len(p) + Len(w)) = i - (b + 1) BY <1>1, <1>2, <1>5
      <4>3. QED BY <1>7, <4>1, <4>2
    <3>2. i - (b + 1) \in 1 .. Len(chain) - (b + 1) /\ (b + 1) + (i - (b + 1)) = i
      BY <1>1, <2>4
    <3>3. QED BY <1>3, <3>1, <3>2
  <2>5. QED BY <1>1, <2>1, <2>2, <2>3, <2>4
<1>13. chain = t
  <2>1. Len(chain) = Len(t) BY <1>1, <1>2, <1>3, <1>5, <1>7
  <2>2. QED BY <1>7, <1>12, <2>1, SeqEqual
<1>14. QED BY <1>9, <1>11, <1>13 DEF u, s, r, t, p, o, w, q, MergedInto

(* Block b becomes the blocks x and y. *)
LEMMA Divided ==
  ASSUME NEW T, NEW chain \in Seq(T), NEW b \in 1 .. Len(chain), NEW x \in T, NEW y \in T
  PROVE  /\ ReplaceAt(InsertAt(chain, b + 1, y), b, x) \in Seq(T)
         /\ ReplaceAt(InsertAt(chain, b + 1, y), b, x) =
              Joined(Before(chain, b), Two(x, y), After(chain, b))
<1> DEFINE p == Before(chain, b)
           q == After(chain, b)
           w == Two(x, y)
           t == Joined(p, w, q)
           s == InsertAt(chain, b + 1, y)
           u == [s EXCEPT ![b] = x]
<1>1. Len(chain) \in Nat /\ b + 1 \in 1 .. Len(chain) + 1 OBVIOUS
<1>2. /\ p \in Seq(T) /\ Len(p) = b - 1 /\ \A c \in 1 .. b - 1 : p[c] = chain[c]
      /\ q \in Seq(T) /\ Len(q) = Len(chain) - b
      /\ \A c \in 1 .. Len(chain) - b : q[c] = chain[b + c]
  BY BeforeAndAfter, ZenonT(40)
<1>3. w \in Seq(T) /\ Len(w) = 2 /\ w[1] = x /\ w[2] = y BY TwoProperties
<1> HIDE DEF p, q, w
<1>4. /\ t \in Seq(T) /\ Len(t) = Len(p) + Len(w) + Len(q)
      /\ \A i \in 1 .. Len(p) + Len(w) + Len(q) :
           t[i] = IF i <= Len(p) THEN p[i]
                  ELSE IF i <= Len(p) + Len(w) THEN w[i - Len(p)]
                  ELSE q[i - (Len(p) + Len(w))]
  <2>1. p \in Seq(T) /\ w \in Seq(T) /\ q \in Seq(T) BY <1>2, <1>3
  <2>2. t \in Seq(T) /\ IsJoined(t, p, w, q) BY ONLY <2>1, JoinedIs
  <2>3. QED BY <2>2 DEF IsJoined
<1> HIDE DEF t
<1>5. /\ s \in Seq(T) /\ Len(s) = Len(chain) + 1
      /\ \A j \in 1 .. Len(chain) + 1 :
           s[j] = IF j < b + 1 THEN chain[j] ELSE IF j = b + 1 THEN y ELSE chain[j - 1]
  <2>1. ASSUME NEW k \in 1 .. Len(chain) + 1
        PROVE  /\ InsertAt(chain, k, y) \in Seq(T)
               /\ Len(InsertAt(chain, k, y)) = Len(chain) + 1
               /\ \A j \in 1 .. Len(chain) + 1 :
                    InsertAt(chain, k, y)[j] =
                      IF j < k THEN chain[j] ELSE IF j = k THEN y ELSE chain[j - 1]
    BY InsertAtProperties
  <2>2. QED BY <1>1, <2>1
<1> HIDE DEF s
<1>6. /\ u \in Seq(T) /\ Len(u) = Len(s)
      /\ \A i \in 1 .. Len(s) : u[i] = IF i = b THEN x ELSE s[i]
  <2>1. b \in 1 .. Len(s) BY <1>1, <1>5
  <2>2. QED BY <1>5, <2>1, ExceptSeq
<1> HIDE DEF u
<1>7. ASSUME NEW i \in 1 .. Len(u) PROVE u[i] = t[i]
  <2>1. CASE i < b
    <3>1. i \in 1 .. Len(p) + Len(w) + Len(q) /\ i <= Len(p) /\ i \in 1 .. b - 1
      BY <1>1, <1>2, <1>3, <2>1
    <3>2. t[i] = chain[i] BY <1>2, <1>4, <3>1
    <3>3. u[i] = chain[i] BY <1>1, <1>5, <1>6, <2>1
    <3>4. QED BY <3>2, <3>3
  <2>2. CASE i = b
    <3>1. /\ i \in 1 .. Len(p) + Len(w) + Len(q) /\ ~(i <= Len(p))
          /\ i <= Len(p) + Len(w) /\ i - Len(p) = 1
      BY <1>1, <1>2, <1>3, <2>2
    <3>2. t[i] = w[1] BY <1>4, <3>1
    <3>3. QED BY <1>3, <1>6, <2>2, <3>2
  <2>3. CASE i = b + 1
    <3>1. /\ i \in 1 .. Len(p) + Len(w) + Len(q) /\ ~(i <= Len(p))
          /\ i <= Len(p) + Len(w) /\ i - Len(p) = 2
      BY <1>1, <1>2, <1>3, <2>3
    <3>2. t[i] = w[2] BY <1>4, <3>1
    <3>3. u[i] = y BY <1>1, <1>5, <1>6, <2>3
    <3>4. QED BY <1>3, <3>2, <3>3
  <2>4. CASE i > b + 1
    <3>1. t[i] = q[i - (b + 1)]
      <4>1. i \in 1 .. Len(p) + Len(w) + Len(q) /\ ~(i <= Len(p)) /\ ~(i <= Len(p) + Len(w))
        BY <1>1, <1>2, <1>3, <1>5, <1>6, <2>4
      <4>2. i - (Len(p) + Len(w)) = i - (b + 1) BY <1>1, <1>2, <1>3
      <4>3. QED BY <1>4, <4>1, <4>2
    <3>2. i - (b + 1) \in 1 .. Len(chain) - b /\ b + (i - (b + 1)) = i - 1
      BY <1>1, <1>5, <1>6, <2>4
    <3>3. u[i] = chain[i - 1] BY <1>1, <1>5, <1>6, <2>4
    <3>4. QED BY <1>2, <3>1, <3>2, <3>3
  <2>5. QED BY <1>1, <2>1, <2>2, <2>3, <2>4
<1>8. u = t
  <2>1. Len(u) = Len(t) BY <1>1, <1>2, <1>3, <1>4, <1>5, <1>6
  <2>2. QED BY <1>4, <1>6, <1>7, <2>1, SeqEqual
<1>9. QED BY <1>6, <1>8 DEF u, s, t, p, w, q, ReplaceAt

-----------------------------------------------------------------------------
(* The place of a position *)

(* How many elements are before block b. *)
Offset(chain, b) == Len(Flat(Before(chain, b)))

LEMMA OffsetProperties ==
  ASSUME NEW chain \in Seq(Block)
  PROVE  /\ Offset(chain, 1) = 0 /\ Offset(chain, Len(chain) + 1) = Len(Flat(chain))
         /\ \A b \in 1 .. Len(chain) :
              /\ Offset(chain, b) \in Nat /\ Size(chain[b]) \in Nat
              /\ Offset(chain, b + 1) = Offset(chain, b) + Size(chain[b])
<1>1. Len(chain) \in Nat OBVIOUS
<1>2. Offset(chain, 1) = 0
  <2>1. Before(chain, 1) = <<>> BY SubSeqEmpty DEF Before
  <2>2. QED BY <2>1, FlatOfEmpty DEF Offset
<1>3. Offset(chain, Len(chain) + 1) = Len(Flat(chain))
  <2>1. (Len(chain) + 1) - 1 = Len(chain) BY <1>1
  <2>2. Before(chain, Len(chain) + 1) = chain BY <2>1, SubSeqFull DEF Before
  <2>3. QED BY <2>2 DEF Offset
<1>4. ASSUME NEW b \in 1 .. Len(chain)
      PROVE  /\ Offset(chain, b) \in Nat /\ Size(chain[b]) \in Nat
             /\ Offset(chain, b + 1) = Offset(chain, b) + Size(chain[b])
  <2> DEFINE l == Before(chain, b)
             x == chain[b]
             f == Flat(l)
             i == x.items
  <2>1. l \in Seq(Block) BY BeforeAndAfter
  <2>2. x \in Block BY ElementOfSeq
  <2>3. f \in Seq(Values) /\ i \in Seq(Values) BY <2>1, <2>2, FlatTyped DEF Block
  <2>4. Before(chain, b + 1) = l \o One(x)
    <3>1. (b + 1) - 1 = b BY <1>1
    <3>2. SubSeq(chain, 1, b) = SubSeq(chain, 1, b - 1) \o <<chain[b]>>
      BY <1>1, SubSeqRecursiveSecond
    <3>3. QED BY <3>1, <3>2 DEF Before, One
  <2>5. Flat(l \o One(x)) = Flat(l) \o Flat(One(x)) /\ Flat(One(x)) = i
    <3>1. One(x) \in Seq(Block) BY <2>2, OneProperties
    <3>2. Flat(One(x)) = i BY <2>2, FlatOfOne DEF One
    <3> HIDE DEF l, x
    <3>3. QED BY <2>1, <3>1, <3>2, FlatConcat
  <2> HIDE DEF l, x, f, i
  <2>6. Flat(Before(chain, b + 1)) = f \o i BY <2>4, <2>5 DEF f
  <2>7. Len(f \o i) = Len(f) + Len(i) /\ Len(f) \in Nat /\ Len(i) \in Nat
    BY <2>3, ConcatProperties
  <2>8. QED BY <2>6, <2>7 DEF Offset, Size, l, x, f, i
<1>5. QED BY <1>2, <1>3, <1>4

LEMMA OffsetsUpTo ==
  ASSUME NEW chain \in Seq(Block), NEW pos \in Nat, pos < Len(Flat(chain))
  PROVE  \E b \in 1 .. Len(chain) :
           Offset(chain, b) <= pos /\ pos < Offset(chain, b) + Size(chain[b])
<1> DEFINE n == Len(chain)
           good == {k \in Nat : Offset(chain, k + 1) <= pos}
<1>1. n \in Nat OBVIOUS
<1>2. SUFFICES ASSUME \A b \in 1 .. n : ~(Offset(chain, b) <= pos
                                          /\ pos < Offset(chain, b) + Size(chain[b]))
               PROVE  FALSE
  OBVIOUS
<1>3. 0 \in good BY OffsetProperties
<1>4. ASSUME NEW k \in 0 .. n - 1, k \in good PROVE k + 1 \in good
  <2>1. k + 1 \in 1 .. n /\ k + 1 \in Nat BY <1>1
  <2>2. /\ Offset(chain, k + 1) \in Nat /\ Size(chain[k + 1]) \in Nat
        /\ Offset(chain, (k + 1) + 1) = Offset(chain, k + 1) + Size(chain[k + 1])
    BY <2>1, OffsetProperties
  <2>3. Offset(chain, k + 1) <= pos BY <1>4
  <2>4. ~(pos < Offset(chain, k + 1) + Size(chain[k + 1])) BY <1>2, <2>1, <2>3
  <2>5. QED BY <2>1, <2>2, <2>4
<1> HIDE DEF good
<1>5. \A k \in 0 .. n : k \in good BY <1>1, <1>3, <1>4, Arrays!UpTo
<1>6. Offset(chain, n + 1) <= pos BY <1>1, <1>5 DEF good
<1>7. Offset(chain, n + 1) = Len(Flat(chain)) BY OffsetProperties
<1>8. Len(Flat(chain)) \in Nat BY FlatTyped
<1>9. QED BY <1>6, <1>7, <1>8

CountStep(chain, g, b) == IF b = 1 THEN 0 ELSE g[b - 1] + Size(chain[b - 1])
Counting(chain, g) == g = [b \in DOMAIN chain |-> CountStep(chain, g, b)]
Counts(chain) == CHOOSE g : Counting(chain, g)

LEMMA CountsAreOffsets ==
  ASSUME NEW chain \in Seq(Block)
  PROVE  \A b \in 1 .. Len(chain) : Counts(chain)[b] = Offset(chain, b)
<1> DEFINE n == Len(chain)
           h == [b \in DOMAIN chain |-> Offset(chain, b)]
           g == Counts(chain)
<1>1. n \in Nat /\ DOMAIN chain = 1 .. n OBVIOUS
<1>2. Counting(chain, h)
  <2>1. ASSUME NEW b \in 1 .. n PROVE h[b] = CountStep(chain, h, b)
    <3>1. CASE b = 1 BY <1>1, <3>1, OffsetProperties DEF CountStep
    <3>2. CASE b # 1
      <4>1. b - 1 \in 1 .. n /\ (b - 1) + 1 = b BY <1>1, <3>2
      <4>2. Offset(chain, b) = Offset(chain, b - 1) + Size(chain[b - 1])
        BY <4>1, OffsetProperties
      <4>3. h[b - 1] = Offset(chain, b - 1) /\ h[b] = Offset(chain, b) BY <1>1, <4>1
      <4> HIDE DEF h
      <4>4. QED BY <3>2, <4>2, <4>3 DEF CountStep
    <3>3. QED BY <3>1, <3>2
  <2>2. h = [b \in DOMAIN chain |-> h[b]] OBVIOUS
  <2> HIDE DEF h
  <2>3. h = [b \in DOMAIN chain |-> CountStep(chain, h, b)] BY <1>1, <2>1, <2>2
  <2>4. QED BY <2>3 DEF Counting
<1>3. Counting(chain, g) BY <1>2 DEF Counts
<1> HIDE DEF g, h
<1>4. \A b \in 1 .. n : g[b] = CountStep(chain, g, b) BY <1>1, <1>3 DEF Counting
<1> DEFINE good == {k \in Nat : k + 1 <= n => g[k + 1] = Offset(chain, k + 1)}
<1>5. 0 \in good
  <2>1. 1 <= n => g[1] = 0 BY <1>1, <1>4 DEF CountStep
  <2>2. QED BY <2>1, OffsetProperties
<1>6. ASSUME NEW k \in 0 .. n - 1, k \in good PROVE k + 1 \in good
  <2>1. k + 1 \in 1 .. n /\ k + 1 \in Nat BY <1>1
  <2>2. g[k + 1] = Offset(chain, k + 1) BY <1>6, <2>1
  <2>3. Offset(chain, (k + 1) + 1) = Offset(chain, k + 1) + Size(chain[k + 1])
    BY <2>1, OffsetProperties
  <2>4. ASSUME (k + 1) + 1 <= n PROVE g[(k + 1) + 1] = g[k + 1] + Size(chain[k + 1])
    <3>1. /\ (k + 1) + 1 \in 1 .. n /\ (k + 1) + 1 # 1
          /\ ((k + 1) + 1) - 1 = k + 1
      BY <2>1, <2>4
    <3>2. QED BY <1>4, <3>1 DEF CountStep
  <2>5. QED BY <2>1, <2>2, <2>3, <2>4
<1> HIDE DEF good
<1>7. \A k \in 0 .. n : k \in good BY <1>1, <1>5, <1>6, Arrays!UpTo
<1>8. ASSUME NEW b \in 1 .. n PROVE g[b] = Offset(chain, b)
  <2>1. b - 1 \in 0 .. n /\ (b - 1) + 1 = b /\ b <= n BY <1>1
  <2>2. b - 1 \in good BY <1>7, <2>1
  <2>3. QED BY <2>1, <2>2 DEF good
<1>9. QED BY <1>8 DEF g, n

LEMMA LocateProperties ==
  ASSUME NEW chain \in Seq(Block), NEW pos \in Nat, pos < Len(Flat(chain)),
         NEW at, at = locate(chain, pos)
  PROVE  /\ at.block \in 1 .. Len(chain) /\ at.offset \in 0 .. Size(chain[at.block]) - 1
         /\ Offset(chain, at.block) + at.offset = pos
<1> DEFINE g == Counts(chain)
           found == CHOOSE b \in DOMAIN chain : g[b] <= pos /\ pos < g[b] + Size(chain[b])
<1>1. at = [block |-> found, offset |-> pos - g[found]]
  BY DEF locate, Counts, Counting, CountStep
<1>2. DOMAIN chain = 1 .. Len(chain) OBVIOUS
<1>3. \A b \in 1 .. Len(chain) : g[b] = Offset(chain, b) BY CountsAreOffsets
<1> HIDE DEF g
<1>4. \E b \in DOMAIN chain : g[b] <= pos /\ pos < g[b] + Size(chain[b])
  BY <1>2, <1>3, OffsetsUpTo
<1>5. found \in DOMAIN chain /\ g[found] <= pos /\ pos < g[found] + Size(chain[found])
  BY <1>4
<1> HIDE DEF found
<1>6. /\ Offset(chain, found) \in Nat /\ Size(chain[found]) \in Nat
      /\ g[found] = Offset(chain, found)
  BY <1>2, <1>3, <1>5, OffsetProperties
<1>7. QED BY <1>1, <1>2, <1>5, <1>6

-----------------------------------------------------------------------------
(* One block changes *)

Fitting == {blk \in Block : blk.start + Len(blk.items) <= UINTDEQUE_BLOCK_SIZE}
Filled == {blk \in Fitting : Len(blk.items) > 0}

LEMMA MoreElements ==
  ASSUME NEW S, NEW T, S \subseteq T, NEW s \in Seq(S)
  PROVE  s \in Seq(T)
<1>1. Len(s) \in Nat /\ DOMAIN s = 1 .. Len(s) /\ s = [i \in 1 .. Len(s) |-> s[i]] OBVIOUS
<1>2. \A i \in 1 .. Len(s) : s[i] \in T BY ElementOfSeq
<1> DEFINE t == [i \in 1 .. Len(s) |-> s[i]]
<1>3. t \in Seq(T) BY <1>1, <1>2, IsASeq
<1>4. QED BY <1>1, <1>3

LEMMA FilledAreBlocks ==
  /\ Filled \subseteq Fitting /\ Fitting \subseteq Block
  /\ Seq(Filled) \subseteq Seq(Fitting) /\ Seq(Fitting) \subseteq Seq(Block)
<1>1. Filled \subseteq Fitting /\ Fitting \subseteq Block BY DEF Filled, Fitting
<1>2. QED BY <1>1, MoreElements

Put(chain, b, y) == [chain EXCEPT ![b] = y]

LEMMA BlockChanged ==
  ASSUME NEW chain \in Seq(Block), NEW b \in 1 .. Len(chain), NEW y \in Block
  PROVE  LET before == Flat(Before(chain, b))
             after  == Flat(After(chain, b))
         IN /\ before \in Seq(Values) /\ after \in Seq(Values)
            /\ Len(before) = Offset(chain, b)
            /\ Flat(chain) = Joined(before, chain[b].items, after)
            /\ Flat(Put(chain, b, y)) = Joined(before, y.items, after)
<1> DEFINE l == Before(chain, b)
           r == After(chain, b)
<1>1. l \in Seq(Block) /\ r \in Seq(Block) BY BeforeAndAfter
<1>2. chain[b] \in Block BY ElementOfSeq
<1>3. chain = Joined(l, One(chain[b]), r) BY Parts
<1>4. Put(chain, b, y) = Joined(l, One(y), r) BY Replaced DEF Put
<1>5. Len(Flat(l)) = Offset(chain, b) BY DEF Offset
<1> HIDE DEF l, r
<1>6. Flat(l) \in Seq(Values) /\ Flat(r) \in Seq(Values) BY <1>1, FlatTyped
<1>7. ASSUME NEW x \in Block
      PROVE  Flat(Joined(l, One(x), r)) = Joined(Flat(l), x.items, Flat(r))
  <2>1. One(x) \in Seq(Block) BY OneProperties
  <2>2. Flat(One(x)) = x.items BY FlatOfOne DEF One
  <2>3. QED BY <1>1, <2>1, <2>2, FlatJoined
<1>8. Flat(Joined(l, One(chain[b]), r)) = Joined(Flat(l), chain[b].items, Flat(r))
  BY <1>2, <1>7
<1>9. Flat(chain) = Joined(Flat(l), chain[b].items, Flat(r)) BY <1>3, <1>8
<1>10. Flat(Put(chain, b, y)) = Joined(Flat(l), y.items, Flat(r)) BY <1>4, <1>7
<1>11. QED BY <1>5, <1>6, <1>9, <1>10 DEF l, r

LEMMA InsertedInBlock ==
  ASSUME NEW chain \in Seq(Block), NEW b \in 1 .. Len(chain), NEW y \in Block,
         NEW o \in 1 .. Size(chain[b]) + 1, NEW v \in Values,
         y.items = InsertAt(chain[b].items, o, v)
  PROVE  LET new == Put(chain, b, y)
         IN /\ Offset(chain, b) + o \in 1 .. Len(Flat(chain)) + 1
            /\ Flat(new) = InsertAt(Flat(chain), Offset(chain, b) + o, v)
            /\ Len(Flat(new)) = Len(Flat(chain)) + 1
<1> DEFINE p == Flat(Before(chain, b))
           q == Flat(After(chain, b))
           m == chain[b].items
           f == Flat(chain)
           k == Offset(chain, b) + o
<1>1. /\ p \in Seq(Values) /\ q \in Seq(Values) /\ Len(p) = Offset(chain, b)
      /\ f = Joined(p, m, q)
      /\ Flat(Put(chain, b, y)) = Joined(p, y.items, q)
  BY BlockChanged
<1>2. m \in Seq(Values) /\ o \in 1 .. Len(m) + 1
  <2>1. chain[b] \in Block BY ElementOfSeq
  <2>2. QED BY <2>1 DEF Block, Size
<1> HIDE DEF p, q, m, f
<1>3. Joined(p, InsertAt(m, o, v), q) = InsertAt(Joined(p, m, q), Len(p) + o, v)
  <2>1. p \in Seq(Values) /\ m \in Seq(Values) /\ q \in Seq(Values)
        /\ o \in 1 .. Len(m) + 1 /\ v \in Values
    BY <1>1, <1>2
  <2>2. QED BY ONLY <2>1, InsertInside
<1>4. Len(f) = Len(p) + Len(m) + Len(q) /\ f \in Seq(Values)
  <2>1. p \in Seq(Values) /\ m \in Seq(Values) /\ q \in Seq(Values) BY <1>1, <1>2
  <2>2. /\ Len(Joined(p, m, q)) = Len(p) + Len(m) + Len(q)
        /\ Joined(p, m, q) \in Seq(Values)
    BY ONLY <2>1, JoinedProperties
  <2>3. QED BY <1>1, <2>2
<1>5. Len(p) \in Nat /\ Len(m) \in Nat /\ Len(q) \in Nat BY <1>1, <1>2
<1>6. k \in 1 .. Len(f) + 1 BY <1>1, <1>2, <1>4, <1>5
<1>7. y.items = InsertAt(m, o, v) BY DEF m
<1>8. Flat(Put(chain, b, y)) = InsertAt(f, k, v) BY <1>1, <1>3, <1>7
<1> HIDE DEF k
<1>9. Len(InsertAt(f, k, v)) = Len(f) + 1
  <2>1. f \in Seq(Values) /\ k \in 1 .. Len(f) + 1 /\ v \in Values BY <1>4, <1>6
  <2>2. IsInserted(InsertAt(f, k, v), f, k, v) BY ONLY <2>1, InsertedIs
  <2>3. QED BY <2>2 DEF IsInserted
<1>10. QED BY <1>6, <1>8, <1>9 DEF f, k

LEMMA RemovedFromBlock ==
  ASSUME NEW chain \in Seq(Block), NEW b \in 1 .. Len(chain), NEW y \in Block,
         NEW o \in 1 .. Size(chain[b]), y.items = RemoveAt(chain[b].items, o)
  PROVE  LET new == Put(chain, b, y)
         IN /\ Offset(chain, b) + o \in 1 .. Len(Flat(chain))
            /\ Flat(new) = RemoveAt(Flat(chain), Offset(chain, b) + o)
            /\ Len(Flat(new)) = Len(Flat(chain)) - 1
<1> DEFINE p == Flat(Before(chain, b))
           q == Flat(After(chain, b))
           m == chain[b].items
           f == Flat(chain)
           k == Offset(chain, b) + o
<1>1. /\ p \in Seq(Values) /\ q \in Seq(Values) /\ Len(p) = Offset(chain, b)
      /\ f = Joined(p, m, q)
      /\ Flat(Put(chain, b, y)) = Joined(p, y.items, q)
  BY BlockChanged
<1>2. m \in Seq(Values) /\ o \in 1 .. Len(m)
  <2>1. chain[b] \in Block BY ElementOfSeq
  <2>2. QED BY <2>1 DEF Block, Size
<1> HIDE DEF p, q, m, f
<1>3. Joined(p, RemoveAt(m, o), q) = RemoveAt(Joined(p, m, q), Len(p) + o)
  <2>1. p \in Seq(Values) /\ m \in Seq(Values) /\ q \in Seq(Values) /\ o \in 1 .. Len(m)
    BY <1>1, <1>2
  <2>2. QED BY ONLY <2>1, RemoveInside
<1>4. Len(f) = Len(p) + Len(m) + Len(q) /\ f \in Seq(Values)
  <2>1. p \in Seq(Values) /\ m \in Seq(Values) /\ q \in Seq(Values) BY <1>1, <1>2
  <2>2. /\ Len(Joined(p, m, q)) = Len(p) + Len(m) + Len(q)
        /\ Joined(p, m, q) \in Seq(Values)
    BY ONLY <2>1, JoinedProperties
  <2>3. QED BY <1>1, <2>2
<1>5. Len(p) \in Nat /\ Len(m) \in Nat /\ Len(q) \in Nat BY <1>1, <1>2
<1>6. k \in 1 .. Len(f) BY <1>1, <1>2, <1>4, <1>5
<1>7. y.items = RemoveAt(m, o) BY DEF m
<1>8. Flat(Put(chain, b, y)) = RemoveAt(f, k) BY <1>1, <1>3, <1>7
<1> HIDE DEF k
<1>9. Len(RemoveAt(f, k)) = Len(f) - 1
  <2>1. f \in Seq(Values) /\ k \in 1 .. Len(f) BY <1>4, <1>6
  <2>2. IsRemoved(RemoveAt(f, k), f, k) BY ONLY <2>1, RemovedIs
  <2>3. QED BY <2>2 DEF IsRemoved
<1>10. QED BY <1>6, <1>8, <1>9 DEF f, k

LEMMA SetInBlock ==
  ASSUME NEW chain \in Seq(Block), NEW b \in 1 .. Len(chain), NEW y \in Block,
         NEW o \in 1 .. Size(chain[b]), NEW v \in Values,
         y.items = ElementSet(chain[b].items, o, v)
  PROVE  LET new == Put(chain, b, y)
         IN /\ Offset(chain, b) + o \in 1 .. Len(Flat(chain))
            /\ Flat(new) = ElementSet(Flat(chain), Offset(chain, b) + o, v)
            /\ Len(Flat(new)) = Len(Flat(chain))
<1> DEFINE p == Flat(Before(chain, b))
           q == Flat(After(chain, b))
           m == chain[b].items
           f == Flat(chain)
           k == Offset(chain, b) + o
<1>1. /\ p \in Seq(Values) /\ q \in Seq(Values) /\ Len(p) = Offset(chain, b)
      /\ f = Joined(p, m, q)
      /\ Flat(Put(chain, b, y)) = Joined(p, y.items, q)
  BY BlockChanged
<1>2. m \in Seq(Values) /\ o \in 1 .. Len(m)
  <2>1. chain[b] \in Block BY ElementOfSeq
  <2>2. QED BY <2>1 DEF Block, Size
<1> HIDE DEF p, q, m, f
<1>3. Joined(p, ElementSet(m, o, v), q) = ElementSet(Joined(p, m, q), Len(p) + o, v)
  <2>1. p \in Seq(Values) /\ m \in Seq(Values) /\ q \in Seq(Values)
        /\ o \in 1 .. Len(m) /\ v \in Values
    BY <1>1, <1>2
  <2>2. QED BY ONLY <2>1, SetInside
<1>4. Len(f) = Len(p) + Len(m) + Len(q) /\ f \in Seq(Values)
  <2>1. p \in Seq(Values) /\ m \in Seq(Values) /\ q \in Seq(Values) BY <1>1, <1>2
  <2>2. /\ Len(Joined(p, m, q)) = Len(p) + Len(m) + Len(q)
        /\ Joined(p, m, q) \in Seq(Values)
    BY ONLY <2>1, JoinedProperties
  <2>3. QED BY <1>1, <2>2
<1>5. Len(p) \in Nat /\ Len(m) \in Nat /\ Len(q) \in Nat BY <1>1, <1>2
<1>6. k \in 1 .. Len(f) BY <1>1, <1>2, <1>4, <1>5
<1>7. y.items = ElementSet(m, o, v) BY DEF m
<1>8. Flat(Put(chain, b, y)) = ElementSet(f, k, v) BY <1>1, <1>3, <1>7
<1> HIDE DEF k
<1>9. Len(ElementSet(f, k, v)) = Len(f)
  BY <1>4, <1>6, ExceptSeq DEF ElementSet
<1>10. QED BY <1>6, <1>8, <1>9 DEF f, k

-----------------------------------------------------------------------------
(* Moving, dividing and joining blocks keeps the elements *)

LEMMA WithItems ==
  ASSUME NEW blk \in Block, NEW s
  PROVE  [blk EXCEPT !.items = s] = [start |-> blk.start, items |-> s]
BY DEF Block

LEMMA Halves == ASSUME NEW n \in Nat PROVE n \div 2 \in Nat /\ 2 * (n \div 2) \in {n, n - 1}
OBVIOUS

LEMMA Centred ==
  ASSUME NEW blk \in Block, Size(blk) <= UINTDEQUE_BLOCK_SIZE,
         blk \in Fitting \/ blk.start = 0
  PROVE  center_block(blk) \in Fitting /\ center_block(blk).items = blk.items
<1>1. Size(blk) \in Nat /\ blk.start \in Nat /\ blk.items \in Seq(Values) BY DEF Size, Block
<1>2. UINTDEQUE_BLOCK_SIZE \in Nat BY BlockListAssumption
<1>3. UINTDEQUE_BLOCK_SIZE - Size(blk) \in Nat BY <1>1, <1>2
<1>4. /\ Middle(Size(blk)) \in Nat
      /\ Middle(Size(blk)) + Size(blk) <= UINTDEQUE_BLOCK_SIZE
  BY <1>1, <1>2, <1>3, Halves DEF Middle
<1>5. blk \in Fitting BY <1>1, <1>2 DEF Fitting, Size
<1> DEFINE y == [blk EXCEPT !.start = Middle(Size(blk))]
<1>6. y = [start |-> Middle(Size(blk)), items |-> blk.items] BY DEF Block
<1> HIDE DEF y
<1>7. y \in Fitting /\ y.items = blk.items BY <1>1, <1>4, <1>6 DEF Fitting, Block, Size
<1>8. QED BY <1>5, <1>7 DEF center_block, y

LEMMA CentredFilled ==
  ASSUME NEW blk \in Filled
  PROVE  center_block(blk) \in Filled /\ center_block(blk).items = blk.items
<1>1. /\ blk \in Block /\ blk \in Fitting /\ Len(blk.items) > 0
      /\ blk.start \in Nat /\ Len(blk.items) \in Nat
      /\ blk.start + Len(blk.items) <= UINTDEQUE_BLOCK_SIZE
  BY DEF Filled, Fitting, Block
<1>2. Size(blk) <= UINTDEQUE_BLOCK_SIZE BY <1>1, BlockListAssumption DEF Size
<1>3. QED BY <1>1, <1>2, Centred DEF Filled

(* The two halves of a list, which together are the list. *)
LEMMA HalvesOfList ==
  ASSUME NEW T, NEW s \in Seq(T), NEW k \in 0 .. Len(s)
  PROVE  /\ SubSeq(s, 1, k) \in Seq(T) /\ Len(SubSeq(s, 1, k)) = k
         /\ SubSeq(s, k + 1, Len(s)) \in Seq(T)
         /\ Len(SubSeq(s, k + 1, Len(s))) = Len(s) - k
         /\ SubSeq(s, 1, k) \o SubSeq(s, k + 1, Len(s)) = s
<1> DEFINE a == SubSeq(s, 1, k)
           b == SubSeq(s, k + 1, Len(s))
           c == a \o b
<1>1. Len(s) \in Nat /\ \A j \in 1 .. Len(s) : s[j] \in T BY ElementOfSeq
<1>2. /\ a \in Seq(T) /\ Len(a) = k /\ \A j \in 1 .. k : a[j] = s[j]
  <2>1. \A j \in 1 .. k : s[j] \in T BY <1>1
  <2>2. QED BY <1>1, <2>1, SubSeqProperties
<1>3. /\ b \in Seq(T) /\ Len(b) = Len(s) - k
      /\ \A j \in 1 .. Len(s) - k : b[j] = s[k + j]
  <2>1. \A j \in k + 1 .. Len(s) : s[j] \in T BY <1>1
  <2>2. QED BY <1>1, <2>1, SubSeqProperties
<1> HIDE DEF a, b
<1>4. /\ c \in Seq(T) /\ Len(c) = Len(a) + Len(b)
      /\ \A j \in 1 .. Len(a) + Len(b) : c[j] = IF j <= Len(a) THEN a[j] ELSE b[j - Len(a)]
  BY <1>2, <1>3, ConcatProperties
<1> HIDE DEF c
<1>5. Len(c) = Len(s) BY <1>1, <1>2, <1>3, <1>4
<1>6. ASSUME NEW j \in 1 .. Len(c) PROVE c[j] = s[j]
  <2>1. CASE j <= k BY <1>1, <1>2, <1>3, <1>4, <1>5, <2>1
  <2>2. CASE j > k
    <3>1. c[j] = b[j - k] BY <1>1, <1>2, <1>3, <1>4, <1>5, <2>2
    <3>2. j - k \in 1 .. Len(s) - k /\ k + (j - k) = j BY <1>1, <1>5, <2>2
    <3>3. QED BY <1>3, <3>1, <3>2
  <2>3. QED BY <2>1, <2>2
<1>7. c = s BY <1>4, <1>5, <1>6, SeqEqual
<1>8. QED BY <1>2, <1>3, <1>7 DEF a, b, c

LEMMA SplitKeepsElements ==
  ASSUME NEW chain \in Seq(Filled), NEW b \in 1 .. Len(chain),
         NEW new \in split_block(chain, b)
  PROVE  new \in Seq(Filled) /\ Flat(new) = Flat(chain)
<1> DEFINE blk == chain[b]
           mid == Size(blk) \div 2
           low == [blk EXCEPT !.items = SubSeq(@, 1, mid)]
           top == [start |-> Middle(Size(blk) - mid),
                   items |-> SubSeq(blk.items, mid + 1, Size(blk))]
           x == center_block(low)
           y == center_block(top)
           cut == ReplaceAt(InsertAt(chain, b + 1, y), b, x)
<1>1. new = chain \/ (Size(blk) >= UINTDEQUE_BLOCK_SIZE /\ new = cut)
  <2>1. Size(blk) \in Nat /\ UINTDEQUE_BLOCK_SIZE \in Nat
    <3>1. blk \in Filled BY ElementOfSeq
    <3>2. QED BY <3>1, BlockListAssumption DEF Filled, Fitting, Block, Size
  <2>2. CASE Size(blk) < UINTDEQUE_BLOCK_SIZE
    <3>1. new = chain BY <2>2 DEF split_block
    <3>2. QED BY <3>1
  <2>3. CASE ~(Size(blk) < UINTDEQUE_BLOCK_SIZE)
    <3>1. new \in {cut} \cup (IF AllocFails THEN {chain} ELSE {}) BY <2>3 DEF split_block
    <3> HIDE DEF cut
    <3>2. new = cut \/ new = chain BY <3>1
    <3>3. QED BY <2>1, <2>3, <3>2
  <2>4. QED BY <2>2, <2>3
<1>2. CASE new = chain BY <1>2
<1>3. CASE Size(blk) >= UINTDEQUE_BLOCK_SIZE /\ new = cut
  <2>1. blk \in Filled BY ElementOfSeq
  <2>2. /\ blk \in Block /\ blk.items \in Seq(Values) /\ blk.start \in Nat
        /\ Size(blk) = Len(blk.items) /\ Size(blk) \in Nat
        /\ blk.start + Size(blk) <= UINTDEQUE_BLOCK_SIZE
    BY <2>1 DEF Filled, Fitting, Block, Size
  <2>3. UINTDEQUE_BLOCK_SIZE \in Nat /\ UINTDEQUE_BLOCK_SIZE >= 2 BY BlockListAssumption
  <2>4. mid \in Nat /\ mid >= 1 /\ mid < Size(blk) /\ mid \in 0 .. Len(blk.items)
    <3>1. mid \in Nat /\ 2 * mid \in {Size(blk), Size(blk) - 1} BY <2>2, Halves
    <3>2. Size(blk) >= 2 BY <1>3, <2>2, <2>3
    <3> HIDE DEF mid, blk
    <3>3. QED BY <2>2, <3>1, <3>2
  <2> DEFINE lo == SubSeq(blk.items, 1, mid)
             hi == SubSeq(blk.items, mid + 1, Size(blk))
  <2> HIDE DEF mid
  <2>5. /\ lo \in Seq(Values) /\ Len(lo) = mid
        /\ hi \in Seq(Values) /\ Len(hi) = Size(blk) - mid /\ lo \o hi = blk.items
    BY <2>2, <2>4, HalvesOfList
  <2> HIDE DEF lo, hi
  <2>6. low = [start |-> blk.start, items |-> lo]
    <3>1. low = [blk EXCEPT !.items = lo] BY DEF lo
    <3> HIDE DEF blk, low
    <3>2. QED BY <2>2, <3>1, WithItems
  <2>7. top = [start |-> Middle(Size(blk) - mid), items |-> hi] BY DEF hi
  <2> HIDE DEF low, top
  <2>8. low \in Filled /\ low.items = lo
    <3> HIDE DEF blk
    <3>1. low.start = blk.start /\ low.items = lo /\ low \in Block
      BY <2>2, <2>5, <2>6 DEF Block
    <3>2. Len(lo) > 0 /\ blk.start + Len(lo) <= UINTDEQUE_BLOCK_SIZE
      BY <2>2, <2>3, <2>4, <2>5
    <3>3. QED BY <3>1, <3>2 DEF Filled, Fitting
  <2>9. top \in Filled /\ top.items = hi
    <3>1. /\ Middle(Size(blk) - mid) \in Nat
          /\ Middle(Size(blk) - mid) + (Size(blk) - mid) <= UINTDEQUE_BLOCK_SIZE
      <4>1. Size(blk) - mid \in Nat /\ UINTDEQUE_BLOCK_SIZE - (Size(blk) - mid) \in Nat
        <5> DEFINE size == Size(blk)
        <5>1. /\ size \in Nat /\ size <= UINTDEQUE_BLOCK_SIZE
              /\ UINTDEQUE_BLOCK_SIZE \in Nat /\ mid \in Nat /\ mid < size
          BY <2>2, <2>3, <2>4
        <5> HIDE DEF size
        <5>2. QED BY <5>1 DEF size
      <4>2. QED BY <2>3, <4>1, Halves DEF Middle
    <3> DEFINE at == Middle(Size(blk) - mid)
    <3>2. at \in Nat /\ at + Len(hi) <= UINTDEQUE_BLOCK_SIZE /\ Len(hi) > 0
      BY <2>2, <2>4, <2>5, <3>1
    <3>3. top = [start |-> at, items |-> hi] BY <2>7
    <3> HIDE DEF at
    <3>4. top.start = at /\ top.items = hi /\ top \in Block BY <2>5, <3>2, <3>3 DEF Block
    <3>5. QED BY <3>2, <3>4 DEF Filled, Fitting
  <2>10. x \in Filled /\ x.items = lo /\ y \in Filled /\ y.items = hi
    BY <2>8, <2>9, CentredFilled
  <2> HIDE DEF x, y
  <2> DEFINE p == Before(chain, b)
             q == After(chain, b)
             w == Two(x, y)
  <2>11. cut \in Seq(Filled) /\ cut = Joined(p, w, q) BY <2>10, Divided
  <2>12. Flat(chain) = Joined(Flat(p), blk.items, Flat(q))
    <3>1. chain \in Seq(Block) BY FilledAreBlocks
    <3>2. QED BY <2>2, <3>1, BlockChanged
  <2>13. p \in Seq(Block) /\ q \in Seq(Block)
    <3>1. chain \in Seq(Block) BY FilledAreBlocks
    <3>2. QED BY <3>1, BeforeAndAfter
  <2>14. w \in Seq(Block) /\ Flat(w) = lo \o hi
    <3>1. x \in Block /\ y \in Block BY <2>10 DEF Filled, Fitting
    <3>2. QED BY <2>10, <3>1, TwoProperties, FlatOfTwo
  <2> HIDE DEF cut, p, q, w
  <2>15. Flat(Joined(p, w, q)) = Joined(Flat(p), Flat(w), Flat(q))
    BY <2>13, <2>14, FlatJoined
  <2>16. Flat(cut) = Flat(chain) BY <2>5, <2>11, <2>12, <2>14, <2>15
  <2>17. QED BY <1>3, <2>11, <2>16
<1>4. QED BY <1>1, <1>2, <1>3

LEMMA MergeKeepsElements ==
  ASSUME NEW chain \in Seq(Filled), NEW b \in Int
  PROVE  /\ merge_block(chain, b) \in Seq(Filled)
         /\ Flat(merge_block(chain, b)) = Flat(chain)
<1> DEFINE room == /\ {b, b + 1} \subseteq DOMAIN chain
                   /\ Size(chain[b]) + Size(chain[b + 1]) <= UINTDEQUE_BLOCK_SIZE
           c == chain[b]
           d == chain[b + 1]
           both == [start |-> 0, items |-> c.items \o d.items]
           y == center_block(both)
           new == MergedInto(chain, b, y)
<1>1. CASE ~room BY <1>1 DEF merge_block
<1>2. CASE room
  <2>1. merge_block(chain, b) = new BY <1>2 DEF merge_block, MergedInto
  <2>2. DOMAIN chain = 1 .. Len(chain) /\ Len(chain) \in Nat OBVIOUS
  <2>3. b \in 1 .. Len(chain) /\ b + 1 \in 1 .. Len(chain) /\ b \in 1 .. Len(chain) - 1
    BY <1>2, <2>2
  <2>4. c \in Filled /\ d \in Filled BY <2>3, ElementOfSeq
  <2>5. /\ c \in Block /\ d \in Block /\ c.items \in Seq(Values) /\ d.items \in Seq(Values)
        /\ Len(c.items) > 0 /\ Len(c.items) \in Nat /\ Len(d.items) \in Nat
    BY <2>4, SMTT(30) DEF Filled, Fitting, Block
  <2>6. Len(c.items) + Len(d.items) <= UINTDEQUE_BLOCK_SIZE BY <1>2 DEF Size
  <2> HIDE DEF c, d
  <2>7. /\ both \in Block /\ both.start = 0 /\ both.items = c.items \o d.items
        /\ Len(both.items) = Len(c.items) + Len(d.items)
    <3>1. /\ c.items \o d.items \in Seq(Values)
          /\ Len(c.items \o d.items) = Len(c.items) + Len(d.items)
      BY <2>5, ConcatProperties
    <3>2. QED BY <3>1 DEF Block
  <2> HIDE DEF both
  <2>0. Len(both.items) > 0
    <3> DEFINE m == Len(c.items)
               n == Len(d.items)
    <3>1. m > 0 /\ m \in Nat /\ n \in Nat BY <2>5
    <3>2. Len(both.items) = m + n BY <2>7
    <3> HIDE DEF m, n
    <3>3. QED BY <3>1, <3>2
  <2>8. y \in Fitting /\ y.items = both.items BY <2>6, <2>7, Centred DEF Size
  <2>9. y \in Filled
    <3>1. Len(y.items) > 0 BY <2>0, <2>8
    <3>2. QED BY <2>8, <3>1 DEF Filled
  <2> HIDE DEF y
  <2> DEFINE p == Before(chain, b)
             q == After(chain, b + 1)
             w == Two(c, d)
             o == One(y)
  <2>10. new \in Seq(Filled) /\ new = Joined(p, o, q) /\ chain = Joined(p, w, q)
    <3>1. ASSUME NEW z \in Filled
          PROVE  /\ MergedInto(chain, b, z) \in Seq(Filled)
                 /\ MergedInto(chain, b, z) = Joined(p, One(z), q)
                 /\ chain = Joined(p, Two(chain[b], chain[b + 1]), q)
      BY <2>3, Merged
    <3> HIDE DEF p, q
    <3>2. QED BY <2>9, <3>1 DEF c, d
  <2>11. p \in Seq(Block) /\ q \in Seq(Block)
    <3>1. chain \in Seq(Block) BY FilledAreBlocks
    <3>2. QED BY <2>3, <3>1, BeforeAndAfter
  <2>12. w \in Seq(Block) /\ Flat(w) = c.items \o d.items BY <2>5, TwoProperties, FlatOfTwo
  <2>13. o \in Seq(Block) /\ Flat(o) = y.items
    <3>1. y \in Block BY <2>9 DEF Filled, Fitting
    <3>2. o \in Seq(Block) BY <3>1, OneProperties
    <3>3. Flat(o) = y.items BY <3>1, FlatOfOne DEF One
    <3>4. QED BY <3>2, <3>3
  <2> HIDE DEF new, p, q, w, o
  <2>14. Flat(Joined(p, w, q)) = Joined(Flat(p), Flat(w), Flat(q))
    BY <2>11, <2>12, FlatJoined
  <2>15. Flat(Joined(p, o, q)) = Joined(Flat(p), Flat(o), Flat(q))
    BY <2>11, <2>13, FlatJoined
  <2>16. Flat(new) = Flat(chain) BY <2>7, <2>8, <2>10, <2>12, <2>13, <2>14, <2>15
  <2>17. QED BY <2>1, <2>10, <2>16
<1>3. QED BY <1>1, <1>2

LEMMA TidyingKeepsElements ==
  ASSUME NEW chain \in Seq(Filled), NEW b \in 1 .. Len(chain), NEW y \in Fitting,
         NEW from \in Int, NEW c, c = Put(chain, b, y)
  PROVE  Tidied(c, b, from) \in Seq(Filled) /\ Flat(Tidied(c, b, from)) = Flat(c)
<1>1. chain \in Seq(Block) /\ y \in Block /\ Len(chain) \in Nat BY FilledAreBlocks
<1>2. c \in Seq(Block) /\ Len(c) = Len(chain) /\ c[b] = y
  <2>1. /\ c \in Seq(Block) /\ Len(c) = Len(chain)
        /\ \A i \in 1 .. Len(chain) : c[i] = IF i = b THEN y ELSE chain[i]
    BY <1>1, ExceptSeq DEF Put
  <2>2. QED BY <2>1
<1>3. CASE Size(y) = 0
  <2>1. y.items = <<>>
    <3>1. y.items \in Seq(Values) BY <1>1 DEF Block
    <3>2. QED BY <1>3, <3>1, EmptySeq DEF Size
  <2>2. Tidied(c, b, from) = RemoveAt(c, b) BY <1>2, <1>3 DEF Tidied
  <2> DEFINE s == RemoveAt(c, b)
             t == RemoveAt(chain, b)
             p == Before(chain, b)
             q == After(chain, b)
  <2>3. /\ s \in Seq(Block) /\ Len(s) = Len(chain) - 1
        /\ \A j \in 1 .. Len(chain) - 1 : s[j] = IF j < b THEN c[j] ELSE c[j + 1]
    <3>1. c \in Seq(Block) /\ b \in 1 .. Len(c) BY <1>2
    <3>2. s \in Seq(Block) /\ IsRemoved(s, c, b) BY ONLY <3>1, RemovedIs
    <3> HIDE DEF s
    <3>3. QED BY <1>2, <3>2 DEF IsRemoved
  <2>4. /\ t \in Seq(Filled) /\ Len(t) = Len(chain) - 1
        /\ \A j \in 1 .. Len(chain) - 1 : t[j] = IF j < b THEN chain[j] ELSE chain[j + 1]
    BY RemoveAtProperties
  <2>5. t = p \o q BY DEF RemoveAt, Before, After
  <2>6. p \in Seq(Block) /\ q \in Seq(Block) BY <1>1, BeforeAndAfter
  <2>7. /\ Flat(p) \in Seq(Values) /\ Flat(q) \in Seq(Values)
        /\ Flat(c) = Joined(Flat(p), <<>>, Flat(q))
    BY <1>1, <2>1, BlockChanged
  <2>8. \A j \in 1 .. Len(chain) : j # b => c[j] = chain[j] BY <1>1 DEF Put
  <2> HIDE DEF s, t, p, q
  <2>9. s = t
    <3>1. ASSUME NEW j \in 1 .. Len(s) PROVE s[j] = t[j]
      <4>1. j \in 1 .. Len(chain) - 1 /\ j \in 1 .. Len(chain) /\ j + 1 \in 1 .. Len(chain)
        BY <1>1, <2>3
      <4>2. CASE j < b
        <5>1. s[j] = c[j] /\ t[j] = chain[j] /\ j # b BY <2>3, <2>4, <4>1, <4>2
        <5>2. QED BY <2>8, <4>1, <5>1
      <4>3. CASE ~(j < b)
        <5>1. s[j] = c[j + 1] /\ t[j] = chain[j + 1] /\ j + 1 # b
          BY <2>3, <2>4, <4>1, <4>3
        <5>2. QED BY <2>8, <4>1, <5>1
      <4>4. QED BY <4>2, <4>3
    <3>2. t \in Seq(Block) BY <2>4, FilledAreBlocks
    <3>3. QED BY <2>3, <2>4, <3>1, <3>2, SeqEqual
  <2>10. Flat(p \o q) = Flat(p) \o Flat(q) BY <2>6, FlatConcat
  <2>11. Joined(Flat(p), <<>>, Flat(q)) = Flat(p) \o Flat(q)
    <3>1. Flat(p) \o <<>> = Flat(p) BY <2>7, ConcatEmptySeq
    <3>2. QED BY <3>1 DEF Joined
  <2>12. Flat(t) = Flat(c) BY <2>5, <2>7, <2>10, <2>11
  <2>13. QED BY <2>2, <2>4, <2>9, <2>12 DEF s
<1>4. CASE Size(y) # 0
  <2>1. y \in Filled
    <3>1. Len(y.items) \in Nat BY <1>1 DEF Block
    <3>2. QED BY <1>4, <3>1 DEF Filled, Size
  <2>2. c \in Seq(Filled) BY <2>1, Replaced DEF Put
  <2>3. Tidied(c, b, from) = c \/ Tidied(c, b, from) = merge_block(c, from)
    BY <1>2, <1>4 DEF Tidied
  <2>4. QED BY <2>2, <2>3, MergeKeepsElements
<1>5. QED BY <1>3, <1>4

-----------------------------------------------------------------------------
(* The invariant *)

IInv == blocks \in Seq(Filled) /\ num = Len(Flat(blocks))

(* What a list of blocks says of its elements. *)
LEMMA Chained ==
  ASSUME IInv
  PROVE  /\ blocks \in Seq(Block) /\ Flat(blocks) \in Seq(Values)
         /\ num \in Nat /\ num = Len(Flat(blocks)) /\ Len(blocks) \in Nat
         /\ num > 0 => blocks # <<>> /\ Len(blocks) > 0
         /\ \A b \in 1 .. Len(blocks) :
              /\ blocks[b] \in Filled /\ blocks[b] \in Block
              /\ Size(blocks[b]) \in Nat \ {0} /\ blocks[b].start \in Nat
              /\ blocks[b].items \in Seq(Values) /\ Size(blocks[b]) = Len(blocks[b].items)
              /\ blocks[b].start + Size(blocks[b]) <= UINTDEQUE_BLOCK_SIZE
<1>1. blocks \in Seq(Filled) /\ num = Len(Flat(blocks)) BY DEF IInv
<1>2. blocks \in Seq(Block) BY <1>1, FilledAreBlocks
<1>3. Flat(blocks) \in Seq(Values) BY <1>2, FlatTyped
<1>4. Len(blocks) \in Nat /\ num \in Nat BY <1>1, <1>2, <1>3
<1>5. ASSUME num > 0 PROVE blocks # <<>> /\ Len(blocks) > 0
  <2>1. blocks # <<>>
    <3>1. Len(<<>>) = 0 OBVIOUS
    <3>2. ASSUME blocks = <<>> PROVE FALSE
      <4>1. num = 0 BY <1>1, <3>1, <3>2, FlatOfEmpty
      <4>2. QED BY <1>5, <4>1
    <3>3. QED BY <3>2
  <2>2. QED BY <1>2, <1>4, <2>1, EmptySeq
<1>6. ASSUME NEW b \in 1 .. Len(blocks)
      PROVE  /\ blocks[b] \in Filled /\ blocks[b] \in Block
             /\ Size(blocks[b]) \in Nat \ {0} /\ blocks[b].start \in Nat
             /\ blocks[b].items \in Seq(Values) /\ Size(blocks[b]) = Len(blocks[b].items)
             /\ blocks[b].start + Size(blocks[b]) <= UINTDEQUE_BLOCK_SIZE
  <2>1. blocks[b] \in Filled BY <1>1, ElementOfSeq
  <2>2. QED BY <2>1 DEF Filled, Fitting, Block, Size
<1>7. QED BY <1>1, <1>2, <1>3, <1>4, <1>5, <1>6

LEMMA AllFilled ==
  ASSUME NEW s \in Seq(Block), \A i \in 1 .. Len(s) : s[i] \in Filled
  PROVE  s \in Seq(Filled)
<1>1. Len(s) \in Nat /\ s = [i \in 1 .. Len(s) |-> s[i]] OBVIOUS
<1> DEFINE t == [i \in 1 .. Len(s) |-> s[i]]
<1>2. t \in Seq(Filled) BY <1>1, IsASeq
<1>3. QED BY <1>1, <1>2

(* A block takes an element more. *)
LEMMA GrownByOne ==
  ASSUME NEW chain \in Seq(Fitting), NEW b \in 1 .. Len(chain),
         \A i \in 1 .. Len(chain) : i # b => chain[i] \in Filled,
         NEW y \in Filled, NEW o \in 1 .. Size(chain[b]) + 1, NEW v \in Values,
         y.items = InsertAt(chain[b].items, o, v),
         NEW new, new = Put(chain, b, y)
  PROVE  /\ new \in Seq(Filled)
         /\ Offset(chain, b) + o \in 1 .. Len(Flat(chain)) + 1
         /\ Flat(new) = InsertAt(Flat(chain), Offset(chain, b) + o, v)
         /\ Len(Flat(new)) = Len(Flat(chain)) + 1
<1>1. chain \in Seq(Block) /\ y \in Block BY FilledAreBlocks
<1>2. new \in Seq(Filled)
  <2>1. /\ new \in Seq(Block) /\ Len(new) = Len(chain)
        /\ \A i \in 1 .. Len(chain) : new[i] = IF i = b THEN y ELSE chain[i]
    BY <1>1, ExceptSeq DEF Put
  <2>2. \A i \in 1 .. Len(new) : new[i] \in Filled BY <2>1
  <2>3. QED BY <2>1, <2>2, AllFilled
<1>3. QED BY <1>1, <1>2, InsertedInBlock

(* A block gives up an element. *)
WithoutOne(new, chain, k) ==
  /\ new \in Seq(Filled) /\ k \in 1 .. Len(Flat(chain))
  /\ Flat(new) = RemoveAt(Flat(chain), k) /\ Len(Flat(new)) = Len(Flat(chain)) - 1

LEMMA ShrunkByOne ==
  ASSUME NEW chain \in Seq(Filled), NEW b \in 1 .. Len(chain), NEW y \in Fitting,
         NEW o \in 1 .. Size(chain[b]), y.items = RemoveAt(chain[b].items, o),
         NEW from \in Int
  PROVE  WithoutOne(Tidied(Put(chain, b, y), b, from), chain, Offset(chain, b) + o)
<1> DEFINE c == Put(chain, b, y)
           new == Tidied(c, b, from)
<1>1. new \in Seq(Filled) /\ Flat(new) = Flat(c) BY TidyingKeepsElements
<1>2. chain \in Seq(Block) /\ y \in Block BY FilledAreBlocks
<1>3. /\ Offset(chain, b) + o \in 1 .. Len(Flat(chain))
      /\ Flat(c) = RemoveAt(Flat(chain), Offset(chain, b) + o)
      /\ Len(Flat(c)) = Len(Flat(chain)) - 1
  BY <1>2, RemovedFromBlock
<1> HIDE DEF c, new
<1>4. WithoutOne(new, chain, Offset(chain, b) + o) BY <1>1, <1>3 DEF WithoutOne
<1>5. QED BY <1>4 DEF c, new

LEMMA NewBlockProperties == NewBlock \in Fitting /\ NewBlock.items = <<>> /\ NewBlock.start >= 1
                            /\ NewBlock.start + 1 <= UINTDEQUE_BLOCK_SIZE
<1> DEFINE h == UINTDEQUE_BLOCK_SIZE \div 2
<1>1. UINTDEQUE_BLOCK_SIZE \in Nat /\ UINTDEQUE_BLOCK_SIZE >= 2 BY BlockListAssumption
<1>2. h \in Nat /\ h >= 1 /\ h + 1 <= UINTDEQUE_BLOCK_SIZE
  <2>1. h \in Nat /\ 2 * h \in {UINTDEQUE_BLOCK_SIZE, UINTDEQUE_BLOCK_SIZE - 1} BY <1>1, Halves
  <2> HIDE DEF h
  <2>2. QED BY <1>1, <2>1
<1>3. NewBlock = [start |-> h, items |-> <<>>] BY DEF NewBlock
<1> HIDE DEF h
<1>4. <<>> \in Seq(Values) /\ Len(<<>>) = 0 OBVIOUS
<1>5. QED BY <1>1, <1>2, <1>3, <1>4 DEF Fitting, Block

LEMMA PushedLeft ==
  ASSUME IInv, NEW v \in Values, list_lpush(v)
  PROVE  IInv' /\ Flat(blocks)' = InsertAt(Flat(blocks), 1, v) /\ 1 \in 1 .. Len(Flat(blocks)) + 1
<1> DEFINE fresh == blocks = <<>> \/ block_left_space(Head(blocks)) = 0
           chain == IF fresh THEN <<NewBlock>> \o blocks ELSE blocks
           y == [start |-> chain[1].start - 1, items |-> <<v>> \o chain[1].items]
<1>1. blocks' = [chain EXCEPT ![1] = y] /\ num' = num + 1 BY DEF list_lpush
<1>2. /\ blocks \in Seq(Filled) /\ blocks \in Seq(Block) /\ Flat(blocks) \in Seq(Values)
      /\ num \in Nat /\ num = Len(Flat(blocks)) /\ Len(blocks) \in Nat
  BY Chained DEF IInv
<1>3. /\ chain \in Seq(Fitting) /\ Len(chain) \in Nat \ {0} /\ Flat(chain) = Flat(blocks)
      /\ \A i \in 1 .. Len(chain) : i # 1 => chain[i] \in Filled
      /\ chain[1] \in Fitting /\ chain[1].start >= 1
  <2>1. CASE fresh
    <3> DEFINE n == One(NewBlock)
               c == n \o blocks
    <3>1. chain = c BY <2>1 DEF One
    <3>2. n \in Seq(Fitting) /\ Len(n) = 1 /\ n[1] = NewBlock
      BY NewBlockProperties, OneProperties
    <3>3. n \in Seq(Block) /\ Flat(n) = <<>>
      <4>1. NewBlock \in Block BY NewBlockProperties, FilledAreBlocks
      <4>2. QED BY <4>1, FlatOfOne, OneProperties, NewBlockProperties DEF One
    <3> HIDE DEF n
    <3>4. Flat(c) = Flat(n) \o Flat(blocks) BY <1>2, <3>3, FlatConcat
    <3>5. Flat(c) = Flat(blocks) BY <1>2, <3>3, <3>4, ConcatEmptySeq
    <3>6. blocks \in Seq(Fitting) BY <1>2, FilledAreBlocks
    <3>7. /\ c \in Seq(Fitting) /\ Len(c) = Len(n) + Len(blocks)
          /\ \A i \in 1 .. Len(n) + Len(blocks) :
               c[i] = IF i <= Len(n) THEN n[i] ELSE blocks[i - Len(n)]
      <4>1. n \in Seq(Fitting) /\ blocks \in Seq(Fitting) BY <3>2, <3>6
      <4>2. QED BY ONLY <4>1, ConcatProperties
    <3> HIDE DEF c, chain
    <3>8. c[1] = NewBlock BY <1>2, <3>2, <3>7
    <3>9. ASSUME NEW i \in 1 .. Len(c), i # 1 PROVE c[i] \in Filled
      <4>1. c[i] = blocks[i - 1] /\ i - 1 \in 1 .. Len(blocks)
        BY <1>2, <3>2, <3>7, <3>9
      <4>2. QED BY <1>2, <4>1, ElementOfSeq
    <3>10. Len(c) \in Nat \ {0} BY <1>2, <3>2, <3>7
    <3>11. QED BY <3>1, <3>5, <3>7, <3>8, <3>9, <3>10, NewBlockProperties
  <2>2. CASE ~fresh
    <3>1. chain = blocks BY <2>2
    <3>2. Len(blocks) > 0 /\ Head(blocks) = blocks[1] BY <1>2, <2>2, EmptySeq
    <3>3. \A i \in 1 .. Len(blocks) : blocks[i] \in Filled BY <1>2, ElementOfSeq
    <3>4. blocks[1] \in Filled /\ blocks[1].start # 0
      BY <1>2, <2>2, <3>2, <3>3 DEF block_left_space
    <3>5. blocks[1] \in Fitting /\ blocks[1].start >= 1 BY <3>4 DEF Filled, Fitting, Block
    <3>6. blocks \in Seq(Fitting) BY <1>2, FilledAreBlocks
    <3> HIDE DEF chain
    <3>7. QED BY <1>2, <3>1, <3>2, <3>3, <3>5, <3>6
  <2>3. QED BY <2>1, <2>2
<1> HIDE DEF fresh, chain
<1> DEFINE x == chain[1]
<1>4. /\ x.start \in Nat \ {0} /\ x.items \in Seq(Values) /\ Len(x.items) \in Nat
      /\ x.start + Len(x.items) <= UINTDEQUE_BLOCK_SIZE
  BY <1>3 DEF Fitting, Block
<1>5. y.items = InsertAt(x.items, 1, v) /\ y.start = x.start - 1 BY <1>4, AtTheEnds
<1>6. y.items \in Seq(Values) /\ Len(y.items) = Len(x.items) + 1
  <2>1. 1 \in 1 .. Len(x.items) + 1 BY <1>4
  <2>2. /\ InsertAt(x.items, 1, v) \in Seq(Values)
        /\ Len(InsertAt(x.items, 1, v)) = Len(x.items) + 1
    BY <1>4, <2>1, InsertAtProperties
  <2>3. QED BY <1>5, <2>2
<1>7. y = [start |-> y.start, items |-> y.items] OBVIOUS
<1> HIDE DEF y
<1>8. y \in Filled BY <1>4, <1>5, <1>6, <1>7, BlockListAssumption, SMTT(30) DEF Filled, Fitting, Block
<1>9. /\ blocks' \in Seq(Filled)
      /\ Offset(chain, 1) + 1 \in 1 .. Len(Flat(chain)) + 1
      /\ Flat(blocks') = InsertAt(Flat(chain), Offset(chain, 1) + 1, v)
      /\ Len(Flat(blocks')) = Len(Flat(chain)) + 1
  <2>1. 1 \in 1 .. Len(chain) /\ 1 \in 1 .. Size(chain[1]) + 1 BY <1>3, <1>4 DEF Size
  <2>2. y.items = InsertAt(chain[1].items, 1, v) BY <1>5
  <2>3. blocks' = Put(chain, 1, y) BY <1>1 DEF Put
  <2>4. QED BY <1>3, <1>8, <2>1, <2>2, <2>3, GrownByOne
<1>10. Offset(chain, 1) + 1 = 1
  <2>1. chain \in Seq(Block) BY <1>3, FilledAreBlocks
  <2>2. Offset(chain, 1) = 0 BY <2>1, OffsetProperties
  <2>3. QED BY <2>2
<1>11. QED BY <1>1, <1>2, <1>3, <1>9, <1>10 DEF IInv

LEMMA PushedRight ==
  ASSUME IInv, NEW v \in Values, list_rpush(v)
  PROVE  /\ IInv' /\ Flat(blocks)' = InsertAt(Flat(blocks), Len(Flat(blocks)) + 1, v)
         /\ Len(Flat(blocks)) + 1 \in 1 .. Len(Flat(blocks)) + 1
<1> DEFINE fresh == blocks = <<>> \/ block_right_space(Last(blocks)) = 0
           chain == IF fresh THEN Append(blocks, NewBlock) ELSE blocks
           n == Len(chain)
           x == chain[n]
           y == [x EXCEPT !.items = Append(x.items, v)]
<1>1. blocks' = Put(chain, n, y) /\ num' = num + 1 BY DEF list_rpush, Put
<1>2. /\ blocks \in Seq(Filled) /\ blocks \in Seq(Block) /\ Flat(blocks) \in Seq(Values)
      /\ num \in Nat /\ num = Len(Flat(blocks)) /\ Len(blocks) \in Nat
  BY Chained DEF IInv
<1>3. /\ chain \in Seq(Fitting) /\ n \in Nat \ {0} /\ Flat(chain) = Flat(blocks)
      /\ \A i \in 1 .. n : i # n => chain[i] \in Filled
      /\ x \in Fitting /\ x.start + Len(x.items) + 1 <= UINTDEQUE_BLOCK_SIZE
  <2>1. CASE fresh
    <3> DEFINE c == Append(blocks, NewBlock)
    <3>1. chain = c BY <2>1
    <3>2. NewBlock \in Block BY NewBlockProperties, FilledAreBlocks
    <3>3. Flat(c) = Flat(blocks) \o NewBlock.items BY <1>2, <3>2, FlatOfAppend
    <3>4. Flat(c) = Flat(blocks) BY <1>2, <3>3, NewBlockProperties, ConcatEmptySeq
    <3>5. blocks \in Seq(Fitting) BY <1>2, FilledAreBlocks
    <3>6. /\ c \in Seq(Fitting) /\ Len(c) = Len(blocks) + 1 /\ c[Len(blocks) + 1] = NewBlock
          /\ \A i \in 1 .. Len(blocks) : c[i] = blocks[i]
      BY <3>5, NewBlockProperties, AppendProperties
    <3> HIDE DEF c, chain
    <3>7. ASSUME NEW i \in 1 .. Len(c), i # Len(c) PROVE c[i] \in Filled
      <4>1. c[i] = blocks[i] /\ i \in 1 .. Len(blocks) BY <1>2, <3>6, <3>7
      <4>2. QED BY <1>2, <4>1, ElementOfSeq
    <3>8. NewBlock.start + Len(NewBlock.items) + 1 <= UINTDEQUE_BLOCK_SIZE
      <4>1. Len(<<>>) = 0 /\ NewBlock.start \in Nat BY NewBlockProperties DEF Fitting, Block
      <4>2. QED BY <4>1, NewBlockProperties
    <3>9. c[Len(c)] = NewBlock /\ Len(c) \in Nat \ {0} BY <1>2, <3>6
    <3>10. QED BY <3>1, <3>4, <3>6, <3>7, <3>8, <3>9, NewBlockProperties
  <2>2. CASE ~fresh
    <3>1. chain = blocks BY <2>2
    <3>2. Len(blocks) > 0 /\ Last(blocks) = blocks[Len(blocks)]
      BY <1>2, <2>2, EmptySeq DEF Last
    <3>3. \A i \in 1 .. Len(blocks) : blocks[i] \in Filled BY <1>2, ElementOfSeq
    <3>4. blocks[Len(blocks)] \in Filled /\ block_right_space(blocks[Len(blocks)]) # 0
      BY <1>2, <2>2, <3>2, <3>3
    <3> DEFINE z == blocks[Len(blocks)]
    <3>5. z \in Fitting /\ z.start + Len(z.items) + 1 <= UINTDEQUE_BLOCK_SIZE
      <4> HIDE DEF z
      <4>1. /\ z \in Fitting /\ z.start \in Nat /\ Len(z.items) \in Nat
            /\ z.start + Len(z.items) <= UINTDEQUE_BLOCK_SIZE
        BY <3>4 DEF Filled, Fitting, Block, z
      <4>2. UINTDEQUE_BLOCK_SIZE - (z.start + Len(z.items)) # 0
        BY <3>4 DEF block_right_space, Size, z
      <4>3. QED BY <4>1, <4>2, BlockListAssumption
    <3>6. blocks \in Seq(Fitting) BY <1>2, FilledAreBlocks
    <3> HIDE DEF chain
    <3>7. QED BY <1>2, <3>1, <3>2, <3>3, <3>5, <3>6
  <2>3. QED BY <2>1, <2>2
<1> HIDE DEF fresh, chain, n, x
<1>4. /\ x.start \in Nat /\ x.items \in Seq(Values) /\ Len(x.items) \in Nat /\ x \in Block
      /\ x.start + Len(x.items) + 1 <= UINTDEQUE_BLOCK_SIZE
  BY <1>3 DEF Fitting, Block
<1>5. y = [start |-> x.start, items |-> Append(x.items, v)] BY <1>4, WithItems
<1> HIDE DEF y
<1>6. y.items = InsertAt(x.items, Len(x.items) + 1, v) /\ y.start = x.start
  BY <1>4, <1>5, AtTheEnds
<1>7. y.items \in Seq(Values) /\ Len(y.items) = Len(x.items) + 1 BY <1>4, <1>5
<1>8. y \in Filled
  <2>1. y \in Block /\ y.start + Len(y.items) <= UINTDEQUE_BLOCK_SIZE /\ Len(y.items) > 0
    BY <1>4, <1>5, <1>6, <1>7 DEF Block
  <2>2. QED BY <2>1 DEF Filled, Fitting
<1> DEFINE o == Len(x.items) + 1
<1>9. /\ blocks' \in Seq(Filled)
      /\ Offset(chain, n) + o \in 1 .. Len(Flat(chain)) + 1
      /\ Flat(blocks') = InsertAt(Flat(chain), Offset(chain, n) + o, v)
      /\ Len(Flat(blocks')) = Len(Flat(chain)) + 1
  <2>1. n \in 1 .. Len(chain) /\ o \in 1 .. Size(chain[n]) + 1
    BY <1>3, <1>4 DEF Size, n, x
  <2>2. y.items = InsertAt(chain[n].items, o, v) BY <1>6 DEF x
  <2>3. chain \in Seq(Fitting) /\ \A i \in 1 .. Len(chain) : i # n => chain[i] \in Filled
    BY <1>3 DEF n
  <2> HIDE DEF o
  <2>4. QED BY <1>1, <1>8, <2>1, <2>2, <2>3, GrownByOne
<1>10. Offset(chain, n) + o = Len(Flat(chain)) + 1
  <2>1. chain \in Seq(Block) BY <1>3, FilledAreBlocks
  <2>2. /\ Offset(chain, n + 1) = Len(Flat(chain)) /\ Offset(chain, n) \in Nat
        /\ Offset(chain, n + 1) = Offset(chain, n) + Size(chain[n])
    BY <1>3, <2>1, OffsetProperties DEF n
  <2>3. Size(chain[n]) = Len(x.items) BY DEF Size, x
  <2>4. QED BY <1>4, <2>2, <2>3
<1>11. Len(Flat(blocks)) + 1 \in 1 .. Len(Flat(blocks)) + 1 BY <1>2
<1> HIDE DEF o
<1>12. QED BY <1>1, <1>2, <1>3, <1>9, <1>10, <1>11 DEF IInv

LEMMA PoppedLeft ==
  ASSUME IInv, list_lpop
  PROVE  IInv' /\ 1 \in 1 .. Len(Flat(blocks)) /\ Flat(blocks)' = RemoveAt(Flat(blocks), 1)
<1> DEFINE x == blocks[1]
           y == [start |-> x.start + 1, items |-> Tail(x.items)]
<1>1. num > 0 /\ blocks' = Tidied(Put(blocks, 1, y), 1, 1) /\ num' = num - 1
  BY DEF list_lpop, Put
<1>2. /\ blocks \in Seq(Filled) /\ blocks \in Seq(Block)
      /\ num \in Nat /\ num = Len(Flat(blocks)) /\ 1 \in 1 .. Len(blocks)
  BY <1>1, Chained DEF IInv
<1>3. /\ x.items \in Seq(Values) /\ Size(x) = Len(x.items) /\ Size(x) \in Nat \ {0}
      /\ x.start \in Nat /\ x.start + Size(x) <= UINTDEQUE_BLOCK_SIZE
  BY <1>2, Chained
<1> HIDE DEF x
<1>4. y.items = RemoveAt(x.items, 1) /\ y.start = x.start + 1
  <2>1. x.items # <<>> BY <1>3
  <2>2. PICK v : v \in Values
    <3>1. x.items[1] \in Values BY <1>3, ElementOfSeq
    <3>2. QED BY <3>1
  <2>3. QED BY <1>3, <2>1, <2>2, AtTheEnds
<1>5. y.items \in Seq(Values) /\ Len(y.items) = Len(x.items) - 1
  <2>1. 1 \in 1 .. Len(x.items) BY <1>3
  <2>2. /\ RemoveAt(x.items, 1) \in Seq(Values)
        /\ Len(RemoveAt(x.items, 1)) = Len(x.items) - 1
    BY <1>3, <2>1, RemoveAtProperties
  <2>3. QED BY <1>4, <2>2
<1>6. y = [start |-> y.start, items |-> y.items] OBVIOUS
<1> HIDE DEF y
<1>7. y \in Fitting
  <2>1. y.start \in Nat /\ y.start + Len(y.items) <= UINTDEQUE_BLOCK_SIZE
    <3>1. /\ y.start = x.start + 1 /\ Len(y.items) = Size(x) - 1 /\ x.start \in Nat
          /\ Size(x) \in Nat /\ x.start + Size(x) <= UINTDEQUE_BLOCK_SIZE
      BY <1>3, <1>4, <1>5
    <3>2. UINTDEQUE_BLOCK_SIZE \in Nat BY BlockListAssumption
    <3>3. QED BY ONLY <3>1, <3>2
  <2>2. QED BY <1>5, <1>6, <2>1 DEF Fitting, Block
<1>8. WithoutOne(blocks', blocks, Offset(blocks, 1) + 1)
  <2>1. 1 \in 1 .. Size(blocks[1]) /\ y.items = RemoveAt(blocks[1].items, 1)
    BY <1>3, <1>4 DEF x
  <2>2. WithoutOne(Tidied(Put(blocks, 1, y), 1, 1), blocks, Offset(blocks, 1) + 1)
    BY <1>2, <1>7, <2>1, ShrunkByOne
  <2>3. QED BY <1>1, <2>2
<1>9. Offset(blocks, 1) + 1 = 1 BY <1>2, OffsetProperties
<1>10. QED BY <1>1, <1>2, <1>8, <1>9 DEF IInv, WithoutOne

LEMMA PoppedRight ==
  ASSUME IInv, list_rpop
  PROVE  /\ IInv' /\ Len(Flat(blocks)) \in 1 .. Len(Flat(blocks))
         /\ Flat(blocks)' = RemoveAt(Flat(blocks), Len(Flat(blocks)))
<1> DEFINE n == Len(blocks)
           x == blocks[n]
           y == [x EXCEPT !.items = Front(x.items)]
           o == Len(x.items)
<1>1. num > 0 /\ blocks' = Tidied(Put(blocks, n, y), n, n - 1) /\ num' = num - 1
  BY DEF list_rpop, Put
<1>2. /\ blocks \in Seq(Filled) /\ blocks \in Seq(Block)
      /\ num \in Nat /\ num = Len(Flat(blocks)) /\ n \in 1 .. Len(blocks) /\ n - 1 \in Int
  BY <1>1, Chained DEF IInv
<1>3. /\ x.items \in Seq(Values) /\ Size(x) = Len(x.items) /\ Size(x) \in Nat \ {0}
      /\ x.start \in Nat /\ x.start + Size(x) <= UINTDEQUE_BLOCK_SIZE /\ x \in Block
  BY <1>2, Chained
<1>4. y = [start |-> x.start, items |-> Front(x.items)] BY <1>3, WithItems
<1> HIDE DEF x, y
<1>5. y.items = RemoveAt(x.items, o) /\ y.start = x.start
  <2>1. x.items # <<>> BY <1>3
  <2>2. PICK v : v \in Values
    <3>1. x.items[1] \in Values BY <1>3, ElementOfSeq
    <3>2. QED BY <3>1
  <2>3. Front(x.items) = RemoveAt(x.items, o) BY <1>3, <2>1, <2>2, AtTheEnds
  <2>4. QED BY <1>4, <2>3
<1>6. y.items \in Seq(Values) /\ Len(y.items) = o - 1
  <2>1. o \in 1 .. Len(x.items) BY <1>3
  <2>2. RemoveAt(x.items, o) \in Seq(Values) /\ Len(RemoveAt(x.items, o)) = Len(x.items) - 1
    BY <1>3, <2>1, RemoveAtProperties
  <2>3. QED BY <1>5, <2>2
<1>7. y = [start |-> y.start, items |-> y.items] BY <1>4
<1>8. y \in Fitting
  <2>1. y.start \in Nat /\ y.start + Len(y.items) <= UINTDEQUE_BLOCK_SIZE
    <3>1. /\ y.start = x.start /\ Len(y.items) = Size(x) - 1 /\ x.start \in Nat
          /\ Size(x) \in Nat /\ x.start + Size(x) <= UINTDEQUE_BLOCK_SIZE
      BY <1>3, <1>5, <1>6
    <3>2. UINTDEQUE_BLOCK_SIZE \in Nat BY BlockListAssumption
    <3>3. QED BY ONLY <3>1, <3>2
  <2>2. QED BY <1>6, <1>7, <2>1 DEF Fitting, Block
<1>9. WithoutOne(blocks', blocks, Offset(blocks, n) + o)
  <2>1. o \in 1 .. Size(blocks[n]) /\ y.items = RemoveAt(blocks[n].items, o)
    BY <1>3, <1>5 DEF x
  <2> HIDE DEF n, o
  <2>2. WithoutOne(Tidied(Put(blocks, n, y), n, n - 1), blocks, Offset(blocks, n) + o)
    BY <1>2, <1>8, <2>1, ShrunkByOne
  <2>3. QED BY <1>1, <2>2
<1>10. Offset(blocks, n) + o = Len(Flat(blocks))
  <2>1. /\ Offset(blocks, n + 1) = Len(Flat(blocks)) /\ Offset(blocks, n) \in Nat
        /\ Offset(blocks, n + 1) = Offset(blocks, n) + Size(blocks[n])
    BY <1>2, OffsetProperties
  <2>2. Size(blocks[n]) = o BY DEF Size, x
  <2> HIDE DEF n, o
  <2>3. QED BY <2>1, <2>2
<1> HIDE DEF n, o
<1>11. QED BY <1>1, <1>2, <1>9, <1>10 DEF IInv, WithoutOne

(* What locate says of a position of the list. *)
LEMMA Located ==
  ASSUME IInv, NEW pos \in 0 .. num - 1, NEW at, at = locate(blocks, pos)
  PROVE  /\ at.block \in 1 .. Len(blocks)
         /\ at.offset \in Nat /\ at.offset < Size(blocks[at.block])
         /\ at.offset + 1 \in 1 .. Size(blocks[at.block])
         /\ Offset(blocks, at.block) + (at.offset + 1) = pos + 1
         /\ Offset(blocks, at.block) \in Nat
<1>1. blocks \in Seq(Block) /\ num \in Nat /\ num = Len(Flat(blocks)) BY Chained
<1>2. pos \in Nat /\ pos < Len(Flat(blocks)) BY <1>1
<1>3. /\ at.block \in 1 .. Len(blocks) /\ at.offset \in 0 .. Size(blocks[at.block]) - 1
      /\ Offset(blocks, at.block) + at.offset = pos
  BY <1>1, <1>2, LocateProperties
<1>4. Size(blocks[at.block]) \in Nat /\ Offset(blocks, at.block) \in Nat
  BY <1>1, <1>3, OffsetProperties
<1> DEFINE o == at.offset
           n == Size(blocks[at.block])
           m == Offset(blocks, at.block)
<1>5. o \in 0 .. n - 1 /\ m + o = pos /\ n \in Nat /\ m \in Nat /\ pos \in Nat
  BY <1>2, <1>3, <1>4
<1> HIDE DEF o, n, m
<1>6. o \in Nat /\ o < n /\ o + 1 \in 1 .. n /\ m + (o + 1) = pos + 1 BY <1>5
<1>7. QED BY <1>3, <1>4, <1>6 DEF o, n, m

LEMMA Removed ==
  ASSUME IInv, NEW pos \in 0 .. num - 1, list_rm_index(pos)
  PROVE  /\ IInv' /\ pos + 1 \in 1 .. Len(Flat(blocks))
         /\ Flat(blocks)' = RemoveAt(Flat(blocks), pos + 1)
<1> DEFINE at == locate(blocks, pos)
           b == at.block
           o == at.offset + 1
           x == blocks[b]
           s == IF at.offset < Size(x) \div 2 THEN x.start + 1 ELSE x.start
           y == [start |-> s, items |-> RemoveAt(x.items, o)]
<1>1. blocks' = Tidied(Put(blocks, b, y), b, b) /\ num' = num - 1
  BY DEF list_rm_index, Put
<1> HIDE DEF at
<1>2. /\ b \in 1 .. Len(blocks) /\ o \in 1 .. Size(x) /\ b \in Int
      /\ Offset(blocks, b) + o = pos + 1
  BY Located DEF at
<1>3. blocks \in Seq(Filled) /\ num \in Nat /\ num = Len(Flat(blocks))
  BY Chained DEF IInv
<1>4. /\ x.items \in Seq(Values) /\ Size(x) = Len(x.items) /\ Size(x) \in Nat \ {0}
      /\ x.start \in Nat /\ x.start + Size(x) <= UINTDEQUE_BLOCK_SIZE
  BY <1>2, Chained
<1>5. s \in {x.start, x.start + 1} OBVIOUS
<1> HIDE DEF b, o, x, s
<1>6. y.items \in Seq(Values) /\ Len(y.items) = Size(x) - 1 /\ y.items = RemoveAt(x.items, o)
  <2>1. o \in 1 .. Len(x.items) BY <1>2, <1>4
  <2>2. RemoveAt(x.items, o) \in Seq(Values) /\ Len(RemoveAt(x.items, o)) = Len(x.items) - 1
    BY <1>4, <2>1, RemoveAtProperties
  <2>3. QED BY <1>4, <2>2
<1>7. y = [start |-> s, items |-> y.items] OBVIOUS
<1> HIDE DEF y
<1>8. y \in Fitting
  <2>1. s \in Nat /\ s + Len(y.items) <= UINTDEQUE_BLOCK_SIZE
    <3>1. UINTDEQUE_BLOCK_SIZE \in Nat BY BlockListAssumption
    <3>2. s \in Nat /\ s <= x.start + 1 BY <1>4, <1>5
    <3>3. QED BY <1>4, <1>6, <3>1, <3>2
  <2>2. QED BY <1>6, <1>7, <2>1 DEF Fitting, Block
<1>9. WithoutOne(blocks', blocks, Offset(blocks, b) + o)
  <2>1. o \in 1 .. Size(blocks[b]) /\ y.items = RemoveAt(blocks[b].items, o)
    BY <1>2, <1>6 DEF x
  <2>2. WithoutOne(Tidied(Put(blocks, b, y), b, b), blocks, Offset(blocks, b) + o)
    BY <1>2, <1>3, <1>8, <2>1, ShrunkByOne
  <2>3. QED BY <1>1, <2>2
<1>10. QED BY <1>1, <1>2, <1>3, <1>9 DEF IInv, WithoutOne

(* Element o of block b becomes v, the blocks staying as they are. *)
SetItem(chain, b, o, v) ==
  Put(chain, b, [start |-> chain[b].start, items |-> [chain[b].items EXCEPT ![o] = v]])

WithOneSet(new, chain, k, v) ==
  /\ new \in Seq(Filled) /\ k \in 1 .. Len(Flat(chain))
  /\ Flat(new) = [Flat(chain) EXCEPT ![k] = v] /\ Len(Flat(new)) = Len(Flat(chain))
  /\ Len(new) = Len(chain) /\ \A c \in 1 .. Len(chain) : Size(new[c]) = Size(chain[c])

LEMMA SetItemProperties ==
  ASSUME NEW chain \in Seq(Filled), NEW b \in 1 .. Len(chain),
         NEW o \in 1 .. Size(chain[b]), NEW v \in Values
  PROVE  WithOneSet(SetItem(chain, b, o, v), chain, Offset(chain, b) + o, v)
<1> DEFINE x == chain[b]
           s == [x.items EXCEPT ![o] = v]
           y == [start |-> x.start, items |-> s]
           new == Put(chain, b, y)
<1>1. chain \in Seq(Block) BY FilledAreBlocks
<1>2. x \in Filled BY ElementOfSeq
<1>3. /\ x.items \in Seq(Values) /\ Size(x) = Len(x.items) /\ Size(x) \in Nat \ {0}
      /\ x.start \in Nat /\ x.start + Size(x) <= UINTDEQUE_BLOCK_SIZE
  BY <1>2 DEF Filled, Fitting, Block, Size
<1>4. s \in Seq(Values) /\ Len(s) = Size(x) BY <1>3, ExceptSeq
<1>5. SetItem(chain, b, o, v) = new BY DEF SetItem
<1> HIDE DEF x, s
<1>6. y.start = x.start /\ y.items = s /\ y \in Filled
  <2>1. y.start = x.start /\ y.items = s /\ y \in Block BY <1>3, <1>4 DEF Block
  <2> HIDE DEF y
  <2>2. QED BY <1>3, <1>4, <2>1 DEF Filled, Fitting
<1> HIDE DEF y
<1>7. /\ new \in Seq(Filled) /\ Len(new) = Len(chain)
      /\ \A c \in 1 .. Len(chain) : new[c] = IF c = b THEN y ELSE chain[c]
  BY <1>6, ExceptSeq DEF Put
<1>8. \A c \in 1 .. Len(chain) : Size(new[c]) = Size(chain[c])
  BY <1>4, <1>6, <1>7 DEF Size, x
<1>9. /\ Offset(chain, b) + o \in 1 .. Len(Flat(chain))
      /\ Flat(new) = [Flat(chain) EXCEPT ![Offset(chain, b) + o] = v]
      /\ Len(Flat(new)) = Len(Flat(chain))
  <2>1. y \in Block BY <1>6 DEF Filled, Fitting
  <2>2. y.items = ElementSet(chain[b].items, o, v) BY <1>6 DEF s, x, ElementSet
  <2>3. /\ Offset(chain, b) + o \in 1 .. Len(Flat(chain))
        /\ Flat(new) = ElementSet(Flat(chain), Offset(chain, b) + o, v)
        /\ Len(Flat(new)) = Len(Flat(chain))
    BY <1>1, <2>1, <2>2, SetInBlock
  <2>4. QED BY <2>3 DEF ElementSet
<1> HIDE DEF new
<1>10. QED BY <1>5, <1>7, <1>8, <1>9 DEF WithOneSet

LEMMA SetItemOfBlock ==
  ASSUME NEW chain \in Seq(Block), NEW b \in 1 .. Len(chain), NEW o, NEW v
  PROVE  [chain EXCEPT ![b].items[o] = v] = SetItem(chain, b, o, v)
<1> DEFINE x == chain[b]
           s == [x.items EXCEPT ![o] = v]
<1>1. x \in Block BY ElementOfSeq
<1>2. [x EXCEPT !.items = s] = [start |-> x.start, items |-> s] BY <1>1, WithItems
<1>3. [chain EXCEPT ![b].items[o] = v] = [chain EXCEPT ![b] = [x EXCEPT !.items = s]]
  OBVIOUS
<1> HIDE DEF s, x
<1>4. QED BY <1>2, <1>3 DEF SetItem, Put, s, x

LEMMA SetAtIndex ==
  ASSUME IInv, NEW pos \in 0 .. num - 1, NEW v \in Values, list_set_index(pos, v)
  PROVE  /\ IInv' /\ pos + 1 \in 1 .. Len(Flat(blocks))
         /\ Flat(blocks)' = [Flat(blocks) EXCEPT ![pos + 1] = v]
<1> DEFINE at == locate(blocks, pos)
           b == at.block
           o == at.offset + 1
<1>1. blocks' = [blocks EXCEPT ![b].items[o] = v] /\ num' = num BY DEF list_set_index
<1> HIDE DEF at
<1>2. b \in 1 .. Len(blocks) /\ o \in 1 .. Size(blocks[b]) /\ Offset(blocks, b) + o = pos + 1
  BY Located DEF at
<1>3. blocks \in Seq(Filled) /\ blocks \in Seq(Block) /\ num = Len(Flat(blocks))
  BY Chained DEF IInv
<1> HIDE DEF b, o
<1>4. blocks' = SetItem(blocks, b, o, v) BY <1>1, <1>2, <1>3, SetItemOfBlock
<1>5. WithOneSet(SetItem(blocks, b, o, v), blocks, Offset(blocks, b) + o, v)
  BY <1>2, <1>3, SetItemProperties
<1>6. QED BY <1>1, <1>2, <1>3, <1>4, <1>5 DEF IInv, WithOneSet

LEMMA ElementAt ==
  ASSUME NEW chain \in Seq(Block), NEW b \in 1 .. Len(chain), NEW o \in 1 .. Size(chain[b])
  PROVE  /\ Flat(chain)[Offset(chain, b) + o] = chain[b].items[o]
         /\ chain[b].items[o] \in Values
<1> DEFINE p == Flat(Before(chain, b))
           q == Flat(After(chain, b))
           m == chain[b].items
           f == Flat(chain)
<1>1. chain[b] \in Block BY ElementOfSeq
<1>2. m \in Seq(Values) /\ o \in 1 .. Len(m) /\ m[o] \in Values
  BY <1>1, ElementOfSeq DEF Block, Size
<1>3. p \in Seq(Values) /\ q \in Seq(Values) /\ Len(p) = Offset(chain, b) /\ f = Joined(p, m, q)
  BY <1>1, BlockChanged
<1> HIDE DEF p, q, m, f
<1>4. \A i \in 1 .. Len(p) + Len(m) + Len(q) :
        Joined(p, m, q)[i] = IF i <= Len(p) THEN p[i]
                             ELSE IF i <= Len(p) + Len(m) THEN m[i - Len(p)]
                             ELSE q[i - (Len(p) + Len(m))]
  <2>1. p \in Seq(Values) /\ m \in Seq(Values) /\ q \in Seq(Values) BY <1>2, <1>3
  <2>2. /\ Joined(p, m, q) \in Seq(Values) /\ Len(Joined(p, m, q)) = Len(p) + Len(m) + Len(q)
        /\ \A i \in 1 .. Len(p) + Len(m) + Len(q) :
             Joined(p, m, q)[i] = IF i <= Len(p) THEN p[i]
                                  ELSE IF i <= Len(p) + Len(m) THEN m[i - Len(p)]
                                  ELSE q[i - (Len(p) + Len(m))]
    BY ONLY <2>1, JoinedProperties
  <2>3. QED BY <2>2
<1>5. /\ Len(p) + o \in 1 .. Len(p) + Len(m) + Len(q) /\ ~(Len(p) + o <= Len(p))
      /\ Len(p) + o <= Len(p) + Len(m) /\ (Len(p) + o) - Len(p) = o
  BY <1>2, <1>3
<1>6. Joined(p, m, q)[Len(p) + o] = m[o] BY <1>4, <1>5
<1>7. QED BY <1>2, <1>3, <1>6 DEF f, m

LEMMA InvariantFits == IInv => BlocksFit
<1> SUFFICES ASSUME IInv PROVE BlocksFit OBVIOUS
<1>1. num = Len(Elements) BY ElementsAreFlat DEF IInv
<1>2. DOMAIN blocks = 1 .. Len(blocks) BY DEF IInv
<1>3. ASSUME NEW b \in DOMAIN blocks
      PROVE  /\ blocks[b].start \in Nat
             /\ blocks[b].start + Size(blocks[b]) <= UINTDEQUE_BLOCK_SIZE
             /\ Size(blocks[b]) > 0
  <2>1. blocks[b] \in Filled BY <1>2, ElementOfSeq DEF IInv
  <2>2. QED BY <2>1 DEF Filled, Fitting, Block, Size
<1>4. ASSUME NEW pos \in 0 .. num - 1 PROVE list_get_index(pos) = Elements[pos + 1]
  <2> DEFINE at == locate(blocks, pos)
  <2>1. list_get_index(pos) = blocks[at.block].items[at.offset + 1] BY DEF list_get_index
  <2> HIDE DEF at
  <2>2. /\ at.block \in 1 .. Len(blocks) /\ at.offset + 1 \in 1 .. Size(blocks[at.block])
        /\ Offset(blocks, at.block) + (at.offset + 1) = pos + 1
    BY Located DEF at
  <2>3. blocks \in Seq(Block) BY Chained
  <2> DEFINE b == at.block
             o == at.offset + 1
  <2> HIDE DEF b, o
  <2>4. Flat(blocks)[Offset(blocks, b) + o] = blocks[b].items[o]
    BY <2>2, <2>3, ElementAt DEF b, o
  <2>5. QED BY <2>1, <2>2, <2>4, ElementsAreFlat DEF b, o
<1>5. QED BY <1>1, <1>3, <1>4 DEF BlocksFit

LEMMA SameOffsets ==
  ASSUME NEW c \in Seq(Block), NEW d \in Seq(Block), Len(c) = Len(d),
         \A b \in 1 .. Len(c) : Size(c[b]) = Size(d[b])
  PROVE  \A b \in 1 .. Len(c) : Offset(c, b) = Offset(d, b)
<1> DEFINE n == Len(c)
           good == {k \in Nat : Offset(c, k + 1) = Offset(d, k + 1)}
<1>1. n \in Nat OBVIOUS
<1>2. 0 \in good BY OffsetProperties
<1>3. ASSUME NEW k \in 0 .. n - 1, k \in good PROVE k + 1 \in good
  <2>1. k + 1 \in 1 .. Len(c) /\ k + 1 \in 1 .. Len(d) /\ k + 1 \in Nat BY <1>1
  <2>2. Offset(c, k + 1) = Offset(d, k + 1) BY <1>3
  <2>3. Offset(c, (k + 1) + 1) = Offset(c, k + 1) + Size(c[k + 1])
    BY <2>1, OffsetProperties
  <2>4. Offset(d, (k + 1) + 1) = Offset(d, k + 1) + Size(d[k + 1])
    BY <2>1, OffsetProperties
  <2>5. Size(c[k + 1]) = Size(d[k + 1]) BY <2>1
  <2>6. QED BY <2>1, <2>2, <2>3, <2>4, <2>5
<1> HIDE DEF good
<1>4. \A k \in 0 .. n : k \in good BY <1>1, <1>2, <1>3, Arrays!UpTo
<1>5. ASSUME NEW b \in 1 .. n PROVE Offset(c, b) = Offset(d, b)
  <2>1. b - 1 \in 0 .. n /\ (b - 1) + 1 = b BY <1>1
  <2>2. b - 1 \in good BY <1>4, <2>1
  <2>3. QED BY <2>1, <2>2 DEF good
<1>6. QED BY <1>5

LEMMA Swapped ==
  ASSUME IInv, NEW idx1 \in 0 .. num - 1, NEW idx2 \in 0 .. num - 1, list_swap(idx1, idx2)
  PROVE  /\ IInv' /\ idx1 + 1 \in 1 .. Len(Flat(blocks)) /\ idx2 + 1 \in 1 .. Len(Flat(blocks))
         /\ Flat(blocks)' = [Flat(blocks) EXCEPT ![idx1 + 1] = Flat(blocks)[idx2 + 1],
                                                 ![idx2 + 1] = Flat(blocks)[idx1 + 1]]
<1> DEFINE at1 == locate(blocks, idx1)
           at2 == locate(blocks, idx2)
           b1 == at1.block
           b2 == at2.block
           o1 == at1.offset + 1
           o2 == at2.offset + 1
           v1 == blocks[b1].items[o1]
           v2 == blocks[b2].items[o2]
           f == Flat(blocks)
           mid == [blocks EXCEPT ![b1].items[o1] = v2]
           c == SetItem(blocks, b1, o1, v2)
           d == SetItem(c, b2, o2, v1)
<1>1. blocks' = [mid EXCEPT ![b2].items[o2] = v1] /\ num' = num
  BY DEF list_swap, list_get_index
<1>2. /\ b1 \in 1 .. Len(blocks) /\ o1 \in 1 .. Size(blocks[b1])
      /\ Offset(blocks, b1) + o1 = idx1 + 1
  <2> HIDE DEF at1
  <2>1. QED BY Located DEF at1
<1>3. /\ b2 \in 1 .. Len(blocks) /\ o2 \in 1 .. Size(blocks[b2])
      /\ Offset(blocks, b2) + o2 = idx2 + 1
  <2> HIDE DEF at2
  <2>1. QED BY Located DEF at2
<1>4. /\ blocks \in Seq(Filled) /\ blocks \in Seq(Block) /\ num = Len(Flat(blocks))
      /\ f \in Seq(Values)
  BY Chained DEF IInv
<1> HIDE DEF at1, at2, b1, b2, o1, o2
<1>5. v1 = f[idx1 + 1] /\ v1 \in Values /\ v2 = f[idx2 + 1] /\ v2 \in Values
  <2>1. f[Offset(blocks, b1) + o1] = v1 /\ v1 \in Values BY <1>2, <1>4, ElementAt
  <2>2. f[Offset(blocks, b2) + o2] = v2 /\ v2 \in Values BY <1>3, <1>4, ElementAt
  <2>3. QED BY <1>2, <1>3, <2>1, <2>2
<1> HIDE DEF v1, v2
<1>6. /\ c \in Seq(Filled) /\ Len(c) = Len(blocks) /\ Len(Flat(c)) = Len(f)
      /\ \A k \in 1 .. Len(blocks) : Size(c[k]) = Size(blocks[k])
      /\ Offset(blocks, b1) + o1 \in 1 .. Len(f)
      /\ Flat(c) = [f EXCEPT ![Offset(blocks, b1) + o1] = v2]
  <2>1. WithOneSet(c, blocks, Offset(blocks, b1) + o1, v2)
    BY <1>2, <1>4, <1>5, SetItemProperties
  <2> HIDE DEF c
  <2>2. QED BY <2>1 DEF WithOneSet
<1>7. mid = c BY <1>2, <1>4, SetItemOfBlock
<1> HIDE DEF c, mid
<1>8. c \in Seq(Block) BY <1>6, FilledAreBlocks
<1>9. Offset(c, b2) = Offset(blocks, b2)
  BY <1>3, <1>4, <1>6, <1>8, SameOffsets
<1>10. b2 \in 1 .. Len(c) /\ o2 \in 1 .. Size(c[b2]) BY <1>3, <1>6
<1>11. blocks' = d BY <1>1, <1>7, <1>8, <1>10, SetItemOfBlock
<1>12. /\ d \in Seq(Filled) /\ Len(Flat(d)) = Len(Flat(c))
       /\ Offset(c, b2) + o2 \in 1 .. Len(Flat(c))
       /\ Flat(d) = [Flat(c) EXCEPT ![Offset(c, b2) + o2] = v1]
  <2>1. WithOneSet(d, c, Offset(c, b2) + o2, v1) BY <1>5, <1>6, <1>10, SetItemProperties
  <2> HIDE DEF d
  <2>2. QED BY <2>1 DEF WithOneSet
<1> HIDE DEF d
<1>13. Flat(c) = [f EXCEPT ![idx1 + 1] = v2] BY <1>2, <1>6
<1>14. Flat(d) = [[f EXCEPT ![idx1 + 1] = v2] EXCEPT ![idx2 + 1] = v1]
  BY <1>3, <1>9, <1>12, <1>13
<1>15. idx1 + 1 \in 1 .. Len(f) /\ idx2 + 1 \in 1 .. Len(f) BY <1>2, <1>3, <1>6, <1>9, <1>12
<1>16. blocks' \in Seq(Filled) /\ num' = Len(Flat(blocks')) BY <1>1, <1>4, <1>6, <1>11, <1>12
<1>17. Flat(blocks') = [[f EXCEPT ![idx1 + 1] = v2] EXCEPT ![idx2 + 1] = v1] BY <1>11, <1>14
<1>18. Flat(blocks') = [f EXCEPT ![idx1 + 1] = f[idx2 + 1], ![idx2 + 1] = f[idx1 + 1]]
  BY <1>5, <1>17
<1>19. QED BY <1>15, <1>16, <1>18 DEF IInv

(* Room is made in block b of the chain: the elements are what they were.  *)
Roomier(b) ==
  LET moved == [blocks EXCEPT ![b] = center_block(@)]
  IN IF ~Cramped(blocks[b]) THEN {blocks}
     ELSE IF ~Cramped(moved[b]) THEN {moved} ELSE split_block(moved, b)

LEMMA MakingRoom ==
  ASSUME IInv, NEW b \in 1 .. Len(blocks), NEW chain \in Roomier(b)
  PROVE  chain \in Seq(Filled) /\ Flat(chain) = Flat(blocks)
<1> DEFINE x == blocks[b]
           y == center_block(x)
           moved == Put(blocks, b, y)
<1>1. blocks \in Seq(Filled) /\ blocks \in Seq(Block) BY Chained DEF IInv
<1>2. y \in Filled /\ y.items = x.items
  <2>1. x \in Filled BY <1>1, ElementOfSeq
  <2>2. QED BY <2>1, CentredFilled
<1>3. chain = blocks \/ chain = moved \/ chain \in split_block(moved, b) BY DEF Roomier, Put
<1> HIDE DEF y
<1>4. moved \in Seq(Filled) /\ Len(moved) = Len(blocks) BY <1>1, <1>2, Replaced DEF Put
<1>5. Flat(moved) = Flat(blocks)
  <2> DEFINE p == Flat(Before(blocks, b))
             q == Flat(After(blocks, b))
  <2>1. y \in Block BY <1>2 DEF Filled, Fitting
  <2>2. Flat(blocks) = Joined(p, x.items, q) /\ Flat(moved) = Joined(p, y.items, q)
    BY <1>1, <2>1, BlockChanged
  <2> HIDE DEF p, q, moved, x
  <2>3. QED BY <1>2, <2>2
<1> HIDE DEF moved
<1>6. CASE chain \in split_block(moved, b)
  <2>1. b \in 1 .. Len(moved) BY <1>4
  <2>2. chain \in Seq(Filled) /\ Flat(chain) = Flat(moved)
    BY <1>4, <1>6, <2>1, SplitKeepsElements
  <2>3. QED BY <1>5, <2>2
<1>7. QED BY <1>1, <1>3, <1>4, <1>5, <1>6

LEMMA InsertedInside ==
  ASSUME NEW chain \in Seq(Filled), NEW pos \in Nat, pos < Len(Flat(chain)), NEW v \in Values,
         NEW at, at = locate(chain, pos),
         \/ ShiftsLeft(chain[at.block], at.offset)
         \/ block_right_space(chain[at.block]) > 0,
         NEW new, new = Put(chain, at.block, Inserted(chain[at.block], at.offset, v))
  PROVE  /\ new \in Seq(Filled) /\ pos + 1 \in 1 .. Len(Flat(chain)) + 1
         /\ Flat(new) = InsertAt(Flat(chain), pos + 1, v)
         /\ Len(Flat(new)) = Len(Flat(chain)) + 1
<1> DEFINE b == at.block
           o == at.offset
           x == chain[b]
           s == IF ShiftsLeft(x, o) THEN x.start - 1 ELSE x.start
           y == Inserted(x, o, v)
<1>1. chain \in Seq(Block) BY FilledAreBlocks
<1>2. b \in 1 .. Len(chain) /\ o \in 0 .. Size(x) - 1 /\ Offset(chain, b) + o = pos
  BY <1>1, LocateProperties
<1>3. Offset(chain, b) \in Nat BY <1>1, <1>2, OffsetProperties
<1>4. x \in Filled BY <1>2, ElementOfSeq
<1>5. /\ x.items \in Seq(Values) /\ Size(x) = Len(x.items) /\ Size(x) \in Nat \ {0}
      /\ x.start \in Nat /\ x.start + Size(x) <= UINTDEQUE_BLOCK_SIZE
  BY <1>4, SMTT(30) DEF Filled, Fitting, Block, Size
<1>6. ShiftsLeft(x, o) \/ block_right_space(x) > 0 OBVIOUS
<1>7. new = Put(chain, b, y) OBVIOUS
<1> HIDE DEF b, x
<1>8. y = [start |-> s, items |-> InsertAt(x.items, o + 1, v)] BY DEF Inserted
<1>9. s \in Nat /\ s + (Size(x) + 1) <= UINTDEQUE_BLOCK_SIZE
  <2>1. UINTDEQUE_BLOCK_SIZE \in Nat BY BlockListAssumption
  <2>2. CASE ShiftsLeft(x, o)
    <3>1. x.start > 0 BY <2>2 DEF ShiftsLeft, block_left_space
    <3>2. s = x.start - 1 BY <2>2
    <3> HIDE DEF s
    <3>3. QED BY <1>5, <2>1, <3>1, <3>2, SMTT(30)
  <2>3. CASE ~ShiftsLeft(x, o)
    <3>1. UINTDEQUE_BLOCK_SIZE - (x.start + Size(x)) > 0
      BY <1>6, <2>3 DEF block_right_space
    <3>2. s = x.start BY <2>3
    <3> HIDE DEF s
    <3>3. QED BY <1>5, <2>1, <3>1, <3>2
  <2>4. QED BY <2>2, <2>3
<1> DEFINE k == o + 1
<1>10. k \in 1 .. Size(x) + 1 /\ Offset(chain, b) + k = pos + 1
  <2> HIDE DEF o
  <2>1. QED BY <1>2, <1>3, <1>5, SMTT(30)
<1>11. y = [start |-> s, items |-> InsertAt(x.items, k, v)] BY <1>8
<1> HIDE DEF o, s, y, k
<1>12. InsertAt(x.items, k, v) \in Seq(Values) /\ Len(InsertAt(x.items, k, v)) = Size(x) + 1
  <2>1. k \in 1 .. Len(x.items) + 1 BY <1>5, <1>10
  <2>2. /\ InsertAt(x.items, k, v) \in Seq(Values)
        /\ Len(InsertAt(x.items, k, v)) = Len(x.items) + 1
    BY <1>5, <2>1, InsertAtProperties
  <2>3. QED BY <1>5, <2>2
<1> DEFINE t == InsertAt(x.items, k, v)
<1>13. y = [start |-> s, items |-> t] BY <1>11
<1>14. t \in Seq(Values) /\ Len(t) = Size(x) + 1 BY <1>12
<1> HIDE DEF t
<1>15. y \in Filled
  <2>1. y \in Block /\ y.start = s /\ y.items = t BY <1>9, <1>13, <1>14 DEF Block
  <2>2. s + Len(t) <= UINTDEQUE_BLOCK_SIZE /\ Len(t) > 0 BY <1>5, <1>9, <1>14
  <2>3. QED BY <2>1, <2>2 DEF Filled, Fitting
<1>16. y.items = InsertAt(chain[b].items, k, v) BY <1>13 DEF t, x
<1>17. /\ chain \in Seq(Fitting) /\ \A i \in 1 .. Len(chain) : i # b => chain[i] \in Filled
       /\ k \in 1 .. Size(chain[b]) + 1
  <2>1. chain \in Seq(Fitting) BY FilledAreBlocks
  <2>2. QED BY <1>10, <2>1, ElementOfSeq DEF x
<1>18. /\ new \in Seq(Filled)
       /\ Offset(chain, b) + k \in 1 .. Len(Flat(chain)) + 1
       /\ Flat(new) = InsertAt(Flat(chain), Offset(chain, b) + k, v)
       /\ Len(Flat(new)) = Len(Flat(chain)) + 1
  BY <1>2, <1>7, <1>15, <1>16, <1>17, GrownByOne
<1>19. QED BY <1>10, <1>18

(* Chains whose blocks hold as many elements are searched alike. *)
LEMMA LocatedAlike ==
  ASSUME NEW c \in Seq(Block), NEW d \in Seq(Block), Len(c) = Len(d),
         \A b \in 1 .. Len(c) : Size(c[b]) = Size(d[b]),
         NEW pos \in Nat, pos < Len(Flat(c))
  PROVE  locate(c, pos) = locate(d, pos)
<1> DEFINE At(chain, g) == CHOOSE b \in DOMAIN chain : g[b] <= pos /\ pos < g[b] + Size(chain[b])
           Place(chain, g) == [block |-> At(chain, g), offset |-> pos - g[At(chain, g)]]
           u == Counts(c)
           v == Counts(d)
<1>1. locate(c, pos) = Place(c, u) /\ locate(d, pos) = Place(d, v)
  BY DEF locate, Counts, Counting, CountStep
<1>2. DOMAIN c = 1 .. Len(c) /\ DOMAIN d = 1 .. Len(c) OBVIOUS
<1>3. \A b \in 1 .. Len(c) : u[b] = Offset(c, b) /\ v[b] = Offset(d, b) BY CountsAreOffsets
<1>4. \A b \in 1 .. Len(c) : Offset(c, b) = Offset(d, b) BY SameOffsets
<1> HIDE DEF u, v
<1>5. \A b \in 1 .. Len(c) : u[b] = v[b] BY <1>3, <1>4
<1>6. \A b \in 1 .. Len(c) : (u[b] <= pos /\ pos < u[b] + Size(c[b]))
                           <=> (v[b] <= pos /\ pos < v[b] + Size(d[b]))
  BY <1>5
<1>7. At(c, u) = At(d, v) BY <1>2, <1>6
<1>8. \E b \in DOMAIN c : u[b] <= pos /\ pos < u[b] + Size(c[b])
  BY <1>2, <1>3, OffsetsUpTo
<1>9. At(c, u) \in DOMAIN c BY <1>8
<1> DEFINE a == At(c, u)
<1>10. At(c, u) = a /\ At(d, v) = a /\ a \in DOMAIN c BY <1>7, <1>9
<1>11. Place(c, u) = [block |-> a, offset |-> pos - u[a]] BY <1>10
<1>12. Place(d, v) = [block |-> a, offset |-> pos - v[a]] BY <1>10
<1> HIDE DEF a, Place
<1>13. u[a] = v[a] BY <1>2, <1>5, <1>10
<1>14. QED BY <1>1, <1>11, <1>12, <1>13

(* A block that is not full has room on its right once it is centred. *)
LEMMA CentredHasRoom ==
  ASSUME NEW blk \in Filled, Size(blk) < UINTDEQUE_BLOCK_SIZE
  PROVE  block_right_space(center_block(blk)) > 0
<1>1. /\ blk \in Block /\ blk.start \in Nat /\ Size(blk) \in Nat /\ Size(blk) = Len(blk.items)
      /\ UINTDEQUE_BLOCK_SIZE \in Nat
  BY BlockListAssumption DEF Filled, Fitting, Block, Size
<1> DEFINE n == Size(blk)
           S == UINTDEQUE_BLOCK_SIZE
           y == [blk EXCEPT !.start = Middle(n)]
<1>2. CASE block_is_centered(blk)
  <2>1. center_block(blk) = blk BY <1>2 DEF center_block
  <2>2. blk.start + n <= (S * 3) \div 4 BY <1>2 DEF block_is_centered
  <2>3. S > 0 /\ S - (blk.start + n) = block_right_space(blk) BY <1>1 DEF block_right_space
  <2> HIDE DEF n, S
  <2>4. n \in Nat /\ S \in Nat /\ blk.start \in Nat BY <1>1 DEF n, S
  <2>5. (S * 3) \div 4 < S BY <2>3, <2>4
  <2>6. S - (blk.start + n) > 0 BY <2>2, <2>4, <2>5
  <2>7. QED BY <2>1, <2>3, <2>6
<1>3. CASE ~block_is_centered(blk)
  <2>1. center_block(blk) = y BY <1>3 DEF center_block
  <2>2. y.start = Middle(n) /\ Size(y) = n BY <1>1 DEF Block, Size
  <2>3. block_right_space(y) = S - (Middle(n) + n) BY <2>2 DEF block_right_space
  <2>4. Middle(n) = (S - n) \div 2 BY DEF Middle
  <2> HIDE DEF n, S, y
  <2>5. n \in Nat /\ S \in Nat /\ n < S BY <1>1 DEF n, S
  <2>6. S - n \in Nat /\ S - n > 0 BY <2>5
  <2> DEFINE r == S - n
  <2>7. S - ((S - n) \div 2 + n) = r - r \div 2 BY <2>5
  <2> HIDE DEF r
  <2>8. r \in Nat /\ r > 0 BY <2>6 DEF r
  <2>9. r - r \div 2 > 0 BY <2>8
  <2>10. QED BY <2>1, <2>3, <2>4, <2>7, <2>9
<1>4. QED BY <1>2, <1>3

(* Only a full block, which had to be split, leaves an insertion no room. *)
LEMMA NoRoomMeansFull ==
  ASSUME IInv, NEW pos \in 1 .. num - 1,
         NEW b, b = locate(blocks, pos).block, NEW chain \in Roomier(b),
         NEW at, at = locate(chain, pos), ~(block_right_space(chain[at.block]) > 0)
  PROVE  Size(blocks[b]) = UINTDEQUE_BLOCK_SIZE
<1> DEFINE x == blocks[b]
           y == center_block(x)
           moved == Put(blocks, b, y)
<1>1. /\ blocks \in Seq(Filled) /\ blocks \in Seq(Block) /\ num \in Nat /\ num = Len(Flat(blocks))
      /\ pos \in Nat /\ pos < num /\ pos \in 0 .. num - 1
  BY Chained DEF IInv
<1>2. b \in 1 .. Len(blocks) BY <1>1, Located
<1>3. x \in Filled /\ y \in Filled /\ y.items = x.items
  <2>1. x \in Filled BY <1>1, <1>2, ElementOfSeq
  <2>2. QED BY <2>1, CentredFilled
<1>4. Size(x) \in Nat /\ Size(x) <= UINTDEQUE_BLOCK_SIZE /\ Size(y) = Size(x)
  <2> HIDE DEF x, y
  <2>1. /\ x \in Block /\ x.items \in Seq(Values) /\ x.start \in Nat
        /\ x.start + Len(x.items) <= UINTDEQUE_BLOCK_SIZE
    BY <1>3 DEF Filled, Fitting, Block
  <2>2. QED BY <1>3, <2>1, BlockListAssumption DEF Size
<1>5. SUFFICES ASSUME Size(x) < UINTDEQUE_BLOCK_SIZE PROVE FALSE
  BY <1>4, BlockListAssumption
<1>6. y \in Block BY <1>3 DEF Filled, Fitting
<1>7. moved[b] = y BY <1>1, <1>2 DEF Put
<1>8. /\ moved \in Seq(Block) /\ Len(moved) = Len(blocks)
      /\ \A i \in 1 .. Len(blocks) : Size(blocks[i]) = Size(moved[i])
  <2>1. moved \in Seq(Block) /\ Len(moved) = Len(blocks) BY <1>1, <1>2, <1>6, Replaced DEF Put
  <2>2. \A i \in 1 .. Len(blocks) : i # b => moved[i] = blocks[i] BY <1>1, <1>2 DEF Put
  <2>3. QED BY <1>4, <1>7, <2>1, <2>2
<1> HIDE DEF moved, y
<1>9. locate(blocks, pos) = locate(moved, pos) BY <1>1, <1>8, LocatedAlike
<1>10. (chain = blocks /\ ~Cramped(x)) \/ chain = moved
  <2>1. \/ ~Cramped(x) /\ chain = blocks
        \/ chain = moved
        \/ chain \in split_block(moved, b)
    BY DEF Roomier, moved, y, Put
  <2>2. split_block(moved, b) = {moved} BY <1>4, <1>5, <1>7 DEF split_block
  <2>3. QED BY <2>1, <2>2
<1>11. CASE chain = blocks /\ ~Cramped(x)
  <2>1. at.block = b BY <1>11
  <2>2. block_right_space(x) # 0 BY <1>11 DEF Cramped
  <2>3. UINTDEQUE_BLOCK_SIZE \in Nat BY BlockListAssumption
  <2>4. x.start \in Nat /\ x.start + Size(x) <= UINTDEQUE_BLOCK_SIZE
    BY <1>3 DEF Filled, Fitting, Block, Size
  <2>5. block_right_space(x) > 0 BY <1>4, <2>2, <2>3, <2>4 DEF block_right_space
  <2>6. QED BY <1>11, <2>1, <2>5
<1>12. CASE chain = moved
  <2>1. at.block = b BY <1>9, <1>12
  <2>2. block_right_space(y) > 0 BY <1>3, <1>5, CentredHasRoom DEF y
  <2>3. QED BY <1>7, <1>12, <2>1, <2>2
<1>13. QED BY <1>10, <1>11, <1>12

LEMMA NextElementsAreFlat == Elements' = Flat(blocks)'
BY DEF Elements, Flat, Flats, Joining, JoinStep

(* What a call has done to the elements, as a step of Deque. *)
LEMMA AnInsertion ==
  ASSUME NEW i \in 1 .. Len(Flat(blocks)) + 1, NEW v,
         Flat(blocks)' = InsertAt(Flat(blocks), i, v)
  PROVE  Sequence!Insert(i, v)
<1>1. Elements = Flat(blocks) /\ Elements' = Flat(blocks)' BY ElementsAreFlat, NextElementsAreFlat
<1>2. Elements' = Sequence!InsertAt(Elements, i, v) BY <1>1 DEF Sequence!InsertAt, InsertAt
<1>3. QED BY <1>1, <1>2 DEF Sequence!Insert

LEMMA ADeletion ==
  ASSUME Flat(blocks) \in Seq(Values), NEW i \in 1 .. Len(Flat(blocks)),
         Flat(blocks)' = RemoveAt(Flat(blocks), i)
  PROVE  Sequence!Delete(i)
<1>1. Elements = Flat(blocks) /\ Elements' = Flat(blocks)' BY ElementsAreFlat, NextElementsAreFlat
<1>2. Elements' = Sequence!RemoveAt(Elements, i) BY <1>1 DEF Sequence!RemoveAt, RemoveAt
<1>3. i \in DOMAIN Elements BY <1>1
<1>4. QED BY <1>2, <1>3 DEF Sequence!Delete

LEMMA AnUpdate ==
  ASSUME Flat(blocks) \in Seq(Values), NEW i \in 1 .. Len(Flat(blocks)), NEW v,
         Flat(blocks)' = [Flat(blocks) EXCEPT ![i] = v]
  PROVE  Sequence!Update(i, v)
<1>1. Elements = Flat(blocks) /\ Elements' = Flat(blocks)' BY ElementsAreFlat, NextElementsAreFlat
<1>2. i \in DOMAIN Elements BY <1>1
<1>3. Elements' = ElementSet(Elements, i, v) BY <1>1 DEF ElementSet
<1>4. QED BY <1>2, <1>3 DEF Sequence!Update, ElementSet

Exchanged(f, i, j) == [f EXCEPT ![i] = f[j], ![j] = f[i]]

LEMMA AnExchange ==
  ASSUME Flat(blocks) \in Seq(Values),
         NEW i \in 1 .. Len(Flat(blocks)), NEW j \in 1 .. Len(Flat(blocks)),
         Flat(blocks)' = [Flat(blocks) EXCEPT ![i] = Flat(blocks)[j], ![j] = Flat(blocks)[i]]
  PROVE  Sequence!Swap(i, j)
<1>1. Elements = Flat(blocks) /\ Elements' = Flat(blocks)' BY ElementsAreFlat, NextElementsAreFlat
<1>2. {i, j} \subseteq DOMAIN Elements BY <1>1
<1>3. Flat(blocks)' = Exchanged(Flat(blocks), i, j) BY DEF Exchanged
<1>4. Elements' = Exchanged(Elements, i, j) BY <1>1, <1>3
<1>5. QED BY <1>2, <1>4 DEF Sequence!Swap, Exchanged

-----------------------------------------------------------------------------
(* Every call keeps the invariant and does what its position says *)

LEMMA InsertedAnywhere ==
  ASSUME IInv, NEW v \in Values, NEW pos \in 0 .. num, list_insert(pos, v)
  PROVE  IInv' /\ (Sequence!Insert(pos + 1, v) \/ Refused(pos))
<1> DEFINE b == locate(blocks, pos).block
<1>1. \/ pos = 0 /\ list_lpush(v)
      \/ pos > 0 /\ pos = num /\ list_rpush(v)
      \/ /\ pos \in 1 .. num - 1
         /\ \E chain \in Roomier(b) :
              LET at  == locate(chain, pos)
                  blk == chain[at.block]
              IN \/ /\ ShiftsLeft(blk, at.offset) \/ block_right_space(blk) > 0
                    /\ blocks' = [chain EXCEPT ![at.block] = Inserted(@, at.offset, v)]
                    /\ num' = num + 1
                 \/ /\ ~ShiftsLeft(blk, at.offset) /\ block_right_space(blk) = 0
                    /\ blocks' = chain
                    /\ UNCHANGED num
  BY DEF list_insert, Roomier
<1>2. CASE pos = 0 /\ list_lpush(v)
  <2>1. /\ IInv' /\ Flat(blocks)' = InsertAt(Flat(blocks), 1, v)
        /\ 1 \in 1 .. Len(Flat(blocks)) + 1
    BY <1>2, PushedLeft
  <2>2. Sequence!Insert(1, v) BY <2>1, AnInsertion
  <2>3. pos + 1 = 1 BY <1>2
  <2>4. QED BY <2>1, <2>2, <2>3
<1>3. CASE pos > 0 /\ pos = num /\ list_rpush(v)
  <2> DEFINE i == Len(Flat(blocks)) + 1
  <2>1. IInv' /\ Flat(blocks)' = InsertAt(Flat(blocks), i, v) /\ i \in 1 .. i
    BY <1>3, PushedRight
  <2>2. pos + 1 = i BY <1>3, Chained
  <2>3. Sequence!Insert(i, v) BY <2>1, AnInsertion
  <2> HIDE DEF i
  <2>4. QED BY <2>1, <2>2, <2>3
<1>4. CASE /\ pos \in 1 .. num - 1
           /\ \E chain \in Roomier(b) :
                LET at  == locate(chain, pos)
                    blk == chain[at.block]
                IN \/ /\ ShiftsLeft(blk, at.offset) \/ block_right_space(blk) > 0
                      /\ blocks' = [chain EXCEPT ![at.block] = Inserted(@, at.offset, v)]
                      /\ num' = num + 1
                   \/ /\ ~ShiftsLeft(blk, at.offset) /\ block_right_space(blk) = 0
                      /\ blocks' = chain
                      /\ UNCHANGED num
  <2>1. PICK chain \in Roomier(b) :
          LET at  == locate(chain, pos)
              blk == chain[at.block]
          IN \/ /\ ShiftsLeft(blk, at.offset) \/ block_right_space(blk) > 0
                /\ blocks' = Put(chain, at.block, Inserted(blk, at.offset, v))
                /\ num' = num + 1
             \/ block_right_space(blk) = 0 /\ blocks' = chain /\ num' = num
    BY <1>4 DEF Put
  <2>2. num \in Nat /\ num = Len(Flat(blocks)) /\ pos \in 0 .. num - 1 BY <1>4, Chained
  <2>3. b \in 1 .. Len(blocks) BY <2>2, Located
  <2> HIDE DEF b
  <2>4. chain \in Seq(Filled) /\ Flat(chain) = Flat(blocks) BY <2>3, MakingRoom
  <2> DEFINE at == locate(chain, pos)
  <2>5. CASE block_right_space(chain[at.block]) = 0 /\ blocks' = chain /\ num' = num
    <3>1. IInv' BY <2>2, <2>4, <2>5 DEF IInv
    <3>2. ~(block_right_space(chain[at.block]) > 0) BY <2>5
    <3> HIDE DEF at
    <3>3. Size(blocks[b]) = UINTDEQUE_BLOCK_SIZE
      BY <1>4, <3>2, NoRoomMeansFull DEF b, at
    <3>4. Elements' = Elements
      BY <2>4, <2>5, ElementsAreFlat, NextElementsAreFlat
    <3>5. Refused(pos) BY <1>4, <2>5, <3>3, <3>4 DEF Refused, b
    <3>6. QED BY <3>1, <3>5
  <2>6. CASE LET blk == chain[at.block]
             IN /\ ShiftsLeft(blk, at.offset) \/ block_right_space(blk) > 0
                /\ blocks' = Put(chain, at.block, Inserted(blk, at.offset, v))
                /\ num' = num + 1
    <3>1. pos \in Nat /\ pos < Len(Flat(chain)) BY <2>2, <2>4
    <3>2. /\ \/ ShiftsLeft(chain[at.block], at.offset)
             \/ block_right_space(chain[at.block]) > 0
          /\ blocks' = Put(chain, at.block, Inserted(chain[at.block], at.offset, v))
          /\ num' = num + 1
      BY <2>6
    <3>3. /\ blocks' \in Seq(Filled) /\ pos + 1 \in 1 .. Len(Flat(chain)) + 1
          /\ Flat(blocks') = InsertAt(Flat(chain), pos + 1, v)
          /\ Len(Flat(blocks')) = Len(Flat(chain)) + 1
      BY <2>4, <3>1, <3>2, InsertedInside
    <3> HIDE DEF at
    <3>4. IInv' BY <2>2, <2>4, <3>2, <3>3 DEF IInv
    <3>5. Sequence!Insert(pos + 1, v)
      <4> DEFINE i == pos + 1
      <4>1. i \in 1 .. Len(Flat(blocks)) + 1 /\ Flat(blocks)' = InsertAt(Flat(blocks), i, v)
        BY <2>4, <3>3
      <4> HIDE DEF i
      <4>2. Sequence!Insert(i, v) BY <4>1, AnInsertion
      <4>3. QED BY <4>2 DEF i
    <3>6. QED BY <3>4, <3>5
  <2>7. QED BY <2>1, <2>5, <2>6
<1>5. QED BY <1>1, <1>2, <1>3, <1>4

LEMMA PoppedAtTheEnds ==
  ASSUME IInv
  PROVE  /\ list_lpop => IInv' /\ Sequence!Delete(1)
         /\ list_rpop => IInv' /\ Sequence!Delete(Len(Elements))
<1>1. Flat(blocks) \in Seq(Values) BY Chained
<1>2. ASSUME list_lpop PROVE IInv' /\ Sequence!Delete(1)
  <2>1. /\ IInv' /\ 1 \in 1 .. Len(Flat(blocks))
        /\ Flat(blocks)' = RemoveAt(Flat(blocks), 1)
    BY <1>2, PoppedLeft
  <2>2. QED BY <1>1, <2>1, ADeletion
<1>3. ASSUME list_rpop PROVE IInv' /\ Sequence!Delete(Len(Elements))
  <2> DEFINE i == Len(Flat(blocks))
  <2>1. IInv' /\ i \in 1 .. Len(Flat(blocks)) /\ Flat(blocks)' = RemoveAt(Flat(blocks), i)
    BY <1>3, PoppedRight
  <2>2. i = Len(Elements) BY ElementsAreFlat
  <2> HIDE DEF i
  <2>3. Sequence!Delete(i) BY <1>1, <2>1, ADeletion
  <2>4. QED BY <2>1, <2>2, <2>3
<1>4. QED BY <1>2, <1>3

LEMMA Cleared == ASSUME list_clear PROVE IInv' /\ Sequence!Clear
<1>1. blocks' = <<>> /\ num' = 0 BY DEF list_clear
<1>2. Flat(blocks') = <<>> BY <1>1, FlatOfEmpty
<1>3. <<>> \in Seq(Filled) /\ Len(<<>>) = 0 OBVIOUS
<1>4. IInv' BY <1>1, <1>2, <1>3 DEF IInv
<1>5. QED BY <1>2, <1>4, NextElementsAreFlat DEF Sequence!Clear

LEMMA RemovedAnywhere ==
  ASSUME IInv, NEW pos \in 0 .. num - 1, list_rm_index(pos)
  PROVE  IInv' /\ Sequence!Delete(pos + 1)
<1> DEFINE i == pos + 1
<1>1. Flat(blocks) \in Seq(Values) BY Chained
<1>2. IInv' /\ i \in 1 .. Len(Flat(blocks)) /\ Flat(blocks)' = RemoveAt(Flat(blocks), i)
  BY Removed
<1> HIDE DEF i
<1>3. Sequence!Delete(i) BY <1>1, <1>2, ADeletion
<1>4. QED BY <1>2, <1>3 DEF i

LEMMA SetAnywhere ==
  ASSUME IInv, NEW pos \in 0 .. num - 1, NEW v \in Values, list_set_index(pos, v)
  PROVE  IInv' /\ Sequence!Update(pos + 1, v)
<1> DEFINE i == pos + 1
<1>1. Flat(blocks) \in Seq(Values) BY Chained
<1>2. IInv' /\ i \in 1 .. Len(Flat(blocks)) /\ Flat(blocks)' = [Flat(blocks) EXCEPT ![i] = v]
  BY SetAtIndex
<1> HIDE DEF i
<1>3. Sequence!Update(i, v) BY <1>1, <1>2, AnUpdate
<1>4. QED BY <1>2, <1>3 DEF i

LEMMA SwappedAnywhere ==
  ASSUME IInv, NEW pos \in 0 .. num - 1, NEW before \in 0 .. pos - 1, list_swap(before, pos)
  PROVE  IInv' /\ Sequence!Swap(before + 1, pos + 1)
<1> DEFINE i == before + 1
           j == pos + 1
<1>1. Flat(blocks) \in Seq(Values) /\ num \in Nat BY Chained
<1>2. before \in 0 .. num - 1 BY <1>1
<1>3. /\ IInv' /\ i \in 1 .. Len(Flat(blocks)) /\ j \in 1 .. Len(Flat(blocks))
      /\ Flat(blocks)' = [Flat(blocks) EXCEPT ![i] = Flat(blocks)[j], ![j] = Flat(blocks)[i]]
  BY <1>2, Swapped
<1> HIDE DEF i, j
<1>4. Sequence!Swap(i, j) BY <1>1, <1>3, AnExchange
<1>5. QED BY <1>3, <1>4 DEF i, j

LEMMA InitInv == list_create => IInv /\ Flat(blocks) = <<>>
<1> SUFFICES ASSUME list_create PROVE IInv /\ Flat(blocks) = <<>> OBVIOUS
<1>1. blocks = <<>> /\ num = 0 BY DEF list_create
<1>2. Flat(blocks) = <<>> BY <1>1, FlatOfEmpty
<1>3. <<>> \in Seq(Filled) /\ Len(<<>>) = 0 OBVIOUS
<1>4. QED BY <1>1, <1>2, <1>3 DEF IInv

LEMMA CallsKeepTheirPositions ==
  ASSUME IInv
  PROVE  CallsDoAsTheirPositionSays
<1>1. \A pos \in 0 .. num, v \in Values :
        list_insert(pos, v) => Sequence!Insert(pos + 1, v) \/ Refused(pos)
  BY InsertedAnywhere
<1>2. \A pos \in 0 .. num - 1 : list_rm_index(pos) => Sequence!Delete(pos + 1)
  BY RemovedAnywhere
<1>3. \A pos \in 0 .. num - 1, v \in Values :
        list_set_index(pos, v) => Sequence!Update(pos + 1, v)
  BY SetAnywhere
<1>4. \A pos \in 0 .. num - 1 : \A before \in 0 .. pos - 1 :
        list_swap(before, pos) => Sequence!Swap(before + 1, pos + 1)
  BY SwappedAnywhere
<1>5. QED
  BY <1>1, <1>2, <1>3, <1>4, PoppedAtTheEnds, Cleared DEF CallsDoAsTheirPositionSays

LEMMA StepInv ==
  ASSUME IInv, [ListNext]_listVars
  PROVE  IInv' /\ [Sequence!Next]_Elements
<1>1. Flat(blocks) \in Seq(Values) /\ num \in Nat /\ num = Len(Flat(blocks)) BY Chained
<1>2. DOMAIN Elements = 1 .. Len(Elements) /\ Len(Elements) = num BY <1>1, ElementsAreFlat
<1>3. CASE UNCHANGED listVars
  <2>1. blocks' = blocks /\ num' = num BY <1>3 DEF listVars
  <2>2. Flat(blocks)' = Flat(blocks) BY <2>1
  <2>3. Elements' = Elements BY <2>2, ElementsAreFlat, NextElementsAreFlat
  <2>4. QED BY <2>1, <2>2, <2>3 DEF IInv
<1>4. ASSUME NEW v \in Values, NEW pos \in 0 .. num, list_insert(pos, v)
      PROVE  IInv' /\ [Sequence!Next]_Elements
  <2>1. IInv' /\ (Sequence!Insert(pos + 1, v) \/ Refused(pos)) BY <1>4, InsertedAnywhere
  <2>2. CASE Refused(pos) BY <2>1, <2>2 DEF Refused
  <2>3. CASE Sequence!Insert(pos + 1, v)
    <3>1. pos + 1 \in 1 .. Len(Elements) + 1 BY <1>1, <1>2
    <3>2. Sequence!Next BY <2>3, <3>1 DEF Sequence!Next
    <3>3. QED BY <2>1, <3>2
  <2>4. QED BY <2>1, <2>2, <2>3
<1>5. ASSUME NEW i \in DOMAIN Elements, Sequence!Delete(i) PROVE Sequence!Next
  BY <1>5 DEF Sequence!Next
<1>6. CASE list_lpop \/ list_rpop
  <2>1. num > 0 BY <1>6 DEF list_lpop, list_rpop
  <2>2. 1 \in DOMAIN Elements /\ Len(Elements) \in DOMAIN Elements BY <1>1, <1>2, <2>1
  <2>3. IInv' /\ (Sequence!Delete(1) \/ Sequence!Delete(Len(Elements)))
    BY <1>6, PoppedAtTheEnds
  <2>4. QED BY <1>5, <2>2, <2>3
<1>7. CASE list_clear BY <1>7, Cleared DEF Sequence!Next
<1>8. ASSUME NEW pos \in 0 .. num - 1, list_rm_index(pos)
      PROVE  IInv' /\ [Sequence!Next]_Elements
  <2>1. pos + 1 \in DOMAIN Elements BY <1>1, <1>2
  <2>2. IInv' /\ Sequence!Delete(pos + 1) BY <1>8, RemovedAnywhere
  <2>3. QED BY <1>5, <2>1, <2>2
<1>9. ASSUME NEW pos \in 0 .. num - 1, NEW v \in Values, list_set_index(pos, v)
      PROVE  IInv' /\ [Sequence!Next]_Elements
  <2>1. pos + 1 \in DOMAIN Elements BY <1>1, <1>2
  <2>2. IInv' /\ Sequence!Update(pos + 1, v) BY <1>9, SetAnywhere
  <2>3. QED BY <2>1, <2>2 DEF Sequence!Next
<1>10. ASSUME NEW pos \in 0 .. num - 1, NEW before \in 0 .. pos - 1, list_swap(before, pos)
       PROVE  IInv' /\ [Sequence!Next]_Elements
  <2>1. pos + 1 \in DOMAIN Elements /\ before + 1 \in DOMAIN Elements BY <1>1, <1>2
  <2>2. IInv' /\ Sequence!Swap(before + 1, pos + 1) BY <1>10, SwappedAnywhere
  <2>3. QED BY <2>1, <2>2 DEF Sequence!Next
<1>11. QED BY <1>3, <1>4, <1>6, <1>7, <1>8, <1>9, <1>10 DEF ListNext

(* No block of a list of lib/list.c runs over its array or is left empty,  *)
(* the list's count is that of the elements in its blocks, and             *)
(* list_get_index finds each of them at its position: whatever             *)
(* list_insert's centring and splitting, list_rm_index's merging and the   *)
(* pushes and pops at both ends do, with an allocator that may fail.       *)
THEOREM BlocksAlwaysFit == ListSpec => []BlocksFit
<1>1. list_create => IInv BY InitInv
<1>2. IInv /\ [ListNext]_listVars => IInv' BY StepInv
<1>3. IInv => BlocksFit BY InvariantFits
<1>4. QED BY <1>1, <1>2, <1>3, PTL DEF ListSpec

(* A list of lib/list.c is one sequence, and each list_insert,             *)
(* list_rm_index, list_set_index, list_swap, push and pop changes the      *)
(* element at its own position and no other: no split, merge or centring   *)
(* of a block drops, doubles or reorders one, and an insertion that fails  *)
(* leaves them all where they were.                                        *)
THEOREM ListIsASequence == ListSpec => ListImplementsDeque
<1>1. list_create => IInv BY InitInv
<1>2. IInv /\ [ListNext]_listVars => IInv' BY StepInv
<1>3. list_create => Sequence!Init
  BY InitInv, ElementsAreFlat DEF Sequence!Init
<1>4. IInv /\ [ListNext]_listVars => [Sequence!Next]_Elements BY StepInv
<1>5. IInv => [CallsDoAsTheirPositionSays]_listVars BY CallsKeepTheirPositions
<1>6. QED
  BY <1>1, <1>2, <1>3, <1>4, <1>5, PTL DEF ListSpec, ListImplementsDeque, Sequence!Spec
==============================================================================

------------------------------ MODULE StoresProof ------------------------------
(***************************************************************************)
(* Theorems about the two stores that hash their keys, for every set of    *)
(* keys, hash function and size of a table.  Kvalot: the buckets stay      *)
(* exact, and the store is a map.  HashTable: every search ends, and a key *)
(* that was put is found until a tombstone is reused.                      *)
(***************************************************************************)
EXTENDS Kvalot, HashTable, ListsProof, FiniteSetTheorems

-----------------------------------------------------------------------------
(* The key-value store *)

Pairs == [key : Keys, value : Values, hash_index : Nat]

(* What a table of n buckets must be for a pool, and what each answers.    *)
Listing(pool, n) ==
  [b \in 0 .. n - 1 |-> {i \in DOMAIN pool : Hash[pool[i].key] % n = b}]
HasKey(pool, k) == \E i \in DOMAIN pool : pool[i].key = k
KeysDiffer(pool) == \A i, j \in DOMAIN pool : pool[i].key = pool[j].key => i = j

(* A table with one more position in bucket b. *)
Extended(table, b, position) == [table EXCEPT ![b] = @ \cup {position}]

(* The pool without pair i: the last pair moves into its place. *)
Without(pool, i) ==
  [j \in 1 .. Len(pool) - 1 |-> IF j = i THEN pool[Len(pool)] ELSE pool[j]]

(* A hash_index is right for n buckets or for a larger table.              *)
IndexUsable(pool, n) ==
  \A i \in DOMAIN pool :
    \/ pool[i].hash_index = Hash[pool[i].key] % n
    \/ \E m \in BucketCounts : m > n /\ pool[i].hash_index = Hash[pool[i].key] % m

StoreType ==
  /\ keypool \in Seq(Pairs)
  /\ num_buckets \in BucketCounts
  /\ hash_table = Listing(keypool, num_buckets)

(* The invariant of a store that has not gone astray: BucketsExact says    *)
(* the rest of it.                                                         *)
IInv == ~astray /\ StoreType /\ BucketsExact

(* The inductive invariant.  Of a store astray only what clearing needs.   *)
StoreInv == num_buckets \in BucketCounts /\ (~astray => IInv)

-----------------------------------------------------------------------------
(* Lemmas *)

LEMMA SmallestIn ==
  ASSUME NEW S \in SUBSET Nat, S # {}
  PROVE  Smallest(S) \in S
BY LeastExists DEF Smallest

LEMMA Counts == BucketCounts \subseteq Nat /\ \A n \in BucketCounts : n > 0
BY KvalotAssumption

LEMMA BucketOf ==
  ASSUME NEW k \in Keys, NEW n \in BucketCounts
  PROVE  Hash[k] % n \in 0 .. n - 1
<1>1. Hash[k] \in Nat /\ n \in Nat /\ n > 0 BY StoresAssumption, Counts
<1>2. QED BY <1>1

(* A search in an exact table finds the one position of a key, or nothing. *)
LEMMA FindKey ==
  ASSUME NEW pool \in Seq(Pairs), NEW n \in BucketCounts, NEW k \in Keys
  PROVE  LET i == find_key_in_bucket(pool, Listing(pool, n)[Hash[k] % n], k) IN
         /\ HasKey(pool, k) => i \in DOMAIN pool /\ pool[i].key = k
         /\ ~HasKey(pool, k) => i = 0
<1> DEFINE b == Hash[k] % n
           bucket == Listing(pool, n)[b]
<1>1. b \in 0 .. n - 1 BY BucketOf
<1>2. bucket = {i \in DOMAIN pool : Hash[pool[i].key] % n = b} BY <1>1 DEF Listing
<1> HIDE DEF b
<1>3. ASSUME NEW i \in DOMAIN pool, pool[i].key = k PROVE i \in bucket
  BY <1>2, <1>3 DEF b
<1>4. HasKey(pool, k) <=> \E i \in bucket : pool[i].key = k
  BY <1>2, <1>3 DEF HasKey
<1>5. QED BY <1>2, <1>4 DEF find_key_in_bucket, b

(* A rehashed pool is the same pairs, and the new table lists it.          *)
LEMMA RehashedPool ==
  ASSUME keypool \in Seq(Pairs), NEW n \in BucketCounts
  PROVE  /\ Rehashed(n) \in Seq(Pairs)
         /\ Len(Rehashed(n)) = Len(keypool)
         /\ DOMAIN Rehashed(n) = DOMAIN keypool
         /\ \A i \in DOMAIN keypool :
              /\ Rehashed(n)[i].key = keypool[i].key
              /\ Rehashed(n)[i].value = keypool[i].value
              /\ Rehashed(n)[i].hash_index = Hash[keypool[i].key] % n
         /\ resize_hash_table(n) = Listing(Rehashed(n), n)
<1>1. /\ Len(keypool) \in Nat /\ DOMAIN keypool = 1 .. Len(keypool)
      /\ \A i \in DOMAIN keypool : keypool[i] \in Pairs
  BY LenProperties, ElementOfSeq
<1>2. ASSUME NEW i \in DOMAIN keypool
      PROVE  Pair(keypool[i].key, keypool[i].value, n) \in Pairs
  <2>1. keypool[i].key \in Keys /\ keypool[i].value \in Values BY <1>1 DEF Pairs
  <2>2. Hash[keypool[i].key] % n \in Nat BY <2>1, BucketOf, Counts
  <2>3. QED BY <2>1, <2>2 DEF Pair, Pairs
<1>3. Rehashed(n) \in [1 .. Len(keypool) -> Pairs] BY <1>1, <1>2 DEF Rehashed
<1>4. Rehashed(n) \in Seq(Pairs) BY <1>1, <1>3, SeqDef
<1>5. Len(Rehashed(n)) = Len(keypool)
  <2>1. Rehashed(n) \in [1 .. Len(Rehashed(n)) -> Pairs] /\ Len(Rehashed(n)) \in Nat
    BY <1>4, LenProperties
  <2>2. 1 .. Len(Rehashed(n)) = 1 .. Len(keypool) BY <1>3, <2>1
  <2> DEFINE l == Len(Rehashed(n))
             m == Len(keypool)
  <2>3. l \in Nat /\ m \in Nat /\ 1 .. l = 1 .. m BY <1>1, <2>1, <2>2
  <2> HIDE DEF l, m
  <2>4. CASE l < m
    <3>1. m \in 1 .. m /\ m \notin 1 .. l BY <2>3, <2>4
    <3>2. QED BY <2>3, <3>1
  <2>5. CASE m < l
    <3>1. l \in 1 .. l /\ l \notin 1 .. m BY <2>3, <2>5
    <3>2. QED BY <2>3, <3>1
  <2>6. l = m BY <2>3, <2>4, <2>5
  <2>7. QED BY <2>6 DEF l, m
<1>6. \A i \in DOMAIN keypool :
        /\ Rehashed(n)[i].key = keypool[i].key
        /\ Rehashed(n)[i].value = keypool[i].value
        /\ Rehashed(n)[i].hash_index = Hash[keypool[i].key] % n
  BY DEF Rehashed, Pair
<1>7. DOMAIN Rehashed(n) = DOMAIN keypool BY <1>1, <1>3
<1>8. resize_hash_table(n) = Listing(Rehashed(n), n)
  BY <1>6, <1>7 DEF resize_hash_table, Listing
<1>9. QED BY <1>4, <1>5, <1>6, <1>7, <1>8

(* A new pair at the end of the pool and in the bucket of its key. *)
LEMMA AppendedPool ==
  ASSUME NEW pool \in Seq(Pairs), NEW n \in BucketCounts,
         NEW k \in Keys, NEW v \in Values, ~HasKey(pool, k), KeysDiffer(pool)
  PROVE  LET more == Append(pool, Pair(k, v, n)) IN
         /\ more \in Seq(Pairs) /\ KeysDiffer(more)
         /\ Len(more) = Len(pool) + 1
         /\ DOMAIN more = DOMAIN pool \cup {Len(pool) + 1}
         /\ \A i \in DOMAIN pool : more[i] = pool[i]
         /\ more[Len(pool) + 1] = Pair(k, v, n)
         /\ Extended(Listing(pool, n), Hash[k] % n, Len(pool) + 1) = Listing(more, n)
<1> DEFINE new == Pair(k, v, n)
           more == Append(pool, new)
           b == Hash[k] % n
<1>1. b \in 0 .. n - 1 /\ new \in Pairs
  BY BucketOf, Counts DEF Pair, Pairs
<1>2. /\ Len(pool) \in Nat /\ DOMAIN pool = 1 .. Len(pool)
      /\ Len(pool) + 1 \notin DOMAIN pool
  BY LenProperties
<1>3. /\ more \in Seq(Pairs) /\ Len(more) = Len(pool) + 1
      /\ DOMAIN more = 1 .. Len(pool) + 1
      /\ \A i \in 1 .. Len(pool) : more[i] = pool[i]
      /\ more[Len(pool) + 1] = new
  BY <1>1, AppendElements
<1>4. DOMAIN more = DOMAIN pool \cup {Len(pool) + 1} BY <1>2, <1>3
<1>5. new.key = k BY DEF Pair
<1> HIDE DEF new, more
<1>6. KeysDiffer(more) BY <1>2, <1>3, <1>4, <1>5 DEF KeysDiffer, HasKey
<1>7. ASSUME NEW c \in 0 .. n - 1
      PROVE  [Listing(pool, n) EXCEPT ![b] = @ \cup {Len(pool) + 1}][c]
               = {i \in DOMAIN more : Hash[more[i].key] % n = c}
  <2>1. Listing(pool, n)[c] = {i \in DOMAIN pool : Hash[pool[i].key] % n = c} BY DEF Listing
  <2>2. {i \in DOMAIN more : Hash[more[i].key] % n = c}
          = {i \in DOMAIN pool : Hash[pool[i].key] % n = c}
            \cup (IF c = b THEN {Len(pool) + 1} ELSE {})
    BY <1>2, <1>3, <1>4, <1>5
  <2>3. QED BY <2>1, <2>2 DEF Listing
<1>8. [Listing(pool, n) EXCEPT ![b] = @ \cup {Len(pool) + 1}] = Listing(more, n)
  BY <1>7 DEF Listing
<1>9. Extended(Listing(pool, n), b, Len(pool) + 1) = Listing(more, n)
  BY <1>8 DEF Extended
<1>10. QED BY <1>2, <1>3, <1>4, <1>6, <1>9 DEF more, new

(* The pool and the table after the removal of pair i. *)
LEMMA RemovedPool ==
  ASSUME NEW pool \in Seq(Pairs), NEW n \in BucketCounts, NEW i \in DOMAIN pool,
         KeysDiffer(pool),
         i # Len(pool) => pool[Len(pool)].hash_index = Hash[pool[Len(pool)].key] % n
  PROVE  LET less == Without(pool, i) IN
         /\ less \in Seq(Pairs) /\ KeysDiffer(less)
         /\ DOMAIN less = 1 .. Len(pool) - 1
         /\ Relisted([Listing(pool, n) EXCEPT ![Hash[pool[i].key] % n] = @ \ {i}],
                     pool[Len(pool)].hash_index, Len(pool), i)
              = Listing(less, n)
<1> DEFINE last == Len(pool)
           less == Without(pool, i)
           b == Hash[pool[i].key] % n
           h == pool[last].hash_index
           gap == [Listing(pool, n) EXCEPT ![b] = @ \ {i}]
<1>1. /\ last \in Nat /\ DOMAIN pool = 1 .. last /\ last \in DOMAIN pool
      /\ \A j \in DOMAIN pool : pool[j] \in Pairs /\ pool[j].key \in Keys
  <2>1. last \in Nat /\ DOMAIN pool = 1 .. last BY LenProperties
  <2>2. \A j \in DOMAIN pool : pool[j] \in Pairs BY <2>1, ElementOfSeq
  <2>3. QED BY <2>1, <2>2 DEF Pairs
<1>2. less \in [1 .. last - 1 -> Pairs] BY <1>1 DEF Without
<1>3. less \in Seq(Pairs)
  <2>1. last - 1 \in Nat BY <1>1
  <2>2. QED BY <1>2, <2>1, SeqDef
<1>4. /\ DOMAIN less = 1 .. last - 1
      /\ \A j \in 1 .. last - 1 : less[j] = IF j = i THEN pool[last] ELSE pool[j]
  BY <1>2 DEF Without
<1> HIDE DEF less, last
<1>5. KeysDiffer(less) BY <1>1, <1>4 DEF KeysDiffer
<1>6. b \in 0 .. n - 1 BY <1>1, BucketOf
<1>7. ASSUME NEW c \in 0 .. n - 1
      PROVE  gap[c] = {j \in DOMAIN pool : j # i /\ Hash[pool[j].key] % n = c}
  BY <1>7 DEF Listing
<1>8. gap = [c \in 0 .. n - 1 |-> gap[c]] BY DEF Listing
<1> HIDE DEF gap
<1>9. CASE i = last
  <2>1. ASSUME NEW c \in 0 .. n - 1
        PROVE  gap[c] = {j \in DOMAIN less : Hash[less[j].key] % n = c}
    BY <1>1, <1>4, <1>7, <1>9
  <2>2. gap = Listing(less, n) BY <1>8, <2>1 DEF Listing
  <2>3. Relisted(gap, h, last, i) = gap BY <1>9 DEF Relisted
  <2>4. QED BY <1>3, <1>4, <1>5, <2>2, <2>3 DEF gap, last, less
<1>10. CASE i # last
  <2>1. h = Hash[pool[last].key] % n BY <1>10 DEF last
  <2>2. h \in 0 .. n - 1 BY <1>1, <2>1, BucketOf
  <2>3. last \in gap[h] BY <1>1, <1>7, <1>10, <2>1, <2>2
  <2> DEFINE table == [gap EXCEPT ![h] = (@ \ {last}) \cup {i}]
  <2>4. Relisted(gap, h, last, i) = table
    <3>1. h \in DOMAIN gap BY <1>8, <2>2
    <3>2. QED BY <1>10, <2>3, <3>1 DEF Relisted
  <2>5. ASSUME NEW c \in 0 .. n - 1
        PROVE  table[c] = {j \in DOMAIN less : Hash[less[j].key] % n = c}
    <3>1. CASE c = h
      <4>1. table[c] = (gap[c] \ {last}) \cup {i} BY <1>8, <2>2, <3>1
      <4>2. QED BY <1>1, <1>4, <1>7, <1>10, <2>1, <3>1, <4>1
    <3>2. CASE c # h
      <4>1. table[c] = gap[c] BY <1>8, <3>2
      <4>2. QED BY <1>1, <1>4, <1>7, <1>10, <2>1, <3>2, <4>1
    <3>3. QED BY <3>1, <3>2
  <2>6. table = [c \in 0 .. n - 1 |-> table[c]] BY <1>8
  <2>7. table = Listing(less, n) BY <2>5, <2>6 DEF Listing
  <2>8. QED BY <1>3, <1>4, <1>5, <2>4, <2>7 DEF gap, last, less
<1>11. QED BY <1>9, <1>10

(* In an exact store, BucketsExact says that keys differ and indexes are   *)
(* usable.                                                                 *)
LEMMA ExactParts ==
  ASSUME ~astray, keypool \in Seq(Pairs), num_buckets \in BucketCounts,
         hash_table = Listing(keypool, num_buckets)
  PROVE  BucketsExact <=> KeysDiffer(keypool) /\ IndexUsable(keypool, num_buckets)
BY DEF BucketsExact, KeysDiffer, IndexUsable, Listing, Larger

LEMMA ExactPartsPrimed ==
  ASSUME ~astray', keypool' \in Seq(Pairs), num_buckets' \in BucketCounts,
         hash_table' = Listing(keypool', num_buckets'),
         KeysDiffer(keypool'), IndexUsable(keypool', num_buckets')
  PROVE  IInv'
BY DEF IInv, StoreType, BucketsExact, KeysDiffer, IndexUsable, Listing, Larger

(* The sizes a resize can choose. *)
LEMMA SmallestLarger ==
  ASSUME num_buckets \in BucketCounts, Larger # {}
  PROVE  Smallest(Larger) \in BucketCounts /\ Smallest(Larger) > num_buckets
<1>1. Larger \in SUBSET Nat /\ Larger \subseteq BucketCounts BY Counts DEF Larger
<1>2. Smallest(Larger) \in Larger BY <1>1, SmallestIn
<1>3. QED BY <1>2 DEF Larger

LEMMA InitInv == kvalot_create => IInv
<1> SUFFICES ASSUME kvalot_create PROVE IInv OBVIOUS
<1>1. keypool = <<>> /\ keypool \in Seq(Pairs) /\ DOMAIN keypool = {}
  BY DEF kvalot_create
<1>2. BucketCounts \in SUBSET Nat /\ BucketCounts # {} BY Counts, KvalotAssumption
<1>3. num_buckets \in BucketCounts BY <1>2, SmallestIn DEF kvalot_create
<1>4. hash_table = Listing(keypool, num_buckets)
  BY <1>1 DEF kvalot_create, EmptyTable, Listing
<1>5. KeysDiffer(keypool) /\ IndexUsable(keypool, num_buckets)
  BY <1>1 DEF KeysDiffer, IndexUsable
<1>6. ~astray BY DEF kvalot_create
<1>7. QED BY <1>1, <1>3, <1>4, <1>5, <1>6, ExactParts DEF IInv, StoreType

(* The pool and the table an addition works on. *)
LEMMA Enlarged ==
  ASSUME IInv, Crowded => Larger # {}
  PROVE  LET n     == IF Crowded THEN Smallest(Larger) ELSE num_buckets
             pool  == IF Crowded THEN Rehashed(n) ELSE keypool
             table == IF Crowded THEN resize_hash_table(n) ELSE hash_table
         IN /\ n \in BucketCounts /\ pool \in Seq(Pairs)
            /\ table = Listing(pool, n)
            /\ KeysDiffer(pool) /\ IndexUsable(pool, n)
            /\ DOMAIN pool = DOMAIN keypool
            /\ \A i \in DOMAIN keypool : /\ pool[i].key = keypool[i].key
                                         /\ pool[i].value = keypool[i].value
<1>1. /\ keypool \in Seq(Pairs) /\ num_buckets \in BucketCounts
      /\ hash_table = Listing(keypool, num_buckets)
      /\ KeysDiffer(keypool) /\ IndexUsable(keypool, num_buckets)
  BY ExactParts DEF IInv, StoreType
<1>2. CASE ~Crowded BY <1>1, <1>2
<1>3. CASE Crowded
  <2> DEFINE n == Smallest(Larger)
  <2>1. n \in BucketCounts BY <1>1, <1>3, SmallestLarger
  <2> HIDE DEF n
  <2>2. /\ Rehashed(n) \in Seq(Pairs) /\ DOMAIN Rehashed(n) = DOMAIN keypool
        /\ \A i \in DOMAIN keypool :
             /\ Rehashed(n)[i].key = keypool[i].key
             /\ Rehashed(n)[i].value = keypool[i].value
             /\ Rehashed(n)[i].hash_index = Hash[keypool[i].key] % n
        /\ resize_hash_table(n) = Listing(Rehashed(n), n)
    BY <1>1, <2>1, RehashedPool
  <2>3. KeysDiffer(Rehashed(n)) BY <1>1, <2>2 DEF KeysDiffer
  <2>4. IndexUsable(Rehashed(n), n) BY <2>2 DEF IndexUsable
  <2>5. QED BY <1>3, <2>1, <2>2, <2>3, <2>4 DEF n
<1>4. QED BY <1>2, <1>3

(* A resize that fails half way leaves usable indexes. *)
LEMMA FailedResize ==
  ASSUME IInv, Larger # {}, resize_hash_table_fails
  PROVE  /\ IInv' /\ UNCHANGED num_buckets
         /\ DOMAIN keypool' = DOMAIN keypool
         /\ \A i \in DOMAIN keypool : /\ keypool'[i].key = keypool[i].key
                                      /\ keypool'[i].value = keypool[i].value
<1> DEFINE n == Smallest(Larger)
           l == Len(keypool)
<1>1. /\ keypool \in Seq(Pairs) /\ num_buckets \in BucketCounts
      /\ hash_table = Listing(keypool, num_buckets)
      /\ KeysDiffer(keypool) /\ IndexUsable(keypool, num_buckets)
  BY ExactParts DEF IInv, StoreType
<1>2. n \in BucketCounts /\ n > num_buckets BY <1>1, SmallestLarger
<1> HIDE DEF n
<1>3. /\ Rehashed(n) \in Seq(Pairs) /\ Len(Rehashed(n)) = l
      /\ DOMAIN Rehashed(n) = DOMAIN keypool
      /\ \A i \in DOMAIN keypool :
           /\ Rehashed(n)[i].key = keypool[i].key
           /\ Rehashed(n)[i].value = keypool[i].value
           /\ Rehashed(n)[i].hash_index = Hash[keypool[i].key] % n
  BY <1>1, <1>2, RehashedPool
<1>4. l \in Nat /\ DOMAIN keypool = 1 .. l BY <1>1, LenProperties
<1>5. PICK done \in 0 .. l - 1 :
        keypool' = SubSeq(Rehashed(n), 1, done) \o SubSeq(keypool, done + 1, l)
  BY DEF resize_hash_table_fails, n
<1> DEFINE low == SubSeq(Rehashed(n), 1, done)
           top == SubSeq(keypool, done + 1, l)
<1>6. /\ low \in Seq(Pairs) /\ Len(low) = done
      /\ \A i \in 1 .. done : low[i] = Rehashed(n)[i]
  <2>1. \A i \in 1 .. done : Rehashed(n)[i] \in Pairs
    BY <1>3, <1>4, <1>5, ElementOfSeq
  <2>2. /\ low \in Seq(Pairs)
        /\ Len(low) = IF 1 <= done THEN done - 1 + 1 ELSE 0
        /\ \A i \in 1 .. done - 1 + 1 : low[i] = Rehashed(n)[1 + i - 1]
    BY <1>4, <1>5, <2>1, SubSeqProperties
  <2>3. QED BY <1>4, <1>5, <2>2
<1>7. /\ top \in Seq(Pairs) /\ Len(top) = l - done
      /\ \A i \in 1 .. l - done : top[i] = keypool[done + i]
  <2>1. \A i \in done + 1 .. l : keypool[i] \in Pairs
    BY <1>1, <1>4, <1>5, ElementOfSeq
  <2>2. /\ top \in Seq(Pairs)
        /\ Len(top) = IF done + 1 <= l THEN l - (done + 1) + 1 ELSE 0
        /\ \A i \in 1 .. l - (done + 1) + 1 : top[i] = keypool[done + 1 + i - 1]
    BY <1>4, <1>5, <2>1, SubSeqProperties, SMTT(30)
  <2>3. QED BY <1>4, <1>5, <2>2
<1>8. /\ keypool' \in Seq(Pairs) /\ Len(keypool') = l
      /\ \A i \in 1 .. l : keypool'[i] = IF i <= done THEN low[i] ELSE top[i - done]
  <2> HIDE DEF low, top
  <2>1. /\ low \o top \in Seq(Pairs) /\ Len(low \o top) = Len(low) + Len(top)
        /\ \A i \in 1 .. Len(low) + Len(top) :
             (low \o top)[i] = IF i <= Len(low) THEN low[i] ELSE top[i - Len(low)]
    BY <1>6, <1>7, ConcatProperties
  <2>2. keypool' = low \o top BY <1>5 DEF low, top
  <2>3. done + (l - done) = l BY <1>4, <1>5
  <2>4. QED BY <1>6, <1>7, <2>1, <2>2, <2>3
<1>9. DOMAIN keypool' = DOMAIN keypool
  <2>1. DOMAIN keypool' = 1 .. Len(keypool') BY <1>8, LenProperties
  <2>2. QED BY <1>4, <1>8, <2>1
<1>10. ASSUME NEW i \in DOMAIN keypool
       PROVE  /\ keypool'[i].key = keypool[i].key
              /\ keypool'[i].value = keypool[i].value
              /\ keypool'[i].hash_index \in {keypool[i].hash_index, Hash[keypool[i].key] % n}
  <2> HIDE DEF low, top, l
  <2>1. i \in 1 .. l BY <1>4
  <2>2. CASE i <= done
    <3>1. i \in 1 .. done BY <1>4, <1>5, <2>1, <2>2
    <3>2. keypool'[i] = Rehashed(n)[i] BY <1>6, <1>8, <2>1, <2>2, <3>1
    <3>3. QED BY <1>3, <3>2
  <2>3. CASE ~(i <= done)
    <3>1. i - done \in 1 .. l - done /\ done + (i - done) = i BY <1>4, <1>5, <2>1, <2>3
    <3>2. keypool'[i] = keypool[i] BY <1>7, <1>8, <2>1, <2>3, <3>1
    <3>3. QED BY <3>2
  <2>4. QED BY <2>2, <2>3
<1>11. UNCHANGED <<hash_table, num_buckets>> /\ ~astray'
  BY DEF resize_hash_table_fails, IInv
<1>12. hash_table' = Listing(keypool', num_buckets')
  BY <1>1, <1>9, <1>10, <1>11 DEF Listing
<1>13. KeysDiffer(keypool') BY <1>1, <1>9, <1>10 DEF KeysDiffer
<1>14. IndexUsable(keypool', num_buckets')
  BY <1>1, <1>2, <1>9, <1>10, <1>11 DEF IndexUsable
<1>15. IInv' BY <1>1, <1>8, <1>11, <1>12, <1>13, <1>14, ExactPartsPrimed
<1>16. QED BY <1>9, <1>10, <1>11, <1>15

-----------------------------------------------------------------------------
(* The map a pool stands for *)

ValueOf(pool, k) == pool[CHOOSE i \in DOMAIN pool : pool[i].key = k].value
MapOf(pool) == [k \in {key \in Keys : HasKey(pool, key)} |-> ValueOf(pool, k)]

FoundIn(pool, table, n, k) ==
  LET i == find_key_in_bucket(pool, table[Hash[k] % n], k)
  IN IF i = 0 THEN NULL ELSE pool[i].value
ContentsOf(pool, table, n) ==
  [k \in {key \in Keys : FoundIn(pool, table, n, key) # NULL} |-> FoundIn(pool, table, n, k)]

LEMMA ValueAt ==
  ASSUME NEW pool, KeysDiffer(pool), NEW i \in DOMAIN pool
  PROVE  ValueOf(pool, pool[i].key) = pool[i].value
<1> DEFINE j == CHOOSE x \in DOMAIN pool : pool[x].key = pool[i].key
<1>1. j \in DOMAIN pool /\ pool[j].key = pool[i].key OBVIOUS
<1>2. j = i BY <1>1 DEF KeysDiffer
<1>3. QED BY <1>2 DEF ValueOf

(* A map with one more key. *)
MapWith(map, k, v) == [x \in DOMAIN map \cup {k} |-> IF x = k THEN v ELSE map[x]]

(* The searches in an exact table make up this map. *)
LEMMA ContentsAre ==
  ASSUME NEW pool \in Seq(Pairs), NEW n \in BucketCounts, KeysDiffer(pool)
  PROVE  ContentsOf(pool, Listing(pool, n), n) = MapOf(pool)
<1> DEFINE table == Listing(pool, n)
<1>1. \A i \in DOMAIN pool : pool[i].value \in Values
  <2>1. \A i \in DOMAIN pool : pool[i] \in Pairs BY LenProperties, ElementOfSeq
  <2>2. QED BY <2>1 DEF Pairs
<1>2. ASSUME NEW k \in Keys, HasKey(pool, k)
      PROVE  FoundIn(pool, table, n, k) = ValueOf(pool, k) /\ FoundIn(pool, table, n, k) # NULL
  <2> DEFINE i == find_key_in_bucket(pool, table[Hash[k] % n], k)
  <2>1. i \in DOMAIN pool /\ pool[i].key = k BY <1>2, FindKey
  <2>2. i # 0 BY <2>1, LenProperties
  <2>3. FoundIn(pool, table, n, k) = pool[i].value BY <2>2 DEF FoundIn
  <2>4. ValueOf(pool, k) = pool[i].value BY <2>1, ValueAt
  <2>5. QED BY <1>1, <2>1, <2>3, <2>4, StoresAssumption
<1>3. ASSUME NEW k \in Keys, ~HasKey(pool, k)
      PROVE  FoundIn(pool, table, n, k) = NULL
  BY <1>3, FindKey DEF FoundIn
<1> HIDE DEF table
<1>4. {key \in Keys : FoundIn(pool, table, n, key) # NULL} = {key \in Keys : HasKey(pool, key)}
  BY <1>2, <1>3
<1>5. ContentsOf(pool, table, n) = MapOf(pool) BY <1>2, <1>4 DEF ContentsOf, MapOf
<1>6. QED BY <1>5 DEF table

(* Only keys and values count. *)
LEMMA SameMap ==
  ASSUME NEW pool, NEW other, KeysDiffer(pool), DOMAIN other = DOMAIN pool,
         \A i \in DOMAIN pool : other[i].key = pool[i].key /\ other[i].value = pool[i].value
  PROVE  MapOf(other) = MapOf(pool)
<1>1. KeysDiffer(other) BY DEF KeysDiffer
<1>2. \A k : HasKey(other, k) <=> HasKey(pool, k) BY DEF HasKey
<1>3. ASSUME NEW k, HasKey(pool, k) PROVE ValueOf(other, k) = ValueOf(pool, k)
  <2>1. PICK i \in DOMAIN pool : pool[i].key = k BY <1>3 DEF HasKey
  <2>2. ValueOf(pool, k) = pool[i].value BY <2>1, ValueAt
  <2>3. ValueOf(other, k) = other[i].value
    <3>1. i \in DOMAIN other /\ other[i].key = k BY <2>1
    <3>2. QED BY <1>1, <3>1, ValueAt
  <2>4. QED BY <2>1, <2>2, <2>3
<1>4. QED BY <1>2, <1>3 DEF MapOf

(* What a new pair adds to the map. *)
LEMMA MapOfMore ==
  ASSUME NEW pool, NEW more, NEW k \in Keys, NEW v, NEW p,
         p \notin DOMAIN pool, DOMAIN more = DOMAIN pool \cup {p},
         KeysDiffer(pool), KeysDiffer(more), ~HasKey(pool, k),
         \A i \in DOMAIN pool : more[i] = pool[i],
         more[p].key = k, more[p].value = v
  PROVE  /\ k \notin DOMAIN MapOf(pool)
         /\ MapOf(more) = MapWith(MapOf(pool), k, v)
<1>1. DOMAIN MapOf(pool) = {key \in Keys : HasKey(pool, key)} BY DEF MapOf
<1>2. \A x : HasKey(more, x) <=> HasKey(pool, x) \/ x = k BY DEF HasKey
<1>3. {key \in Keys : HasKey(more, key)} = DOMAIN MapOf(pool) \cup {k} BY <1>1, <1>2
<1>4. ValueOf(more, k) = v
  <2>1. p \in DOMAIN more OBVIOUS
  <2>2. QED BY <2>1, ValueAt
<1>5. ASSUME NEW x \in DOMAIN MapOf(pool), x # k PROVE ValueOf(more, x) = MapOf(pool)[x]
  <2>1. PICK i \in DOMAIN pool : pool[i].key = x BY <1>1, <1>5 DEF HasKey
  <2>2. ValueOf(pool, x) = pool[i].value BY <2>1, ValueAt
  <2>3. ValueOf(more, x) = more[i].value
    <3>1. i \in DOMAIN more /\ more[i].key = x BY <2>1
    <3>2. QED BY <3>1, ValueAt
  <2>4. MapOf(pool)[x] = ValueOf(pool, x) BY <1>1, <1>5 DEF MapOf
  <2>5. QED BY <2>1, <2>2, <2>3, <2>4
<1>6. MapOf(more) = [x \in DOMAIN MapOf(pool) \cup {k} |-> ValueOf(more, x)]
  BY <1>3 DEF MapOf
<1>7. MapOf(more) = MapWith(MapOf(pool), k, v)
  BY <1>4, <1>5, <1>6 DEF MapWith
<1>8. k \notin DOMAIN MapOf(pool) BY <1>1
<1>9. QED BY <1>7, <1>8

(* What the removal of pair i takes from the map. *)
LEMMA MapOfLess ==
  ASSUME NEW pool \in Seq(Pairs), KeysDiffer(pool), NEW i \in DOMAIN pool,
         KeysDiffer(Without(pool, i))
  PROVE  /\ pool[i].key \in DOMAIN MapOf(pool)
         /\ MapOf(Without(pool, i)) =
              [x \in DOMAIN MapOf(pool) \ {pool[i].key} |-> MapOf(pool)[x]]
<1> DEFINE last == Len(pool)
           less == Without(pool, i)
           k == pool[i].key
<1>1. /\ last \in Nat /\ DOMAIN pool = 1 .. last /\ i \in 1 .. last
      /\ \A j \in DOMAIN pool : pool[j].key \in Keys
  <2>1. last \in Nat /\ DOMAIN pool = 1 .. last BY LenProperties
  <2>2. \A j \in DOMAIN pool : pool[j] \in Pairs BY <2>1, ElementOfSeq
  <2>3. QED BY <2>1, <2>2 DEF Pairs
<1>2. /\ DOMAIN less = 1 .. last - 1
      /\ \A j \in 1 .. last - 1 : less[j] = IF j = i THEN pool[last] ELSE pool[j]
  BY DEF Without
<1>3. DOMAIN MapOf(pool) = {key \in Keys : HasKey(pool, key)} BY DEF MapOf
<1> HIDE DEF less, last
<1>4. ASSUME NEW j \in DOMAIN pool, j # i
      PROVE  \E m \in DOMAIN less : less[m] = pool[j]
  <2>1. CASE j = last
    <3>1. i \in 1 .. last - 1 BY <1>1, <1>4, <2>1
    <3>2. QED BY <1>2, <2>1, <3>1
  <2>2. CASE j # last
    <3>1. j \in 1 .. last - 1 BY <1>1, <1>4, <2>2
    <3>2. QED BY <1>2, <1>4, <3>1
  <2>3. QED BY <2>1, <2>2
<1>5. ASSUME NEW m \in DOMAIN less
      PROVE  \E j \in DOMAIN pool : j # i /\ less[m] = pool[j]
  <2>1. CASE m = i
    <3>1. last \in DOMAIN pool /\ last # i BY <1>1, <1>2, <1>5, <2>1
    <3>2. QED BY <1>2, <1>5, <2>1, <3>1
  <2>2. CASE m # i
    <3>1. m \in DOMAIN pool BY <1>1, <1>2, <1>5
    <3>2. QED BY <1>2, <1>5, <2>2, <3>1
  <2>3. QED BY <2>1, <2>2
<1>6. \A x : HasKey(less, x) <=> HasKey(pool, x) /\ x # k
  BY <1>4, <1>5 DEF HasKey, KeysDiffer
<1>7. {key \in Keys : HasKey(less, key)} = DOMAIN MapOf(pool) \ {k} BY <1>3, <1>6
<1>8. ASSUME NEW x \in DOMAIN MapOf(pool), x # k PROVE ValueOf(less, x) = MapOf(pool)[x]
  <2>1. PICK j \in DOMAIN pool : pool[j].key = x BY <1>3, <1>8 DEF HasKey
  <2>2. PICK m \in DOMAIN less : less[m] = pool[j] BY <1>4, <1>8, <2>1
  <2>3. ValueOf(pool, x) = pool[j].value BY <2>1, ValueAt
  <2>4. ValueOf(less, x) = less[m].value
    <3>1. KeysDiffer(less) BY DEF less
    <3>2. less[m].key = x BY <2>1, <2>2
    <3>3. QED BY <3>1, <3>2, ValueAt
  <2>5. MapOf(pool)[x] = ValueOf(pool, x) BY <1>3, <1>8 DEF MapOf
  <2>6. QED BY <2>2, <2>3, <2>4, <2>5
<1>9. MapOf(less) = [x \in DOMAIN MapOf(pool) \ {k} |-> ValueOf(less, x)]
  BY <1>7 DEF MapOf
<1>10. MapOf(less) = [x \in DOMAIN MapOf(pool) \ {k} |-> MapOf(pool)[x]] BY <1>8, <1>9
<1>11. k \in DOMAIN MapOf(pool) BY <1>1, <1>3 DEF HasKey
<1>12. QED BY <1>10, <1>11 DEF less

LEMMA ContentsNow ==
  ASSUME IInv
  PROVE  Contents = MapOf(keypool)
<1>1. /\ keypool \in Seq(Pairs) /\ num_buckets \in BucketCounts
      /\ hash_table = Listing(keypool, num_buckets) /\ KeysDiffer(keypool)
  BY ExactParts DEF IInv, StoreType
<1>2. Contents = ContentsOf(keypool, hash_table, num_buckets)
  BY DEF IInv, Contents, ContentsOf, kvalot_find, FoundIn
<1>3. QED BY <1>1, <1>2, ContentsAre

LEMMA ContentsNext ==
  ASSUME IInv'
  PROVE  Contents' = MapOf(keypool')
<1>1. /\ keypool' \in Seq(Pairs) /\ num_buckets' \in BucketCounts
      /\ hash_table' = Listing(keypool', num_buckets') /\ KeysDiffer(keypool')
  BY DEF IInv, StoreType, BucketsExact, KeysDiffer
<1>2. Contents' = ContentsOf(keypool', hash_table', num_buckets')
  BY DEF IInv, Contents, ContentsOf, kvalot_find, FoundIn
<1>3. QED BY <1>1, <1>2, ContentsAre

-----------------------------------------------------------------------------
(* The steps: each keeps the invariant, and is a step of the map or none   *)

LEMMA AddStep ==
  ASSUME IInv, NEW k \in Keys, NEW v \in Values, kvalot_add(k, v)
  PROVE  /\ IInv'
         /\ \/ M!Add(k, v)
            \/ UNCHANGED Contents /\ (k \in DOMAIN Contents \/ AllocFails)
<1> DEFINE n     == IF Crowded THEN Smallest(Larger) ELSE num_buckets
           pool  == IF Crowded THEN Rehashed(n) ELSE keypool
           table == IF Crowded THEN resize_hash_table(n) ELSE hash_table
           b     == Hash[k] % n
           known == find_key_in_bucket(pool, table[b], k) # 0
<1>1. Crowded => Larger # {} BY DEF kvalot_add
<1>2. /\ n \in BucketCounts /\ pool \in Seq(Pairs) /\ table = Listing(pool, n)
      /\ KeysDiffer(pool) /\ IndexUsable(pool, n)
      /\ DOMAIN pool = DOMAIN keypool
      /\ \A i \in DOMAIN keypool : /\ pool[i].key = keypool[i].key
                                   /\ pool[i].value = keypool[i].value
  BY <1>1, Enlarged
<1>3. \/ /\ ~known
         /\ keypool' = Append(pool, Pair(k, v, n))
         /\ hash_table' = [table EXCEPT ![b] = @ \cup {Len(pool) + 1}]
         /\ num_buckets' = n
         /\ ~astray'
      \/ /\ known \/ AllocFails
         /\ keypool' = pool /\ hash_table' = table /\ num_buckets' = n
         /\ ~astray'
      \/ Crowded /\ resize_hash_table_fails
  BY DEF kvalot_add
<1>4. Contents = MapOf(keypool) /\ KeysDiffer(keypool)
  BY ContentsNow, ExactParts DEF IInv, StoreType
<1> HIDE DEF n, pool, table
<1>5. MapOf(pool) = Contents BY <1>2, <1>4, SameMap
<1>6. CASE /\ ~known
           /\ keypool' = Append(pool, Pair(k, v, n))
           /\ hash_table' = [table EXCEPT ![b] = @ \cup {Len(pool) + 1}]
           /\ num_buckets' = n
           /\ ~astray'
  <2>1. ~HasKey(pool, k)
    <3>1. SUFFICES ASSUME HasKey(pool, k) PROVE FALSE OBVIOUS
    <3>2. find_key_in_bucket(pool, table[b], k) \in DOMAIN pool BY <1>2, <3>1, FindKey
    <3>3. 0 \notin DOMAIN pool BY <1>2, LenProperties
    <3>4. QED BY <1>6, <3>2, <3>3
  <2>2. /\ keypool' \in Seq(Pairs) /\ KeysDiffer(keypool')
        /\ DOMAIN keypool' = DOMAIN pool \cup {Len(pool) + 1}
        /\ \A i \in DOMAIN pool : keypool'[i] = pool[i]
        /\ keypool'[Len(pool) + 1] = Pair(k, v, n)
        /\ hash_table' = Listing(keypool', n)
    <3> DEFINE more == Append(pool, Pair(k, v, n))
    <3>1. /\ more \in Seq(Pairs) /\ KeysDiffer(more)
          /\ DOMAIN more = DOMAIN pool \cup {Len(pool) + 1}
          /\ \A i \in DOMAIN pool : more[i] = pool[i]
          /\ more[Len(pool) + 1] = Pair(k, v, n)
          /\ Extended(Listing(pool, n), b, Len(pool) + 1) = Listing(more, n)
      BY <1>2, <2>1, AppendedPool
    <3>2. keypool' = more BY <1>6
    <3> HIDE DEF more, b
    <3>3. hash_table' = Listing(more, n) BY <1>2, <1>6, <3>1 DEF Extended
    <3>4. QED BY <3>1, <3>2, <3>3
  <2>3. Len(pool) + 1 \notin DOMAIN pool BY <1>2, LenProperties
  <2>4. IndexUsable(keypool', n) BY <1>2, <2>2, <2>3 DEF IndexUsable, Pair
  <2>5. IInv' BY <1>2, <1>6, <2>2, <2>4, ExactPartsPrimed
  <2>6. keypool'[Len(pool) + 1].key = k /\ keypool'[Len(pool) + 1].value = v
    BY <2>2 DEF Pair
  <2>7. /\ k \notin DOMAIN MapOf(pool)
        /\ MapOf(keypool') = MapWith(MapOf(pool), k, v)
    <3> DEFINE more == keypool'
               p == Len(pool) + 1
    <3>1. /\ p \notin DOMAIN pool /\ DOMAIN more = DOMAIN pool \cup {p}
          /\ KeysDiffer(pool) /\ KeysDiffer(more) /\ ~HasKey(pool, k)
          /\ \A i \in DOMAIN pool : more[i] = pool[i]
          /\ more[p].key = k /\ more[p].value = v
      BY <1>2, <2>1, <2>2, <2>3, <2>6
    <3> HIDE DEF more, p
    <3>2. /\ k \notin DOMAIN MapOf(pool)
          /\ MapOf(more) = MapWith(MapOf(pool), k, v)
      BY <3>1, MapOfMore
    <3>3. QED BY <3>2 DEF more
  <2>8. Contents' = MapOf(keypool') BY <2>5, ContentsNext
  <2>9. M!Add(k, v) BY <1>5, <2>7, <2>8 DEF M!Add, MapWith
  <2>10. QED BY <2>5, <2>9
<1>7. CASE /\ known \/ AllocFails
           /\ keypool' = pool /\ hash_table' = table /\ num_buckets' = n
           /\ ~astray'
  <2>1. IInv' BY <1>2, <1>7, ExactPartsPrimed
  <2>2. Contents' = MapOf(pool) BY <1>7, <2>1, ContentsNext
  <2>3. ASSUME known PROVE k \in DOMAIN Contents
    <3>1. HasKey(pool, k) BY <1>2, <2>3, FindKey
    <3>2. QED BY <1>5, <3>1 DEF MapOf
  <2>4. k \in DOMAIN Contents \/ AllocFails BY <1>7, <2>3
  <2>5. QED BY <1>5, <2>1, <2>2, <2>4
<1>8. CASE Crowded /\ resize_hash_table_fails
  <2>1. /\ IInv'
        /\ DOMAIN keypool' = DOMAIN keypool
        /\ \A i \in DOMAIN keypool : /\ keypool'[i].key = keypool[i].key
                                     /\ keypool'[i].value = keypool[i].value
    BY <1>1, <1>8, FailedResize
  <2>2. MapOf(keypool') = MapOf(keypool) BY <1>4, <2>1, SameMap
  <2>3. Contents' = MapOf(keypool') BY <2>1, ContentsNext
  <2>4. AllocFails BY <1>8 DEF resize_hash_table_fails
  <2>5. QED BY <1>4, <2>1, <2>2, <2>3, <2>4
<1>9. QED BY <1>3, <1>6, <1>7, <1>8

LEMMA RemoveStep ==
  ASSUME IInv, NEW k \in Keys, kvalot_remove(k), ~astray'
  PROVE  IInv' /\ M!Remove(k)
<1> DEFINE i == find_key_in_bucket(keypool, hash_table[Hash[k] % num_buckets], k)
<1>1. /\ keypool \in Seq(Pairs) /\ num_buckets \in BucketCounts
      /\ hash_table = Listing(keypool, num_buckets)
      /\ KeysDiffer(keypool) /\ IndexUsable(keypool, num_buckets)
  BY ExactParts DEF IInv, StoreType
<1>2. i # 0 BY DEF kvalot_remove
<1>3. i \in DOMAIN keypool /\ keypool[i].key = k BY <1>1, <1>2, FindKey
<1>4. i # Len(keypool) =>
        keypool[Len(keypool)].hash_index = Hash[keypool[Len(keypool)].key] % num_buckets
  BY DEF kvalot_remove
<1>5. keypool' = Without(keypool, i) BY DEF kvalot_remove, Without
<1>6. /\ hash_table' = Relisted([hash_table EXCEPT ![Hash[k] % num_buckets] = @ \ {i}],
                                keypool[Len(keypool)].hash_index, Len(keypool), i)
      /\ num_buckets' = num_buckets
  BY DEF kvalot_remove
<1> HIDE DEF i
<1>7. /\ keypool' \in Seq(Pairs) /\ KeysDiffer(keypool')
      /\ DOMAIN keypool' = 1 .. Len(keypool) - 1
      /\ hash_table' = Listing(keypool', num_buckets')
  BY <1>1, <1>3, <1>4, <1>5, <1>6, RemovedPool
<1>8. IndexUsable(keypool', num_buckets')
  <2>1. Len(keypool) \in Nat /\ DOMAIN keypool = 1 .. Len(keypool) BY <1>1, LenProperties
  <2>2. ASSUME NEW j \in DOMAIN keypool'
        PROVE  \E m \in DOMAIN keypool : keypool'[j] = keypool[m]
    <3>1. j \in DOMAIN keypool /\ Len(keypool) \in DOMAIN keypool BY <1>7, <2>1, <2>2
    <3>2. keypool'[j] = IF j = i THEN keypool[Len(keypool)] ELSE keypool[j]
      BY <1>5, <1>7, <2>2 DEF Without
    <3>3. QED BY <3>1, <3>2
  <2>3. QED BY <1>1, <1>6, <2>2 DEF IndexUsable
<1>9. IInv' BY <1>1, <1>6, <1>7, <1>8, ExactPartsPrimed
<1>10. /\ k \in DOMAIN MapOf(keypool)
       /\ MapOf(keypool') = [x \in DOMAIN MapOf(keypool) \ {k} |-> MapOf(keypool)[x]]
  BY <1>1, <1>3, <1>5, <1>7, MapOfLess
<1>11. Contents = MapOf(keypool) /\ Contents' = MapOf(keypool')
  BY <1>9, ContentsNow, ContentsNext
<1>12. M!Remove(k) BY <1>10, <1>11 DEF M!Remove
<1>13. QED BY <1>9, <1>12

LEMMA ClearStep ==
  ASSUME StoreInv, kvalot_clear
  PROVE  IInv' /\ M!Clear
<1>1. keypool' = <<>> /\ keypool' \in Seq(Pairs) /\ DOMAIN keypool' = {} /\ ~astray'
  BY DEF kvalot_clear
<1>2. num_buckets' \in BucketCounts BY DEF kvalot_clear, StoreInv
<1>3. hash_table' = Listing(keypool', num_buckets')
  BY <1>1 DEF kvalot_clear, EmptyTable, Listing
<1>4. IInv'
  <2>1. KeysDiffer(keypool') /\ IndexUsable(keypool', num_buckets')
    BY <1>1 DEF KeysDiffer, IndexUsable
  <2>2. QED BY <1>1, <1>2, <1>3, <2>1, ExactPartsPrimed
<1>5. MapOf(keypool') = [k \in {} |-> CHOOSE v \in Values : TRUE]
  BY <1>1 DEF MapOf, HasKey
<1>6. M!Clear BY <1>4, <1>5, ContentsNext DEF M!Clear
<1>7. QED BY <1>4, <1>6

(* What one call does to the invariant and to the map. *)
LEMMA CallKeepsInv ==
  ASSUME StoreInv, KvalotNext
  PROVE  StoreInv' /\ [M!Next]_(M!vars)
<1>1. ASSUME NEW k \in Keys, NEW v \in Values, kvalot_add(k, v)
      PROVE  StoreInv' /\ [M!Next]_(M!vars)
  <2>1. IInv BY <1>1 DEF kvalot_add, StoreInv
  <2>2. IInv' /\ (M!Add(k, v) \/ UNCHANGED Contents) BY <1>1, <2>1, AddStep
  <2>3. StoreInv' BY <2>2 DEF StoreInv, IInv, StoreType
  <2>4. QED BY <2>1, <2>2, <2>3 DEF M!Next, M!vars, IInv
<1>2. ASSUME NEW k \in Keys, kvalot_remove(k)
      PROVE  StoreInv' /\ M!Next
  <2>1. IInv BY <1>2 DEF kvalot_remove, StoreInv
  <2>2. CASE ~astray'
    <3>1. IInv' /\ M!Remove(k) BY <1>2, <2>1, <2>2, RemoveStep
    <3>2. StoreInv' BY <2>2, <3>1 DEF StoreInv, IInv, StoreType
    <3>3. QED BY <2>1, <2>2, <3>1, <3>2 DEF M!Next, IInv
  <2>3. CASE astray'
    <3>1. num_buckets' \in BucketCounts
      BY <1>2, <2>1 DEF kvalot_remove, IInv, StoreType
    <3>2. QED BY <2>3, <3>1 DEF StoreInv, M!Next, M!End
  <2>4. QED BY <2>2, <2>3
<1>3. ASSUME kvalot_clear PROVE StoreInv' /\ M!Next
  <2>1. IInv' /\ M!Clear BY <1>3, ClearStep
  <2>2. QED BY <2>1 DEF StoreInv, IInv, StoreType, M!Next
<1>4. QED BY <1>1, <1>2, <1>3 DEF KvalotNext

LEMMA StoreStep ==
  ASSUME StoreInv, [KvalotNext]_kvalotVars
  PROVE  StoreInv' /\ [M!Next]_(M!vars)
<1>1. CASE KvalotNext BY <1>1, CallKeepsInv
<1>2. CASE UNCHANGED kvalotVars
  <2>1. UNCHANGED <<keypool, hash_table, num_buckets, astray>> BY <1>2 DEF kvalotVars
  <2>2. StoreInv' BY <2>1 DEF StoreInv, IInv, StoreType, BucketsExact, Larger
  <2>3. Contents' = Contents
    BY <2>1 DEF Contents, kvalot_find
  <2>4. QED BY <2>1, <2>2, <2>3 DEF M!vars
<1>3. QED BY <1>1, <1>2

(* Every call does what its key says. *)
LEMMA CallsStep ==
  ASSUME StoreInv
  PROVE  CallsDoAsTheirKeySays
<1>1. ASSUME NEW k \in Keys, NEW v \in Values, kvalot_add(k, v)
      PROVE  M!Add(k, v) \/ (UNCHANGED Contents /\ (k \in DOMAIN Contents \/ AllocFails))
  <2>1. IInv BY <1>1 DEF kvalot_add, StoreInv
  <2>2. QED BY <1>1, <2>1, AddStep
<1>2. ASSUME NEW k \in Keys, kvalot_remove(k)
      PROVE  M!Remove(k) \/ astray'
  <2>1. IInv BY <1>2 DEF kvalot_remove, StoreInv
  <2>2. QED BY <1>2, <2>1, RemoveStep
<1>3. ASSUME kvalot_clear PROVE M!Clear BY <1>3, ClearStep
<1>4. QED BY <1>1, <1>2, <1>3 DEF CallsDoAsTheirKeySays

LEMMA InitMap == kvalot_create => StoreInv /\ M!Init
<1> SUFFICES ASSUME kvalot_create PROVE StoreInv /\ M!Init OBVIOUS
<1>1. IInv BY InitInv
<1>2. keypool = <<>> /\ DOMAIN keypool = {} /\ astray = FALSE BY DEF kvalot_create
<1>3. MapOf(keypool) = [k \in {} |-> CHOOSE v \in Values : TRUE] BY <1>2 DEF MapOf, HasKey
<1>4. StoreInv BY <1>1, <1>2 DEF StoreInv, IInv, StoreType
<1>5. QED BY <1>1, <1>2, <1>3, <1>4, ContentsNow DEF M!Init

-----------------------------------------------------------------------------
(* Theorems about the key-value store *)

(* However keys collide, and whichever resize fails, the buckets list each *)
(* pair exactly where the hash of its key says, up to the removal that     *)
(* tells a bucket by a hash_index such a resize has left (kvalh.c:530).    *)
THEOREM BucketsStayExact == KvalotSpec => []BucketsExact
<1>1. kvalot_create => StoreInv BY InitMap
<1>2. StoreInv /\ [KvalotNext]_kvalotVars => StoreInv' BY StoreStep
<1>3. StoreInv => BucketsExact BY DEF StoreInv, IInv, BucketsExact
<1>4. QED BY <1>1, <1>2, <1>3, PTL DEF KvalotSpec

(* Up to that removal, what kvalot_find answers is the map that the        *)
(* additions and removals have made, each for the key it was called with:  *)
(* the store implements Map, and a call that changes nothing found its key *)
(* in the store or no memory.                                              *)
THEOREM StoreIsAMap == KvalotSpec => KvalotImplementsMap
<1>1. kvalot_create => StoreInv /\ M!Init BY InitMap
<1>2. StoreInv /\ [KvalotNext]_kvalotVars => StoreInv' /\ [M!Next]_(M!vars) BY StoreStep
<1>3. StoreInv => [UNCHANGED kvalotVars \/ CallsDoAsTheirKeySays]_kvalotVars BY CallsStep
<1>4. QED BY <1>1, <1>2, <1>3, PTL DEF KvalotSpec, KvalotImplementsMap, M!Spec

-----------------------------------------------------------------------------
(* The hash table *)

(* The values, whole or with their low byte cleared. *)
Pointers == Values \cup {LowByteCleared(v) : v \in Values}

(* The slots of a table: taken by a key, or vacant. *)
Stored == [state : {"OCCUPIED"}, psl : 0 .. 255, key : Keys, key_len : Nat,
           kept : Nat, value : Pointers]
Slots == Stored \cup {Unoccupied("EMPTY"), Unoccupied("DELETED")}
Tables(n) == [0 .. n - 1 -> Slots]
Sizes == Nat \ {0}
HasRoom(table) == \E i \in DOMAIN table : table[i].state # "OCCUPIED"

-----------------------------------------------------------------------------
(* Slots and steps *)

LEMMA SmallRemainder ==
  ASSUME NEW n \in Sizes, NEW a \in 0 .. 2 * n - 1
  PROVE  a % n = IF a < n THEN a ELSE a - n
<1> DEFINE q == a \div n
           r == a % n
<1>1. a \in Nat /\ n \in Nat \ {0} BY DEF Sizes
<1>2. q \in Nat /\ r \in 0 .. n - 1 /\ a = n * q + r BY <1>1, DivisionProperties
<1> HIDE DEF q, r
<1>3. CASE a < n
  <2>1. n * q \in 0 .. n - 1 BY <1>1, <1>2, <1>3
  <2>2. q = 0 BY <1>1, <1>2, <2>1, SmallMultiple
  <2>3. r = a BY <1>1, <1>2, <2>2
  <2>4. QED BY <1>3, <2>3 DEF r
<1>4. CASE a >= n
  <2>1. q # 0
    <3>1. SUFFICES ASSUME q = 0 PROVE FALSE OBVIOUS
    <3>2. a = r BY <1>1, <1>2, <3>1
    <3>3. QED BY <1>1, <1>2, <1>4, <3>2
  <2>2. n * (q - 1) = n * q - n BY <1>1, <1>2
  <2>3. n * q = a - r /\ r >= 0 /\ a <= 2 * n - 1 BY <1>1, <1>2
  <2>4. n * (q - 1) < n BY <1>1, <1>2, <2>2, <2>3
  <2>5. n * (q - 1) >= 0 BY <1>1, <1>2, <2>1
  <2>6. q - 1 = 0 BY <1>1, <1>2, <2>2, <2>4, <2>5, SmallMultiple
  <2>7. a = n + r BY <1>1, <1>2, <2>6
  <2>8. r = a - n BY <1>1, <1>2, <2>7
  <2>9. QED BY <1>1, <1>4, <2>8 DEF r
<1>5. QED BY <1>1, <1>3, <1>4

LEMMA CapacityOf ==
  ASSUME NEW n \in Nat, NEW table, DOMAIN table = 0 .. n - 1
  PROVE  Capacity(table) = n
<1>1. 0 \in Int /\ n - 1 \in Int OBVIOUS
<1>2. Cardinality(0 .. n - 1) = IF 0 > n - 1 THEN 0 ELSE n - 1 - 0 + 1
  BY <1>1, FS_Interval
<1>3. QED BY <1>2 DEF Capacity

(* Where d steps from index lead. *)
LEMMA SlotIs ==
  ASSUME NEW n \in Sizes, NEW table, DOMAIN table = 0 .. n - 1,
         NEW index \in 0 .. n - 1, NEW d \in 0 .. n - 1
  PROVE  /\ Slot(index, d, table) = IF index + d < n THEN index + d ELSE (index + d) - n
         /\ Slot(index, d, table) \in 0 .. n - 1
<1>1. n \in Nat /\ n > 0 /\ index \in Nat /\ d \in Nat BY DEF Sizes
<1>2. Capacity(table) = n BY <1>1, CapacityOf
<1>3. index + d \in 0 .. 2 * n - 1 BY <1>1
<1>4. (index + d) % n = IF index + d < n THEN index + d ELSE (index + d) - n
  BY <1>3, SmallRemainder
<1>5. QED BY <1>1, <1>2, <1>4 DEF Slot

LEMMA SlotZero ==
  ASSUME NEW n \in Sizes, NEW table, DOMAIN table = 0 .. n - 1, NEW index \in 0 .. n - 1
  PROVE  Slot(index, 0, table) = index
<1>1. n \in Nat /\ 0 \in 0 .. n - 1 /\ index \in Int /\ index < n BY DEF Sizes
<1>2. Slot(index, 0, table) = IF index + 0 < n THEN index + 0 ELSE (index + 0) - n
  BY <1>1, SlotIs
<1>3. QED BY <1>1, <1>2

(* Every slot is met within one round. *)
LEMMA SlotReached ==
  ASSUME NEW n \in Sizes, NEW table, DOMAIN table = 0 .. n - 1,
         NEW index \in 0 .. n - 1, NEW i \in 0 .. n - 1
  PROVE  \E d \in 0 .. n - 1 : Slot(index, d, table) = i
<1>1. n \in Nat /\ n > 0 BY DEF Sizes
<1>2. CASE index <= i
  <2>1. i - index \in 0 .. n - 1 BY <1>1, <1>2
  <2>2. index + (i - index) = i BY <1>1
  <2>3. Slot(index, i - index, table) = i BY <1>1, <2>1, <2>2, SlotIs
  <2>4. QED BY <2>1, <2>3
<1>3. CASE i < index
  <2>1. (i + n) - index \in 0 .. n - 1 BY <1>1, <1>3
  <2>2. index + ((i + n) - index) = i + n BY <1>1
  <2>3. Slot(index, (i + n) - index, table) = i BY <1>1, <2>1, <2>2, SlotIs
  <2>4. QED BY <2>1, <2>3
<1>4. QED BY <1>1, <1>2, <1>3

LEMMA HomeIs ==
  ASSUME NEW n \in Sizes, NEW table, DOMAIN table = 0 .. n - 1, NEW k \in Keys
  PROVE  Home(k, table) = Hash[k] % n /\ Home(k, table) \in 0 .. n - 1
<1>1. n \in Nat /\ n \in Nat \ {0} BY DEF Sizes
<1>2. Capacity(table) = n BY <1>1, CapacityOf
<1>3. Hash[k] \in Nat BY StoresAssumption
<1>4. QED BY <1>1, <1>2, <1>3, DivisionProperties DEF Home

(* The least number with a property that some number has. *)
LEMMA MinIs ==
  ASSUME NEW S \in SUBSET Nat, S # {}
  PROVE  Min(S) \in S /\ \A x \in S : Min(S) <= x
BY LeastExists, Zenon DEF Min

-----------------------------------------------------------------------------
(* Insertion *)

LEMMA FreeAfterIs ==
  ASSUME NEW n \in Sizes, NEW table \in Tables(n), NEW index \in 0 .. n - 1, HasRoom(table)
  PROVE  LET last == FreeAfter(table, index) IN
         /\ last \in 0 .. n - 1
         /\ table[Slot(index, last, table)].state # "OCCUPIED"
         /\ \A d \in 0 .. last - 1 : table[Slot(index, d, table)].state = "OCCUPIED"
<1> DEFINE S == {d \in 0 .. n - 1 : table[Slot(index, d, table)].state # "OCCUPIED"}
<1>1. n \in Nat /\ n > 0 /\ DOMAIN table = 0 .. n - 1 BY DEF Sizes, Tables
<1>2. FreeAfter(table, index) = Min(S) BY <1>1, CapacityOf DEF FreeAfter
<1>3. S # {}
  <2>1. PICK i \in 0 .. n - 1 : table[i].state # "OCCUPIED" BY <1>1 DEF HasRoom
  <2>2. PICK d \in 0 .. n - 1 : Slot(index, d, table) = i BY <1>1, SlotReached
  <2>3. QED BY <2>1, <2>2
<1>4. S \in SUBSET Nat BY <1>1
<1>5. Min(S) \in S /\ \A x \in S : Min(S) <= x BY <1>3, <1>4, MinIs
<1>6. ASSUME NEW d \in 0 .. Min(S) - 1
      PROVE  table[Slot(index, d, table)].state = "OCCUPIED"
  <2>1. Min(S) \in 0 .. n - 1 BY <1>5
  <2>2. d \in 0 .. n - 1 /\ ~ (Min(S) <= d) BY <1>1, <2>1
  <2>3. d \notin S BY <1>5, <2>2
  <2>4. QED BY <2>2, <2>3
<1>7. QED BY <1>2, <1>5, <1>6

(* A key written with a length stays an entry of the same key. *)
LEMMA SetKeyIs ==
  ASSUME NEW e \in Stored, NEW len \in Nat
  PROVE  /\ entry_set_key(e, len) \in Stored
         /\ entry_set_key(e, len).psl = e.psl
         /\ entry_set_key(e, len).key = e.key
         /\ len # HASH_INLINE_KEY_SIZE /\ e.key_len = len /\ e.kept = len =>
              entry_set_key(e, len) = e
<1> DEFINE x == IF len = HASH_INLINE_KEY_SIZE THEN LowByteCleared(e.value) ELSE e.value
<1>1. e.kept \in Nat /\ e.value \in Pointers BY DEF Stored
<1>2. Min({e.kept, len}) \in {e.kept, len} BY <1>1, MinIs
<1>3. Min({e.kept, len}) \in Nat BY <1>1, <1>2
<1>4. entry_set_key(e, len) = [e EXCEPT !.key_len = len, !.kept = Min({e.kept, len}),
                                       !.value = x]
  BY DEF entry_set_key
<1>5. x \in Pointers BY <1>1 DEF Pointers, LowByteCleared
<1> DEFINE m == Min({e.kept, len})
<1>6. e.kept = len => m = len BY <1>2
<1>7. len # HASH_INLINE_KEY_SIZE => x = e.value OBVIOUS
<1> HIDE DEF m, x
<1>8. ASSUME len # HASH_INLINE_KEY_SIZE, e.key_len = len, e.kept = len
      PROVE  entry_set_key(e, len) = e
  <2>1. entry_set_key(e, len) =
          [e EXCEPT !.key_len = e.key_len, !.kept = e.kept, !.value = e.value]
    BY <1>4, <1>6, <1>7, <1>8 DEF m
  <2>2. QED BY <2>1 DEF Stored
<1>9. entry_set_key(e, len) \in Stored BY <1>3, <1>4, <1>5 DEF Stored, m
<1>10. QED BY <1>4, <1>8, <1>9 DEF Stored

LEMMA FurtherIs ==
  ASSUME NEW e \in Stored
  PROVE  /\ Further(e) \in Stored
         /\ Further(e).psl = UInt8(e.psl + 1)
         /\ Further(e).key = e.key /\ Further(e).value = e.value
         /\ Further(e).key_len = e.key_len /\ Further(e).kept = e.kept
<1>1. e.psl \in 0 .. 255 BY DEF Stored
<1>2. UInt8(e.psl + 1) \in 0 .. 255 BY <1>1 DEF UInt8
<1>3. Further(e) = [e EXCEPT !.psl = UInt8(e.psl + 1)] BY DEF Further
<1>4. QED BY <1>2, <1>3 DEF Stored

(* A table with another entry in slot i. *)
Put(table, i, e) == [table EXCEPT ![i] = e]

LEMMA PutIs ==
  ASSUME NEW n, NEW table \in Tables(n), NEW i \in 0 .. n - 1, NEW e \in Slots
  PROVE  /\ Put(table, i, e) \in Tables(n)
         /\ Put(table, i, e)[i] = e
         /\ \A j \in (0 .. n - 1) \ {i} : Put(table, i, e)[j] = table[j]
BY DEF Put, Tables

(* What each round of the loop keeps: the slots that are occupied.         *)
SameStates(n, t, u) == \A j \in 0 .. n - 1 : t[j].state = u[j].state

LEMMA PassedIs ==
  ASSUME NEW n \in Sizes, NEW loop, loop.table \in Tables(n), loop.hand \in Stored,
         NEW i \in 0 .. n - 1, loop.table[i].state = "OCCUPIED", NEW len \in Nat
  PROVE  LET here == loop.table[i]
             next == Passed(loop, i, len)
         IN /\ here \in Stored
            /\ here.psl < loop.hand.psl =>
                 /\ next.table = Put(loop.table, i, entry_set_key(loop.hand, len))
                 /\ next.hand = Further(here)
            /\ ~(here.psl < loop.hand.psl) =>
                 next.table = loop.table /\ next.hand = Further(loop.hand)
            /\ next.table \in Tables(n) /\ next.hand \in Stored
            /\ SameStates(n, next.table, loop.table)
<1> DEFINE here == loop.table[i]
           next == Passed(loop, i, len)
           kept == entry_set_key(loop.hand, len)
<1>1. here \in Slots BY DEF Tables
<1>2. here \in Stored BY <1>1 DEF Slots, Unoccupied
<1>3. here.psl < loop.hand.psl => next.table = Put(loop.table, i, kept) /\ next.hand = Further(here)
  BY DEF Passed, Put
<1>4. ~(here.psl < loop.hand.psl) => next.table = loop.table /\ next.hand = Further(loop.hand)
  BY DEF Passed
<1>5. kept \in Stored BY SetKeyIs
<1>6. kept \in Slots /\ kept.state = "OCCUPIED" BY <1>5 DEF Slots, Stored
<1>7. Further(here) \in Stored /\ Further(loop.hand) \in Stored BY <1>2, FurtherIs
<1> HIDE DEF kept, next
<1>8. /\ Put(loop.table, i, kept) \in Tables(n)
      /\ SameStates(n, Put(loop.table, i, kept), loop.table)
  BY <1>6, PutIs DEF SameStates
<1>9. next.table \in Tables(n) /\ next.hand \in Stored /\ SameStates(n, next.table, loop.table)
  <2>1. CASE here.psl < loop.hand.psl BY <1>3, <1>7, <1>8, <2>1
  <2>2. CASE ~(here.psl < loop.hand.psl) BY <1>4, <1>7, <2>2 DEF SameStates
  <2>3. QED BY <2>1, <2>2
<1>10. QED BY <1>2, <1>3, <1>4, <1>9 DEF next, kept

(* The loop of insert_entry as a function of the number of rounds. *)
LoopStep(table, index, e, len, g, d) ==
  IF d = 0 THEN [table |-> table, hand |-> e]
  ELSE Passed(g[d - 1], Slot(index, d - 1, table), len)
Looping(table, index, e, len, last, g) ==
  g = [d \in 0 .. last |-> LoopStep(table, index, e, len, g, d)]
Loop(table, index, e, len) ==
  CHOOSE g : Looping(table, index, e, len, FreeAfter(table, index), g)

LEMMA InsertIs ==
  ASSUME NEW table, NEW index, NEW e, NEW len
  PROVE  LET last == FreeAfter(table, index)
             slot == Slot(index, last, table)
             end  == Loop(table, index, e, len)[last]
         IN /\ insert_entry(table, index, e, len).table
                 = Put(end.table, slot, entry_set_key(end.hand, len))
            /\ insert_entry(table, index, e, len).slot = slot
BY DEF insert_entry, Loop, Looping, LoopStep, Put

LEMMA LoopingExists ==
  ASSUME NEW table, NEW index, NEW e, NEW len, NEW last \in Nat
  PROVE  \E g : Looping(table, index, e, len, last, g)
<1> DEFINE Step(g, d) == LoopStep(table, index, e, len, g, d)
           good == {k \in Nat : \E g : Looping(table, index, e, len, k, g)}
<1>1. 0 \in good
  <2> DEFINE g == [d \in 0 .. 0 |-> [table |-> table, hand |-> e]]
  <2>1. \A d \in 0 .. 0 : Step(g, d) = [table |-> table, hand |-> e] BY DEF LoopStep
  <2>2. Looping(table, index, e, len, 0, g) BY <2>1 DEF Looping
  <2>3. QED BY <2>2
<1>2. ASSUME NEW k \in 0 .. last - 1, k \in good PROVE k + 1 \in good
  <2>1. k \in Nat /\ k + 1 \in Nat OBVIOUS
  <2>2. PICK g : Looping(table, index, e, len, k, g) BY <1>2
  <2> DEFINE h == [d \in 0 .. k + 1 |-> IF d = k + 1 THEN Step(g, d) ELSE g[d]]
  <2>3. ASSUME NEW d \in 0 .. k + 1 PROVE h[d] = Step(h, d)
    <3>1. h[d] = Step(g, d) BY <2>1, <2>2 DEF Looping
    <3>2. d # 0 => h[d - 1] = g[d - 1] BY <2>1
    <3> HIDE DEF h
    <3>3. QED BY <3>1, <3>2 DEF LoopStep
  <2>4. h = [d \in 0 .. k + 1 |-> h[d]] OBVIOUS
  <2> HIDE DEF h
  <2>5. h = [d \in 0 .. k + 1 |-> Step(h, d)] BY <2>3, <2>4
  <2>6. Looping(table, index, e, len, k + 1, h) BY <2>5 DEF Looping
  <2>7. QED BY <2>1, <2>6
<1> HIDE DEF good
<1>3. \A k \in 0 .. last : k \in good BY <1>1, <1>2, UpTo
<1>4. last \in good BY <1>3
<1>5. QED BY <1>4 DEF good

LEMMA LoopRounds ==
  ASSUME NEW table, NEW index, NEW e, NEW len, FreeAfter(table, index) \in Nat
  PROVE  LET g == Loop(table, index, e, len) IN
         /\ g[0] = [table |-> table, hand |-> e]
         /\ \A d \in 0 .. FreeAfter(table, index) - 1 :
              g[d + 1] = Passed(g[d], Slot(index, d, table), len)
<1> DEFINE last == FreeAfter(table, index)
           g == Loop(table, index, e, len)
<1>1. \E h : Looping(table, index, e, len, last, h) BY LoopingExists
<1>2. Looping(table, index, e, len, last, g) BY <1>1 DEF Loop
<1> HIDE DEF g
<1>3. \A d \in 0 .. last : g[d] = LoopStep(table, index, e, len, g, d) BY <1>2 DEF Looping
<1> HIDE DEF last
<1>4. last \in Nat BY DEF last
<1>5. g[0] = [table |-> table, hand |-> e] BY <1>3, <1>4 DEF LoopStep
<1>6. ASSUME NEW d \in 0 .. last - 1
      PROVE  g[d + 1] = Passed(g[d], Slot(index, d, table), len)
  <2>1. d + 1 \in 0 .. last /\ d + 1 # 0 /\ d + 1 - 1 = d BY <1>4
  <2>2. QED BY <1>3, <2>1 DEF LoopStep
<1>7. QED BY <1>5, <1>6 DEF g, last

(* Through every round of the loop the table is one, the entry in hand is  *)
(* one of a key, and the same slots are occupied.                          *)
LEMMA LoopKeeps ==
  ASSUME NEW n \in Sizes, NEW table \in Tables(n), NEW index \in 0 .. n - 1, HasRoom(table),
         NEW e \in Stored, NEW len \in Nat
  PROVE  LET g == Loop(table, index, e, len)
         IN \A d \in 0 .. FreeAfter(table, index) :
              /\ g[d].table \in Tables(n) /\ g[d].hand \in Stored
              /\ SameStates(n, g[d].table, table)
<1> DEFINE last == FreeAfter(table, index)
           g == Loop(table, index, e, len)
           good == {d \in Nat : /\ g[d].table \in Tables(n) /\ g[d].hand \in Stored
                                /\ SameStates(n, g[d].table, table)}
<1>1. /\ n \in Nat /\ n > 0 /\ last \in 0 .. n - 1 /\ DOMAIN table = 0 .. n - 1
      /\ \A d \in 0 .. last - 1 : table[Slot(index, d, table)].state = "OCCUPIED"
  BY FreeAfterIs DEF Sizes, Tables
<1>2. last \in Nat BY <1>1
<1>3. /\ g[0] = [table |-> table, hand |-> e]
      /\ \A d \in 0 .. last - 1 : g[d + 1] = Passed(g[d], Slot(index, d, table), len)
  BY <1>2, LoopRounds
<1> HIDE DEF g
<1>4. 0 \in good BY <1>3 DEF SameStates
<1>5. ASSUME NEW d \in 0 .. last - 1, d \in good PROVE d + 1 \in good
  <2>1. d \in 0 .. n - 1 /\ d + 1 \in Nat BY <1>1
  <2> DEFINE i == Slot(index, d, table)
  <2>2. i \in 0 .. n - 1 BY <1>1, <2>1, SlotIs
  <2>3. g[d + 1] = Passed(g[d], i, len) BY <1>3
  <2>4. g[d].table \in Tables(n) /\ g[d].hand \in Stored /\ SameStates(n, g[d].table, table)
    BY <1>5
  <2>5. table[i].state = "OCCUPIED" BY <1>1
  <2> HIDE DEF i
  <2>6. g[d].table[i].state = "OCCUPIED" BY <2>2, <2>4, <2>5 DEF SameStates
  <2>7. /\ g[d + 1].table \in Tables(n) /\ g[d + 1].hand \in Stored
        /\ SameStates(n, g[d + 1].table, g[d].table)
    BY <2>2, <2>3, <2>4, <2>6, PassedIs
  <2>8. SameStates(n, g[d + 1].table, table) BY <2>4, <2>7 DEF SameStates
  <2>9. QED BY <2>1, <2>7, <2>8
<1> HIDE DEF good, last
<1>6. \A d \in 0 .. last : d \in good BY <1>2, <1>4, <1>5, UpTo
<1>7. QED BY <1>6 DEF good, last, g

(* An insertion takes one slot, which was vacant, and leaves the others    *)
(* taken or vacant as they were.                                           *)
LEMMA Insertion ==
  ASSUME NEW n \in Sizes, NEW table \in Tables(n), NEW index \in 0 .. n - 1, HasRoom(table),
         NEW e \in Stored, NEW len \in Nat
  PROVE  LET result == insert_entry(table, index, e, len) IN
         /\ result.table \in Tables(n) /\ result.slot \in 0 .. n - 1
         /\ table[result.slot].state # "OCCUPIED"
         /\ result.table[result.slot].state = "OCCUPIED"
         /\ \A j \in (0 .. n - 1) \ {result.slot} :
              result.table[j].state = table[j].state
<1> DEFINE last == FreeAfter(table, index)
           slot == Slot(index, last, table)
           end == Loop(table, index, e, len)[last]
           put == entry_set_key(end.hand, len)
<1>1. last \in 0 .. n - 1 /\ table[slot].state # "OCCUPIED" BY FreeAfterIs
<1>2. slot \in 0 .. n - 1 BY <1>1, SlotIs DEF Tables
<1>3. last \in 0 .. last BY <1>1
<1>4. end.table \in Tables(n) /\ end.hand \in Stored /\ SameStates(n, end.table, table)
  BY <1>3, LoopKeeps
<1>5. /\ insert_entry(table, index, e, len).table = Put(end.table, slot, put)
      /\ insert_entry(table, index, e, len).slot = slot
  BY InsertIs
<1> HIDE DEF end, slot
<1>6. put \in Stored BY <1>4, SetKeyIs
<1>7. put \in Slots /\ put.state = "OCCUPIED" BY <1>6 DEF Slots, Stored
<1> HIDE DEF put
<1>8. /\ Put(end.table, slot, put) \in Tables(n)
      /\ Put(end.table, slot, put)[slot] = put
      /\ \A j \in (0 .. n - 1) \ {slot} : Put(end.table, slot, put)[j] = end.table[j]
  BY <1>2, <1>4, <1>7, PutIs
<1>9. QED BY <1>1, <1>2, <1>4, <1>5, <1>7, <1>8 DEF SameStates

-----------------------------------------------------------------------------
(* Counting slots *)

LEMMA SlotSetsFinite ==
  ASSUME NEW n \in Nat, NEW table, DOMAIN table = 0 .. n - 1
  PROVE  /\ IsFiniteSet(Occupied(table)) /\ IsFiniteSet(Deleted(table))
         /\ Cardinality(Occupied(table)) \in Nat /\ Cardinality(Deleted(table)) \in Nat
<1>1. 0 \in Int /\ n - 1 \in Int OBVIOUS
<1>2. IsFiniteSet(0 .. n - 1) BY <1>1, FS_Interval
<1>3. Occupied(table) \subseteq 0 .. n - 1 /\ Deleted(table) \subseteq 0 .. n - 1
  BY DEF Occupied, Deleted
<1>4. IsFiniteSet(Occupied(table)) /\ IsFiniteSet(Deleted(table)) BY <1>2, <1>3, FS_Subset
<1>5. QED BY <1>4, FS_CardinalityType

(* With fewer occupied and deleted slots than slots one is empty. *)
LEMMA EmptySlot ==
  ASSUME NEW n \in Nat, NEW table \in Tables(n),
         Cardinality(Occupied(table)) + Cardinality(Deleted(table)) < n
  PROVE  \E i \in 0 .. n - 1 : table[i].state = "EMPTY"
<1>1. SUFFICES ASSUME \A i \in 0 .. n - 1 : table[i].state # "EMPTY" PROVE FALSE OBVIOUS
<1> DEFINE O == Occupied(table)
           D == Deleted(table)
<1>2. DOMAIN table = 0 .. n - 1 BY DEF Tables
<1>3. /\ IsFiniteSet(O) /\ IsFiniteSet(D)
      /\ Cardinality(O) \in Nat /\ Cardinality(D) \in Nat
  BY <1>2, SlotSetsFinite
<1>4. O \cap D = {} BY DEF Occupied, Deleted
<1>5. O \cup D = 0 .. n - 1
  <2>1. \A i \in 0 .. n - 1 : table[i] \in Slots BY DEF Tables
  <2>2. \A i \in 0 .. n - 1 : table[i].state \in {"OCCUPIED", "DELETED"}
    BY <1>1, <2>1 DEF Slots, Stored, Unoccupied
  <2>3. QED BY <1>2, <2>2 DEF Occupied, Deleted
<1> HIDE DEF O, D
<1>6. Cardinality(O \cup D) = Cardinality(O) + Cardinality(D) - Cardinality(O \cap D)
  BY <1>3, FS_Union
<1>7. Cardinality(O \cap D) = 0 BY <1>4, FS_EmptySet
<1>8. Cardinality(0 .. n - 1) = n BY <1>2, CapacityOf DEF Capacity
<1>9. Cardinality(O) + Cardinality(D) < n BY DEF O, D
<1>10. Cardinality(O \cup D) = Cardinality(O) + Cardinality(D) BY <1>3, <1>6, <1>7
<1>11. Cardinality(O \cup D) = n BY <1>5, <1>8
<1>12. QED BY <1>3, <1>9, <1>10, <1>11

LEMMA RoomLeft ==
  ASSUME NEW n \in Nat, NEW table \in Tables(n), Cardinality(Occupied(table)) < n
  PROVE  HasRoom(table)
<1>1. SUFFICES ASSUME \A i \in DOMAIN table : table[i].state = "OCCUPIED" PROVE FALSE
  BY DEF HasRoom
<1>2. DOMAIN table = 0 .. n - 1 BY DEF Tables
<1>3. Occupied(table) = 0 .. n - 1 BY <1>1, <1>2 DEF Occupied
<1>4. Cardinality(0 .. n - 1) = n BY <1>2, CapacityOf DEF Capacity
<1>5. QED BY <1>3, <1>4

(* How an insertion changes the counts.                                    *)
LEMMA InsertionCounts ==
  ASSUME NEW n \in Sizes, NEW table \in Tables(n), NEW index \in 0 .. n - 1, HasRoom(table),
         NEW e \in Stored, NEW len \in Nat
  PROVE  LET result == insert_entry(table, index, e, len).table IN
         /\ result \in Tables(n)
         /\ Cardinality(Occupied(result)) = Cardinality(Occupied(table)) + 1
         /\ Cardinality(Deleted(result)) <= Cardinality(Deleted(table))
         /\ Deleted(table) = {} => Deleted(result) = {}
<1> DEFINE result == insert_entry(table, index, e, len)
           slot == result.slot
           new == result.table
<1>1. /\ new \in Tables(n) /\ slot \in 0 .. n - 1
      /\ table[slot].state # "OCCUPIED" /\ new[slot].state = "OCCUPIED"
      /\ \A j \in (0 .. n - 1) \ {slot} : new[j].state = table[j].state
  BY Insertion
<1> HIDE DEF new, slot
<1>2. n \in Nat /\ DOMAIN table = 0 .. n - 1 /\ DOMAIN new = 0 .. n - 1
  BY <1>1 DEF Sizes, Tables
<1>3. IsFiniteSet(Occupied(table)) /\ IsFiniteSet(Deleted(table))
  BY <1>2, SlotSetsFinite
<1>4. Occupied(new) = Occupied(table) \cup {slot} /\ slot \notin Occupied(table)
  BY <1>1, <1>2 DEF Occupied
<1>5. Deleted(new) \subseteq Deleted(table)
  <2>1. ASSUME NEW i \in Deleted(new) PROVE i \in Deleted(table)
    <3>1. i \in 0 .. n - 1 /\ new[i].state = "DELETED" BY <1>2 DEF Deleted
    <3>2. i # slot BY <1>1, <3>1
    <3>3. QED BY <1>1, <1>2, <3>1, <3>2 DEF Deleted
  <2>2. QED BY <2>1
<1>6. Cardinality(Occupied(new)) = Cardinality(Occupied(table)) + 1
  BY <1>3, <1>4, FS_AddElement
<1>7. Cardinality(Deleted(new)) <= Cardinality(Deleted(table))
  BY <1>3, <1>5, FS_Subset
<1>8. QED BY <1>1, <1>5, <1>6, <1>7 DEF new

-----------------------------------------------------------------------------
(* Resizing *)

FillStep(old, new, g, i) ==
  IF i = 0 THEN new
  ELSE IF old[i - 1].state # "OCCUPIED" THEN g[i - 1]
  ELSE insert_entry(g[i - 1], Home(old[i - 1].key, new),
                    [old[i - 1] EXCEPT !.psl = 0], old[i - 1].key_len).table
Filling(old, new, n, g) == g = [i \in 0 .. n |-> FillStep(old, new, g, i)]
Fill(old, new) == CHOOSE g : Filling(old, new, Capacity(old), g)

LEMMA ReinsertedIsFill == ASSUME NEW old, NEW new
                          PROVE Reinserted(old, new) = Fill(old, new)[Capacity(old)]
BY DEF Reinserted, Fill, Filling, FillStep

LEMMA FillingExists ==
  ASSUME NEW old, NEW new, NEW n \in Nat
  PROVE  \E g : Filling(old, new, n, g)
<1> DEFINE good == {k \in Nat : \E g : Filling(old, new, k, g)}
<1>1. 0 \in good
  <2> DEFINE g == [i \in 0 .. 0 |-> new]
  <2>1. \A i \in 0 .. 0 : FillStep(old, new, g, i) = new BY DEF FillStep
  <2>2. Filling(old, new, 0, g) BY <2>1 DEF Filling
  <2>3. QED BY <2>2
<1>2. ASSUME NEW k \in 0 .. n - 1, k \in good PROVE k + 1 \in good
  <2>1. k \in Nat /\ k + 1 \in Nat OBVIOUS
  <2>2. PICK g : Filling(old, new, k, g) BY <1>2
  <2> DEFINE h == [i \in 0 .. k + 1 |-> IF i = k + 1 THEN FillStep(old, new, g, i) ELSE g[i]]
  <2>3. ASSUME NEW i \in 0 .. k + 1 PROVE h[i] = FillStep(old, new, h, i)
    <3>1. h[i] = FillStep(old, new, g, i) BY <2>1, <2>2 DEF Filling
    <3>2. i # 0 => h[i - 1] = g[i - 1] BY <2>1
    <3> HIDE DEF h
    <3>3. QED BY <3>1, <3>2 DEF FillStep
  <2>4. h = [i \in 0 .. k + 1 |-> h[i]] OBVIOUS
  <2> HIDE DEF h
  <2>5. h = [i \in 0 .. k + 1 |-> FillStep(old, new, h, i)] BY <2>3, <2>4
  <2>6. Filling(old, new, k + 1, h) BY <2>5 DEF Filling
  <2>7. QED BY <2>1, <2>6
<1> HIDE DEF good
<1>3. \A k \in 0 .. n : k \in good BY <1>1, <1>2, UpTo
<1>4. n \in good BY <1>3
<1>5. QED BY <1>4 DEF good

LEMMA FillRounds ==
  ASSUME NEW old, NEW new, NEW n \in Nat, Capacity(old) = n
  PROVE  LET g == Fill(old, new) IN
         /\ g[0] = new
         /\ \A i \in 0 .. n - 1 :
              g[i + 1] = IF old[i].state # "OCCUPIED" THEN g[i]
                         ELSE insert_entry(g[i], Home(old[i].key, new),
                                [old[i] EXCEPT !.psl = 0], old[i].key_len).table
<1> DEFINE g == Fill(old, new)
<1>1. \E h : Filling(old, new, n, h) BY FillingExists
<1>2. Filling(old, new, n, g) BY <1>1 DEF Fill
<1> HIDE DEF g
<1>3. \A i \in 0 .. n : g[i] = FillStep(old, new, g, i) BY <1>2 DEF Filling
<1>4. g[0] = new
  <2>1. 0 \in 0 .. n OBVIOUS
  <2>2. g[0] = FillStep(old, new, g, 0) BY <1>3, <2>1
  <2>3. QED BY <2>2 DEF FillStep
<1>5. ASSUME NEW i \in 0 .. n - 1
      PROVE  g[i + 1] = IF old[i].state # "OCCUPIED" THEN g[i]
                        ELSE insert_entry(g[i], Home(old[i].key, new),
                               [old[i] EXCEPT !.psl = 0], old[i].key_len).table
  <2>1. i + 1 \in 0 .. n /\ i + 1 # 0 /\ i + 1 - 1 = i OBVIOUS
  <2>2. QED BY <1>3, <2>1 DEF FillStep
<1>6. QED BY <1>4, <1>5 DEF g

(* An entry of an old table as it is handed to insert_entry.               *)
LEMMA FromHome ==
  ASSUME NEW e \in Stored
  PROVE  /\ [e EXCEPT !.psl = 0] \in Stored
         /\ [e EXCEPT !.psl = 0].psl = 0
         /\ [e EXCEPT !.psl = 0].key = e.key
         /\ [e EXCEPT !.psl = 0].value = e.value
         /\ [e EXCEPT !.psl = 0].key_len = e.key_len
         /\ [e EXCEPT !.psl = 0].kept = e.kept
         /\ e.key \in Keys /\ e.key_len \in Nat
BY DEF Stored

(* The occupied slots of a table below slot i. *)
Below(table, i) == {j \in Occupied(table) : j < i}

LEMMA CallocIs ==
  ASSUME NEW n \in Sizes
  PROVE  calloc(n) \in Tables(n) /\ Occupied(calloc(n)) = {} /\ Deleted(calloc(n)) = {}
BY DEF calloc, Tables, Slots, Occupied, Deleted, Unoccupied

LEMMA BelowIs ==
  ASSUME NEW n \in Nat, NEW old \in Tables(n), NEW i \in Occupied(old)
  PROVE  /\ Below(old, i + 1) = Below(old, i) \cup {i}
         /\ Cardinality(Below(old, i + 1)) = Cardinality(Below(old, i)) + 1
         /\ Cardinality(Below(old, i)) \in Nat
         /\ Cardinality(Below(old, i)) < Cardinality(Occupied(old))
<1>1. DOMAIN old = 0 .. n - 1 BY DEF Tables
<1>2. Occupied(old) \subseteq 0 .. n - 1 BY <1>1 DEF Occupied
<1>3. i \in Nat /\ i \notin Below(old, i) BY <1>2 DEF Below
<1>4. Below(old, i + 1) = Below(old, i) \cup {i} BY <1>2, <1>3 DEF Below
<1>5. IsFiniteSet(Occupied(old)) BY <1>1, SlotSetsFinite
<1>6. Below(old, i) \subseteq Occupied(old) /\ Below(old, i + 1) \subseteq Occupied(old)
  BY DEF Below
<1>7. IsFiniteSet(Below(old, i)) BY <1>5, <1>6, FS_Subset
<1>8. Cardinality(Below(old, i + 1)) = Cardinality(Below(old, i)) + 1
  BY <1>3, <1>4, <1>7, FS_AddElement
<1>9. Cardinality(Below(old, i + 1)) <= Cardinality(Occupied(old)) BY <1>5, <1>6, FS_Subset
<1>10. Cardinality(Below(old, i)) \in Nat /\ Cardinality(Occupied(old)) \in Nat
  BY <1>5, <1>7, FS_CardinalityType
<1>11. QED BY <1>4, <1>8, <1>9, <1>10

(* What the filling of a new table of m slots keeps: after i old slots it  *)
(* has as many entries as there were in them, and no tombstones.           *)
LEMMA FillKeeps ==
  ASSUME NEW n \in Sizes, NEW old \in Tables(n), NEW m \in Sizes,
         Cardinality(Occupied(old)) < m
  PROVE  LET g == Fill(old, calloc(m)) IN
         \A i \in 0 .. n :
           /\ g[i] \in Tables(m)
           /\ Cardinality(Occupied(g[i])) = Cardinality(Below(old, i))
           /\ Deleted(g[i]) = {}
<1> DEFINE g == Fill(old, calloc(m))
           good == {i \in Nat : /\ g[i] \in Tables(m)
                                /\ Cardinality(Occupied(g[i])) = Cardinality(Below(old, i))
                                /\ Deleted(g[i]) = {}}
           empty == calloc(m)
<1>1. n \in Nat /\ m \in Nat /\ DOMAIN old = 0 .. n - 1 BY DEF Sizes, Tables
<1>2. Capacity(old) = n BY <1>1, CapacityOf
<1>3. /\ g[0] = empty
      /\ \A i \in 0 .. n - 1 :
           g[i + 1] = IF old[i].state # "OCCUPIED" THEN g[i]
                      ELSE insert_entry(g[i], Home(old[i].key, empty),
                             [old[i] EXCEPT !.psl = 0], old[i].key_len).table
  BY <1>1, <1>2, FillRounds
<1>4. empty \in Tables(m) /\ Occupied(empty) = {} /\ Deleted(empty) = {} BY CallocIs
<1>5. DOMAIN empty = 0 .. m - 1 BY <1>4 DEF Tables
<1> HIDE DEF empty, g
<1>6. 0 \in good
  <2>1. Below(old, 0) = {} BY <1>1 DEF Below, Occupied
  <2>2. QED BY <1>3, <1>4, <2>1
<1>7. ASSUME NEW i \in 0 .. n - 1, i \in good PROVE i + 1 \in good
  <2>1. i \in Nat /\ i + 1 \in Nat OBVIOUS
  <2>2. /\ g[i] \in Tables(m) /\ Deleted(g[i]) = {}
        /\ Cardinality(Occupied(g[i])) = Cardinality(Below(old, i))
    BY <1>7
  <2>3. CASE old[i].state # "OCCUPIED"
    <3>1. Below(old, i + 1) = Below(old, i) BY <1>1, <2>3 DEF Below, Occupied
    <3>2. g[i + 1] = g[i] BY <1>3, <2>3
    <3>3. QED BY <2>1, <2>2, <3>1, <3>2
  <2>4. CASE old[i].state = "OCCUPIED"
    <3>1. i \in Occupied(old) BY <1>1, <2>4 DEF Occupied
    <3>2. /\ Cardinality(Below(old, i + 1)) = Cardinality(Below(old, i)) + 1
          /\ Cardinality(Below(old, i)) < Cardinality(Occupied(old))
          /\ Cardinality(Below(old, i)) \in Nat /\ Cardinality(Occupied(old)) \in Nat
      BY <1>1, <3>1, BelowIs, SlotSetsFinite
    <3>3. Cardinality(Occupied(g[i])) < m BY <1>1, <2>2, <3>2
    <3>4. HasRoom(g[i]) BY <1>1, <2>2, <3>3, RoomLeft
    <3>5. old[i] \in Stored
      <4>1. old[i] \in Slots BY DEF Tables
      <4>2. QED BY <2>4, <4>1 DEF Slots, Unoccupied
    <3> DEFINE e == [old[i] EXCEPT !.psl = 0]
               len == old[i].key_len
               home == Home(old[i].key, empty)
    <3>6. e \in Stored /\ len \in Nat /\ old[i].key \in Keys BY <3>5, FromHome
    <3>7. home \in 0 .. m - 1 BY <1>5, <3>6, HomeIs
    <3>8. g[i + 1] = insert_entry(g[i], home, e, len).table BY <1>3, <2>4 DEF empty
    <3> HIDE DEF e, len, home
    <3>9. /\ g[i + 1] \in Tables(m)
          /\ Cardinality(Occupied(g[i + 1])) = Cardinality(Occupied(g[i])) + 1
          /\ Deleted(g[i + 1]) = {}
      <4> DEFINE table == g[i]
      <4>1. table \in Tables(m) /\ HasRoom(table) /\ Deleted(table) = {} BY <2>2, <3>4
      <4> HIDE DEF table
      <4>2. LET result == insert_entry(table, home, e, len).table IN
            /\ result \in Tables(m) /\ Deleted(result) = {}
            /\ Cardinality(Occupied(result)) = Cardinality(Occupied(table)) + 1
        BY <3>6, <3>7, <4>1, InsertionCounts
      <4>3. QED BY <3>8, <4>2 DEF table
    <3>10. QED BY <2>1, <2>2, <3>2, <3>9
  <2>5. QED BY <2>3, <2>4
<1> HIDE DEF good
<1>8. \A i \in 0 .. n : i \in good BY <1>1, <1>6, <1>7, UpTo
<1>9. QED BY <1>8 DEF good, g, empty

(* Reinserting puts as many entries into the new table as the old one had, *)
(* if there are fewer than slots.                                          *)
LEMMA Reinsertion ==
  ASSUME NEW n \in Sizes, NEW old \in Tables(n), NEW m \in Sizes,
         Cardinality(Occupied(old)) < m
  PROVE  LET new == Reinserted(old, calloc(m)) IN
         /\ new \in Tables(m)
         /\ Cardinality(Occupied(new)) = Cardinality(Occupied(old))
         /\ Deleted(new) = {}
<1> DEFINE g == Fill(old, calloc(m))
<1>1. n \in Nat /\ DOMAIN old = 0 .. n - 1 BY DEF Sizes, Tables
<1>2. Capacity(old) = n /\ n \in 0 .. n BY <1>1, CapacityOf
<1>3. /\ g[n] \in Tables(m) /\ Deleted(g[n]) = {}
      /\ Cardinality(Occupied(g[n])) = Cardinality(Below(old, n))
  BY <1>2, FillKeeps
<1>4. Below(old, n) = Occupied(old) BY <1>1 DEF Below, Occupied
<1>5. Reinserted(old, calloc(m)) = g[n] BY <1>2, ReinsertedIsFill
<1>6. QED BY <1>3, <1>4, <1>5

-----------------------------------------------------------------------------
(* Capacities *)

DoubleStep(g, b) == IF b = 0 THEN 1 ELSE 2 * g[b - 1]
Doubling(n, g) == g = [b \in 0 .. n |-> DoubleStep(g, b)]
Double(n) == CHOOSE g : Doubling(n, g)

LEMMA NextPowerIsDouble ==
  ASSUME NEW n
  PROVE  next_power_of_2(n) = Min({Double(n)[b] : b \in {c \in 0 .. n : Double(n)[c] >= n}})
BY DEF next_power_of_2, Double, Doubling, DoubleStep

LEMMA DoublingExists ==
  ASSUME NEW n \in Nat
  PROVE  \E g : Doubling(n, g)
<1> DEFINE good == {k \in Nat : \E g : Doubling(k, g)}
<1>1. 0 \in good
  <2> DEFINE g == [b \in 0 .. 0 |-> 1]
  <2>1. \A b \in 0 .. 0 : DoubleStep(g, b) = 1 BY DEF DoubleStep
  <2>2. Doubling(0, g) BY <2>1 DEF Doubling
  <2>3. QED BY <2>2
<1>2. ASSUME NEW k \in 0 .. n - 1, k \in good PROVE k + 1 \in good
  <2>1. k \in Nat /\ k + 1 \in Nat OBVIOUS
  <2>2. PICK g : Doubling(k, g) BY <1>2
  <2> DEFINE h == [b \in 0 .. k + 1 |-> IF b = k + 1 THEN DoubleStep(g, b) ELSE g[b]]
  <2>3. ASSUME NEW b \in 0 .. k + 1 PROVE h[b] = DoubleStep(h, b)
    <3>1. h[b] = DoubleStep(g, b) BY <2>1, <2>2 DEF Doubling
    <3>2. b # 0 => h[b - 1] = g[b - 1] BY <2>1
    <3> HIDE DEF h
    <3>3. QED BY <3>1, <3>2 DEF DoubleStep
  <2>4. h = [b \in 0 .. k + 1 |-> h[b]] OBVIOUS
  <2> HIDE DEF h
  <2>5. h = [b \in 0 .. k + 1 |-> DoubleStep(h, b)] BY <2>3, <2>4
  <2>6. Doubling(k + 1, h) BY <2>5 DEF Doubling
  <2>7. QED BY <2>1, <2>6
<1> HIDE DEF good
<1>3. \A k \in 0 .. n : k \in good BY <1>1, <1>2, UpTo
<1>4. n \in good BY <1>3
<1>5. QED BY <1>4 DEF good

(* The next power of 2 is large enough and not 0.                          *)
LEMMA NextPowerIs ==
  ASSUME NEW n \in Nat
  PROVE  next_power_of_2(n) \in Sizes /\ next_power_of_2(n) >= n
<1> DEFINE g == Double(n)
           good == {b \in Nat : g[b] \in Nat /\ g[b] > b}
           S == {g[b] : b \in {c \in 0 .. n : g[c] >= n}}
<1>1. \E h : Doubling(n, h) BY DoublingExists
<1>2. Doubling(n, g) BY <1>1 DEF Double
<1> HIDE DEF g
<1>3. \A b \in 0 .. n : g[b] = DoubleStep(g, b) BY <1>2 DEF Doubling
<1>4. 0 \in good
  <2>1. 0 \in 0 .. n OBVIOUS
  <2>2. g[0] = DoubleStep(g, 0) BY <1>3, <2>1
  <2>3. g[0] = 1 BY <2>2 DEF DoubleStep
  <2>4. QED BY <2>3
<1>5. ASSUME NEW b \in 0 .. n - 1, b \in good PROVE b + 1 \in good
  <2>1. b + 1 \in 0 .. n /\ b + 1 # 0 /\ b + 1 - 1 = b OBVIOUS
  <2>2. g[b + 1] = DoubleStep(g, b + 1) BY <1>3, <2>1
  <2>3. g[b + 1] = 2 * g[b] BY <2>1, <2>2 DEF DoubleStep
  <2>4. g[b] \in Nat /\ g[b] > b BY <1>5
  <2>5. QED BY <2>1, <2>3, <2>4
<1> HIDE DEF good
<1>6. \A b \in 0 .. n : b \in good BY <1>4, <1>5, UpTo
<1>7. \A b \in 0 .. n : g[b] \in Nat /\ g[b] > b BY <1>6 DEF good
<1>8. S \in SUBSET Nat BY <1>7
<1>9. g[n] \in S BY <1>7
<1>10. Min(S) \in S BY <1>8, <1>9, MinIs
<1>11. PICK b \in 0 .. n : Min(S) = g[b] /\ g[b] >= n BY <1>10
<1>12. Min(S) \in Nat /\ Min(S) > 0 /\ Min(S) >= n BY <1>7, <1>11
<1>13. next_power_of_2(n) = Min(S) BY NextPowerIsDouble DEF g
<1> HIDE DEF S
<1>14. QED BY <1>12, <1>13 DEF Sizes

LEMMA ResizeTargetIs ==
  ASSUME NEW n \in Nat
  PROVE  ResizeTarget(n) \in Sizes /\ ResizeTarget(n) >= n
<1> DEFINE m == IF n < HASH_INITIAL_CAPACITY THEN HASH_INITIAL_CAPACITY ELSE n
<1>1. m \in Nat /\ m >= n BY HashTableAssumption
<1>2. ResizeTarget(n) = next_power_of_2(m) BY DEF ResizeTarget
<1> HIDE DEF m
<1>3. next_power_of_2(m) \in Sizes /\ next_power_of_2(m) >= m BY <1>1, NextPowerIs
<1>4. QED BY <1>1, <1>2, <1>3 DEF Sizes

-----------------------------------------------------------------------------
(* Searches *)

(* A search ends within one round if there is an empty slot: at the key,   *)
(* at an empty slot or at an entry nearer to its home, and not before.     *)
LEMMA WalkIs ==
  ASSUME NEW n \in Sizes, NEW table \in Tables(n), NEW k \in Keys,
         \E i \in 0 .. n - 1 : table[i].state = "EMPTY"
  PROVE  /\ Walk(table, k) \in 0 .. n - 1
         /\ EndsAt(table, k, Walk(table, k))
         /\ \A d \in 0 .. n - 1 : EndsAt(table, k, d) => Walk(table, k) <= d
         /\ Probe(table, k).index = Slot(Home(k, table), Walk(table, k), table)
         /\ Probe(table, k).index \in 0 .. n - 1
         /\ Probe(table, k).psl = UInt8(Walk(table, k))
         /\ Probe(table, k).psl \in 0 .. 255
<1> DEFINE S == {d \in 0 .. n - 1 : EndsAt(table, k, d)}
           home == Home(k, table)
<1>1. n \in Nat /\ n > 0 /\ DOMAIN table = 0 .. n - 1 BY DEF Sizes, Tables
<1>2. home \in 0 .. n - 1 BY <1>1, HomeIs
<1> HIDE DEF home
<1>3. S # {}
  <2>1. PICK i \in 0 .. n - 1 : table[i].state = "EMPTY" OBVIOUS
  <2>2. PICK d \in 0 .. n - 1 : Slot(home, d, table) = i
    BY ONLY n \in Sizes, i \in 0 .. n - 1, <1>1, <1>2, SlotReached, SMTT(30)
  <2>3. EndsAt(table, k, d) BY <2>1, <2>2 DEF EndsAt, home
  <2>4. QED BY <2>3
<1>4. S \in SUBSET Nat BY <1>1
<1>5. Min(S) \in S /\ \A d \in S : Min(S) <= d BY <1>3, <1>4, MinIs
<1>6. Walk(table, k) = Min(S) BY <1>1, CapacityOf DEF Walk
<1>7. /\ Walk(table, k) \in 0 .. n - 1 /\ EndsAt(table, k, Walk(table, k))
      /\ \A d \in 0 .. n - 1 : EndsAt(table, k, d) => Walk(table, k) <= d
  BY <1>5, <1>6
<1>8. Slot(home, Walk(table, k), table) \in 0 .. n - 1 BY <1>1, <1>2, <1>7, SlotIs
<1>9. UInt8(Walk(table, k)) \in 0 .. 255 BY <1>7 DEF UInt8
<1>10. QED BY <1>7, <1>8, <1>9 DEF Probe, home

-----------------------------------------------------------------------------
(* The counts *)

HashType ==
  /\ capacity \in Sizes /\ entries \in Tables(capacity)
  /\ size \in Nat /\ tombstones \in Nat
  /\ promised \in [Keys -> Values \cup {NULL}] /\ reused \in BOOLEAN

(* The inductive invariant.                                                *)
HashInv == HashType /\ ProbesEnd

(* What the counts of a table must be; ProbesEnd says it of the entries.   *)
Counted(table, used, buried, n) ==
  /\ used = Cardinality(Occupied(table))
  /\ Cardinality(Deleted(table)) <= buried
  /\ used + buried < n

LEMMA ProbesEndIsCounted == ProbesEnd <=> Counted(entries, size, tombstones, capacity)
BY DEF ProbesEnd, Counted

LEMMA HashInvAgain ==
  ASSUME NEW n \in Sizes, entries' \in Tables(n), size' \in Nat, tombstones' \in Nat,
         promised' \in [Keys -> Values \cup {NULL}], reused' \in BOOLEAN,
         Counted(entries', size', tombstones', n)
  PROVE  HashInv'
<1>1. n \in Nat /\ DOMAIN entries' = 0 .. n - 1 BY DEF Sizes, Tables
<1>2. capacity' = n BY <1>1, CapacityOf DEF capacity
<1>3. HashType' BY <1>2 DEF HashType
<1>4. ProbesEnd' BY <1>2 DEF ProbesEnd, Counted
<1>5. QED BY <1>3, <1>4 DEF HashInv

(* What the invariant gives to every operation.                            *)
LEMMA InvFacts ==
  ASSUME HashInv
  PROVE  /\ capacity \in Nat /\ capacity > 0 /\ DOMAIN entries = 0 .. capacity - 1
         /\ \E i \in 0 .. capacity - 1 : entries[i].state = "EMPTY"
         /\ HasRoom(entries) /\ size < capacity
         /\ IsFiniteSet(Occupied(entries)) /\ IsFiniteSet(Deleted(entries))
         /\ Cardinality(Deleted(entries)) \in Nat
<1>1. /\ capacity \in Nat /\ capacity > 0 /\ DOMAIN entries = 0 .. capacity - 1
      /\ entries \in Tables(capacity) /\ size \in Nat /\ tombstones \in Nat
  BY DEF HashInv, HashType, Sizes, Tables
<1>2. /\ IsFiniteSet(Occupied(entries)) /\ IsFiniteSet(Deleted(entries))
      /\ Cardinality(Occupied(entries)) \in Nat /\ Cardinality(Deleted(entries)) \in Nat
  BY <1>1, SlotSetsFinite
<1>3. /\ size = Cardinality(Occupied(entries)) /\ Cardinality(Deleted(entries)) <= tombstones
      /\ size + tombstones < capacity
  BY DEF HashInv, ProbesEnd
<1>4. Cardinality(Occupied(entries)) + Cardinality(Deleted(entries)) < capacity
  BY <1>1, <1>2, <1>3
<1>5. \E i \in 0 .. capacity - 1 : entries[i].state = "EMPTY" BY <1>1, <1>4, EmptySlot
<1>6. HasRoom(entries) BY <1>1, <1>5 DEF HasRoom
<1>7. QED BY <1>1, <1>2, <1>3, <1>5, <1>6

(* However many copies of keys fail, the slots are taken alike.            *)
LEMMA CopiedIs ==
  ASSUME NEW n \in Nat, NEW table \in Tables(n), NEW before, Copied(table, before)
  PROVE  /\ entries' \in Tables(n)
         /\ Occupied(entries') = Occupied(table) /\ Deleted(entries') = Deleted(table)
         /\ ~keyless' => entries' = table
<1>1. CASE entries' = table BY <1>1
<1>2. ASSUME NEW lost \in SUBSET Occupied(table), keyless' = TRUE,
             entries' = [i \in DOMAIN table |->
                          IF i \in lost THEN [table[i] EXCEPT !.kept = 0] ELSE table[i]]
      PROVE  /\ entries' \in Tables(n)
             /\ Occupied(entries') = Occupied(table) /\ Deleted(entries') = Deleted(table)
             /\ ~keyless' => entries' = table
  <2>1. DOMAIN table = 0 .. n - 1 /\ \A i \in 0 .. n - 1 : table[i] \in Slots BY DEF Tables
  <2>2. ASSUME NEW i \in 0 .. n - 1
        PROVE  entries'[i] \in Slots /\ entries'[i].state = table[i].state
    <3>1. CASE i \notin lost BY <1>2, <2>1, <3>1
    <3>2. CASE i \in lost
      <4>1. table[i] \in Stored
        BY <1>2, <2>1, <3>2 DEF Occupied, Slots, Unoccupied
      <4>2. entries'[i] = [table[i] EXCEPT !.kept = 0] BY <1>2, <2>1, <3>2
      <4>3. entries'[i] \in Stored /\ entries'[i].state = table[i].state
        BY <4>1, <4>2 DEF Stored
      <4>4. QED BY <4>3 DEF Slots
    <3>3. QED BY <3>1, <3>2
  <2>3. DOMAIN entries' = 0 .. n - 1 BY <1>2, <2>1
  <2>4. entries' = [i \in 0 .. n - 1 |-> entries'[i]] BY <1>2, <2>1
  <2>5. entries' \in Tables(n) BY <2>2, <2>4 DEF Tables
  <2>6. Occupied(entries') = Occupied(table) /\ Deleted(entries') = Deleted(table)
    BY <2>1, <2>2, <2>3 DEF Occupied, Deleted
  <2>7. QED BY <1>2, <2>5, <2>6
<1>3. QED BY <1>1, <1>2 DEF Copied

LEMMA ResizeIs ==
  ASSUME HashInv, NEW n \in Nat, size < ResizeTarget(n)
  PROVE  /\ hash_resize(n) \in Tables(ResizeTarget(n))
         /\ Cardinality(Occupied(hash_resize(n))) = size
         /\ Deleted(hash_resize(n)) = {}
<1>1. capacity \in Sizes /\ entries \in Tables(capacity) /\ size = Cardinality(Occupied(entries))
  BY DEF HashInv, HashType, ProbesEnd
<1>2. ResizeTarget(n) \in Sizes BY ResizeTargetIs
<1> DEFINE m == ResizeTarget(n)
<1>3. hash_resize(n) = Reinserted(entries, calloc(m)) BY DEF hash_resize
<1>4. Cardinality(Occupied(entries)) < m BY <1>1
<1> HIDE DEF m
<1>5. LET new == Reinserted(entries, calloc(m)) IN
      /\ new \in Tables(m) /\ Cardinality(Occupied(new)) = Cardinality(Occupied(entries))
      /\ Deleted(new) = {}
  BY <1>1, <1>2, <1>4, Reinsertion DEF m
<1>6. QED BY <1>1, <1>3, <1>5 DEF m

LEMMA EmptyIsCounted ==
  ASSUME NEW n \in Sizes
  PROVE  Counted(calloc(n), 0, 0, n)
<1>1. Occupied(calloc(n)) = {} /\ Deleted(calloc(n)) = {} BY CallocIs
<1>2. n > 0 /\ n \in Nat BY DEF Sizes
<1>3. QED BY <1>1, <1>2, FS_EmptySet DEF Counted

LEMMA CreateInv == hash_create => HashInv
<1>1. SUFFICES ASSUME hash_create PROVE HashInv OBVIOUS
<1> DEFINE n == next_power_of_2(HASH_INITIAL_CAPACITY)
<1>2. n \in Sizes BY HashTableAssumption, NextPowerIs
<1>3. /\ entries = calloc(n) /\ size = 0 /\ tombstones = 0
      /\ promised = [k \in Keys |-> NULL] /\ reused = FALSE
  BY <1>1 DEF hash_create
<1> HIDE DEF n
<1>4. entries \in Tables(n) /\ Counted(entries, 0, 0, n) BY <1>2, <1>3, CallocIs, EmptyIsCounted
<1>5. n \in Nat /\ DOMAIN entries = 0 .. n - 1 BY <1>2, <1>4 DEF Sizes, Tables
<1>6. capacity = n BY <1>5, CapacityOf DEF capacity
<1>7. HashType BY <1>2, <1>3, <1>4, <1>6 DEF HashType
<1>8. QED BY <1>3, <1>4, <1>6, <1>7 DEF HashInv, ProbesEnd, Counted

(* The table in which hash_put makes its insertion, and where it starts.   *)
PutTable == IF Overloaded THEN hash_resize(2 * capacity) ELSE entries
PutSize == IF Overloaded THEN ResizeTarget(2 * capacity) ELSE capacity
PutTombstones == IF Overloaded THEN 0 ELSE tombstones
PutPsl(k) == IF Overloaded THEN 0 ELSE Probe(entries, k).psl
PutResult(k, v) ==
  insert_entry(PutTable, Home(k, PutTable), NewEntry(k, v, PutPsl(k)), KeyLen[k])

LEMMA PutTableIs ==
  ASSUME HashInv, NEW k \in Keys, NEW v \in Values
  PROVE  /\ PutSize \in Sizes /\ PutTable \in Tables(PutSize)
         /\ PutTombstones \in Nat
         /\ Counted(PutTable, size, PutTombstones, PutSize)
         /\ size + 1 + PutTombstones < PutSize
         /\ HasRoom(PutTable)
         /\ Home(k, PutTable) \in 0 .. PutSize - 1
         /\ NewEntry(k, v, PutPsl(k)) \in Stored
<1>1. /\ capacity \in Nat /\ capacity > 0 /\ capacity \in Sizes
      /\ entries \in Tables(capacity) /\ size \in Nat /\ tombstones \in Nat
      /\ \E i \in 0 .. capacity - 1 : entries[i].state = "EMPTY"
      /\ size < capacity
  BY InvFacts DEF HashInv, HashType
<1> DEFINE Goal == /\ PutSize \in Sizes /\ PutTable \in Tables(PutSize)
                   /\ PutTombstones \in Nat
                   /\ Counted(PutTable, size, PutTombstones, PutSize)
                   /\ size + 1 + PutTombstones < PutSize
                   /\ HasRoom(PutTable) /\ PutPsl(k) \in 0 .. 255
<1>2. ASSUME Overloaded PROVE Goal
  <2> DEFINE m == ResizeTarget(2 * capacity)
             new == hash_resize(2 * capacity)
  <2>1. 2 * capacity \in Nat BY <1>1
  <2>2. m \in Sizes /\ m >= 2 * capacity BY <2>1, ResizeTargetIs
  <2>3. m \in Nat BY <2>2 DEF Sizes
  <2>4. size + 1 < m /\ size < m BY <1>1, <2>2, <2>3
  <2>5. new \in Tables(m) /\ Cardinality(Occupied(new)) = size /\ Deleted(new) = {}
    BY <2>1, <2>4, ResizeIs
  <2>6. PutTable = new /\ PutSize = m /\ PutTombstones = 0 /\ PutPsl(k) = 0
    BY <1>2 DEF PutTable, PutSize, PutTombstones, PutPsl
  <2> HIDE DEF m, new
  <2>7. Cardinality(Deleted(new)) = 0 BY <2>5, FS_EmptySet
  <2>8. Counted(new, size, 0, m) BY <1>1, <2>3, <2>4, <2>5, <2>7 DEF Counted
  <2>9. HasRoom(new) BY <2>3, <2>4, <2>5, RoomLeft
  <2>10. QED BY <1>1, <2>2, <2>3, <2>4, <2>5, <2>6, <2>8, <2>9
<1>3. ASSUME ~Overloaded PROVE Goal
  <2>1. PutTable = entries /\ PutSize = capacity /\ PutTombstones = tombstones
    BY <1>3 DEF PutTable, PutSize, PutTombstones
  <2>2. ~ (100 * (size + tombstones + 1) > 85 * capacity) BY <1>3 DEF Overloaded
  <2>3. size + 1 + tombstones < capacity BY <1>1, <2>2
  <2>4. PutPsl(k) = Probe(entries, k).psl BY <1>3 DEF PutPsl
  <2>5. PutPsl(k) \in 0 .. 255 BY <1>1, <2>4, WalkIs
  <2>6. Counted(entries, size, tombstones, capacity) BY ProbesEndIsCounted DEF HashInv
  <2>7. HasRoom(entries) BY InvFacts
  <2>8. QED BY <1>1, <2>1, <2>3, <2>5, <2>6, <2>7
<1>4. Goal BY <1>2, <1>3
<1>5. DOMAIN PutTable = 0 .. PutSize - 1 BY <1>4 DEF Tables
<1>6. Home(k, PutTable) \in 0 .. PutSize - 1 BY <1>4, <1>5, HomeIs
<1>7. KeyLen[k] \in Nat BY HashTableAssumption
<1>8. NewEntry(k, v, PutPsl(k)) \in Stored BY <1>4, <1>7 DEF NewEntry, Stored, Pointers
<1>9. QED BY <1>4, <1>6, <1>8

(* What the insertion is compared with. *)
PutBefore == IF Overloaded THEN calloc(Capacity(PutTable)) ELSE entries

(* A history with another value for k. *)
Told(k, v) == [promised EXCEPT ![k] = v]

LEMMA PutIsAs ==
  ASSUME NEW k, NEW v
  PROVE  hash_put(k, v) <=>
           LET at == Probe(entries, k) IN
           /\ ~keyless
           /\ promised' = Told(k, v)
           /\ \/ /\ Holds(entries[at.index], k)
                 /\ entries' = Put(entries, at.index, [entries[at.index] EXCEPT !.value = v])
                 /\ UNCHANGED <<size, tombstones, reused, keyless>>
              \/ /\ ~Holds(entries[at.index], k)
                 /\ Overloaded => 2 * capacity <= MaxCapacity
                 /\ Copied(PutResult(k, v).table, PutBefore)
                 /\ size' = size + 1
                 /\ tombstones' = PutTombstones
                 /\ reused' = (reused \/ PutTable[PutResult(k, v).slot].state = "DELETED")
BY DEF hash_put, PutResult, PutTable, PutPsl, PutTombstones, PutBefore, Put, Told

LEMMA PutKeepsInv ==
  ASSUME HashInv, NEW k \in Keys, NEW v \in Values, hash_put(k, v)
  PROVE  HashInv'
<1> DEFINE at == Probe(entries, k)
           new == [entries[at.index] EXCEPT !.value = v]
<1>1. /\ capacity \in Nat /\ capacity > 0 /\ capacity \in Sizes
      /\ entries \in Tables(capacity) /\ size \in Nat /\ tombstones \in Nat
      /\ reused \in BOOLEAN /\ promised \in [Keys -> Values \cup {NULL}]
      /\ DOMAIN entries = 0 .. capacity - 1
  BY InvFacts DEF HashInv, HashType
<1>2. Told(k, v) \in [Keys -> Values \cup {NULL}] BY <1>1 DEF Told
<1>3. promised' \in [Keys -> Values \cup {NULL}] BY <1>2, PutIsAs
<1>4. CASE /\ Holds(entries[at.index], k)
           /\ entries' = Put(entries, at.index, new)
           /\ UNCHANGED <<size, tombstones, reused, keyless>>
  <2> DEFINE i == at.index
  <2>1. i \in 0 .. capacity - 1 BY <1>1, InvFacts, WalkIs
  <2> HIDE DEF at
  <2>2. entries[i] \in Slots /\ entries[i].state = "OCCUPIED" BY <1>1, <1>4, <2>1 DEF Tables, Holds
  <2>3. entries[i] \in Stored BY <2>2 DEF Slots, Unoccupied
  <2>4. new \in Stored /\ new.state = "OCCUPIED" BY <2>3 DEF Stored, Pointers
  <2>5. new \in Slots BY <2>4 DEF Slots
  <2> HIDE DEF i, new
  <2>6. /\ Put(entries, i, new) \in Tables(capacity)
        /\ Put(entries, i, new)[i] = new
        /\ \A j \in (0 .. capacity - 1) \ {i} : Put(entries, i, new)[j] = entries[j]
    <3>1. entries \in Tables(capacity) BY <1>1
    <3>2. QED BY ONLY <2>1, <2>5, <3>1, PutIs
  <2>7. entries' = Put(entries, i, new) BY <1>4 DEF i
  <2>8. entries' \in Tables(capacity) /\ DOMAIN entries' = 0 .. capacity - 1
    BY <2>6, <2>7 DEF Tables
  <2>9. \A j \in 0 .. capacity - 1 : entries'[j].state = entries[j].state
    BY <2>2, <2>4, <2>6, <2>7
  <2>10. Occupied(entries') = Occupied(entries) /\ Deleted(entries') = Deleted(entries)
    BY <1>1, <2>8, <2>9 DEF Occupied, Deleted
  <2>11. Counted(entries, size, tombstones, capacity) BY ProbesEndIsCounted DEF HashInv
  <2>12. size' = size /\ tombstones' = tombstones /\ reused' = reused BY <1>4
  <2>13. Counted(entries', size', tombstones', capacity) BY <2>10, <2>11, <2>12 DEF Counted
  <2>14. QED BY <1>1, <1>3, <2>8, <2>12, <2>13, HashInvAgain
<1>5. CASE /\ Copied(PutResult(k, v).table, PutBefore)
           /\ size' = size + 1 /\ tombstones' = PutTombstones
           /\ reused' = (reused \/ PutTable[PutResult(k, v).slot].state = "DELETED")
  <2> DEFINE n == PutSize
             e == NewEntry(k, v, PutPsl(k))
             home == Home(k, PutTable)
             len == KeyLen[k]
  <2>1. /\ n \in Sizes /\ PutTable \in Tables(n) /\ PutTombstones \in Nat
        /\ Counted(PutTable, size, PutTombstones, n)
        /\ size + 1 + PutTombstones < n /\ HasRoom(PutTable)
        /\ home \in 0 .. n - 1 /\ e \in Stored
    BY PutTableIs
  <2>2. len \in Nat BY HashTableAssumption
  <2>3. PutResult(k, v) = insert_entry(PutTable, home, e, len) BY DEF PutResult
  <2> HIDE DEF n, e, home, len
  <2>4. LET result == insert_entry(PutTable, home, e, len).table IN
        /\ result \in Tables(n)
        /\ Cardinality(Occupied(result)) = Cardinality(Occupied(PutTable)) + 1
        /\ Cardinality(Deleted(result)) <= Cardinality(Deleted(PutTable))
    BY <2>1, <2>2, InsertionCounts
  <2>5. /\ entries' \in Tables(n)
        /\ Cardinality(Occupied(entries')) = Cardinality(Occupied(PutTable)) + 1
        /\ Cardinality(Deleted(entries')) <= Cardinality(Deleted(PutTable))
    <3> DEFINE result == PutResult(k, v).table
    <3>1. result \in Tables(n) /\ n \in Nat BY <2>1, <2>3, <2>4 DEF Sizes
    <3>2. Copied(result, PutBefore) BY <1>5
    <3>3. result = insert_entry(PutTable, home, e, len).table BY <2>3
    <3> HIDE DEF result
    <3>4. /\ entries' \in Tables(n)
          /\ Occupied(entries') = Occupied(result) /\ Deleted(entries') = Deleted(result)
      BY <3>1, <3>2, CopiedIs
    <3>5. QED BY <2>4, <3>3, <3>4
  <2>6. DOMAIN entries' = 0 .. n - 1 /\ DOMAIN PutTable = 0 .. n - 1 /\ n \in Nat
    BY <2>1, <2>5 DEF Tables, Sizes
  <2>7. Cardinality(Deleted(entries')) \in Nat /\ Cardinality(Deleted(PutTable)) \in Nat
    BY <2>6, SlotSetsFinite
  <2>8. Counted(entries', size + 1, PutTombstones, n) BY <1>1, <2>1, <2>5, <2>7 DEF Counted
  <2>9. size' \in Nat /\ tombstones' \in Nat /\ reused' \in BOOLEAN BY <1>1, <1>5, <2>1
  <2>10. Counted(entries', size', tombstones', n) BY <1>5, <2>8
  <2>11. QED BY <1>3, <2>1, <2>5, <2>9, <2>10, HashInvAgain
<1> HIDE DEF at, new
<1>6. QED BY <1>4, <1>5, PutIsAs DEF at, new

(* Removal: the slot becomes a tombstone, or the table is made anew.       *)
Marked(i) == Put(entries, i, Unoccupied("DELETED"))

LEMMA RemoveIsAs ==
  ASSUME NEW k, hash_remove(k)
  PROVE  \E i \in At(entries, k) :
           LET clear == tombstones + 1 > capacity \div 4 IN
           /\ \/ /\ entries' = Marked(i) /\ tombstones' = tombstones + 1
              \/ /\ clear
                 /\ Copied(Reinserted(Marked(i), calloc(ResizeTarget(capacity))),
                           calloc(ResizeTarget(capacity)))
                 /\ tombstones' = 0
           /\ ~keyless
           /\ size' = size - 1
           /\ promised' = Told(k, NULL)
           /\ reused' = reused
BY DEF hash_remove, Marked, Put, Told

LEMMA AtIs ==
  ASSUME NEW n \in Sizes, NEW table \in Tables(n), NEW k \in Keys,
         \E i \in 0 .. n - 1 : table[i].state = "EMPTY", NEW i \in At(table, k)
  PROVE  /\ i = Probe(table, k).index /\ i \in 0 .. n - 1
         /\ Holds(table[i], k) /\ table[i].state = "OCCUPIED"
BY WalkIs DEF At, Holds

LEMMA MarkedIs ==
  ASSUME HashInv, NEW i \in 0 .. capacity - 1, entries[i].state = "OCCUPIED"
  PROVE  /\ Marked(i) \in Tables(capacity)
         /\ Marked(i)[i] = Unoccupied("DELETED")
         /\ \A j \in (0 .. capacity - 1) \ {i} : Marked(i)[j] = entries[j]
         /\ Counted(Marked(i), size - 1, tombstones + 1, capacity)
         /\ size - 1 \in Nat
<1> DEFINE e == Unoccupied("DELETED")
<1>1. /\ capacity \in Nat /\ capacity > 0 /\ capacity \in Sizes
      /\ entries \in Tables(capacity) /\ size \in Nat /\ tombstones \in Nat
      /\ DOMAIN entries = 0 .. capacity - 1
      /\ IsFiniteSet(Occupied(entries)) /\ IsFiniteSet(Deleted(entries))
      /\ Cardinality(Deleted(entries)) \in Nat
  BY InvFacts DEF HashInv, HashType
<1>2. e \in Slots /\ e.state = "DELETED" BY DEF Slots, Unoccupied
<1> HIDE DEF e
<1>3. /\ Marked(i) \in Tables(capacity) /\ Marked(i)[i] = e
      /\ \A j \in (0 .. capacity - 1) \ {i} : Marked(i)[j] = entries[j]
  <2>1. entries \in Tables(capacity) BY <1>1
  <2>2. /\ Put(entries, i, e) \in Tables(capacity) /\ Put(entries, i, e)[i] = e
        /\ \A j \in (0 .. capacity - 1) \ {i} : Put(entries, i, e)[j] = entries[j]
    BY ONLY <1>2, <2>1, i \in 0 .. capacity - 1, PutIs
  <2>3. QED BY <2>2 DEF Marked, e
<1>4. DOMAIN Marked(i) = 0 .. capacity - 1 BY <1>3 DEF Tables
<1>5. Occupied(Marked(i)) = Occupied(entries) \ {i} /\ i \in Occupied(entries)
  BY <1>1, <1>2, <1>3, <1>4 DEF Occupied
<1>6. Deleted(Marked(i)) = Deleted(entries) \cup {i} /\ i \notin Deleted(entries)
  BY <1>1, <1>2, <1>3, <1>4 DEF Deleted
<1>7. Cardinality(Occupied(Marked(i))) = Cardinality(Occupied(entries)) - 1
  <2> DEFINE before == Occupied(entries)
  <2>1. IsFiniteSet(before) /\ i \in before BY <1>1, <1>5
  <2> HIDE DEF before
  <2>2. Cardinality(before \ {i}) = Cardinality(before) - 1 BY <2>1, FS_RemoveElement
  <2>3. QED BY <1>5, <2>2 DEF before
<1>8. Cardinality(Deleted(Marked(i))) = Cardinality(Deleted(entries)) + 1
  BY <1>1, <1>6, FS_AddElement
<1>9. /\ size = Cardinality(Occupied(entries)) /\ Cardinality(Deleted(entries)) <= tombstones
      /\ size + tombstones < capacity
  BY DEF HashInv, ProbesEnd
<1>10. size - 1 \in Nat
  <2>1. Cardinality(Occupied(Marked(i))) \in Nat BY <1>1, <1>4, SlotSetsFinite
  <2>2. QED BY <1>7, <1>9, <2>1
<1>11. Counted(Marked(i), size - 1, tombstones + 1, capacity)
  <2>1. size - 1 + (tombstones + 1) < capacity BY <1>1, <1>9
  <2>2. size - 1 = Cardinality(Occupied(Marked(i))) BY <1>7, <1>9
  <2>3. Cardinality(Deleted(Marked(i))) <= tombstones + 1 BY <1>1, <1>8, <1>9
  <2>4. QED BY <2>1, <2>2, <2>3 DEF Counted
<1>12. QED BY <1>3, <1>10, <1>11 DEF e

LEMMA RemoveKeepsInv ==
  ASSUME HashInv, NEW k \in Keys, hash_remove(k)
  PROVE  HashInv'
<1>1. /\ capacity \in Nat /\ capacity > 0 /\ capacity \in Sizes
      /\ entries \in Tables(capacity) /\ size \in Nat /\ tombstones \in Nat
      /\ reused \in BOOLEAN /\ promised \in [Keys -> Values \cup {NULL}]
      /\ \E i \in 0 .. capacity - 1 : entries[i].state = "EMPTY"
      /\ size < capacity
  BY InvFacts DEF HashInv, HashType
<1>2. PICK i \in At(entries, k) :
        /\ \/ entries' = Marked(i) /\ tombstones' = tombstones + 1
           \/ /\ Copied(Reinserted(Marked(i), calloc(ResizeTarget(capacity))),
                        calloc(ResizeTarget(capacity)))
              /\ tombstones' = 0
        /\ size' = size - 1 /\ promised' = Told(k, NULL) /\ reused' = reused
  BY RemoveIsAs
<1>3. i \in 0 .. capacity - 1 /\ entries[i].state = "OCCUPIED" BY <1>1, AtIs
<1>4. /\ Marked(i) \in Tables(capacity)
      /\ Counted(Marked(i), size - 1, tombstones + 1, capacity) /\ size - 1 \in Nat
  BY <1>3, MarkedIs
<1>5. Told(k, NULL) \in [Keys -> Values \cup {NULL}] BY <1>1 DEF Told
<1>6. /\ size' \in Nat /\ promised' \in [Keys -> Values \cup {NULL}] /\ reused' \in BOOLEAN
  BY <1>1, <1>2, <1>4, <1>5
<1>7. CASE entries' = Marked(i) /\ tombstones' = tombstones + 1
  <2>1. Counted(entries', size', tombstones', capacity) BY <1>2, <1>4, <1>7
  <2>2. tombstones' \in Nat /\ entries' \in Tables(capacity) BY <1>1, <1>4, <1>7
  <2>3. QED BY <1>1, <1>6, <2>1, <2>2, HashInvAgain
<1>8. CASE /\ Copied(Reinserted(Marked(i), calloc(ResizeTarget(capacity))),
                     calloc(ResizeTarget(capacity)))
           /\ tombstones' = 0
  <2> DEFINE m == ResizeTarget(capacity)
             old == Marked(i)
             new == Reinserted(old, calloc(m))
  <2>1. m \in Sizes /\ m >= capacity /\ m \in Nat BY <1>1, ResizeTargetIs DEF Sizes
  <2>2. Cardinality(Occupied(old)) = size - 1 BY <1>4 DEF Counted
  <2>3. size - 1 < m BY <1>1, <2>1
  <2>4. old \in Tables(capacity) /\ Cardinality(Occupied(old)) < m BY <1>4, <2>2, <2>3
  <2> HIDE DEF m, old
  <2>5. /\ new \in Tables(m) /\ Cardinality(Occupied(new)) = Cardinality(Occupied(old))
        /\ Deleted(new) = {}
    BY <1>1, <2>1, <2>4, Reinsertion
  <2> HIDE DEF new
  <2>6. Cardinality(Deleted(new)) = 0 BY <2>5, FS_EmptySet
  <2>7. Counted(new, size - 1, 0, m) BY <1>1, <2>1, <2>2, <2>3, <2>5, <2>6 DEF Counted
  <2>8. Copied(new, calloc(m)) /\ tombstones' = 0 BY <1>8 DEF new, old, m
  <2>9. /\ entries' \in Tables(m) /\ tombstones' \in Nat
        /\ Occupied(entries') = Occupied(new) /\ Deleted(entries') = Deleted(new)
    BY <2>1, <2>5, <2>8, CopiedIs
  <2>10. Counted(entries', size', tombstones', m) BY <1>2, <2>7, <2>8, <2>9 DEF Counted
  <2>11. QED BY <1>6, <2>1, <2>9, <2>10, HashInvAgain
<1>9. QED BY <1>2, <1>7, <1>8

LEMMA ClearKeepsInv == ASSUME HashInv, hash_clear PROVE HashInv'
<1>1. capacity \in Sizes BY DEF HashInv, HashType
<1>2. /\ entries' = calloc(capacity) /\ size' = 0 /\ tombstones' = 0
      /\ promised' = [k \in Keys |-> NULL] /\ reused' = FALSE
  BY DEF hash_clear
<1>3. calloc(capacity) \in Tables(capacity) BY <1>1, CallocIs
<1>4. Counted(calloc(capacity), 0, 0, capacity) BY <1>1, EmptyIsCounted
<1>5. Counted(entries', size', tombstones', capacity) BY <1>2, <1>4
<1>6. promised' \in [Keys -> Values \cup {NULL}] /\ entries' \in Tables(capacity)
  BY <1>2, <1>3
<1>7. QED BY <1>1, <1>2, <1>5, <1>6, HashInvAgain

LEMMA ResizeKeepsInv ==
  ASSUME HashInv, NEW n \in Nat, size < ResizeTarget(n), Resize(n)
  PROVE  HashInv'
<1> DEFINE m == ResizeTarget(n)
<1>1. m \in Sizes /\ m \in Nat BY ResizeTargetIs DEF Sizes
<1>2. /\ hash_resize(n) \in Tables(m) /\ Cardinality(Occupied(hash_resize(n))) = size
      /\ Deleted(hash_resize(n)) = {}
  BY ResizeIs
<1>3. /\ Copied(hash_resize(n), calloc(m)) /\ tombstones' = 0 /\ size' = size
      /\ promised' = promised /\ reused' = reused
  BY DEF Resize
<1>4. size \in Nat /\ reused \in BOOLEAN /\ promised \in [Keys -> Values \cup {NULL}]
  BY DEF HashInv, HashType
<1>5. size < m OBVIOUS
<1> HIDE DEF m
<1>6. Cardinality(Deleted(hash_resize(n))) = 0 BY <1>2, FS_EmptySet
<1>7. Counted(hash_resize(n), size, 0, m) BY <1>1, <1>2, <1>4, <1>5, <1>6 DEF Counted
<1> DEFINE new == hash_resize(n)
<1>8. new \in Tables(m) /\ Copied(new, calloc(m)) BY <1>2, <1>3
<1> HIDE DEF new
<1>9. /\ entries' \in Tables(m)
      /\ Occupied(entries') = Occupied(new) /\ Deleted(entries') = Deleted(new)
  BY <1>1, <1>8, CopiedIs
<1>10. Counted(entries', size', tombstones', m) BY <1>3, <1>7, <1>9 DEF Counted, new
<1>11. QED BY <1>1, <1>3, <1>4, <1>9, <1>10, HashInvAgain

(* A table is made larger or, when nearly empty, smaller, and always with  *)
(* room to spare.                                                          *)
LEMMA ReserveIs ==
  ASSUME HashInv, NEW n \in 1 .. MaxCapacity, hash_reserve(n)
  PROVE  \E t \in Nat : size < ResizeTarget(t) /\ Resize(t)
<1> DEFINE t == (100 * n) \div 85
<1>1. t > capacity /\ Resize(t) BY DEF hash_reserve
<1>2. n \in Nat BY HashTableAssumption
<1>3. 100 * n \in Nat /\ 85 \in Nat \ {0} BY <1>2
<1>4. t \in Nat BY <1>3, DivisionProperties
<1> HIDE DEF t
<1>5. ResizeTarget(t) >= t /\ ResizeTarget(t) \in Nat BY <1>4, ResizeTargetIs DEF Sizes
<1>6. size < capacity /\ size \in Nat /\ capacity \in Nat BY InvFacts DEF HashInv, HashType
<1>7. QED BY <1>1, <1>4, <1>5, <1>6

LEMMA ShrinkIs ==
  ASSUME HashInv, hash_shrink_to_fit
  PROVE  \E t \in Nat : size < ResizeTarget(t) /\ Resize(t)
<1>1. Resize(4 * size) BY DEF hash_shrink_to_fit
<1>2. size \in Nat /\ 4 * size \in Nat BY DEF HashInv, HashType
<1>3. /\ ResizeTarget(4 * size) >= 4 * size /\ ResizeTarget(4 * size) \in Nat
      /\ ResizeTarget(4 * size) > 0
  BY <1>2, ResizeTargetIs DEF Sizes
<1>4. size < ResizeTarget(4 * size) BY <1>2, <1>3
<1>5. QED BY <1>1, <1>2, <1>4

LEMMA HashInvKept == HashInv /\ [HashNext]_hashVars => HashInv'
<1>1. SUFFICES ASSUME HashInv, [HashNext]_hashVars PROVE HashInv' OBVIOUS
<1>2. ASSUME NEW k \in Keys, NEW v \in Values, hash_put(k, v) PROVE HashInv'
  BY <1>1, <1>2, PutKeepsInv
<1>3. ASSUME NEW k \in Keys, hash_remove(k) PROVE HashInv' BY <1>1, <1>3, RemoveKeepsInv
<1>4. CASE hash_clear BY <1>1, <1>4, ClearKeepsInv
<1>5. ASSUME NEW n \in 1 .. MaxCapacity, hash_reserve(n) PROVE HashInv'
  BY <1>1, <1>5, ReserveIs, ResizeKeepsInv
<1>6. CASE hash_shrink_to_fit BY <1>1, <1>6, ShrinkIs, ResizeKeepsInv
<1>7. CASE UNCHANGED hashVars
  <2>1. /\ entries' = entries /\ size' = size /\ tombstones' = tombstones
        /\ promised' = promised /\ reused' = reused
    BY <1>7 DEF hashVars
  <2>2. capacity' = capacity BY <2>1 DEF capacity
  <2>3. QED BY <1>1, <2>1, <2>2 DEF HashInv, HashType, ProbesEnd
<1>8. QED BY <1>1, <1>2, <1>3, <1>4, <1>5, <1>6, <1>7 DEF HashNext

LEMMA HashInvHolds == HashSpec => []HashInv
<1>1. hash_create => HashInv BY CreateInv
<1>2. HashInv /\ [HashNext]_hashVars => HashInv' BY HashInvKept
<1>3. QED BY <1>1, <1>2, PTL DEF HashSpec

(* Every search of hash_get, hash_put, hash_remove and every insertion of  *)
(* insert_entry meets an empty slot and ends: what hash_put compares with  *)
(* the maximal load never falls behind the slots in use.                   *)
THEOREM ProbesAlwaysEnd == HashSpec => []ProbesEnd
<1>1. HashInv => ProbesEnd BY DEF HashInv
<1>2. QED BY HashInvHolds, <1>1, PTL

-----------------------------------------------------------------------------
(* Where keys are found *)

(* Few enough slots in use that no distance reaches 256, where psl wraps.  *)
(* FewInSmallTables: it is so in every table of 128 slots.                 *)
Few == size + tombstones <= 127
InUse(table) == {i \in DOMAIN table : table[i].state # "EMPTY"}

(* A search from slot h passes d slots, if it does not meet its key.       *)
Passes(table, h, d) ==
  \A j \in 0 .. d - 1 :
    LET e == table[Slot(h, j, table)] IN
    e.state # "EMPTY" /\ (e.state = "OCCUPIED" => e.psl >= j)

(* Entry e, of slot i, is d steps from its home and a search gets there.   *)
(* Its psl is at least d: insert_entry starts with that of the search.     *)
PlacedBy(table, e, i, d) ==
  /\ Slot(Home(e.key, table), d, table) = i
  /\ e.psl >= d /\ e.psl <= d + 127
  /\ Passes(table, Home(e.key, table), d)
Placed(table, e, i) == \E d \in 0 .. Capacity(table) - 1 : PlacedBy(table, e, i, d)

Whole(e) == e.key_len = KeyLen[e.key] /\ e.kept = KeyLen[e.key]
InTable(table, k) == \E i \in Occupied(table) : table[i].key = k
OnceEach(table) == \A i, j \in Occupied(table) : table[i].key = table[j].key => i = j

Searchable(table) ==
  /\ \A i \in Occupied(table) : Placed(table, table[i], i) /\ Whole(table[i])
  /\ OnceEach(table)

(* What the entries of a table say of the values of keys. *)
Has(table, k, v) == \E i \in Occupied(table) : table[i].key = k /\ table[i].value = v
Tells(table, told) ==
  /\ \A k \in Keys, v \in Pointers : Has(table, k, v) => told[k] = v
  /\ \A k \in Keys : ~InTable(table, k) => told[k] = NULL

KeysInv == ~reused /\ ~keyless => Searchable(entries) /\ Tells(entries, promised)

-----------------------------------------------------------------------------
(* Walks *)

LEMMA SameSlot ==
  ASSUME NEW n \in Nat, NEW table, DOMAIN table = 0 .. n - 1, NEW u, DOMAIN u = 0 .. n - 1,
         NEW index, NEW d, NEW k
  PROVE  Slot(index, d, u) = Slot(index, d, table) /\ Home(k, u) = Home(k, table)
<1>1. Capacity(u) = n /\ Capacity(table) = n BY CapacityOf
<1>2. QED BY <1>1 DEF Slot, Home

LEMMA SlotInjective ==
  ASSUME NEW n \in Sizes, NEW table, DOMAIN table = 0 .. n - 1, NEW index \in 0 .. n - 1,
         NEW c \in 0 .. n - 1, NEW d \in 0 .. n - 1,
         Slot(index, c, table) = Slot(index, d, table)
  PROVE  c = d
<1>1. n \in Nat BY DEF Sizes
<1> DEFINE x == Slot(index, c, table)
           y == Slot(index, d, table)
<1>2. x = IF index + c < n THEN index + c ELSE (index + c) - n BY SlotIs
<1>3. y = IF index + d < n THEN index + d ELSE (index + d) - n BY SlotIs
<1>4. x = y OBVIOUS
<1> HIDE DEF x, y
<1>5. index \in Int /\ c \in Int /\ d \in Int BY <1>1
<1>6. c >= 0 /\ d >= 0 /\ c < n /\ d < n BY <1>1
<1>7. QED BY ONLY <1>1, <1>2, <1>3, <1>4, <1>5, <1>6

(* Two walks that meet go on together. *)
LEMMA NextSlot ==
  ASSUME NEW n \in Sizes, NEW table, DOMAIN table = 0 .. n - 1,
         NEW g \in 0 .. n - 1, NEW c \in 0 .. n - 1, NEW h \in 0 .. n - 1, NEW d \in 0 .. n - 1,
         Slot(g, c, table) = Slot(h, d, table), c + 1 \in 0 .. n - 1, d + 1 \in 0 .. n - 1
  PROVE  Slot(g, c + 1, table) = Slot(h, d + 1, table)
<1>1. n \in Nat BY DEF Sizes
<1> DEFINE w == Slot(g, c, table)
           x == Slot(h, d, table)
           y == Slot(g, c + 1, table)
           z == Slot(h, d + 1, table)
<1>2. w = IF g + c < n THEN g + c ELSE (g + c) - n BY SlotIs
<1>3. x = IF h + d < n THEN h + d ELSE (h + d) - n BY SlotIs
<1>4. y = IF g + (c + 1) < n THEN g + (c + 1) ELSE (g + (c + 1)) - n BY SlotIs
<1>5. z = IF h + (d + 1) < n THEN h + (d + 1) ELSE (h + (d + 1)) - n BY SlotIs
<1>6. w = x OBVIOUS
<1> HIDE DEF w, x, y, z
<1>7. /\ g \in Int /\ c \in Int /\ h \in Int /\ d \in Int
      /\ g >= 0 /\ c >= 0 /\ h >= 0 /\ d >= 0 /\ g < n /\ c < n /\ h < n /\ d < n
  BY <1>1
<1>8. y = z BY ONLY <1>1, <1>2, <1>3, <1>4, <1>5, <1>6, <1>7
<1>9. QED BY <1>8 DEF y, z

(* A table of n slots, of which not all and few are in use. *)
Roomy(table, n) ==
  table \in Tables(n) /\ Cardinality(InUse(table)) < n /\ Cardinality(InUse(table)) <= 127

LEMMA InUseFinite ==
  ASSUME NEW n \in Nat, NEW table, DOMAIN table = 0 .. n - 1
  PROVE  IsFiniteSet(InUse(table)) /\ Cardinality(InUse(table)) \in Nat
<1>1. IsFiniteSet(0 .. n - 1) BY 0 \in Int, n - 1 \in Int, FS_Interval
<1>2. InUse(table) \subseteq 0 .. n - 1 BY DEF InUse
<1>3. QED BY <1>1, <1>2, FS_Subset, FS_CardinalityType

LEMMA InUseCount ==
  ASSUME NEW n \in Nat, NEW table \in Tables(n)
  PROVE  Cardinality(InUse(table)) = Cardinality(Occupied(table)) + Cardinality(Deleted(table))
<1> DEFINE O == Occupied(table)
           D == Deleted(table)
<1>1. DOMAIN table = 0 .. n - 1 BY DEF Tables
<1>2. /\ IsFiniteSet(O) /\ IsFiniteSet(D)
      /\ Cardinality(O) \in Nat /\ Cardinality(D) \in Nat
  BY <1>1, SlotSetsFinite
<1>3. O \cap D = {} BY DEF Occupied, Deleted
<1>4. \A i \in DOMAIN table : table[i].state \in {"EMPTY", "OCCUPIED", "DELETED"}
  <2>1. \A i \in DOMAIN table : table[i] \in Slots BY <1>1 DEF Tables
  <2>2. QED BY <2>1 DEF Slots, Stored, Unoccupied
<1>5. InUse(table) = O \cup D BY <1>4 DEF InUse, Occupied, Deleted
<1> HIDE DEF O, D
<1>6. Cardinality(O \cup D) = Cardinality(O) + Cardinality(D) - Cardinality(O \cap D)
  BY <1>2, FS_Union
<1>7. Cardinality(O \cap D) = 0 BY <1>3, FS_EmptySet
<1>8. Cardinality(O \cup D) = Cardinality(O) + Cardinality(D) BY <1>2, <1>6, <1>7
<1>9. QED BY <1>5, <1>8 DEF O, D

(* A search passes no more slots than are in use. *)
LEMMA PassesFew ==
  ASSUME NEW n \in Sizes, NEW table \in Tables(n), NEW h \in 0 .. n - 1, NEW d \in 0 .. n,
         Passes(table, h, d)
  PROVE  d <= Cardinality(InUse(table))
<1> DEFINE f == [j \in 0 .. d - 1 |-> Slot(h, j, table)]
           S == 0 .. d - 1
           U == InUse(table)
<1>1. n \in Nat /\ DOMAIN table = 0 .. n - 1 /\ d \in Nat BY DEF Sizes, Tables
<1>2. IsFiniteSet(U) BY <1>1, InUseFinite
<1>3. ASSUME NEW j \in S PROVE f[j] \in U
  <2>1. j \in 0 .. n - 1 BY <1>1
  <2>2. Slot(h, j, table) \in 0 .. n - 1 BY <1>1, <2>1, SlotIs
  <2>3. table[Slot(h, j, table)].state # "EMPTY" BY DEF Passes
  <2>4. QED BY <1>1, <2>2, <2>3 DEF InUse
<1>4. ASSUME NEW b \in S, NEW c \in S, f[b] = f[c] PROVE b = c
  <2>1. b \in 0 .. n - 1 /\ c \in 0 .. n - 1 BY <1>1
  <2>2. Slot(h, b, table) = Slot(h, c, table) BY <1>4
  <2>3. QED BY <1>1, <2>1, <2>2, SlotInjective
<1>5. f \in [S -> U] BY <1>3
<1> HIDE DEF f
<1>6. f \in Injection(S, U) BY <1>4, <1>5 DEF Injection, IsInjective
<1> HIDE DEF U
<1>7. Cardinality(S) <= Cardinality(U) BY <1>2, <1>6, FS_Injection
<1>8. Cardinality(S) = d
  <2>1. 0 \in Int /\ d - 1 \in Int BY <1>1
  <2>2. Cardinality(0 .. d - 1) = IF 0 > d - 1 THEN 0 ELSE d - 1 - 0 + 1 BY <2>1, FS_Interval
  <2>3. QED BY <1>1, <2>2
<1> HIDE DEF S
<1>9. QED BY <1>7, <1>8 DEF U

(* So there is room, and the distances do not wrap. *)
LEMMA PassesRoom ==
  ASSUME NEW n \in Sizes, NEW table, Roomy(table, n), NEW h \in 0 .. n - 1, NEW d \in 0 .. n,
         Passes(table, h, d)
  PROVE  d \in 0 .. n - 1 /\ d <= 127 /\ UInt8(d) = d
<1>1. table \in Tables(n) /\ n \in Nat /\ DOMAIN table = 0 .. n - 1 BY DEF Roomy, Tables, Sizes
<1>2. d <= Cardinality(InUse(table)) BY <1>1, PassesFew
<1>3. Cardinality(InUse(table)) \in Nat BY <1>1, InUseFinite
<1>4. d <= n - 1 /\ d <= 127 /\ d \in Nat BY <1>1, <1>2, <1>3 DEF Roomy
<1>5. d % 256 = d BY <1>4
<1>6. QED BY <1>1, <1>4, <1>5 DEF UInt8

(* A key that is in a searchable table is found where it is. *)
LEMMA Finds ==
  ASSUME NEW n \in Sizes, NEW table, Roomy(table, n), Searchable(table),
         \E x \in 0 .. n - 1 : table[x].state = "EMPTY",
         NEW i \in Occupied(table)
  PROVE  LET k == table[i].key IN
         /\ Probe(table, k).index = i /\ Holds(table[i], k) /\ At(table, k) = {i}
<1> DEFINE k == table[i].key
           h == Home(k, table)
<1>1. /\ table \in Tables(n) /\ n \in Nat /\ n > 0 /\ DOMAIN table = 0 .. n - 1
      /\ Capacity(table) = n
  BY CapacityOf DEF Roomy, Tables, Sizes
<1>2. i \in 0 .. n - 1 /\ table[i].state = "OCCUPIED" BY <1>1 DEF Occupied
<1>3. table[i] \in Stored
  <2>1. table[i] \in Slots BY <1>1, <1>2 DEF Tables
  <2>2. QED BY <1>2, <2>1 DEF Slots, Unoccupied
<1>4. k \in Keys BY <1>3 DEF Stored
<1>5. Holds(table[i], k) BY <1>2 DEF Searchable, Whole, Holds, keys_equal
<1>6. PICK d \in 0 .. n - 1 : PlacedBy(table, table[i], i, d) BY <1>1 DEF Searchable, Placed
<1>7. h \in 0 .. n - 1 BY <1>1, <1>4, HomeIs
<1>8. /\ Slot(h, d, table) = i /\ table[i].psl >= d /\ Passes(table, h, d)
  BY <1>6 DEF PlacedBy
<1> HIDE DEF k, h
<1>9. d \in 0 .. n /\ d <= 127 /\ UInt8(d) = d
  <2>1. d \in 0 .. n BY <1>1
  <2>2. QED BY <1>7, <1>8, <2>1, PassesRoom
<1>10. EndsAt(table, k, d) BY <1>5, <1>8 DEF EndsAt, h
<1>11. ASSUME NEW j \in 0 .. d - 1 PROVE ~EndsAt(table, k, j)
  <2> DEFINE x == Slot(h, j, table)
  <2>1. j \in 0 .. n - 1 /\ j # d BY <1>1, <1>9
  <2>2. x \in 0 .. n - 1 BY <1>1, <1>7, <2>1, SlotIs
  <2>3. x # i BY <1>1, <1>7, <1>8, <2>1, SlotInjective
  <2>4. table[x].state # "EMPTY" /\ (table[x].state = "OCCUPIED" => table[x].psl >= j)
    BY <1>8 DEF Passes
  <2>5. UInt8(j) = j
    <3>1. j \in Nat /\ j <= 127 BY <1>9
    <3>2. j % 256 = j BY <3>1
    <3>3. QED BY <3>2 DEF UInt8
  <2> HIDE DEF x
  <2>6. ~Holds(table[x], k)
    <3>1. SUFFICES ASSUME Holds(table[x], k) PROVE FALSE OBVIOUS
    <3>2. table[x].state = "OCCUPIED" /\ table[x].key = k BY <3>1 DEF Holds, keys_equal
    <3>3. x \in Occupied(table) BY <1>1, <2>2, <3>2 DEF Occupied
    <3>4. x = i BY <3>2, <3>3 DEF Searchable, OnceEach, k
    <3>5. QED BY <2>3, <3>4
  <2>7. table[x].state = "OCCUPIED" => ~(UInt8(j) > table[x].psl)
    <3>1. SUFFICES ASSUME table[x].state = "OCCUPIED" PROVE ~(j > table[x].psl) BY <2>5
    <3>2. table[x] \in Slots BY <1>1, <2>2 DEF Tables
    <3>3. table[x].psl \in Nat BY <3>1, <3>2 DEF Slots, Stored, Unoccupied
    <3>4. QED BY <2>1, <2>4, <3>1, <3>3
  <2>8. QED BY <2>4, <2>6, <2>7 DEF EndsAt, x, h
<1> DEFINE w == Walk(table, k)
<1>12. w \in 0 .. n - 1 /\ EndsAt(table, k, w) /\ w <= d
       /\ Probe(table, k).index = Slot(h, w, table) /\ Probe(table, k).psl = UInt8(w)
  BY <1>1, <1>4, <1>10, WalkIs DEF h
<1> HIDE DEF w
<1>13. w = d BY <1>11, <1>12
<1>14. Probe(table, k).index = i /\ Probe(table, k).psl = d BY <1>8, <1>9, <1>12, <1>13
<1>15. At(table, k) = {i}
  <2>1. table[i].psl \in Nat BY <1>3 DEF Stored
  <2>2. d <= table[i].psl BY <1>8, <1>9, <2>1
  <2>3. QED BY <1>5, <1>14, <2>2 DEF At
<1>16. QED BY <1>5, <1>14, <1>15 DEF k

(* A key that is not there is not found. *)
LEMMA FindsNothing ==
  ASSUME NEW n \in Sizes, NEW table \in Tables(n), NEW k \in Keys, ~InTable(table, k),
         \E x \in 0 .. n - 1 : table[x].state = "EMPTY"
  PROVE  ~Holds(table[Probe(table, k).index], k) /\ At(table, k) = {}
<1> DEFINE i == Probe(table, k).index
<1>1. i \in 0 .. n - 1 /\ DOMAIN table = 0 .. n - 1 BY WalkIs DEF Tables
<1>2. ~Holds(table[i], k) BY <1>1 DEF Holds, keys_equal, InTable, Occupied
<1>3. QED BY <1>2 DEF At

-----------------------------------------------------------------------------
(* Insertions keep a table searchable *)

(* Entry e says that key k has value v. *)
Is(e, k, v) == e.key = k /\ e.value = v
Held(table, i, k, v) == table[i].state = "OCCUPIED" /\ Is(table[i], k, v)

(* An entry may go into slot i without hiding any key: the slot is empty,  *)
(* or its entry is no farther from home.                                   *)
Outranks(table, i, e) ==
  \/ table[i].state = "EMPTY"
  \/ table[i].state = "OCCUPIED" /\ table[i].psl <= e.psl

LEMMA StoredIs ==
  ASSUME NEW e \in Stored
  PROVE  /\ e \in Slots /\ e.state = "OCCUPIED" /\ e.psl \in Nat /\ e.psl <= 255
         /\ e.key \in Keys /\ e.value \in Pointers /\ e.key_len \in Nat /\ e.kept \in Nat
BY DEF Stored, Slots

LEMMA OccupiedIs ==
  ASSUME NEW n \in Nat, NEW table \in Tables(n)
  PROVE  /\ DOMAIN table = 0 .. n - 1 /\ Capacity(table) = n
         /\ Occupied(table) = {i \in 0 .. n - 1 : table[i].state = "OCCUPIED"}
         /\ \A i \in Occupied(table) : table[i] \in Stored
<1>1. DOMAIN table = 0 .. n - 1 /\ \A i \in 0 .. n - 1 : table[i] \in Slots BY DEF Tables
<1>2. Occupied(table) = {i \in 0 .. n - 1 : table[i].state = "OCCUPIED"} BY <1>1 DEF Occupied
<1>3. \A i \in Occupied(table) : table[i] \in Stored BY <1>1, <1>2 DEF Slots, Unoccupied
<1>4. QED BY <1>1, <1>2, <1>3, CapacityOf

LEMMA InTableIsHas ==
  ASSUME NEW n \in Nat, NEW table \in Tables(n), NEW k
  PROVE  InTable(table, k) <=> \E v \in Pointers : Has(table, k, v)
BY OccupiedIs, StoredIs DEF InTable, Has

LEMMA PassesKept ==
  ASSUME NEW n \in Sizes, NEW table \in Tables(n), NEW i \in 0 .. n - 1, NEW e \in Stored,
         Outranks(table, i, e), NEW h \in 0 .. n - 1, NEW d \in 0 .. n, Passes(table, h, d)
  PROVE  Passes(Put(table, i, e), h, d)
<1> DEFINE new == Put(table, i, e)
<1>1. n \in Nat /\ DOMAIN table = 0 .. n - 1 BY DEF Sizes, Tables
<1>2. e \in Slots /\ e.state = "OCCUPIED" /\ e.psl \in Nat BY StoredIs
<1>3. /\ new \in Tables(n) /\ new[i] = e
      /\ \A j \in (0 .. n - 1) \ {i} : new[j] = table[j]
  BY ONLY <1>2, table \in Tables(n), i \in 0 .. n - 1, PutIs
<1> HIDE DEF new
<1>4. DOMAIN new = 0 .. n - 1 BY <1>3 DEF Tables
<1>5. ASSUME NEW j \in 0 .. d - 1
      PROVE  LET x == new[Slot(h, j, new)] IN
             x.state # "EMPTY" /\ (x.state = "OCCUPIED" => x.psl >= j)
  <2> DEFINE s == Slot(h, j, table)
  <2>1. j \in 0 .. n - 1 /\ j \in Nat BY <1>1
  <2>2. s \in 0 .. n - 1 BY <1>1, <2>1, SlotIs
  <2>3. Slot(h, j, new) = s BY <1>1, <1>4, SameSlot
  <2>4. table[s].state # "EMPTY" /\ (table[s].state = "OCCUPIED" => table[s].psl >= j)
    BY DEF Passes
  <2> HIDE DEF s
  <2>5. CASE s # i
    <3>1. new[s] = table[s] BY <1>3, <2>2, <2>5
    <3>2. QED BY <2>3, <2>4, <3>1
  <2>6. CASE s = i
    <3>1. table[i].state = "OCCUPIED" /\ table[i].psl <= e.psl /\ table[i].psl >= j
      BY <2>4, <2>6 DEF Outranks
    <3>2. i \in Occupied(table) BY <1>1, <3>1 DEF Occupied
    <3>3. table[i].psl \in Nat BY <1>1, <3>2, OccupiedIs, StoredIs
    <3>4. e.psl >= j BY <1>2, <2>1, <3>1, <3>3
    <3>5. QED BY <1>2, <1>3, <2>3, <2>6, <3>4
  <2>7. QED BY <2>5, <2>6
<1>6. QED BY <1>5 DEF Passes, new

LEMMA PlacedKept ==
  ASSUME NEW n \in Sizes, NEW table \in Tables(n), NEW i \in 0 .. n - 1, NEW e \in Stored,
         Outranks(table, i, e), NEW x, x.key \in Keys, NEW j, Placed(table, x, j)
  PROVE  Placed(Put(table, i, e), x, j)
<1> DEFINE new == Put(table, i, e)
           h == Home(x.key, table)
<1>1. n \in Nat /\ DOMAIN table = 0 .. n - 1 /\ Capacity(table) = n
  BY OccupiedIs DEF Sizes
<1>2. e \in Slots BY StoredIs
<1>3. new \in Tables(n) BY ONLY <1>2, table \in Tables(n), i \in 0 .. n - 1, PutIs
<1>4. PICK d \in 0 .. n - 1 : PlacedBy(table, x, j, d) BY <1>1 DEF Placed
<1>5. h \in 0 .. n - 1 BY <1>1, HomeIs
<1>6. Passes(table, h, d) /\ d \in 0 .. n BY <1>1, <1>4 DEF PlacedBy
<1> HIDE DEF h
<1>7. Passes(new, h, d) BY <1>5, <1>6, PassesKept
<1> HIDE DEF new
<1>8. DOMAIN new = 0 .. n - 1 /\ Capacity(new) = n BY <1>1, <1>3, OccupiedIs
<1>9. Home(x.key, new) = h /\ Slot(h, d, new) = Slot(h, d, table)
  BY <1>1, <1>8, SameSlot DEF h
<1>10. PlacedBy(new, x, j, d) BY <1>4, <1>7, <1>9 DEF PlacedBy, h
<1>11. QED BY <1>8, <1>10 DEF Placed, new

(* Entry e in slot i: the table stays searchable, and instead of what the  *)
(* slot held it tells what e does.                                         *)
LEMMA PutSearchable ==
  ASSUME NEW n \in Sizes, NEW table \in Tables(n), Searchable(table), NEW i \in 0 .. n - 1,
         NEW e \in Stored, Whole(e), Outranks(table, i, e), Placed(table, e, i),
         ~InTable(table, e.key)
  PROVE  LET new == Put(table, i, e) IN
         /\ Searchable(new)
         /\ \A k, v : Has(new, k, v) \/ Held(table, i, k, v) <=> Has(table, k, v) \/ Is(e, k, v)
         /\ \A j \in Occupied(table) \ {i} : new[j] = table[j] /\ j \in Occupied(new)
         /\ \A j \in Occupied(new) : j = i \/ (j \in Occupied(table) /\ new[j] = table[j])
<1> DEFINE new == Put(table, i, e)
<1>1. n \in Nat BY DEF Sizes
<1>2. e \in Slots /\ e.state = "OCCUPIED" /\ e.key \in Keys BY StoredIs
<1>3. /\ new \in Tables(n) /\ new[i] = e
      /\ \A j \in (0 .. n - 1) \ {i} : new[j] = table[j]
  BY ONLY <1>2, table \in Tables(n), i \in 0 .. n - 1, PutIs
<1>4. Placed(new, e, i) BY <1>2, PlacedKept
<1>5. \A j \in Occupied(table) : table[j].key \in Keys BY <1>1, OccupiedIs, StoredIs
<1>6. ASSUME NEW j \in Occupied(table) PROVE Placed(new, table[j], j)
  <2>1. Placed(table, table[j], j) /\ table[j].key \in Keys BY <1>5 DEF Searchable
  <2>2. QED BY <2>1, PlacedKept
<1> HIDE DEF new
<1>7. /\ Occupied(table) = {j \in 0 .. n - 1 : table[j].state = "OCCUPIED"}
      /\ Occupied(new) = {j \in 0 .. n - 1 : new[j].state = "OCCUPIED"}
  BY <1>1, <1>3, OccupiedIs
<1>8. /\ i \in Occupied(new)
      /\ \A j \in Occupied(table) \ {i} : new[j] = table[j] /\ j \in Occupied(new)
      /\ \A j \in Occupied(new) : j = i \/ (j \in Occupied(table) /\ new[j] = table[j])
  <2>1. i \in Occupied(new) BY <1>2, <1>3, <1>7
  <2>2. ASSUME NEW j \in Occupied(table) \ {i} PROVE new[j] = table[j] /\ j \in Occupied(new)
    <3>1. j \in (0 .. n - 1) \ {i} /\ table[j].state = "OCCUPIED" BY <1>7
    <3>2. new[j] = table[j] BY <1>3, <3>1
    <3>3. QED BY <1>7, <3>1, <3>2
  <2>3. ASSUME NEW j \in Occupied(new), j # i PROVE j \in Occupied(table) /\ new[j] = table[j]
    <3>1. j \in (0 .. n - 1) \ {i} /\ new[j].state = "OCCUPIED" BY <1>7, <2>3
    <3>2. new[j] = table[j] BY <1>3, <3>1
    <3>3. QED BY <1>7, <3>1, <3>2
  <2>4. QED BY <2>1, <2>2, <2>3
<1>9. \A j \in Occupied(new) : Placed(new, new[j], j) /\ Whole(new[j])
  <2> TAKE j \in Occupied(new)
  <2>1. CASE j = i BY <1>3, <1>4, <2>1
  <2>2. CASE j # i
    <3>1. j \in Occupied(table) /\ new[j] = table[j] BY <1>8, <2>2
    <3>2. Placed(new, table[j], j) BY <1>6, <3>1
    <3>3. Whole(table[j]) BY <3>1 DEF Searchable
    <3>4. QED BY <3>1, <3>2, <3>3
  <2>3. QED BY <2>1, <2>2
<1>10. OnceEach(new)
  <2>1. \A j \in Occupied(table) : table[j].key # e.key BY DEF InTable
  <2>2. \A b, c \in Occupied(table) : table[b].key = table[c].key => b = c
    BY DEF Searchable, OnceEach
  <2>3. QED BY <1>3, <1>8, <2>1, <2>2 DEF OnceEach
<1>11. Searchable(new) BY <1>9, <1>10 DEF Searchable
<1>12. ASSUME NEW k, NEW v
       PROVE  Has(new, k, v) \/ Held(table, i, k, v) <=> Has(table, k, v) \/ Is(e, k, v)
  <2>1. Has(new, k, v) => Has(table, k, v) \/ Is(e, k, v) BY <1>3, <1>8 DEF Has, Is
  <2>2. Held(table, i, k, v) => Has(table, k, v) BY <1>7 DEF Has, Is, Held
  <2>3. Is(e, k, v) => Has(new, k, v) BY <1>3, <1>8 DEF Has, Is
  <2>4. ASSUME Has(table, k, v)
        PROVE  Has(new, k, v) \/ Held(table, i, k, v)
    <3>1. PICK j \in Occupied(table) : table[j].key = k /\ table[j].value = v
      BY <2>4 DEF Has
    <3>2. CASE j = i BY <1>7, <3>1, <3>2 DEF Is, Held
    <3>3. CASE j # i
      <4>1. new[j] = table[j] /\ j \in Occupied(new) BY <1>8, <3>3
      <4>2. new[j].key = k /\ new[j].value = v BY <3>1, <4>1
      <4>3. Has(new, k, v) BY <4>1, <4>2 DEF Has
      <4>4. QED BY <4>3
    <3>4. QED BY <3>2, <3>3
  <2>5. QED BY <2>1, <2>2, <2>3, <2>4
<1>13. QED BY <1>8, <1>11, <1>12 DEF new

(* An entry that passes slot i is one step farther from home.              *)
LEMMA MoveOn ==
  ASSUME NEW n \in Sizes, NEW table, Roomy(table, n), NEW x \in Stored,
         NEW i \in Occupied(table), table[i].psl >= x.psl, Placed(table, x, i),
         NEW g \in 0 .. n - 1, NEW c \in 0 .. n - 1, c + 1 \in 0 .. n - 1,
         Slot(g, c, table) = i
  PROVE  /\ Placed(table, Further(x), Slot(g, c + 1, table))
         /\ Further(x) \in Stored /\ Further(x).psl = x.psl + 1
         /\ Further(x).key = x.key /\ Further(x).value = x.value
         /\ Whole(x) => Whole(Further(x))
<1> DEFINE h == Home(x.key, table)
           y == Further(x)
<1>1. table \in Tables(n) /\ n \in Nat BY DEF Roomy, Sizes
<1>2. DOMAIN table = 0 .. n - 1 /\ Capacity(table) = n BY <1>1, OccupiedIs
<1>3. x.key \in Keys /\ x.psl \in Nat BY StoredIs
<1>4. h \in 0 .. n - 1 BY <1>2, <1>3, HomeIs
<1>5. PICK d \in 0 .. n - 1 : PlacedBy(table, x, i, d) BY <1>2 DEF Placed
<1>6. /\ Slot(h, d, table) = i /\ x.psl >= d /\ x.psl <= d + 127
      /\ Passes(table, h, d)
  BY <1>5 DEF PlacedBy
<1>7. d \in Nat /\ d + 1 \in 0 .. n BY <1>1
<1>8. Passes(table, h, d + 1)
  <2>1. ASSUME NEW j \in 0 .. (d + 1) - 1
        PROVE  LET e == table[Slot(h, j, table)] IN
               e.state # "EMPTY" /\ (e.state = "OCCUPIED" => e.psl >= j)
    <3> HIDE DEF h
    <3>1. CASE j = d
      <4>1. table[i].state = "OCCUPIED" /\ table[i].psl \in Nat
        BY <1>1, OccupiedIs, StoredIs
      <4>2. table[i].psl >= j BY <1>3, <1>6, <1>7, <3>1, <4>1
      <4>3. QED BY <1>6, <3>1, <4>1, <4>2
    <3>2. CASE j # d
      <4>1. j \in 0 .. d - 1 BY <1>7, <3>2
      <4>2. QED BY <1>6, <4>1 DEF Passes
    <3>3. QED BY <3>1, <3>2
  <2>2. QED BY <2>1 DEF Passes
<1> HIDE DEF h
<1>9. d + 1 \in 0 .. n - 1 /\ d + 1 <= 127 BY <1>4, <1>7, <1>8, PassesRoom
<1>10. /\ y \in Stored /\ y.psl = UInt8(x.psl + 1) /\ y.key = x.key /\ y.value = x.value
       /\ y.key_len = x.key_len /\ y.kept = x.kept
  BY FurtherIs
<1>11. UInt8(x.psl + 1) = x.psl + 1
  <2>1. x.psl + 1 \in Nat /\ x.psl + 1 <= 254 BY <1>3, <1>6, <1>7, <1>9
  <2>2. (x.psl + 1) % 256 = x.psl + 1 BY <2>1
  <2>3. QED BY <2>2 DEF UInt8
<1>12. Slot(h, d + 1, table) = Slot(g, c + 1, table) BY <1>2, <1>4, <1>6, <1>9, NextSlot
<1> HIDE DEF y
<1>13. y.psl >= d + 1 /\ y.psl <= (d + 1) + 127 BY <1>3, <1>6, <1>7, <1>10, <1>11
<1>14. PlacedBy(table, y, Slot(g, c + 1, table), d + 1)
  BY <1>8, <1>10, <1>12, <1>13 DEF PlacedBy, h
<1>15. Placed(table, y, Slot(g, c + 1, table)) BY <1>2, <1>9, <1>14 DEF Placed
<1>16. Whole(x) => Whole(y) BY <1>10 DEF Whole
<1>17. QED BY <1>10, <1>11, <1>15, <1>16 DEF y

(* All keys are of one length, so that an exchange keeps them whole, and   *)
(* not of the one whose terminator spoils the value.                       *)
OneKeyLength == \A j, k \in Keys : KeyLen[j] = KeyLen[k]
PlainKeys == OneKeyLength /\ \A k \in Keys : KeyLen[k] # HASH_INLINE_KEY_SIZE

(* What the loop of insert_entry keeps, with entry e in hand before slot i. *)
LoopInv(n, table, e, i) ==
  /\ Roomy(table, n) /\ Searchable(table)
  /\ e \in Stored /\ Whole(e) /\ Placed(table, e, i) /\ ~InTable(table, e.key)

LEMMA RoomySame ==
  ASSUME NEW n \in Nat, NEW table, Roomy(table, n), NEW u \in Tables(n), SameStates(n, u, table)
  PROVE  Roomy(u, n)
<1>1. DOMAIN table = 0 .. n - 1 /\ DOMAIN u = 0 .. n - 1 BY DEF Roomy, Tables
<1>2. InUse(u) = InUse(table) BY <1>1 DEF InUse, SameStates
<1>3. QED BY <1>2 DEF Roomy

LEMMA PassedSearchable ==
  ASSUME PlainKeys, NEW n \in Sizes, NEW loop, NEW i \in Occupied(loop.table),
         LoopInv(n, loop.table, loop.hand, i), NEW k \in Keys,
         NEW g \in 0 .. n - 1, NEW c \in 0 .. n - 1, c + 1 \in 0 .. n - 1,
         Slot(g, c, loop.table) = i
  PROVE  LET next == Passed(loop, i, KeyLen[k]) IN
         /\ LoopInv(n, next.table, next.hand, Slot(g, c + 1, loop.table))
         /\ \A j, v : Has(next.table, j, v) \/ Is(next.hand, j, v)
                      <=> Has(loop.table, j, v) \/ Is(loop.hand, j, v)
<1> DEFINE table == loop.table
           hand == loop.hand
           here == table[i]
           len == KeyLen[k]
           next == Passed(loop, i, len)
<1>1. /\ Roomy(table, n) /\ Searchable(table) /\ hand \in Stored /\ Whole(hand)
      /\ Placed(table, hand, i) /\ ~InTable(table, hand.key)
  BY DEF LoopInv
<1>2. table \in Tables(n) /\ n \in Nat BY <1>1 DEF Roomy, Sizes
<1>3. /\ DOMAIN table = 0 .. n - 1 /\ i \in 0 .. n - 1 /\ here.state = "OCCUPIED"
      /\ here \in Stored
  BY <1>2, OccupiedIs
<1>4. /\ hand.key \in Keys /\ hand.psl \in Nat /\ hand \in Slots /\ hand.state = "OCCUPIED"
      /\ here.psl \in Nat /\ here.key \in Keys
  BY <1>1, <1>3, StoredIs
<1>5. /\ len \in Nat /\ hand.key_len = len /\ hand.kept = len
      /\ len # HASH_INLINE_KEY_SIZE
  BY <1>1, <1>4, HashTableAssumption DEF PlainKeys, OneKeyLength, Whole
<1>6. entry_set_key(hand, len) = hand BY <1>1, <1>5, SetKeyIs
<1>7. /\ here.psl < hand.psl =>
           next.table = Put(table, i, entry_set_key(hand, len)) /\ next.hand = Further(here)
      /\ ~(here.psl < hand.psl) => next.table = table /\ next.hand = Further(hand)
      /\ next.table \in Tables(n) /\ SameStates(n, next.table, table)
  BY <1>1, <1>2, <1>3, <1>5, PassedIs
<1>8. Roomy(next.table, n) BY <1>1, <1>2, <1>7, RoomySame
<1> HIDE DEF next, len
<1>9. CASE ~(here.psl < hand.psl)
  <2>1. next.table = table /\ next.hand = Further(hand) BY <1>7, <1>9
  <2>2. here.psl >= hand.psl /\ i \in Occupied(table) /\ Slot(g, c, table) = i BY <1>4, <1>9
  <2> HIDE DEF table, hand
  <2>3. /\ Placed(table, Further(hand), Slot(g, c + 1, table))
        /\ Further(hand) \in Stored
        /\ Further(hand).key = hand.key /\ Further(hand).value = hand.value
        /\ Whole(Further(hand))
    BY ONLY <1>1, <2>2, n \in Sizes, g \in 0 .. n - 1, c \in 0 .. n - 1, c + 1 \in 0 .. n - 1,
            MoveOn, SMTT(30)
  <2>4. LoopInv(n, table, Further(hand), Slot(g, c + 1, table))
    BY <1>1, <2>3 DEF LoopInv
  <2>5. \A j, v : Is(Further(hand), j, v) <=> Is(hand, j, v) BY <2>3 DEF Is
  <2>6. QED BY <2>1, <2>4, <2>5 DEF next, len, table, hand
<1>10. CASE here.psl < hand.psl
  <2> DEFINE new == Put(table, i, hand)
  <2>1. next.table = new /\ next.hand = Further(here) BY <1>6, <1>7, <1>10
  <2>2. Outranks(table, i, hand) BY <1>3, <1>4, <1>10 DEF Outranks
  <2>3. /\ Searchable(new)
        /\ \A j, v : Has(new, j, v) \/ Held(table, i, j, v) <=> Has(table, j, v) \/ Is(hand, j, v)
        /\ \A j \in Occupied(new) : j = i \/ (j \in Occupied(table) /\ new[j] = table[j])
    BY <1>1, <1>2, <1>3, <2>2, PutSearchable
  <2>4. Placed(table, here, i) /\ Whole(here) BY <1>1 DEF Searchable
  <2>5. Placed(new, here, i) BY <1>1, <1>2, <1>3, <1>4, <2>2, <2>4, PlacedKept
  <2>6. new[i] = hand
    BY ONLY <1>2, <1>3, <1>4, PutIs
  <2> HIDE DEF new
  <2>7. new \in Tables(n) /\ Roomy(new, n) BY <1>7, <1>8, <2>1
  <2>8. DOMAIN new = 0 .. n - 1 BY <2>7 DEF Tables
  <2>9. i \in Occupied(new) BY <1>3, <1>4, <2>6, <2>8 DEF Occupied
  <2>10. Slot(g, c, new) = i /\ Slot(g, c + 1, new) = Slot(g, c + 1, table)
    <3>1. Slot(g, c, table) = i OBVIOUS
    <3> HIDE DEF table
    <3>2. Slot(g, c, new) = Slot(g, c, table) BY <1>2, <1>3, <2>8, SameSlot
    <3>3. Slot(g, c + 1, new) = Slot(g, c + 1, table) BY <1>2, <1>3, <2>8, SameSlot
    <3>4. QED BY <3>1, <3>2, <3>3
  <2>11. new[i].psl >= here.psl BY <1>4, <1>10, <2>6
  <2>12. /\ Placed(new, Further(here), Slot(g, c + 1, new))
         /\ Further(here) \in Stored
         /\ Further(here).key = here.key /\ Further(here).value = here.value
         /\ Whole(Further(here))
    BY <1>3, <2>4, <2>5, <2>7, <2>9, <2>10, <2>11, MoveOn
  <2>13. ~InTable(new, here.key)
    <3>1. hand.key # here.key BY <1>1 DEF InTable
    <3>2. \A j \in Occupied(table) : table[j].key = here.key => j = i
      BY <1>1 DEF Searchable, OnceEach
    <3>3. ASSUME NEW j \in Occupied(new) PROVE new[j].key # here.key
      <4>1. CASE j = i BY <2>6, <3>1, <4>1
      <4>2. CASE j # i BY <2>3, <3>2, <4>2
      <4>3. QED BY <4>1, <4>2
    <3>4. QED BY <3>3 DEF InTable
  <2>14. LoopInv(n, new, Further(here), Slot(g, c + 1, table))
    BY <2>3, <2>7, <2>10, <2>12, <2>13 DEF LoopInv
  <2>15. \A j, v : Held(table, i, j, v) <=> Is(Further(here), j, v)
    BY <1>3, <2>12 DEF Held, Is
  <2>16. \A j, v : Has(new, j, v) \/ Is(Further(here), j, v)
                   <=> Has(table, j, v) \/ Is(hand, j, v)
    BY <2>3, <2>15
  <2>17. QED BY <2>1, <2>14, <2>16 DEF next, len
<1>11. QED BY <1>9, <1>10

(* A new key inserted from its home, ending in an empty slot, makes the    *)
(* table tell the value of that key too, and of the others what it did.    *)
LEMMA InsertSearchable ==
  ASSUME PlainKeys, NEW n \in Sizes, NEW table, Roomy(table, n), Searchable(table),
         HasRoom(table), NEW e \in Stored, Whole(e), e.psl <= 127, ~InTable(table, e.key),
         NEW k \in Keys, e.key = k,
         table[insert_entry(table, Home(k, table), e, KeyLen[k]).slot].state = "EMPTY"
  PROVE  LET new == insert_entry(table, Home(k, table), e, KeyLen[k]).table IN
         /\ Searchable(new)
         /\ \A j, v : Has(new, j, v) <=> Has(table, j, v) \/ Is(e, j, v)
<1> DEFINE home == Home(k, table)
           len == KeyLen[k]
           last == FreeAfter(table, home)
           slot == Slot(home, last, table)
           g == Loop(table, home, e, len)
           result == insert_entry(table, home, e, len)
           good == {d \in Nat : /\ LoopInv(n, g[d].table, g[d].hand, Slot(home, d, table))
                                /\ \A j, v : Has(g[d].table, j, v) \/ Is(g[d].hand, j, v)
                                             <=> Has(table, j, v) \/ Is(e, j, v)}
<1>1. table \in Tables(n) /\ n \in Nat /\ n > 0 BY DEF Roomy, Sizes
<1>2. DOMAIN table = 0 .. n - 1 /\ Capacity(table) = n BY <1>1, OccupiedIs
<1>3. home \in 0 .. n - 1 BY <1>2, HomeIs
<1>4. len \in Nat BY HashTableAssumption
<1>5. /\ last \in 0 .. n - 1
      /\ \A d \in 0 .. last - 1 : table[Slot(home, d, table)].state = "OCCUPIED"
  BY <1>1, <1>3, FreeAfterIs
<1>6. last \in Nat BY <1>5
<1>7. /\ g[0] = [table |-> table, hand |-> e]
      /\ \A d \in 0 .. last - 1 : g[d + 1] = Passed(g[d], Slot(home, d, table), len)
  BY <1>6, LoopRounds
<1>8. \A d \in 0 .. last : g[d].table \in Tables(n) /\ SameStates(n, g[d].table, table)
  BY <1>1, <1>3, <1>4, LoopKeeps
<1>9. result.table = Put(g[last].table, slot, entry_set_key(g[last].hand, len)) /\ result.slot = slot
  BY InsertIs
<1>10. table[slot].state = "EMPTY" BY <1>9
<1> HIDE DEF g, result, last
<1>11. 0 \in good
  <2>1. Slot(home, 0, table) = home
    <3> HIDE DEF home
    <3>1. QED BY <1>2, <1>3, SlotZero
  <2>2. Passes(table, home, 0) BY DEF Passes
  <2>3. e.psl \in Nat BY StoredIs
  <2>4. PlacedBy(table, e, home, 0) BY <2>1, <2>2, <2>3 DEF PlacedBy
  <2>5. 0 \in 0 .. Capacity(table) - 1 BY <1>1, <1>2
  <2>6. Placed(table, e, home) BY <2>4, <2>5 DEF Placed
  <2>7. LoopInv(n, table, e, home) BY <2>6 DEF LoopInv
  <2> HIDE DEF home
  <2>8. QED BY <1>7, <2>1, <2>7
<1> HIDE DEF home
<1>12. ASSUME NEW d \in 0 .. last - 1, d \in good PROVE d + 1 \in good
  <2> DEFINE i == Slot(home, d, table)
             loop == g[d]
  <2>1. d \in 0 .. n - 1 /\ d + 1 \in 0 .. n - 1 /\ d + 1 \in Nat /\ d \in 0 .. last
    BY <1>1, <1>5
  <2>2. i \in 0 .. n - 1 /\ table[i].state = "OCCUPIED" BY <1>2, <1>3, <1>5, <2>1, SlotIs
  <2>3. /\ LoopInv(n, loop.table, loop.hand, i)
        /\ \A j, v : Has(loop.table, j, v) \/ Is(loop.hand, j, v)
                     <=> Has(table, j, v) \/ Is(e, j, v)
    BY <1>12
  <2>4. g[d + 1] = Passed(loop, i, len) BY <1>7
  <2>5. loop.table \in Tables(n) /\ SameStates(n, loop.table, table) BY <1>8, <2>1
  <2>6. DOMAIN loop.table = 0 .. n - 1 BY <2>5 DEF Tables
  <2>7. /\ Slot(home, d, loop.table) = i
        /\ Slot(home, d + 1, loop.table) = Slot(home, d + 1, table)
    BY <1>1, <1>2, <2>6, SameSlot
  <2> HIDE DEF i, loop
  <2>8. i \in Occupied(loop.table) BY <2>2, <2>5, <2>6 DEF Occupied, SameStates
  <2> DEFINE next == Passed(loop, i, len)
  <2>9. /\ LoopInv(n, next.table, next.hand, Slot(home, d + 1, loop.table))
        /\ \A j, v : Has(next.table, j, v) \/ Is(next.hand, j, v)
                     <=> Has(loop.table, j, v) \/ Is(loop.hand, j, v)
    BY <1>3, <2>1, <2>3, <2>7, <2>8, PassedSearchable
  <2> HIDE DEF next
  <2>10. g[d + 1] = next BY <2>4 DEF next
  <2>11. \A j, v : Has(next.table, j, v) \/ Is(next.hand, j, v)
                   <=> Has(table, j, v) \/ Is(e, j, v)
    BY <2>3, <2>9
  <2>12. QED BY <2>1, <2>7, <2>9, <2>10, <2>11
<1> HIDE DEF good
<1>13. \A d \in 0 .. last : d \in good BY <1>6, <1>11, <1>12, UpTo
<1>14. last \in good /\ last \in 0 .. last BY <1>6, <1>13
<1> DEFINE end == g[last].table
           hand == g[last].hand
<1>15. /\ LoopInv(n, end, hand, slot)
       /\ \A j, v : Has(end, j, v) \/ Is(hand, j, v) <=> Has(table, j, v) \/ Is(e, j, v)
  BY <1>14 DEF good
<1>16. end \in Tables(n) /\ SameStates(n, end, table) BY <1>8, <1>14
<1>17. slot \in 0 .. n - 1 BY <1>2, <1>3, <1>5, SlotIs
<1> HIDE DEF slot, end, hand
<1>18. end[slot].state = "EMPTY" BY <1>10, <1>16, <1>17 DEF SameStates
<1>19. /\ Searchable(end) /\ hand \in Stored /\ Whole(hand) /\ Placed(end, hand, slot)
       /\ ~InTable(end, hand.key)
  BY <1>15 DEF LoopInv
<1>20. entry_set_key(hand, len) = hand
  <2>1. hand.key \in Keys BY <1>19, StoredIs
  <2>2. hand.key_len = len /\ hand.kept = len /\ len # HASH_INLINE_KEY_SIZE
    BY <1>19, <2>1 DEF PlainKeys, OneKeyLength, Whole
  <2>3. QED BY <1>4, <1>19, <2>2, SetKeyIs
<1>21. result.table = Put(end, slot, hand) BY <1>9, <1>20 DEF end, hand
<1>22. Outranks(end, slot, hand) /\ \A j, v : ~Held(end, slot, j, v)
  BY <1>18 DEF Outranks, Held
<1>23. /\ Searchable(Put(end, slot, hand))
       /\ \A j, v : Has(Put(end, slot, hand), j, v) \/ Held(end, slot, j, v)
                    <=> Has(end, j, v) \/ Is(hand, j, v)
  BY <1>16, <1>17, <1>19, <1>22, PutSearchable
<1>24. \A j, v : Has(Put(end, slot, hand), j, v) <=> Has(table, j, v) \/ Is(e, j, v)
  BY <1>15, <1>22, <1>23
<1>25. QED BY <1>21, <1>23, <1>24 DEF result, home, len

-----------------------------------------------------------------------------
(* Resizing keeps a table searchable *)

(* Before slot i the old table says that key k has value v.                *)
HasBelow(old, i, k, v) == \E j \in Below(old, i) : Is(old[j], k, v)

LEMMA HasBelowNext ==
  ASSUME NEW n \in Nat, NEW old \in Tables(n), NEW i \in Occupied(old)
  PROVE  \A k, v : HasBelow(old, i + 1, k, v) <=> HasBelow(old, i, k, v) \/ Is(old[i], k, v)
<1>1. Below(old, i + 1) = Below(old, i) \cup {i} BY BelowIs
<1>2. QED BY <1>1 DEF HasBelow

(* A table without tombstones and with few entries has room.               *)
LEMMA RoomyWithout ==
  ASSUME NEW m \in Sizes, NEW table \in Tables(m), Deleted(table) = {},
         Cardinality(Occupied(table)) < m, Cardinality(Occupied(table)) <= 127
  PROVE  Roomy(table, m) /\ HasRoom(table)
<1>1. m \in Nat /\ DOMAIN table = 0 .. m - 1 BY DEF Sizes, Tables
<1>2. Cardinality(Deleted(table)) = 0 BY FS_EmptySet
<1>3. Cardinality(Occupied(table)) \in Nat BY <1>1, SlotSetsFinite
<1>4. Cardinality(InUse(table)) = Cardinality(Occupied(table)) + Cardinality(Deleted(table))
  BY <1>1, InUseCount
<1>5. Cardinality(InUse(table)) = Cardinality(Occupied(table)) BY <1>2, <1>3, <1>4
<1>6. QED BY <1>1, <1>5, RoomLeft DEF Roomy

(* One round of hash_resize.                                               *)
LEMMA FillOneSearchable ==
  ASSUME PlainKeys, NEW n \in Sizes, NEW old \in Tables(n), Searchable(old),
         NEW m \in Sizes, NEW table \in Tables(m), Deleted(table) = {},
         Cardinality(Occupied(table)) < m, Cardinality(Occupied(table)) <= 127,
         Searchable(table), NEW i \in Occupied(old),
         \A k, v : Has(table, k, v) <=> HasBelow(old, i, k, v)
  PROVE  LET new == insert_entry(table, Home(old[i].key, calloc(m)),
                      [old[i] EXCEPT !.psl = 0], old[i].key_len).table IN
         /\ Searchable(new)
         /\ \A k, v : Has(new, k, v) <=> HasBelow(old, i + 1, k, v)
<1> DEFINE e == [old[i] EXCEPT !.psl = 0]
           k == old[i].key
           new == insert_entry(table, Home(k, calloc(m)), e, old[i].key_len).table
<1>1. /\ n \in Nat /\ m \in Nat /\ DOMAIN old = 0 .. n - 1 /\ DOMAIN table = 0 .. m - 1
      /\ DOMAIN calloc(m) = 0 .. m - 1
  BY DEF Sizes, Tables, calloc
<1>2. Roomy(table, m) /\ HasRoom(table) BY RoomyWithout
<1>3. old[i] \in Stored /\ Whole(old[i]) BY <1>1, OccupiedIs DEF Searchable
<1>4. /\ e \in Stored /\ e.psl = 0 /\ e.key = k /\ e.value = old[i].value
      /\ e.key_len = old[i].key_len /\ e.kept = old[i].kept /\ k \in Keys
  BY <1>3, FromHome
<1>5. Whole(e) /\ old[i].key_len = KeyLen[k] BY <1>3, <1>4 DEF Whole
<1>6. Home(k, calloc(m)) = Home(k, table) BY <1>1, SameSlot
<1> HIDE DEF e
<1>7. ~InTable(table, k)
  <2>1. SUFFICES ASSUME InTable(table, k) PROVE FALSE OBVIOUS
  <2>2. PICK v : Has(table, k, v) BY <1>1, <2>1, InTableIsHas
  <2>3. HasBelow(old, i, k, v) BY <2>2
  <2>4. PICK j \in Occupied(old) : j < i /\ old[j].key = k BY <2>3 DEF HasBelow, Below, Is
  <2>5. j = i BY <2>4 DEF Searchable, OnceEach
  <2>6. i \in Nat BY <1>1 DEF Occupied
  <2>7. QED BY <2>4, <2>5, <2>6
<1> DEFINE result == insert_entry(table, Home(k, table), e, KeyLen[k])
<1>8. Home(k, table) \in 0 .. m - 1 /\ KeyLen[k] \in Nat
  <2>1. KeyLen[k] \in Nat BY <1>4, HashTableAssumption
  <2>2. QED BY <1>1, <1>4, <2>1, HomeIs
<1>9. result.slot \in 0 .. m - 1 /\ table[result.slot].state # "OCCUPIED"
  BY <1>2, <1>4, <1>8, Insertion
<1>10. table[result.slot].state = "EMPTY"
  <2>1. table[result.slot] \in Slots BY <1>9 DEF Tables
  <2>2. result.slot \notin Deleted(table) OBVIOUS
  <2> HIDE DEF result
  <2>3. table[result.slot].state # "DELETED" BY <1>1, <1>9, <2>2 DEF Deleted
  <2>4. QED BY <1>9, <2>1, <2>3 DEF Slots, Stored, Unoccupied
<1>11. e.psl <= 127 /\ ~InTable(table, e.key) /\ e.key = k BY <1>4, <1>7
<1>12. /\ Searchable(result.table)
       /\ \A j, v : Has(result.table, j, v) <=> Has(table, j, v) \/ Is(e, j, v)
  BY <1>2, <1>4, <1>5, <1>10, <1>11, InsertSearchable
<1>13. new = result.table BY <1>5, <1>6
<1> HIDE DEF result, new
<1>14. \A j, v : Is(e, j, v) <=> Is(old[i], j, v) BY <1>4 DEF Is
<1>15. \A j, v : HasBelow(old, i + 1, j, v) <=> HasBelow(old, i, j, v) \/ Is(old[i], j, v)
  BY <1>1, HasBelowNext
<1>16. \A j, v : Has(new, j, v) <=> HasBelow(old, i + 1, j, v) BY <1>12, <1>13, <1>14, <1>15
<1>17. QED BY <1>12, <1>13, <1>16 DEF new, e

LEMMA EmptySearchable ==
  ASSUME NEW n \in Sizes
  PROVE  /\ Searchable(calloc(n)) /\ \A k : ~InTable(calloc(n), k)
         /\ \A k, v : ~Has(calloc(n), k, v)
<1>1. Occupied(calloc(n)) = {} BY CallocIs
<1>2. QED BY <1>1 DEF Searchable, OnceEach, InTable, Has

(* hash_resize loses no key and no value.                                  *)
LEMMA ReinsertedSearchable ==
  ASSUME PlainKeys, NEW n \in Sizes, NEW old \in Tables(n), Searchable(old),
         NEW m \in Sizes, Cardinality(Occupied(old)) < m, Cardinality(Occupied(old)) <= 127
  PROVE  LET new == Reinserted(old, calloc(m)) IN
         /\ Searchable(new)
         /\ \A k, v : Has(new, k, v) <=> Has(old, k, v)
<1> DEFINE g == Fill(old, calloc(m))
           good == {i \in Nat : /\ Searchable(g[i])
                                /\ \A k, v : Has(g[i], k, v) <=> HasBelow(old, i, k, v)}
           empty == calloc(m)
<1>1. n \in Nat /\ m \in Nat /\ DOMAIN old = 0 .. n - 1 BY DEF Sizes, Tables
<1>2. Capacity(old) = n BY <1>1, CapacityOf
<1>3. /\ g[0] = empty
      /\ \A i \in 0 .. n - 1 :
           g[i + 1] = IF old[i].state # "OCCUPIED" THEN g[i]
                      ELSE insert_entry(g[i], Home(old[i].key, empty),
                             [old[i] EXCEPT !.psl = 0], old[i].key_len).table
  BY <1>1, <1>2, FillRounds
<1>4. \A i \in 0 .. n :
        /\ g[i] \in Tables(m) /\ Deleted(g[i]) = {}
        /\ Cardinality(Occupied(g[i])) = Cardinality(Below(old, i))
  BY FillKeeps
<1>5. Searchable(empty) /\ \A k, v : ~Has(empty, k, v) BY EmptySearchable
<1> HIDE DEF empty, g
<1>6. 0 \in good
  <2>1. Below(old, 0) = {} BY <1>1 DEF Below, Occupied
  <2>2. \A k, v : ~HasBelow(old, 0, k, v) BY <2>1 DEF HasBelow
  <2>3. QED BY <1>3, <1>5, <2>2
<1>7. ASSUME NEW i \in 0 .. n - 1, i \in good PROVE i + 1 \in good
  <2>1. i \in Nat /\ i + 1 \in Nat /\ i \in 0 .. n BY <1>1
  <2>2. Searchable(g[i]) /\ \A k, v : Has(g[i], k, v) <=> HasBelow(old, i, k, v) BY <1>7
  <2>3. CASE old[i].state # "OCCUPIED"
    <3>1. Below(old, i + 1) = Below(old, i) BY <1>1, <2>3 DEF Below, Occupied
    <3>2. g[i + 1] = g[i] BY <1>3, <2>3
    <3>3. \A k, v : HasBelow(old, i + 1, k, v) <=> HasBelow(old, i, k, v)
      BY <3>1 DEF HasBelow
    <3>4. QED BY <2>1, <2>2, <3>2, <3>3
  <2>4. CASE old[i].state = "OCCUPIED"
    <3>1. i \in Occupied(old) BY <1>1, <2>4 DEF Occupied
    <3>2. /\ Cardinality(Below(old, i)) < Cardinality(Occupied(old))
          /\ Cardinality(Below(old, i)) \in Nat /\ Cardinality(Occupied(old)) \in Nat
      BY <1>1, <3>1, BelowIs, SlotSetsFinite
    <3>3. /\ g[i] \in Tables(m) /\ Deleted(g[i]) = {}
          /\ Cardinality(Occupied(g[i])) < m /\ Cardinality(Occupied(g[i])) <= 127
      BY <1>1, <1>4, <2>1, <3>2
    <3> DEFINE new == insert_entry(g[i], Home(old[i].key, calloc(m)),
                        [old[i] EXCEPT !.psl = 0], old[i].key_len).table
    <3>4. /\ Searchable(new)
          /\ \A k, v : Has(new, k, v) <=> HasBelow(old, i + 1, k, v)
      BY ONLY PlainKeys, n \in Sizes, old \in Tables(n), Searchable(old), m \in Sizes,
              <2>2, <3>1, <3>3, FillOneSearchable
    <3>5. g[i + 1] = new BY <1>3, <2>4 DEF empty
    <3> HIDE DEF new
    <3>6. QED BY <2>1, <3>4, <3>5
  <2>5. QED BY <2>3, <2>4
<1> HIDE DEF good
<1>8. \A i \in 0 .. n : i \in good BY <1>1, <1>6, <1>7, UpTo
<1>9. n \in good BY <1>1, <1>8
<1>10. Below(old, n) = Occupied(old) BY <1>1 DEF Below, Occupied
<1>11. \A k, v : HasBelow(old, n, k, v) <=> Has(old, k, v) BY <1>10 DEF HasBelow, Has, Is
<1>12. Reinserted(old, calloc(m)) = g[n] BY <1>2, ReinsertedIsFill DEF g
<1>13. QED BY <1>9, <1>11, <1>12 DEF good

-----------------------------------------------------------------------------
(* The operations *)

LEMMA RoomyEntries ==
  ASSUME HashInv, Few
  PROVE  /\ capacity \in Sizes /\ entries \in Tables(capacity) /\ Roomy(entries, capacity)
         /\ size = Cardinality(Occupied(entries)) /\ size \in Nat /\ size <= 127
         /\ \E x \in 0 .. capacity - 1 : entries[x].state = "EMPTY"
<1>1. /\ capacity \in Sizes /\ entries \in Tables(capacity) /\ capacity \in Nat
      /\ size \in Nat /\ tombstones \in Nat /\ Cardinality(Deleted(entries)) \in Nat
      /\ \E x \in 0 .. capacity - 1 : entries[x].state = "EMPTY"
  BY InvFacts DEF HashInv, HashType
<1>2. /\ size = Cardinality(Occupied(entries)) /\ Cardinality(Deleted(entries)) <= tombstones
      /\ size + tombstones < capacity
  BY DEF HashInv, ProbesEnd
<1>3. Cardinality(InUse(entries)) = Cardinality(Occupied(entries)) + Cardinality(Deleted(entries))
  BY <1>1, InUseCount
<1>4. size + tombstones <= 127 BY DEF Few
<1>5. Cardinality(InUse(entries)) < capacity /\ Cardinality(InUse(entries)) <= 127
  BY <1>1, <1>2, <1>3, <1>4
<1>6. size <= 127 BY <1>1, <1>4
<1>7. QED BY <1>1, <1>2, <1>5, <1>6 DEF Roomy

(* In a table that tells what has been promised every key is found or not  *)
(* as promised.                                                            *)
LEMMA KeysInvKeeps == HashInv /\ Few /\ KeysInv => KeysKeptUntilReuse
<1>1. SUFFICES ASSUME HashInv, Few, Searchable(entries), Tells(entries, promised), NEW k \in Keys
               PROVE  hash_get(k) = promised[k]
  BY DEF KeysInv, KeysKeptUntilReuse
<1>2. /\ capacity \in Sizes /\ entries \in Tables(capacity) /\ Roomy(entries, capacity)
      /\ \E x \in 0 .. capacity - 1 : entries[x].state = "EMPTY"
      /\ capacity \in Nat
  <2>1. /\ capacity \in Sizes /\ entries \in Tables(capacity) /\ Roomy(entries, capacity)
        /\ \E x \in 0 .. capacity - 1 : entries[x].state = "EMPTY"
    BY <1>1, RoomyEntries
  <2>2. capacity \in Nat BY <2>1 DEF Sizes
  <2>3. QED BY <2>1, <2>2
<1>3. CASE InTable(entries, k)
  <2>1. PICK i \in Occupied(entries) : entries[i].key = k BY <1>3 DEF InTable
  <2>2. At(entries, k) = {i} BY <1>1, <1>2, <2>1, Finds
  <2>3. hash_get(k) = entries[i].value BY <2>2 DEF hash_get
  <2>4. entries[i].value \in Pointers BY <1>2, OccupiedIs, StoredIs
  <2>5. Has(entries, k, entries[i].value) BY <2>1 DEF Has
  <2>6. promised[k] = entries[i].value BY <1>1, <2>4, <2>5 DEF Tells
  <2>7. QED BY <2>3, <2>6
<1>4. CASE ~InTable(entries, k)
  <2>1. At(entries, k) = {} BY <1>2, <1>4, FindsNothing
  <2>2. hash_get(k) = NULL BY <2>1 DEF hash_get
  <2>3. promised[k] = NULL BY <1>1, <1>4 DEF Tells
  <2>4. QED BY <2>2, <2>3
<1>5. QED BY <1>3, <1>4

LEMMA TellsSame ==
  ASSUME NEW n \in Nat, NEW table \in Tables(n), NEW m \in Nat, NEW new \in Tables(m),
         \A k, v : Has(new, k, v) <=> Has(table, k, v), NEW told, Tells(table, told)
  PROVE  Tells(new, told)
<1>1. \A k : InTable(new, k) <=> InTable(table, k) BY InTableIsHas
<1>2. QED BY <1>1 DEF Tells

(* Only key k has got another value, or none. *)
LEMMA TellsChanged ==
  ASSUME NEW n \in Nat, NEW table \in Tables(n), NEW m \in Nat, NEW new \in Tables(m),
         NEW k \in Keys, promised \in [Keys -> Values \cup {NULL}], Tells(table, promised),
         NEW v, \A w \in Pointers : Has(new, k, w) => w = v,
         v = NULL \/ (v \in Pointers /\ Has(new, k, v)),
         \A j, w : j # k => (Has(new, j, w) <=> Has(table, j, w))
  PROVE  Tells(new, Told(k, v))
<1> DEFINE told == Told(k, v)
<1>1. told[k] = v /\ \A j \in Keys : j # k => told[j] = promised[j] BY DEF Told
<1> HIDE DEF told
<1>2. /\ \A j : InTable(new, j) <=> \E w \in Pointers : Has(new, j, w)
      /\ \A j : InTable(table, j) <=> \E w \in Pointers : Has(table, j, w)
  BY InTableIsHas
<1>3. ASSUME NEW j \in Keys, NEW w \in Pointers, Has(new, j, w) PROVE told[j] = w
  <2>1. CASE j = k BY <1>1, <1>3, <2>1
  <2>2. CASE j # k
    <3>1. Has(table, j, w) BY <1>3, <2>2
    <3>2. QED BY <1>1, <2>2, <3>1 DEF Tells
  <2>3. QED BY <2>1, <2>2
<1>4. ASSUME NEW j \in Keys, ~InTable(new, j) PROVE told[j] = NULL
  <2>1. CASE j = k BY <1>1, <1>2, <1>4, <2>1
  <2>2. CASE j # k
    <3>1. ~InTable(table, j) BY <1>2, <1>4, <2>2
    <3>2. QED BY <1>1, <2>2, <3>1 DEF Tells
  <2>3. QED BY <2>1, <2>2
<1>5. QED BY <1>3, <1>4 DEF Tells, told

(* An update changes the value of an entry and moves nothing.              *)
LEMMA UpdateSearchable ==
  ASSUME NEW n \in Sizes, NEW table \in Tables(n), Searchable(table), NEW i \in Occupied(table),
         NEW e \in Stored, e.psl = table[i].psl, e.key = table[i].key,
         e.key_len = table[i].key_len, e.kept = table[i].kept
  PROVE  LET new == Put(table, i, e) IN
         /\ Searchable(new)
         /\ \A w : Has(new, e.key, w) <=> w = e.value
         /\ \A j, w : j # e.key => (Has(new, j, w) <=> Has(table, j, w))
<1> DEFINE new == Put(table, i, e)
           k == e.key
<1>1. /\ n \in Nat /\ Occupied(table) = {j \in 0 .. n - 1 : table[j].state = "OCCUPIED"}
      /\ \A j \in Occupied(table) : table[j] \in Stored
  BY OccupiedIs DEF Sizes
<1>2. i \in 0 .. n - 1 /\ e \in Slots /\ e.state = "OCCUPIED" /\ e.psl \in Nat BY <1>1, StoredIs
<1>3. /\ new \in Tables(n) /\ new[i] = e
      /\ \A j \in (0 .. n - 1) \ {i} : new[j] = table[j]
  BY ONLY <1>2, table \in Tables(n), PutIs
<1>4. Outranks(table, i, e) BY <1>1, <1>2 DEF Outranks
<1>5. ASSUME NEW j \in Occupied(table) PROVE Placed(new, table[j], j)
  <2>1. Placed(table, table[j], j) /\ table[j].key \in Keys BY <1>1, StoredIs DEF Searchable
  <2>2. QED BY <1>2, <1>4, <2>1, PlacedKept
<1> HIDE DEF new
<1>6. Occupied(new) = {j \in 0 .. n - 1 : new[j].state = "OCCUPIED"} BY <1>1, <1>3, OccupiedIs
<1>7. Occupied(new) = Occupied(table) BY <1>1, <1>2, <1>3, <1>6
<1>8. \A j \in Occupied(table) : /\ new[j].key = table[j].key /\ new[j].psl = table[j].psl
                                 /\ new[j].key_len = table[j].key_len
                                 /\ new[j].kept = table[j].kept
  BY <1>1, <1>3
<1>9. \A j \in Occupied(new) : Placed(new, new[j], j)
  <2>1. \A j \in Occupied(table) : Placed(new, new[j], j) <=> Placed(new, table[j], j)
    BY <1>8 DEF Placed, PlacedBy
  <2>2. QED BY <1>5, <1>7, <2>1
<1>10. \A j \in Occupied(new) : Whole(new[j])
  <2>1. \A j \in Occupied(table) : Whole(table[j]) BY DEF Searchable
  <2>2. QED BY <1>7, <1>8, <2>1 DEF Whole
<1>11. OnceEach(table) /\ OnceEach(new) BY <1>7, <1>8 DEF Searchable, OnceEach
<1>12. Searchable(new) BY <1>9, <1>10, <1>11 DEF Searchable
<1>13. \A j \in Occupied(new) : new[j].key = k => j = i BY <1>7, <1>8, <1>11 DEF OnceEach
<1>14. \A w : Has(new, k, w) <=> w = e.value
  <2>1. Has(new, k, e.value) BY <1>3, <1>7 DEF Has
  <2>2. \A w : Has(new, k, w) => w = e.value BY <1>3, <1>13 DEF Has
  <2>3. QED BY <2>1, <2>2
<1>15. ASSUME NEW j, NEW w, j # k PROVE Has(new, j, w) <=> Has(table, j, w)
  <2>1. \A x \in Occupied(table) : new[x].key = j \/ table[x].key = j => new[x] = table[x]
    BY <1>1, <1>3, <1>8, <1>15
  <2>2. QED BY <1>7, <2>1 DEF Has
<1>16. QED BY <1>12, <1>14, <1>15 DEF new

(* A tombstone stands in the way of no search.                             *)
LEMMA MarkSearchable ==
  ASSUME NEW n \in Sizes, NEW table \in Tables(n), Searchable(table), NEW i \in Occupied(table),
         NEW new \in Tables(n), new[i].state = "DELETED",
         \A j \in (0 .. n - 1) \ {i} : new[j] = table[j]
  PROVE  /\ Searchable(new)
         /\ \A w : ~Has(new, table[i].key, w)
         /\ \A j, w : j # table[i].key => (Has(new, j, w) <=> Has(table, j, w))
<1> DEFINE k == table[i].key
<1>1. /\ n \in Nat /\ Occupied(table) = {j \in 0 .. n - 1 : table[j].state = "OCCUPIED"}
      /\ \A j \in Occupied(table) : table[j] \in Stored
      /\ Occupied(new) = {j \in 0 .. n - 1 : new[j].state = "OCCUPIED"}
      /\ DOMAIN table = 0 .. n - 1 /\ DOMAIN new = 0 .. n - 1
      /\ Capacity(table) = n /\ Capacity(new) = n
  BY OccupiedIs DEF Sizes
<1>2. Occupied(new) = Occupied(table) \ {i} BY <1>1
<1>3. \A j \in Occupied(new) : new[j] = table[j] BY <1>1, <1>2
<1>4. ASSUME NEW j \in Occupied(new) PROVE Placed(new, new[j], j)
  <2> DEFINE x == table[j]
             h == Home(x.key, table)
  <2>1. Placed(table, x, j) /\ x.key \in Keys BY <1>1, <1>2, StoredIs DEF Searchable
  <2>2. PICK d \in 0 .. n - 1 : PlacedBy(table, x, j, d) BY <1>1, <2>1 DEF Placed
  <2>3. h \in 0 .. n - 1 BY <1>1, <2>1, HomeIs
  <2>4. Passes(table, h, d) /\ Slot(h, d, table) = j /\ x.psl >= d /\ x.psl <= d + 127
    BY <2>2 DEF PlacedBy
  <2>5. Home(x.key, new) = h /\ \A c : Slot(h, c, new) = Slot(h, c, table)
    BY <1>1, SameSlot
  <2> HIDE DEF h
  <2>6. ASSUME NEW c \in 0 .. d - 1
        PROVE  LET e == new[Slot(h, c, new)] IN
               e.state # "EMPTY" /\ (e.state = "OCCUPIED" => e.psl >= c)
    <3> DEFINE s == Slot(h, c, table)
    <3>1. c \in 0 .. n - 1 BY <1>1
    <3>2. s \in 0 .. n - 1 BY <1>1, <2>3, <3>1, SlotIs
    <3>3. table[s].state # "EMPTY" /\ (table[s].state = "OCCUPIED" => table[s].psl >= c)
      BY <2>4 DEF Passes
    <3>4. Slot(h, c, new) = s BY <2>5
    <3> HIDE DEF s
    <3>5. CASE s = i BY <3>4, <3>5
    <3>6. CASE s # i
      <4>1. new[s] = table[s] BY <3>2, <3>6
      <4>2. QED BY <3>3, <3>4, <4>1
    <3>7. QED BY <3>5, <3>6
  <2>7. Passes(new, h, d) BY <2>6 DEF Passes
  <2>8. PlacedBy(new, x, j, d) BY <2>4, <2>5, <2>7 DEF PlacedBy
  <2>9. Placed(new, x, j) BY <1>1, <2>8 DEF Placed
  <2>10. QED BY <1>3, <2>9
<1>5. \A j \in Occupied(new) : Whole(new[j]) BY <1>2, <1>3 DEF Searchable
<1>6. OnceEach(table) /\ OnceEach(new) BY <1>2, <1>3 DEF Searchable, OnceEach
<1>7. Searchable(new) BY <1>4, <1>5, <1>6 DEF Searchable
<1>8. \A w : ~Has(new, k, w) BY <1>2, <1>3, <1>6 DEF Has, OnceEach
<1>9. \A j, w : j # k => (Has(new, j, w) <=> Has(table, j, w)) BY <1>2, <1>3 DEF Has
<1>10. QED BY <1>7, <1>8, <1>9

(* The search for a key passes every slot before the one where it ends.    *)
LEMMA WalkPasses ==
  ASSUME NEW n \in Sizes, NEW table, Roomy(table, n), NEW k \in Keys,
         \E x \in 0 .. n - 1 : table[x].state = "EMPTY"
  PROVE  Probe(table, k).psl <= 127
<1> DEFINE h == Home(k, table)
           w == Walk(table, k)
           good == {d \in Nat : Passes(table, h, d)}
<1>1. table \in Tables(n) /\ n \in Nat BY DEF Roomy, Sizes
<1>2. DOMAIN table = 0 .. n - 1 BY <1>1 DEF Tables
<1>3. h \in 0 .. n - 1 BY <1>2, HomeIs
<1>4. /\ w \in 0 .. n - 1 /\ Probe(table, k).psl = UInt8(w)
      /\ \A d \in 0 .. n - 1 : EndsAt(table, k, d) => w <= d
  BY <1>1, WalkIs
<1> HIDE DEF w
<1>5. 0 \in good BY DEF Passes
<1>6. ASSUME NEW d \in 0 .. w - 1, d \in good PROVE d + 1 \in good
  <2>1. d \in Nat /\ d \in 0 .. n /\ d \in 0 .. n - 1 /\ ~(w <= d) BY <1>1, <1>4
  <2>2. Passes(table, h, d) BY <1>6
  <2>3. ~EndsAt(table, k, d) BY <1>4, <2>1
  <2> DEFINE e == table[Slot(h, d, table)]
  <2>4. e.state # "EMPTY" /\ ~(e.state = "OCCUPIED" /\ UInt8(d) > e.psl)
    BY <2>3 DEF EndsAt
  <2>5. Slot(h, d, table) \in 0 .. n - 1 BY <1>2, <1>3, <2>1, SlotIs
  <2>6. e \in Slots BY <1>1, <2>5 DEF Tables
  <2> HIDE DEF h
  <2>7. UInt8(d) = d BY <1>3, <2>1, <2>2, PassesRoom
  <2>8. e.state = "OCCUPIED" => e.psl \in Nat BY <2>6 DEF Slots, Stored, Unoccupied
  <2>9. e.state = "OCCUPIED" => e.psl >= d BY <2>1, <2>4, <2>7, <2>8
  <2>10. ASSUME NEW j \in 0 .. (d + 1) - 1
         PROVE  LET x == table[Slot(h, j, table)] IN
                x.state # "EMPTY" /\ (x.state = "OCCUPIED" => x.psl >= j)
    <3>1. CASE j = d BY <2>4, <2>9, <3>1
    <3>2. CASE j # d
      <4>1. j \in 0 .. d - 1 BY <2>1, <3>2
      <4>2. QED BY <2>2, <4>1 DEF Passes
    <3>3. QED BY <3>1, <3>2
  <2>11. Passes(table, h, d + 1) BY <2>10 DEF Passes
  <2>12. QED BY <2>1, <2>11
<1> HIDE DEF good
<1>7. w \in Nat BY <1>1, <1>4
<1>8. \A d \in 0 .. w : d \in good BY <1>5, <1>6, <1>7, UpTo
<1>9. w \in good BY <1>7, <1>8
<1>10. Passes(table, h, w) BY <1>9 DEF good
<1> HIDE DEF h
<1>11. w \in 0 .. n BY <1>1, <1>4
<1>12. w <= 127 /\ UInt8(w) = w BY <1>3, <1>10, <1>11, PassesRoom
<1>13. QED BY <1>4, <1>12

(* The table in which hash_put makes its insertion tells the same.         *)
LEMMA PutTableSearchable ==
  ASSUME PlainKeys, HashInv, Few, Searchable(entries), NEW k \in Keys, NEW v \in Values
  PROVE  /\ Roomy(PutTable, PutSize) /\ Searchable(PutTable)
         /\ \A j, w : Has(PutTable, j, w) <=> Has(entries, j, w)
         /\ PutPsl(k) \in Nat /\ PutPsl(k) <= 127
<1>1. /\ capacity \in Sizes /\ entries \in Tables(capacity) /\ Roomy(entries, capacity)
      /\ size = Cardinality(Occupied(entries)) /\ size \in Nat /\ size <= 127
      /\ \E x \in 0 .. capacity - 1 : entries[x].state = "EMPTY"
  BY RoomyEntries
<1>2. /\ PutSize \in Sizes /\ PutTable \in Tables(PutSize)
      /\ Counted(PutTable, size, PutTombstones, PutSize)
      /\ size + 1 + PutTombstones < PutSize /\ PutTombstones \in Nat
  BY PutTableIs
<1> DEFINE Goal == /\ Roomy(PutTable, PutSize) /\ Searchable(PutTable)
                   /\ \A j, w : Has(PutTable, j, w) <=> Has(entries, j, w)
                   /\ PutPsl(k) \in Nat /\ PutPsl(k) <= 127
<1>3. ASSUME ~Overloaded PROVE Goal
  <2>1. /\ PutTable = entries /\ PutSize = capacity /\ PutPsl(k) = Probe(entries, k).psl
    BY <1>3 DEF PutTable, PutSize, PutPsl
  <2>2. Probe(entries, k).psl \in 0 .. 255 BY <1>1, WalkIs
  <2>3. Probe(entries, k).psl <= 127 BY <1>1, WalkPasses
  <2>4. QED BY <1>1, <2>1, <2>2, <2>3
<1>4. ASSUME Overloaded PROVE Goal
  <2> DEFINE m == ResizeTarget(2 * capacity)
             new == Reinserted(entries, calloc(m))
  <2>1. PutTable = new /\ PutSize = m /\ PutPsl(k) = 0 /\ PutTombstones = 0
    BY <1>4 DEF PutTable, PutSize, PutPsl, PutTombstones, hash_resize
  <2> HIDE DEF m
  <2>2. m \in Sizes /\ m \in Nat BY <1>2, <2>1 DEF Sizes
  <2>3. size < m BY <1>1, <1>2, <2>1, <2>2
  <2>4. Cardinality(Occupied(entries)) < m /\ Cardinality(Occupied(entries)) <= 127
    BY <1>1, <2>3
  <2>5. /\ new \in Tables(m) /\ Deleted(new) = {}
        /\ Cardinality(Occupied(new)) = Cardinality(Occupied(entries))
    BY <1>1, <2>2, <2>4, Reinsertion
  <2>6. Searchable(new) /\ \A j, w : Has(new, j, w) <=> Has(entries, j, w)
    BY <1>1, <2>2, <2>4, ReinsertedSearchable
  <2> HIDE DEF new
  <2>7. Roomy(new, m) BY <2>2, <2>4, <2>5, RoomyWithout
  <2>8. QED BY <2>1, <2>6, <2>7
<1>5. QED BY <1>3, <1>4

LEMMA PutKeepsKeys ==
  ASSUME PlainKeys, HashInv, Few, KeysInv, NEW k \in Keys, NEW v \in Values,
         hash_put(k, v), ~reused', ~keyless'
  PROVE  Searchable(entries') /\ Tells(entries', promised')
<1> DEFINE at == Probe(entries, k)
           i == at.index
           x == [entries[i] EXCEPT !.value = v]
<1>1. /\ capacity \in Sizes /\ entries \in Tables(capacity) /\ Roomy(entries, capacity)
      /\ \E c \in 0 .. capacity - 1 : entries[c].state = "EMPTY"
  BY RoomyEntries
<1>2. capacity \in Nat /\ promised \in [Keys -> Values \cup {NULL}] /\ reused \in BOOLEAN
  BY <1>1 DEF Sizes, HashInv, HashType
<1>3. promised' = Told(k, v) BY PutIsAs
<1>4. i \in 0 .. capacity - 1 BY <1>1, WalkIs
<1>5. CASE /\ Holds(entries[i], k)
           /\ entries' = Put(entries, i, x)
           /\ UNCHANGED <<size, tombstones, reused, keyless>>
  <2>1. Searchable(entries) /\ Tells(entries, promised) BY <1>5 DEF KeysInv
  <2> HIDE DEF at
  <2>2. entries[i].state = "OCCUPIED" /\ entries[i].key = k BY <1>5 DEF Holds, keys_equal
  <2>3. i \in Occupied(entries) BY <1>2, <1>1, <1>4, <2>2, OccupiedIs
  <2>4. entries[i] \in Stored BY <1>1, <1>2, <2>3, OccupiedIs
  <2>5. /\ x \in Stored /\ x.psl = entries[i].psl /\ x.key = k /\ x.value = v
        /\ x.key_len = entries[i].key_len /\ x.kept = entries[i].kept
    BY <2>2, <2>4 DEF Stored, Pointers
  <2> DEFINE new == Put(entries, i, x)
  <2>6. new \in Tables(capacity)
    <3>1. x \in Slots BY <2>5 DEF Slots
    <3> HIDE DEF x, i
    <3>2. QED BY ONLY <1>1, <1>4, <3>1, PutIs
  <2> HIDE DEF i, x
  <2>7. /\ Searchable(new) /\ \A w : Has(new, k, w) <=> w = v
        /\ \A j, w : j # k => (Has(new, j, w) <=> Has(entries, j, w))
    <3>1. x.key = entries[i].key BY <2>2, <2>5
    <3>2. /\ Searchable(new) /\ \A w : Has(new, x.key, w) <=> w = x.value
          /\ \A j, w : j # x.key => (Has(new, j, w) <=> Has(entries, j, w))
      BY ONLY <1>1, <2>1, <2>3, <2>5, <3>1, UpdateSearchable
    <3>3. QED BY <2>5, <3>2
  <2> HIDE DEF new
  <2>8. Tells(new, Told(k, v))
    <3>1. v \in Pointers BY DEF Pointers
    <3>2. QED BY <1>1, <1>2, <2>1, <2>6, <2>7, <3>1, TellsChanged
  <2>9. entries' = new BY <1>5 DEF new
  <2>10. QED BY <1>3, <2>7, <2>8, <2>9
<1>6. CASE /\ ~Holds(entries[i], k)
           /\ Copied(PutResult(k, v).table, PutBefore)
           /\ reused' = (reused \/ PutTable[PutResult(k, v).slot].state = "DELETED")
  <2>1. ~reused /\ ~keyless /\ PutTable[PutResult(k, v).slot].state # "DELETED"
    BY <1>6, PutIsAs
  <2>2. Searchable(entries) /\ Tells(entries, promised) BY <2>1 DEF KeysInv
  <2>3. ~InTable(entries, k)
    <3>1. SUFFICES ASSUME NEW c \in Occupied(entries), entries[c].key = k PROVE FALSE
      BY DEF InTable
    <3>2. i = c /\ Holds(entries[c], k) BY <1>1, <2>2, <3>1, Finds
    <3> HIDE DEF at
    <3>3. QED BY <1>6, <3>2
  <2> HIDE DEF i, x, at
  <2> DEFINE n == PutSize
             table == PutTable
             e == NewEntry(k, v, PutPsl(k))
             home == Home(k, table)
             result == insert_entry(table, home, e, KeyLen[k])
  <2>4. /\ n \in Sizes /\ table \in Tables(n) /\ HasRoom(table) /\ home \in 0 .. n - 1
        /\ e \in Stored
    BY PutTableIs
  <2>5. /\ Roomy(table, n) /\ Searchable(table)
        /\ \A j, w : Has(table, j, w) <=> Has(entries, j, w)
        /\ PutPsl(k) \in Nat /\ PutPsl(k) <= 127
    BY <2>2, PutTableSearchable
  <2>6. PutResult(k, v) = result BY DEF PutResult
  <2>7. e.key = k /\ e.value = v /\ Whole(e) /\ e.psl <= 127
    BY <2>5 DEF NewEntry, Whole
  <2> HIDE DEF n, table, e
  <2>8. n \in Nat /\ KeyLen[k] \in Nat BY <2>4, HashTableAssumption DEF Sizes
  <2>9. ~InTable(table, e.key) /\ ~InTable(table, k)
    <3>1. /\ InTable(table, k) <=> \E w \in Pointers : Has(table, k, w)
          /\ InTable(entries, k) <=> \E w \in Pointers : Has(entries, k, w)
      BY <1>1, <1>2, <2>4, <2>8, InTableIsHas
    <3>2. QED BY <2>3, <2>5, <2>7, <3>1
  <2>10. /\ result.slot \in 0 .. n - 1 /\ table[result.slot].state # "OCCUPIED"
         /\ result.table \in Tables(n)
    BY <2>4, <2>8, Insertion
  <2>11. table[result.slot].state = "EMPTY"
    <3> HIDE DEF result
    <3>1. table[result.slot] \in Slots BY <2>4, <2>10 DEF Tables
    <3>2. table[result.slot].state # "DELETED" BY <2>1, <2>6 DEF table
    <3>3. QED BY <2>10, <3>1, <3>2 DEF Slots, Stored, Unoccupied
  <2>12. /\ Searchable(result.table)
         /\ \A j, w : Has(result.table, j, w) <=> Has(table, j, w) \/ Is(e, j, w)
    BY <2>4, <2>5, <2>7, <2>9, <2>11, InsertSearchable
  <2> DEFINE new == result.table
  <2>13. new \in Tables(n) /\ entries' = new
    <3>1. new \in Tables(n) /\ Copied(new, PutBefore) BY <1>6, <2>6, <2>10
    <3> HIDE DEF new
    <3>2. QED BY <2>8, <3>1, CopiedIs
  <2> HIDE DEF result, new
  <2>14. \A w \in Pointers : ~Has(table, k, w) BY <2>4, <2>8, <2>9, InTableIsHas
  <2>15. Has(new, k, v) /\ \A w \in Pointers : Has(new, k, w) => w = v
    BY <2>7, <2>12, <2>14 DEF Is, new
  <2>16. \A j, w : j # k => (Has(new, j, w) <=> Has(entries, j, w))
    BY <2>5, <2>7, <2>12 DEF Is, new
  <2>17. Tells(new, Told(k, v))
    <3>1. v \in Pointers BY DEF Pointers
    <3>2. QED BY <1>1, <1>2, <2>2, <2>8, <2>13, <2>15, <2>16, <3>1, TellsChanged
  <2>18. Searchable(new) BY <2>12 DEF new
  <2>19. QED BY <1>3, <2>13, <2>17, <2>18
<1> HIDE DEF at, x
<1>7. QED BY <1>5, <1>6, PutIsAs DEF at, x

LEMMA RemoveKeepsKeys ==
  ASSUME PlainKeys, HashInv, Few, KeysInv, NEW k \in Keys, hash_remove(k), ~reused', ~keyless'
  PROVE  Searchable(entries') /\ Tells(entries', promised')
<1>1. /\ capacity \in Sizes /\ entries \in Tables(capacity) /\ Roomy(entries, capacity)
      /\ \E c \in 0 .. capacity - 1 : entries[c].state = "EMPTY"
      /\ size = Cardinality(Occupied(entries)) /\ size \in Nat /\ size <= 127
  BY RoomyEntries
<1>2. /\ promised \in [Keys -> Values \cup {NULL}] /\ size < capacity
  BY InvFacts DEF HashInv, HashType
<1>3. capacity \in Nat BY <1>1 DEF Sizes
<1>4. PICK i \in At(entries, k) :
        /\ \/ entries' = Marked(i)
           \/ Copied(Reinserted(Marked(i), calloc(ResizeTarget(capacity))),
                     calloc(ResizeTarget(capacity)))
        /\ promised' = Told(k, NULL) /\ reused' = reused /\ ~keyless
  BY RemoveIsAs
<1>5. Searchable(entries) /\ Tells(entries, promised) BY <1>4 DEF KeysInv
<1>6. i \in 0 .. capacity - 1 /\ Holds(entries[i], k) /\ entries[i].state = "OCCUPIED"
  BY <1>1, AtIs
<1>7. entries[i].key = k BY <1>6 DEF Holds, keys_equal
<1>8. i \in Occupied(entries) BY <1>1, <1>3, <1>6, OccupiedIs
<1> DEFINE old == Marked(i)
           m == ResizeTarget(capacity)
           new == Reinserted(old, calloc(m))
<1>9. /\ old \in Tables(capacity) /\ old[i] = Unoccupied("DELETED")
      /\ \A j \in (0 .. capacity - 1) \ {i} : old[j] = entries[j]
      /\ Counted(old, size - 1, tombstones + 1, capacity) /\ size - 1 \in Nat
  BY <1>6, MarkedIs
<1>10. old[i].state = "DELETED" BY <1>9 DEF Unoccupied
<1> HIDE DEF old, m, new
<1>11. /\ Searchable(old) /\ \A w : ~Has(old, k, w)
       /\ \A j, w : j # k => (Has(old, j, w) <=> Has(entries, j, w))
  BY <1>1, <1>5, <1>7, <1>8, <1>9, <1>10, MarkSearchable
<1>12. Tells(old, Told(k, NULL)) BY <1>1, <1>2, <1>3, <1>5, <1>9, <1>11, TellsChanged
<1>13. CASE entries' = old BY <1>4, <1>11, <1>12, <1>13
<1>14. CASE Copied(new, calloc(m))
  <2>1. m \in Sizes /\ m >= capacity /\ m \in Nat BY <1>3, ResizeTargetIs DEF Sizes, m
  <2>2. Cardinality(Occupied(old)) = size - 1 BY <1>9 DEF Counted
  <2>3. Cardinality(Occupied(old)) < m /\ Cardinality(Occupied(old)) <= 127
    BY <1>1, <1>2, <1>3, <1>9, <2>1, <2>2
  <2>4. new \in Tables(m) BY <1>1, <1>9, <2>1, <2>3, Reinsertion DEF new
  <2>5. Searchable(new) /\ \A j, w : Has(new, j, w) <=> Has(old, j, w)
    BY <1>1, <1>9, <1>11, <2>1, <2>3, ReinsertedSearchable DEF new
  <2>6. Tells(new, Told(k, NULL)) BY <1>3, <1>9, <1>12, <2>1, <2>4, <2>5, TellsSame
  <2>7. entries' = new BY <1>14, <2>1, <2>4, CopiedIs
  <2>8. QED BY <1>4, <2>5, <2>6, <2>7
<1>15. QED BY <1>4, <1>13, <1>14 DEF old, new, m

LEMMA ResizeKeepsKeys ==
  ASSUME PlainKeys, HashInv, Few, KeysInv, NEW t \in Nat, size < ResizeTarget(t),
         Resize(t), ~reused', ~keyless'
  PROVE  Searchable(entries') /\ Tells(entries', promised')
<1> DEFINE m == ResizeTarget(t)
           new == Reinserted(entries, calloc(m))
<1>1. /\ capacity \in Sizes /\ entries \in Tables(capacity)
      /\ size = Cardinality(Occupied(entries)) /\ size \in Nat /\ size <= 127
  BY RoomyEntries
<1>2. Copied(new, calloc(m)) /\ promised' = promised /\ reused' = reused /\ ~keyless
  BY DEF Resize, hash_resize
<1>3. Searchable(entries) /\ Tells(entries, promised) BY <1>2 DEF KeysInv
<1>4. m \in Sizes /\ m \in Nat /\ capacity \in Nat BY <1>1, ResizeTargetIs DEF Sizes
<1>5. Cardinality(Occupied(entries)) < m /\ Cardinality(Occupied(entries)) <= 127 BY <1>1
<1> HIDE DEF m
<1>6. new \in Tables(m) BY <1>1, <1>4, <1>5, Reinsertion
<1>7. Searchable(new) /\ \A j, w : Has(new, j, w) <=> Has(entries, j, w)
  BY <1>1, <1>3, <1>4, <1>5, ReinsertedSearchable
<1> HIDE DEF new
<1>8. Tells(new, promised) BY <1>1, <1>3, <1>4, <1>6, <1>7, TellsSame
<1>9. entries' = new BY <1>2, <1>4, <1>6, CopiedIs
<1>10. QED BY <1>2, <1>7, <1>8, <1>9

LEMMA EmptyTells ==
  ASSUME NEW n \in Sizes
  PROVE  Searchable(calloc(n)) /\ Tells(calloc(n), [k \in Keys |-> NULL])
BY EmptySearchable DEF Tells

LEMMA KeysInvKept == PlainKeys /\ HashInv /\ Few /\ KeysInv /\ [HashNext]_hashVars => KeysInv'
<1>1. SUFFICES ASSUME PlainKeys, HashInv, Few, KeysInv, [HashNext]_hashVars, ~reused', ~keyless'
               PROVE  Searchable(entries') /\ Tells(entries', promised')
  BY DEF KeysInv
<1>2. ASSUME NEW k \in Keys, NEW v \in Values, hash_put(k, v)
      PROVE  Searchable(entries') /\ Tells(entries', promised')
  BY <1>1, <1>2, PutKeepsKeys
<1>3. ASSUME NEW k \in Keys, hash_remove(k)
      PROVE  Searchable(entries') /\ Tells(entries', promised')
  BY <1>1, <1>3, RemoveKeepsKeys
<1>4. CASE hash_clear
  <2>1. capacity \in Sizes BY <1>1 DEF HashInv, HashType
  <2>2. QED BY <1>4, <2>1, EmptyTells DEF hash_clear
<1>5. ASSUME NEW n \in 1 .. MaxCapacity, hash_reserve(n)
      PROVE  Searchable(entries') /\ Tells(entries', promised')
  BY <1>1, <1>5, ReserveIs, ResizeKeepsKeys
<1>6. CASE hash_shrink_to_fit BY <1>1, <1>6, ShrinkIs, ResizeKeepsKeys
<1>7. CASE UNCHANGED hashVars
  <2>1. /\ entries' = entries /\ promised' = promised
        /\ reused' = reused /\ keyless' = keyless
    BY <1>7 DEF hashVars
  <2>2. Searchable(entries) /\ Tells(entries, promised) BY <1>1, <2>1 DEF KeysInv
  <2>3. QED BY <2>1, <2>2
<1>8. QED BY <1>1, <1>2, <1>3, <1>4, <1>5, <1>6, <1>7 DEF HashNext

(* There are so few in every table that has not grown beyond the 128 slots *)
(* of HASH_INITIAL_CAPACITY.                                               *)
LEMMA FewInSmallTables == HashInv /\ capacity <= 128 => Few
<1>1. SUFFICES ASSUME HashInv, capacity <= 128 PROVE Few OBVIOUS
<1>2. /\ size \in Nat /\ tombstones \in Nat /\ capacity \in Nat
      /\ size + tombstones < capacity
  BY <1>1, InvFacts DEF HashInv, HashType, ProbesEnd
<1>3. QED BY <1>1, <1>2 DEF Few

(* A key that was put and not removed is found by hash_get with the last   *)
(* value put, and one that was removed is not found (hash.h:91-114): with  *)
(* keys of one length, up to 127 slots in use, until an insertion ends in  *)
(* a tombstone or the copy of a key fails, no exchange of insert_entry, no *)
(* update, tombstone or resize hides a key or gives it another value.  For *)
(* keys of HASH_INLINE_KEY_SIZE bytes the property claims nothing.         *)
THEOREM KeysAreKept == OneKeyLength => (HashSpec /\ []Few => []KeysKeptUntilReuse)
<1>1. SUFFICES ASSUME OneKeyLength PROVE HashSpec /\ []Few => []KeysKeptUntilReuse OBVIOUS
<1>2. CASE PlainKeys
  <2>1. hash_create => KeysInv
    <3>1. next_power_of_2(HASH_INITIAL_CAPACITY) \in Sizes BY HashTableAssumption, NextPowerIs
    <3>2. QED BY <3>1, EmptyTells DEF hash_create, KeysInv
  <2>2. KeysInv /\ HashInv /\ Few /\ [HashNext]_hashVars => KeysInv' BY <1>2, KeysInvKept
  <2>3. HashInv /\ Few /\ KeysInv => KeysKeptUntilReuse BY KeysInvKeeps
  <2>4. QED BY <2>1, <2>2, <2>3, HashInvHolds, PTL DEF HashSpec
<1>3. CASE ~PlainKeys
  <2>1. \A k \in Keys : KeyLen[k] = HASH_INLINE_KEY_SIZE
    <3>1. PICK j \in Keys : KeyLen[j] = HASH_INLINE_KEY_SIZE BY <1>1, <1>3 DEF PlainKeys
    <3>2. QED BY <1>1, <3>1 DEF OneKeyLength
  <2>2. KeysKeptUntilReuse BY <2>1 DEF KeysKeptUntilReuse
  <2>3. QED BY <2>2, PTL
<1>4. QED BY <1>2, <1>3
==============================================================================

-------------------------------- MODULE Kvalot --------------------------------
(***************************************************************************)
(* The key-value store of lib/kvalh.c: the pairs lie without gaps in a     *)
(* pool, and a table of buckets lists for each hash value the positions of *)
(* the pairs that have it.  Positions count from 1.  A bucket is the set   *)
(* of the positions it lists; their order decides only the cost of a       *)
(* search.  A call that fails changes nothing, except that an addition may *)
(* already have enlarged the table, or begun to: a resize without memory   *)
(* for some bucket keeps the old table, but the pairs it came past have    *)
(* their hash_index for the new one.  A removal that then moves such a     *)
(* pair tells another bucket than the one that lists it, or memory past    *)
(* the table: the store has gone astray, and only clearing it is followed. *)
(* Left out: the capacities of the arrays and the copies of a store.       *)
(*                                                                         *)
(* A definition whose name says what it does wrong is a faulty variant of  *)
(* the one after it, which the specification does not use.                 *)
(***************************************************************************)
EXTENDS Stores, Sequences

CONSTANT BucketCounts  (* the sizes a table can have: 1024, 4096, ...      *)

ASSUME KvalotAssumption ==
  BucketCounts \subseteq Nat \ {0} /\ \E n \in BucketCounts : \A m \in BucketCounts : n <= m

VARIABLES
  keypool,     (* the pairs                                                *)
  hash_table,  (* the buckets, from 0                                      *)
  num_buckets,
  astray       (* history: a removal has told the wrong bucket             *)

kvalotVars == <<keypool, hash_table, num_buckets, astray>>

Smallest(counts) == CHOOSE n \in counts : \A m \in counts : n <= m
Larger == {n \in BucketCounts : n > num_buckets}

EmptyTable(n) == [b \in 0 .. n - 1 |-> {}]

Pair(k, v, n) == [key |-> k, value |-> v, hash_index |-> Hash[k] % n]

(* The position of k according to a bucket of a table, 0 if it has none.   *)
find_key_in_bucket(pool, bucket, k) ==
  IF \E i \in bucket : pool[i].key = k
  THEN CHOOSE i \in bucket : pool[i].key = k
  ELSE 0

kvalot_create ==
  /\ num_buckets = Smallest(BucketCounts)
  /\ hash_table = EmptyTable(num_buckets)
  /\ keypool = <<>>
  /\ astray = FALSE

(* The pool and the table after a move to n buckets. *)
Rehashed(n) == [i \in DOMAIN keypool |-> Pair(keypool[i].key, keypool[i].value, n)]
resize_hash_table_by_the_old_count(n) ==
  [b \in 0 .. n - 1 |-> {i \in DOMAIN keypool : Hash[keypool[i].key] % num_buckets = b}]
resize_hash_table(n) ==
  [b \in 0 .. n - 1 |-> {i \in DOMAIN keypool : Hash[keypool[i].key] % n = b}]

(* A resize that fails after some of the pairs. *)
resize_hash_table_fails ==
  /\ AllocFails
  /\ \E done \in 0 .. Len(keypool) - 1 :
       keypool' = SubSeq(Rehashed(Smallest(Larger)), 1, done)
                    \o SubSeq(keypool, done + 1, Len(keypool))
  /\ UNCHANGED <<hash_table, num_buckets, astray>>

(* HASH_LOAD_FACTOR is 0.75. *)
Crowded == 4 * (Len(keypool) + 1) >= 3 * num_buckets

kvalot_add(k, v) ==
  LET n     == IF Crowded THEN Smallest(Larger) ELSE num_buckets
      pool  == IF Crowded THEN Rehashed(n) ELSE keypool
      table == IF Crowded THEN resize_hash_table(n) ELSE hash_table
      b     == Hash[k] % n
      known == find_key_in_bucket(pool, table[b], k) # 0
  IN
  /\ ~astray
  /\ Crowded => Larger # {}
  /\ \/ /\ ~known
        /\ keypool' = Append(pool, Pair(k, v, n))
        /\ hash_table' = [table EXCEPT ![b] = @ \cup {Len(pool) + 1}]
        /\ num_buckets' = n
        /\ UNCHANGED astray
     \/ /\ known \/ AllocFails
        /\ keypool' = pool /\ hash_table' = table /\ num_buckets' = n
        /\ UNCHANGED astray
     \/ Crowded /\ resize_hash_table_fails

kvalot_find(k) ==
  LET i == find_key_in_bucket(keypool, hash_table[Hash[k] % num_buckets], k)
  IN IF i = 0 THEN NULL ELSE keypool[i].value

(* The last pair moves into the gap, and the bucket of its hash_index is   *)
(* told, if it lists the pair; when the last pair is itself the one        *)
(* removed there is no gap.                                                *)
Relisted_not_told(table, bucket, from, to) == table
Relisted(table, bucket, from, to) ==
  IF from # to /\ bucket \in DOMAIN table /\ from \in table[bucket]
  THEN [table EXCEPT ![bucket] = (@ \ {from}) \cup {to}]
  ELSE table

kvalot_remove(k) ==
  LET b    == Hash[k] % num_buckets
      i    == find_key_in_bucket(keypool, hash_table[b], k)
      last == Len(keypool)
  IN
  /\ ~astray
  /\ i # 0
  /\ keypool' = [j \in 1 .. last - 1 |-> IF j = i THEN keypool[last] ELSE keypool[j]]
  /\ hash_table' = Relisted([hash_table EXCEPT ![b] = @ \ {i}],
                            keypool[last].hash_index, last, i)
  /\ astray' = (i # last /\ keypool[last].hash_index # Hash[keypool[last].key] % num_buckets)
  /\ UNCHANGED num_buckets

(* The buckets are emptied whatever they list. *)
kvalot_clear ==
  /\ keypool' = <<>>
  /\ hash_table' = EmptyTable(num_buckets)
  /\ astray' = FALSE
  /\ UNCHANGED num_buckets

KvalotNext ==
  \/ \E k \in Keys, v \in Values : kvalot_add(k, v)
  \/ \E k \in Keys : kvalot_remove(k)
  \/ kvalot_clear

KvalotSpec == kvalot_create /\ [][KvalotNext]_kvalotVars

-----------------------------------------------------------------------------
(* Properties *)

(* The pool has each key once and the buckets list each pair exactly       *)
(* where its key's hash says, through additions, removals that move the    *)
(* last pair, and resizes, complete or not.  A hash_index is right, or is  *)
(* the one of a larger table that there was no memory for.  This ends with *)
(* the removal that moves a pair whose hash_index is not right             *)
(* (kvalh.c:530): after it a bucket still lists the old position.          *)
BucketsExact ==
  ~astray =>
    /\ \A i, j \in DOMAIN keypool : keypool[i].key = keypool[j].key => i = j
    /\ DOMAIN hash_table = 0 .. num_buckets - 1
    /\ \A b \in DOMAIN hash_table :
         hash_table[b] = {i \in DOMAIN keypool : Hash[keypool[i].key] % num_buckets = b}
    /\ \A i \in DOMAIN keypool :
         \/ keypool[i].hash_index = Hash[keypool[i].key] % num_buckets
         \/ \E n \in Larger : keypool[i].hash_index = Hash[keypool[i].key] % n

(* What kvalot_find answers is the map the calls have made, as long as no  *)
(* removal has told the wrong bucket: an addition gives its key its value, *)
(* unless it has one or memory is short, a removal takes its key only, a   *)
(* resize and a call that fails change no answer.                          *)
Contents ==
  IF astray THEN << >>
  ELSE [k \in {key \in Keys : kvalot_find(key) # NULL} |-> kvalot_find(k)]
M == INSTANCE Map WITH map <- Contents, whole <- ~astray
CallsDoAsTheirKeySays ==
  /\ \A k \in Keys, v \in Values :
       kvalot_add(k, v) =>
         M!Add(k, v) \/ (UNCHANGED Contents /\ (k \in DOMAIN Contents \/ AllocFails))
  /\ \A k \in Keys : kvalot_remove(k) => M!Remove(k) \/ astray'
  /\ kvalot_clear => M!Clear
KvalotImplementsMap ==
  M!Spec /\ [][UNCHANGED kvalotVars \/ CallsDoAsTheirKeySays]_kvalotVars
==============================================================================

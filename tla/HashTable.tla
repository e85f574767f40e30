------------------------------ MODULE HashTable ------------------------------
(***************************************************************************)
(* The open-addressing table of lib/hash.c: Robin Hood insertion, removal  *)
(* by tombstones, growth by load.  Slots count from 0.  An entry has the   *)
(* key it was made for (with its hash), the length under which the key is  *)
(* stored and how many bytes of the key are left, which insert_entry can   *)
(* change.  Different keys have different 32-bit hashes.  A key of just    *)
(* HASH_INLINE_KEY_SIZE bytes fills the room for it, and its terminator    *)
(* clears the low byte of the pointer behind it.  A longer key is copied,  *)
(* and nothing notices when there is no memory for the copy: the entry is  *)
(* occupied and has no key.  What reads that key is undefined, so that of  *)
(* a table with such an entry only the clearing is followed.  Left out:    *)
(* the statistics, what a slot that is not occupied last held, and keys of *)
(* 256 bytes and more: the temp_key of insert_entry has no room for one,   *)
(* and what it displaces gets the key of the call instead.                 *)
(*                                                                         *)
(* A definition whose name says what it does wrong is a faulty variant of  *)
(* the one after it, which the specification does not use.                 *)
(***************************************************************************)
EXTENDS Stores, FiniteSetsExt

CONSTANTS
  KeyLen,                 (* the length of each key: temp_key holds 255    *)
  HASH_INLINE_KEY_SIZE,   (* 24 in hash.h                                  *)
  HASH_INITIAL_CAPACITY,  (* 128 in hash.h, a power of 2                   *)
  MaxCapacity             (* bound: hash_put and hash_reserve grow no more *)

ASSUME HashTableAssumption ==
  /\ KeyLen \in [Keys -> 0 .. 255] /\ HASH_INLINE_KEY_SIZE \in Nat
  /\ HASH_INITIAL_CAPACITY \in Nat \ {0} /\ MaxCapacity \in Nat

VARIABLES
  entries,     (* the slots: state, psl, key, key_len, kept, value         *)
  size, tombstones,
  promised,    (* history: what the calls have stored, NULL for nothing    *)
  reused,      (* history: an insertion has ended in a tombstone since the *)
               (* table was last empty for sure                            *)
  keyless      (* history: the copy of a long key has failed               *)

hashVars == <<entries, size, tombstones, promised, reused, keyless>>

Capacity(table) == Cardinality(DOMAIN table)
capacity == Capacity(entries)
Home(k, table) == Hash[k] % Capacity(table)
Slot(index, d, table) == (index + d) % Capacity(table)   (* d steps on *)
UInt8(n) == n % 256

Unoccupied(state) ==
  [state |-> state, psl |-> 0, key |-> NULL, key_len |-> 0, kept |-> 0, value |-> NULL]
calloc(n) == [i \in 0 .. n - 1 |-> Unoccupied("EMPTY")]
Occupied(table) == {i \in DOMAIN table : table[i].state = "OCCUPIED"}
Deleted(table) == {i \in DOMAIN table : table[i].state = "DELETED"}

(* The pointer whose low byte has been cleared; clearing it again does     *)
(* nothing.                                                                *)
LowByteCleared(pointer) ==
  IF pointer \in Values THEN [low_byte_cleared |-> pointer] ELSE pointer

entry_set_key(entry, len) ==
  [entry EXCEPT !.key_len = len, !.kept = Min({@, len}),
                !.value = IF len = HASH_INLINE_KEY_SIZE THEN LowByteCleared(@) ELSE @]
keys_equal(entry, k) == entry.key = k /\ entry.key_len = KeyLen[k] /\ entry.kept = KeyLen[k]
Holds(entry, k) == entry.state = "OCCUPIED" /\ keys_equal(entry, k)

(* The least power of 2 that is not below n. *)
next_power_of_2(n) ==
  LET power[b \in 0 .. n] == IF b = 0 THEN 1 ELSE 2 * power[b - 1]
  IN Min({power[b] : b \in {c \in 0 .. n : power[c] >= n}})

(* The walk of a search for key k: it ends at the key, at an empty slot,   *)
(* or at an entry nearer to its home than the walk is to its own, within   *)
(* one round, since there is an empty slot (ProbesEnd).  The limit of 255  *)
(* steps in the code never applies to an 8-bit counter.                    *)
EndsAt(table, k, d) ==
  LET e == table[Slot(Home(k, table), d, table)] IN
  \/ e.state = "EMPTY" \/ Holds(e, k)
  \/ e.state = "OCCUPIED" /\ UInt8(d) > e.psl
Walk(table, k) == Min({d \in 0 .. Capacity(table) - 1 : EndsAt(table, k, d)})
Probe(table, k) ==
  [index |-> Slot(Home(k, table), Walk(table, k), table), psl |-> UInt8(Walk(table, k))]

(* hash_get and hash_remove test the distance before the key.              *)
At(table, k) ==
  LET at == Probe(table, k)
      e  == table[at.index]
  IN IF Holds(e, k) /\ at.psl <= e.psl THEN {at.index} ELSE {}
hash_get(k) == LET at == At(entries, k) IN
  IF at = {} THEN NULL ELSE entries[CHOOSE i \in at : TRUE].value

(* How far from index the first slot is that is not occupied. *)
FreeAfter(table, index) ==
  Min({d \in 0 .. Capacity(table) - 1 : table[Slot(index, d, table)].state # "OCCUPIED"})

Further(e) == [e EXCEPT !.psl = UInt8(@ + 1)]

(* The loop of insert_entry passes occupied slot i with an entry in hand,  *)
(* exchanged if the one in the slot is nearer to its home.  Whatever entry *)
(* ends in a slot, its key is stored with the length of the key of the call. *)
Passed(loop, i, len) ==
  LET here == loop.table[i] IN
  IF here.psl < loop.hand.psl
  THEN [table |-> [loop.table EXCEPT ![i] = entry_set_key(loop.hand, len)],
        hand  |-> Further(here)]
  ELSE [table |-> loop.table, hand |-> Further(loop.hand)]

(* Entry e goes in at the first free slot from index on. *)
insert_entry_never_swaps(table, index, e, len) ==
  LET last == FreeAfter(table, index)
      slot == Slot(index, last, table)
  IN [table |-> [table EXCEPT ![slot] = entry_set_key([e EXCEPT !.psl = UInt8(@ + last)], len)],
      slot  |-> slot]
insert_entry(table, index, e, len) ==
  LET last == FreeAfter(table, index)
      slot == Slot(index, last, table)
      loop[d \in 0 .. last] ==
        IF d = 0 THEN [table |-> table, hand |-> e]
        ELSE Passed(loop[d - 1], Slot(index, d - 1, table), len)
  IN [table |-> [loop[last].table EXCEPT ![slot] = entry_set_key(loop[last].hand, len)],
      slot  |-> slot]

NewEntry(k, v, psl) ==
  [state |-> "OCCUPIED", psl |-> psl, key |-> k, key_len |-> KeyLen[k],
   kept |-> KeyLen[k], value |-> v]

(* The occupied slots, put into a new table in their order. *)
Reinserted(old, new) ==
  LET filled[i \in 0 .. Capacity(old)] ==
        IF i = 0 THEN new
        ELSE IF old[i - 1].state # "OCCUPIED" THEN filled[i - 1]
        ELSE insert_entry(filled[i - 1], Home(old[i - 1].key, new),
                          [old[i - 1] EXCEPT !.psl = 0], old[i - 1].key_len).table
  IN filled[Capacity(old)]

ResizeTarget(n) ==
  next_power_of_2(IF n < HASH_INITIAL_CAPACITY THEN HASH_INITIAL_CAPACITY ELSE n)
hash_resize(n) == Reinserted(entries, calloc(ResizeTarget(n)))

hash_create ==
  /\ entries = calloc(next_power_of_2(HASH_INITIAL_CAPACITY))
  /\ size = 0 /\ tombstones = 0
  /\ promised = [k \in Keys |-> NULL] /\ reused = FALSE /\ keyless = FALSE

(* A call that makes this table of the one before sets a key in each slot  *)
(* that is new: the copy of a long one may fail, and what length that      *)
(* entry has is not read any more.                                         *)
Copied(table, before) ==
  \/ entries' = table /\ UNCHANGED keyless
  \/ /\ AllocFails
     /\ \E lost \in SUBSET {i \in Occupied(table) : /\ table[i].key_len > HASH_INLINE_KEY_SIZE
                                                    /\ table[i] # before[i]} :
          /\ lost # {}
          /\ entries' = [i \in DOMAIN table |->
                          IF i \in lost THEN [table[i] EXCEPT !.kept = 0] ELSE table[i]]
     /\ keyless' = TRUE

(* HASH_MAX_LOAD_FACTOR is 0.85. *)
Overloaded == 100 * (size + tombstones + 1) > 85 * capacity

(* After a resize the distance counts from 0 again, otherwise it is the    *)
(* one at which the search ended.                                          *)
hash_put(k, v) ==
  LET at     == Probe(entries, k)
      table  == IF Overloaded THEN hash_resize(2 * capacity) ELSE entries
      psl    == IF Overloaded THEN 0 ELSE at.psl
      result == insert_entry(table, Home(k, table), NewEntry(k, v, psl), KeyLen[k])
      before == IF Overloaded THEN calloc(Capacity(table)) ELSE entries
  IN
  /\ ~keyless
  /\ promised' = [promised EXCEPT ![k] = v]
  /\ \/ /\ Holds(entries[at.index], k)
        /\ entries' = [entries EXCEPT ![at.index].value = v]
        /\ UNCHANGED <<size, tombstones, reused, keyless>>
     \/ /\ ~Holds(entries[at.index], k)
        /\ Overloaded => 2 * capacity <= MaxCapacity
        /\ Copied(result.table, before)
        /\ size' = size + 1
        /\ tombstones' = IF Overloaded THEN 0 ELSE tombstones
        /\ reused' = (reused \/ table[result.slot].state = "DELETED")

(* The tombstones are cleared out when they take up a quarter; that fails  *)
(* unnoticed without memory.                                               *)
hash_remove_uncounted(k) ==
  /\ At(entries, k) # {}
  /\ \E i \in At(entries, k) :
       entries' = [entries EXCEPT ![i] = Unoccupied("DELETED")]
  /\ size' = size - 1
  /\ promised' = [promised EXCEPT ![k] = NULL]
  /\ UNCHANGED <<tombstones, reused, keyless>>
hash_remove(k) ==
  /\ ~keyless
  /\ At(entries, k) # {}
  /\ \E i \in At(entries, k) :
       LET marked == [entries EXCEPT ![i] = Unoccupied("DELETED")]
           clear  == tombstones + 1 > capacity \div 4
           fresh  == calloc(ResizeTarget(capacity))
       IN \/ /\ ~clear \/ AllocFails
             /\ entries' = marked /\ tombstones' = tombstones + 1
             /\ UNCHANGED keyless
          \/ /\ clear
             /\ Copied(Reinserted(marked, fresh), fresh)
             /\ tombstones' = 0
  /\ size' = size - 1
  /\ promised' = [promised EXCEPT ![k] = NULL]
  /\ UNCHANGED reused

hash_clear ==
  /\ entries' = calloc(capacity)
  /\ size' = 0 /\ tombstones' = 0
  /\ promised' = [k \in Keys |-> NULL] /\ reused' = FALSE /\ keyless' = FALSE

Resize(n) ==
  /\ ~keyless
  /\ Copied(hash_resize(n), calloc(ResizeTarget(n)))
  /\ tombstones' = 0
  /\ UNCHANGED <<size, promised, reused>>

hash_reserve(n) ==
  LET target == (100 * n) \div 85 IN
  target > capacity /\ ResizeTarget(target) <= MaxCapacity /\ Resize(target)

(* HASH_MIN_LOAD_FACTOR is 0.25. *)
hash_shrink_to_fit == 4 * size < capacity \div 2 /\ Resize(4 * size)

HashNext ==
  \/ \E k \in Keys, v \in Values : hash_put(k, v)
  \/ \E k \in Keys : hash_remove(k)
  \/ hash_clear
  \/ \E n \in 1 .. MaxCapacity : hash_reserve(n)
  \/ hash_shrink_to_fit

HashSpec == hash_create /\ [][HashNext]_hashVars

-----------------------------------------------------------------------------
(* Properties *)

(* Every search ends: there is always an empty slot, because the counts    *)
(* that decide on growth never fall behind the slots in use, although a    *)
(* tombstone that is reused stays counted.                                 *)
ProbesEnd ==
  /\ size = Cardinality(Occupied(entries))
  /\ Cardinality(Deleted(entries)) <= tombstones
  /\ size + tombstones < capacity

(* A key that was put and not removed is found with its last value, and a  *)
(* key that was removed is not found (hash.h:91-114).                      *)
KeysKept == \A k \in Keys : hash_get(k) = promised[k]

(* It is so, for keys of one length, until an insertion ends in a          *)
(* tombstone or the copy of a key fails: the exchanges of insertions,      *)
(* updates, growth and shrinking hide no key and spoil no value.  But the  *)
(* value of a key of HASH_INLINE_KEY_SIZE bytes is spoilt (hash.c:74) by   *)
(* its insertion, and an update makes it good only until the next exchange *)
(* or resize moves the entry.                                              *)
KeysKeptUntilReuse ==
  ~reused /\ ~keyless =>
    \A k \in Keys : KeyLen[k] # HASH_INLINE_KEY_SIZE => hash_get(k) = promised[k]
==============================================================================

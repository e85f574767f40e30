-------------------------------- MODULE Stores --------------------------------
(***************************************************************************)
(* What the in-memory data structures of lib/ have in common: the keys and *)
(* values they hold, the hash function, and the allocator's right to fail. *)
(* murmur_hash of kvalh.c and murmur_hash3 of hash.c are two copies of one *)
(* function, of which only the result for each key matters.                *)
(***************************************************************************)
EXTENDS Integers

CONSTANTS
  Keys,        (* the strings used as keys                 *)
  Values,      (* what is stored                           *)
  NULL,        (* the null pointer, "not found"            *)
  Hash,        (* the 32-bit hash of each key              *)
  AllocFails   (* whether malloc, calloc and realloc may fail *)

ASSUME StoresAssumption ==
  /\ Hash \in [Keys -> Nat] /\ AllocFails \in BOOLEAN
  /\ NULL \notin Values
==============================================================================

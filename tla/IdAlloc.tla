------------------------------- MODULE IdAlloc -------------------------------
(***************************************************************************)
(* The identifier allocator of lib/getid.c.  It owns one bitmap for each   *)
(* kind of identifier (session, user, group); a bitmap is modelled by the  *)
(* set of the identifiers whose bit is 1.  Each bitmap has its own mutex   *)
(* and each operation holds it from the search to the write, so an         *)
(* operation is one atomic function from the old set to the new one.       *)
(* The bitmaps live in memory only: a restart starts from the empty set.   *)
(***************************************************************************)
EXTENDS Integers

CONSTANTS
  FirstCommonUid,  (* first user id of class COMMON_UID, 100 in getid.c   *)
  LastId           (* last identifier of every bitmap, 65535 in getid.c   *)

ASSUME IdAssumption ==
  /\ FirstCommonUid \in Nat \ {0}
  /\ LastId \in Nat
  /\ FirstCommonUid <= LastId

(* The error value of the repository, returned when no bit is free. *)
merr == -1

Ids == 0 .. LastId

(* The classes: only the ones some caller asks for. *)
COMMON_UID == FirstCommonUid .. LastId
COMMON_GID == 1 .. LastId

(* idalloc_init: three bitmaps with every bit 0. *)
NoneAllocated == {}

(* The first identifier of the class whose bit is 0, merr when there is    *)
(* none.                                                                   *)
FirstFree(taken, class) ==
  IF class \subseteq taken
  THEN merr
  ELSE CHOOSE i \in class \ taken : \A j \in class \ taken : i <= j

(* A faulty variant that searches the whole bitmap. *)
get_uid_of_any_class(taken) == FirstFree(taken, Ids)

get_uid(taken) == FirstFree(taken, COMMON_UID)
get_gid(taken) == FirstFree(taken, COMMON_GID)

(* A faulty variant that does not see what is taken. *)
get_sid_regardless(taken) == FirstFree({}, Ids)
get_sid(taken) == FirstFree(taken, Ids)

(* Freeing an identifier of another class is refused and changes nothing.  *)
del_uid(taken, uid) == IF uid \in COMMON_UID THEN taken \ {uid} ELSE taken
del_gid(taken, gid) == IF gid \in COMMON_GID THEN taken \ {gid} ELSE taken
del_sid(taken, sid) == taken \ {sid}
==============================================================================

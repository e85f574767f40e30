-------------------------------- MODULE Lists --------------------------------
(***************************************************************************)
(* Operators on sequences that stand for the C arrays of the repository:   *)
(* positions count from 1 and 0 stands for "not found".                    *)
(***************************************************************************)
EXTENDS Integers, Sequences, FiniteSetsExt

(* No element occurs twice. *)
Distinct(s) == \A i, j \in DOMAIN s : s[i] = s[j] => i = j

Contains(s, e) == \E i \in DOMAIN s : s[i] = e

(* The elements after position k move up by one, as the loops              *)
(* "a[i] = a[i + 1]" and the memmove calls of the repository do.           *)
RemoveAt(s, k) == [i \in 1 .. Len(s) - 1 |-> IF i < k THEN s[i] ELSE s[i + 1]]

(* At most the first n elements. *)
Truncated(s, n) == IF Len(s) <= n THEN s ELSE SubSeq(s, 1, n)

(* The last of a set of positions. *)
LastOf(positions) == IF positions = {} THEN 0 ELSE Max(positions)

(* The first position of e in s, 0 if there is none. *)
PositionOf(s, e) ==
  IF Contains(s, e)
  THEN CHOOSE i \in DOMAIN s : s[i] = e /\ \A j \in 1 .. i - 1 : s[j] # e
  ELSE 0

(* The elements of s that are in S, in their order. *)
Only(s, S) ==
  LET kept[i \in 0 .. Len(s)] ==
        IF i = 0 THEN <<>>
        ELSE IF s[i] \in S THEN Append(kept[i - 1], s[i]) ELSE kept[i - 1]
  IN kept[Len(s)]
==============================================================================

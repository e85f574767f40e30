---------------------------------- MODULE Map ----------------------------------
(***************************************************************************)
(* What a key-value store promises: a finite map from keys to values,      *)
(* while it is whole.                                                      *)
(***************************************************************************)
CONSTANTS Keys, Values

VARIABLES
  map,
  whole        (* FALSE while nothing is promised (see Kvalot)             *)

vars == <<map, whole>>

Init == map = [k \in {} |-> CHOOSE v \in Values : TRUE] /\ whole = TRUE

Add(k, v) ==
  /\ k \notin DOMAIN map
  /\ map' = [x \in DOMAIN map \cup {k} |-> IF x = k THEN v ELSE map[x]]

Remove(k) ==
  /\ k \in DOMAIN map
  /\ map' = [x \in DOMAIN map \ {k} |-> map[x]]

Clear == map' = [k \in {} |-> CHOOSE v \in Values : TRUE]

(* The promise ends, until the map is cleared. *)
End == ~whole'

Next ==
  \/ End
  \/ whole' /\ Clear
  \/ /\ whole /\ whole'
     /\ \E k \in Keys : Remove(k) \/ \E v \in Values : Add(k, v)

Spec == Init /\ [][Next]_vars
==============================================================================

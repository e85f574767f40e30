--------------------------------- MODULE Deque ---------------------------------
(***************************************************************************)
(* What a list promises: a sequence with insertion, removal and update at  *)
(* any position, counted from 1.                                           *)
(***************************************************************************)
EXTENDS Integers, SequencesExt

CONSTANT Values

VARIABLE items

Init == items = <<>>

Insert(i, v) == i \in 1 .. Len(items) + 1 /\ items' = InsertAt(items, i, v)
Delete(i) == i \in DOMAIN items /\ items' = RemoveAt(items, i)
Update(i, v) == i \in DOMAIN items /\ items' = [items EXCEPT ![i] = v]
Swap(i, j) ==
  /\ {i, j} \subseteq DOMAIN items
  /\ items' = [items EXCEPT ![i] = items[j], ![j] = items[i]]
Clear == items' = <<>>

Next ==
  \/ \E i \in 1 .. Len(items) + 1, v \in Values : Insert(i, v)
  \/ \E i \in DOMAIN items : Delete(i) \/ (\E v \in Values : Update(i, v))
  \/ \E i, j \in DOMAIN items : Swap(i, j)
  \/ Clear

Spec == Init /\ [][Next]_items
==============================================================================

------------------------------ MODULE BlockList ------------------------------
(***************************************************************************)
(* The list of lib/list.c: a chain of blocks of fixed size, each holding   *)
(* its elements side by side from "start" on, with room left on both       *)
(* sides.  The chain is a sequence, a block is its start (from 0) and its  *)
(* elements; a position in the list counts from 0, as in the calls.  A     *)
(* call that fails, or that finds nothing, changes no element.             *)
(*                                                                         *)
(* A definition whose name says what it does wrong is a faulty variant of  *)
(* the one after it, which the specification does not use.                 *)
(***************************************************************************)
EXTENDS Stores, SequencesExt

CONSTANTS
  UINTDEQUE_BLOCK_SIZE,   (* 4096 *)
  MIN_BLOCK_SIZE,         (* 512  *)
  MaxLength               (* bound: a longer list takes no more            *)

ASSUME BlockListAssumption ==
  /\ UINTDEQUE_BLOCK_SIZE \in Nat \ {0, 1} /\ MIN_BLOCK_SIZE \in Nat
  /\ MaxLength \in Nat

VARIABLES
  blocks,      (* the chain                                                *)
  num          (* the count of the elements                                *)

listVars == <<blocks, num>>

Elements ==
  LET upto[b \in 0 .. Len(blocks)] ==
        IF b = 0 THEN <<>> ELSE upto[b - 1] \o blocks[b].items
  IN upto[Len(blocks)]

Size(blk) == Len(blk.items)
block_left_space(blk) == blk.start
block_right_space(blk) == UINTDEQUE_BLOCK_SIZE - (blk.start + Size(blk))
block_is_centered(blk) ==
  /\ blk.start >= UINTDEQUE_BLOCK_SIZE \div 4
  /\ blk.start + Size(blk) <= (UINTDEQUE_BLOCK_SIZE * 3) \div 4

Middle(n) == (UINTDEQUE_BLOCK_SIZE - n) \div 2
center_block(blk) ==
  IF block_is_centered(blk) THEN blk ELSE [blk EXCEPT !.start = Middle(Size(blk))]

NewBlock == [start |-> UINTDEQUE_BLOCK_SIZE \div 2, items |-> <<>>]

(* The block and the offset of a position: the first block whose elements, *)
(* with those before it, reach past the position.                          *)
locate(chain, pos) ==
  LET before[b \in DOMAIN chain] ==
        IF b = 1 THEN 0 ELSE before[b - 1] + Size(chain[b - 1])
      found == CHOOSE b \in DOMAIN chain :
                 before[b] <= pos /\ pos < before[b] + Size(chain[b])
  IN [block |-> found, offset |-> pos - before[found]]

(* A full block is cut in two; without memory it stays as it is. *)
split_block(chain, b) ==
  LET blk == chain[b]
      mid == Size(blk) \div 2
      low == [blk EXCEPT !.items = SubSeq(@, 1, mid)]
      top == [start |-> Middle(Size(blk) - mid),
              items |-> SubSeq(blk.items, mid + 1, Size(blk))]
  IN IF Size(blk) < UINTDEQUE_BLOCK_SIZE THEN {chain}
     ELSE {ReplaceAt(InsertAt(chain, b + 1, center_block(top)), b, center_block(low))}
          \cup (IF AllocFails THEN {chain} ELSE {})

(* Block b takes in the next one if the elements of both fit in it. *)
merge_block_unchecked(chain, b) ==
  IF b \in DOMAIN chain /\ b + 1 \in DOMAIN chain
  THEN RemoveAt([chain EXCEPT ![b] =
         center_block([start |-> 0, items |-> chain[b].items \o chain[b + 1].items])], b + 1)
  ELSE chain
merge_block(chain, b) ==
  IF /\ {b, b + 1} \subseteq DOMAIN chain
     /\ Size(chain[b]) + Size(chain[b + 1]) <= UINTDEQUE_BLOCK_SIZE
  THEN RemoveAt([chain EXCEPT ![b] =
         center_block([start |-> 0, items |-> chain[b].items \o chain[b + 1].items])], b + 1)
  ELSE chain

(* After block b has lost an element: it goes when it is empty, and when   *)
(* it is small it is merged with the block after "from".                   *)
Tidied(chain, b, from) ==
  IF Size(chain[b]) = 0 THEN RemoveAt(chain, b)
  ELSE IF Size(chain[b]) < MIN_BLOCK_SIZE THEN merge_block(chain, from) ELSE chain

list_create == blocks = <<>> /\ num = 0
list_clear == blocks' = <<>> /\ num' = 0

(* A push that finds no room at its end adds a block there. *)
list_lpush(v) ==
  LET chain == IF blocks = <<>> \/ block_left_space(Head(blocks)) = 0
               THEN <<NewBlock>> \o blocks ELSE blocks
  IN /\ blocks' = [chain EXCEPT ![1] = [start |-> @.start - 1, items |-> <<v>> \o @.items]]
     /\ num' = num + 1

list_rpush(v) ==
  LET chain == IF blocks = <<>> \/ block_right_space(Last(blocks)) = 0
               THEN Append(blocks, NewBlock) ELSE blocks
  IN /\ blocks' = [chain EXCEPT ![Len(chain)].items = Append(@, v)]
     /\ num' = num + 1

list_lpop ==
  /\ num > 0
  /\ blocks' = Tidied([blocks EXCEPT ![1] = [start |-> @.start + 1, items |-> Tail(@.items)]],
                      1, 1)
  /\ num' = num - 1

list_rpop ==
  /\ num > 0
  /\ blocks' = Tidied([blocks EXCEPT ![Len(blocks)].items = Front(@)],
                      Len(blocks), Len(blocks) - 1)
  /\ num' = num - 1

(* An insertion inside makes room in its block by moving it to the middle, *)
(* then by splitting it, and shifts the shorter side if that side has room.*)
Cramped(blk) == block_left_space(blk) = 0 \/ block_right_space(blk) = 0
ShiftsLeft(blk, offset) == offset <= Size(blk) \div 2 /\ block_left_space(blk) > 0
Inserted_after_the_element(blk, offset, v) ==
  [start |-> IF ShiftsLeft(blk, offset) THEN blk.start - 1 ELSE blk.start,
   items |-> InsertAt(blk.items, offset + 2, v)]
Inserted(blk, offset, v) ==
  [start |-> IF ShiftsLeft(blk, offset) THEN blk.start - 1 ELSE blk.start,
   items |-> InsertAt(blk.items, offset + 1, v)]
list_insert(pos, v) ==
  LET b       == locate(blocks, pos).block
      moved   == [blocks EXCEPT ![b] = center_block(@)]
      roomier == IF ~Cramped(blocks[b]) THEN {blocks}
                 ELSE IF ~Cramped(moved[b]) THEN {moved}
                 ELSE split_block(moved, b)
  IN \/ pos = 0 /\ list_lpush(v)
     \/ pos > 0 /\ pos = num /\ list_rpush(v)
     \/ /\ pos \in 1 .. num - 1
        /\ \E chain \in roomier :
             LET at  == locate(chain, pos)
                 blk == chain[at.block]
             IN \/ /\ ShiftsLeft(blk, at.offset) \/ block_right_space(blk) > 0
                   /\ blocks' = [chain EXCEPT ![at.block] = Inserted(@, at.offset, v)]
                   /\ num' = num + 1
                \/ /\ ~ShiftsLeft(blk, at.offset) /\ block_right_space(blk) = 0
                   /\ blocks' = chain
                   /\ UNCHANGED num

list_rm_index(pos) ==
  LET at  == locate(blocks, pos)
      blk == blocks[at.block]
  IN /\ blocks' = Tidied([blocks EXCEPT ![at.block] =
                         [start |-> IF at.offset < Size(blk) \div 2
                                    THEN blk.start + 1 ELSE blk.start,
                          items |-> RemoveAt(blk.items, at.offset + 1)]],
                      at.block, at.block)
     /\ num' = num - 1

list_get_index(pos) ==
  LET at == locate(blocks, pos) IN blocks[at.block].items[at.offset + 1]

list_set_index(pos, v) ==
  LET at == locate(blocks, pos)
  IN /\ blocks' = [blocks EXCEPT ![at.block].items[at.offset + 1] = v]
     /\ UNCHANGED num

list_swap(idx1, idx2) ==
  LET at1 == locate(blocks, idx1)
      at2 == locate(blocks, idx2)
  IN /\ idx1 # idx2
     /\ blocks' = [blocks EXCEPT ![at1.block].items[at1.offset + 1] = list_get_index(idx2),
                                 ![at2.block].items[at2.offset + 1] = list_get_index(idx1)]
     /\ UNCHANGED num

(* list_lpush and list_rpush are list_insert at the ends. *)
ListNext ==
  \/ /\ num < MaxLength
     /\ \E v \in Values, pos \in 0 .. num : list_insert(pos, v)
  \/ list_lpop \/ list_rpop \/ list_clear
  \/ \E pos \in 0 .. num - 1 :
       \/ list_rm_index(pos)
       \/ \E v \in Values : list_set_index(pos, v)
       \/ \E before \in 0 .. pos - 1 : list_swap(before, pos)

ListSpec == list_create /\ [][ListNext]_listVars

-----------------------------------------------------------------------------
(* Properties *)

(* No block is empty and none runs over its array, whichever way           *)
(* insertions, removals, splits and merges have pushed its elements, the   *)
(* count is theirs, and list_get_index finds at each position the element  *)
(* of that position; so every pop that the count allows finds its element, *)
(* and every shift stays inside the block.                                 *)
BlocksFit ==
  /\ \A b \in DOMAIN blocks :
       /\ blocks[b].start \in Nat
       /\ blocks[b].start + Size(blocks[b]) <= UINTDEQUE_BLOCK_SIZE
       /\ Size(blocks[b]) > 0
  /\ num = Len(Elements)
  /\ \A pos \in 0 .. num - 1 : list_get_index(pos) = Elements[pos + 1]

Sequence == INSTANCE Deque WITH items <- Elements

(* An insertion may be refused only inside a full block, which it has to   *)
(* split, and then it leaves every element where it was.                   *)
Refused(pos) ==
  /\ pos \in 1 .. num - 1
  /\ Size(blocks[locate(blocks, pos).block]) = UINTDEQUE_BLOCK_SIZE
  /\ UNCHANGED <<num, Elements>>

(* What each call must do to the sequence: that change, at its position.   *)
CallsDoAsTheirPositionSays ==
  /\ \A pos \in 0 .. num, v \in Values :
       list_insert(pos, v) => Sequence!Insert(pos + 1, v) \/ Refused(pos)
  /\ list_lpop => Sequence!Delete(1)
  /\ list_rpop => Sequence!Delete(Len(Elements))
  /\ list_clear => Sequence!Clear
  /\ \A pos \in 0 .. num - 1 :
       /\ list_rm_index(pos) => Sequence!Delete(pos + 1)
       /\ \A v \in Values : list_set_index(pos, v) => Sequence!Update(pos + 1, v)
       /\ \A before \in 0 .. pos - 1 :
            list_swap(before, pos) => Sequence!Swap(before + 1, pos + 1)

(* The blocks together are one sequence on which every call does what its  *)
(* position says: no split or merge drops, doubles or reorders an element, *)
(* no call reaches another position than its own, and an insertion that    *)
(* fails leaves every element where it was.                                *)
ListImplementsDeque ==
  /\ Sequence!Spec
  /\ [][CallsDoAsTheirPositionSays]_listVars
==============================================================================

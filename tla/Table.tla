-------------------------------- MODULE Table --------------------------------
(***************************************************************************)
(* The table engine of lib/tblh.c.  A column holds its cells in physical   *)
(* rows; logic_index gives the physical row of a logical row and           *)
(* memory_index is meant to be its inverse.  Rows count from 0 as in the   *)
(* code, columns count from 1 (the code counts from 0).  A column's type   *)
(* goes wherever its name goes and is left out.  Memory that malloc and    *)
(* realloc return unset holds Junk.  A call that fails, for arguments out  *)
(* of range or for lack of memory, changes no cell below capacity and no   *)
(* index, and is a stuttering step.                                        *)
(*                                                                         *)
(* A definition whose name says what it does wrong (..._logic_only and so  *)
(* on) is a faulty variant of the definition after it.  The specification  *)
(* does not use it: putting it in the place of the right one must break    *)
(* the property PROJECT.json pairs it with.                                *)
(***************************************************************************)
EXTENDS Lists

CONSTANTS
  Names, Values,       (* column names; what a caller stores in a cell     *)
  NULL, Junk,          (* an unset cell; a cell whose memory is unset      *)
  INCREASE_LINES_NUM,  (* rows by which a table grows, 100 in tblh.h       *)
  MaxLines, MaxFields  (* bounds of the model                              *)

ASSUME TableAssumption ==
  /\ INCREASE_LINES_NUM \in Nat \ {0}
  /\ MaxLines \in Nat /\ MaxFields \in Nat \ {0}
  /\ NULL \notin Values /\ Junk \notin Values /\ NULL # Junk

VARIABLES
  exists,        (* a table has been created and not freed                 *)
  field,         (* the columns: a sequence of [name, column_index, data]  *)
  line_num, capacity,
  logic_index, memory_index,
  overwritten    (* history: an insertion hit a physical row in use        *)

vars == <<exists, field, line_num, capacity, logic_index, memory_index, overwritten>>

Lines == 0 .. line_num - 1

(* The physical rows that logical rows stand on. *)
RowsInUse == {logic_index[l] : l \in Lines}

Identity(n) == [i \in 0 .. n - 1 |-> i]

(* The same change to the data of every column. *)
EachColumn(Change(_)) == [f \in DOMAIN field |-> [field[f] EXCEPT !.data = Change(@)]]

(* A column's place in the array is written into it. *)
Renumbered_forgotten(fs) == fs
Renumbered(fs) == [f \in DOMAIN fs |-> [fs[f] EXCEPT !.column_index = f]]

-----------------------------------------------------------------------------
(* Operations *)

(* One set of identity indexes and one unset block of rows per column. *)
create_table(names) ==
  /\ ~exists /\ names # <<>>
  /\ exists' = TRUE
  /\ field' = [f \in DOMAIN names |->
                 [name |-> names[f], column_index |-> f,
                  data |-> [p \in 0 .. INCREASE_LINES_NUM - 1 |-> Junk]]]
  /\ line_num' = 0 /\ capacity' = INCREASE_LINES_NUM
  /\ logic_index' = Identity(INCREASE_LINES_NUM)
  /\ memory_index' = Identity(INCREASE_LINES_NUM)
  /\ UNCHANGED overwritten

free_table ==
  /\ exists /\ exists' = FALSE
  /\ field' = <<>> /\ line_num' = 0 /\ capacity' = 0
  /\ logic_index' = <<>> /\ memory_index' = <<>>
  /\ overwritten' = FALSE

(* An array after realloc: old cells kept, new cells as given. *)
Grown(a, fresh) == [i \in DOMAIN fresh |-> IF i \in DOMAIN a THEN a[i] ELSE fresh[i]]

(* The new record goes to the physical row line_num.  When growing fails,  *)
(* the arrays that had grown already are not used beyond capacity.         *)
add_record(values) ==
  /\ exists /\ Len(values) <= Len(field)
  /\ LET cap == IF line_num >= capacity THEN capacity + INCREASE_LINES_NUM ELSE capacity
         cell(f) == IF f <= Len(values) THEN values[f] ELSE NULL
     IN /\ capacity' = cap
        /\ field' = [f \in DOMAIN field |->
                       [field[f] EXCEPT !.data =
                          [Grown(@, [p \in 0 .. cap - 1 |-> Junk]) EXCEPT ![line_num] = cell(f)]]]
        /\ logic_index' =
             [Grown(logic_index, Identity(cap)) EXCEPT ![line_num] = line_num]
        /\ memory_index' =
             [Grown(memory_index, Identity(cap)) EXCEPT ![line_num] = line_num]
  /\ line_num' = line_num + 1
  /\ overwritten' = (overwritten \/ line_num \in RowsInUse)
  /\ UNCHANGED exists

(* rm_record's first half: the cells of the physical row behind the last   *)
(* LOGICAL row move into the freed row, and the indexes follow.            *)
filled_indexes_only(gone, last) ==
  IF gone = last
  THEN [logic |-> logic_index, memory |-> memory_index, field |-> field]
  ELSE [logic  |-> [logic_index EXCEPT ![memory_index[last]] = gone],
        memory |-> [memory_index EXCEPT ![gone] = memory_index[last]],
        field  |-> field]
filled(gone, last) ==
  IF gone = last
  THEN [logic |-> logic_index, memory |-> memory_index, field |-> field]
  ELSE [logic  |-> [logic_index EXCEPT ![memory_index[last]] = gone],
        memory |-> [memory_index EXCEPT ![gone] = memory_index[last]],
        field  |-> EachColumn(LAMBDA d : [d EXCEPT ![gone] = d[last]])]

(* Its second half: the logical rows after the removed one move up.        *)
(* memory_index is written row after row: a later row prevails.            *)
shifted_logic_only(t, line) ==
  [t EXCEPT !.logic = [i \in DOMAIN t.logic |->
                         IF i \in line .. line_num - 2 THEN t.logic[i + 1] ELSE t.logic[i]]]
shifted(t, line) ==
  LET logic == [i \in DOMAIN t.logic |->
                  IF i \in line .. line_num - 2 THEN t.logic[i + 1] ELSE t.logic[i]]
      onto(p) == {i \in line .. line_num - 2 : logic[i] = p}
  IN [t EXCEPT !.logic = logic,
               !.memory = [p \in DOMAIN @ |-> IF onto(p) = {} THEN @[p] ELSE Max(onto(p))]]

rm_record(line) ==
  /\ line \in Lines
  /\ LET t == shifted(filled(logic_index[line], logic_index[line_num - 1]), line)
     IN logic_index' = t.logic /\ memory_index' = t.memory /\ field' = t.field
  /\ line_num' = line_num - 1
  /\ UNCHANGED <<exists, capacity, overwritten>>

rm_field(f) ==
  /\ f \in DOMAIN field
  /\ field' = Renumbered(RemoveAt(field, f))
  /\ UNCHANGED <<exists, line_num, capacity, logic_index, memory_index, overwritten>>

(* The visible rows of the new column are set, the rest stays unset. *)
add_field_off_by_one(name) ==
  /\ exists
  /\ field' = Append(field,
       [name |-> name, column_index |-> Len(field) + 1,
        data |-> [p \in 0 .. capacity - 1 |-> IF p < line_num - 1 THEN NULL ELSE Junk]])
  /\ UNCHANGED <<exists, line_num, capacity, logic_index, memory_index, overwritten>>
add_field(name) ==
  /\ exists
  /\ field' = Append(field,
       [name |-> name, column_index |-> Len(field) + 1,
        data |-> [p \in 0 .. capacity - 1 |-> IF p \in RowsInUse THEN NULL ELSE Junk]])
  /\ UNCHANGED <<exists, line_num, capacity, logic_index, memory_index, overwritten>>

swap_record(a, b) ==
  /\ a \in Lines /\ b \in Lines
  /\ logic_index' = [logic_index EXCEPT ![a] = logic_index[b], ![b] = logic_index[a]]
  /\ memory_index' = [memory_index EXCEPT ![logic_index[b]] = a, ![logic_index[a]] = b]
  /\ UNCHANGED <<exists, field, line_num, capacity, overwritten>>

swap_field(f, g) ==
  /\ f \in DOMAIN field /\ g \in DOMAIN field
  /\ field' = Renumbered([field EXCEPT ![f] = field[g], ![g] = field[f]])
  /\ UNCHANGED <<exists, line_num, capacity, logic_index, memory_index, overwritten>>

set_value(line, f, v) ==
  /\ line \in Lines /\ f \in DOMAIN field
  /\ field' = [field EXCEPT ![f].data[logic_index[line]] = v]
  /\ UNCHANGED <<exists, line_num, capacity, logic_index, memory_index, overwritten>>

update_record(line, values) ==
  /\ line \in Lines /\ Len(values) <= Len(field)
  /\ field' = [f \in DOMAIN field |->
                 IF f <= Len(values)
                 THEN [field[f] EXCEPT !.data[logic_index[line]] = values[f]]
                 ELSE field[f]]
  /\ UNCHANGED <<exists, line_num, capacity, logic_index, memory_index, overwritten>>

(* capacity is that of a new table or, for a table that never grew, stays. *)
clear_table ==
  /\ exists
  /\ capacity' = Min({capacity, INCREASE_LINES_NUM})
  /\ field' = EachColumn(LAMBDA d : [p \in 0 .. capacity' - 1 |-> NULL])
  /\ line_num' = 0
  /\ logic_index' = Identity(capacity') /\ memory_index' = Identity(capacity')
  /\ UNCHANGED <<exists, overwritten>>

Init ==
  /\ exists = FALSE
  /\ field = <<>> /\ line_num = 0 /\ capacity = 0
  /\ logic_index = <<>> /\ memory_index = <<>>
  /\ overwritten = FALSE

Tuples(S, n) == UNION {[1 .. k -> S] : k \in 0 .. n}

Next ==
  \/ \E names \in Tuples(Names, MaxFields) : create_table(names)
  \/ free_table
  \/ line_num < MaxLines /\ \E values \in Tuples(Values, MaxFields) : add_record(values)
  \/ \E line \in Lines : rm_record(line)
  \/ \E f \in DOMAIN field : rm_field(f)
  \/ Len(field) < MaxFields /\ \E name \in Names : add_field(name)
  \/ \E a, b \in Lines : swap_record(a, b)
  \/ \E f, g \in DOMAIN field : swap_field(f, g)
  \/ \E line \in Lines, f \in DOMAIN field, v \in Values : set_value(line, f, v)
  \/ \E line \in Lines, values \in Tuples(Values, MaxFields) : update_record(line, values)
  \/ clear_table

Spec == Init /\ [][Next]_vars

-----------------------------------------------------------------------------
(* What a caller sees *)

get_value(line, f) == field[f].data[logic_index[line]]
get_record(line) == [f \in DOMAIN field |-> get_value(line, f)]

-----------------------------------------------------------------------------
(* Properties *)

(* Every array is as long as capacity says, every index entry stays inside *)
(* it, and each column knows its place.                                    *)
TypeOK ==
  /\ exists \in BOOLEAN /\ overwritten \in BOOLEAN
  /\ line_num \in 0 .. capacity
  /\ logic_index \in [0 .. capacity - 1 -> 0 .. capacity - 1]
  /\ memory_index \in [0 .. capacity - 1 -> 0 .. capacity - 1]
  /\ field \in Seq([name : Names, column_index : Nat,
                    data : [0 .. capacity - 1 -> Values \cup {NULL, Junk}]])
  /\ \A f \in DOMAIN field : field[f].column_index = f
  /\ capacity % INCREASE_LINES_NUM = 0

(* memory_index is the inverse of logic_index on the visible rows, as      *)
(* tblh.h:39-40 says of the two arrays.                                    *)
MemoryIndexInverts == \A l \in Lines : memory_index[logic_index[l]] = l

(* It is, as long as no insertion has hit a row in use: removals and       *)
(* exchanges in any order keep it, although they write the two arrays      *)
(* entry by entry.                                                         *)
IndexesInvert == ~overwritten => MemoryIndexInverts

(* No caller ever reads memory that was never written, however columns and *)
(* records come and go.                                                    *)
NoUnsetCell == \A l \in Lines, f \in DOMAIN field : get_value(l, f) # Junk

(* Until an insertion hits a row in use, every operation does to the       *)
(* visible records what it promises: removing a record in the middle keeps *)
(* the others and their order, growing and clearing lose and invent        *)
(* nothing.                                                                *)
G == INSTANCE Grid WITH
       columns <- [f \in DOMAIN field |-> field[f].name],
       records <- [r \in 1 .. line_num |-> get_record(r - 1)],
       live <- ~overwritten
ImplementsGrid == G!Spec
==============================================================================

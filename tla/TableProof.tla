----------------------------- MODULE TableProof -----------------------------
(***************************************************************************)
(* Theorems about Table, for tables of any number of columns and records   *)
(* that grow by any number of rows: the index arrays invert each other as  *)
(* long as no insertion hits a row in use, no unset cell is ever read, and *)
(* until such an insertion the table implements Grid.                      *)
(***************************************************************************)
EXTENDS Table, ListsProof

Cell == Values \cup {NULL, Junk}
Rows(c) == 0 .. c - 1
Column(c) == [name : Names, column_index : Nat, data : [Rows(c) -> Cell]]

(* A sequence of columns of c rows, each of which knows its place.         *)
ColumnsFit(fs, c) ==
  fs \in Seq(Column(c)) /\ \A f \in DOMAIN fs : fs[f].column_index = f

(* The inductive invariant.                                                *)
IInv == capacity \in Nat /\ TypeOK /\ IndexesInvert /\ NoUnsetCell

-----------------------------------------------------------------------------
(* What the invariant says, part by part *)

LEMMA Parts ==
  ASSUME IInv
  PROVE  /\ exists \in BOOLEAN /\ overwritten \in BOOLEAN
         /\ capacity \in Nat /\ line_num \in Nat /\ line_num <= capacity
         /\ capacity % INCREASE_LINES_NUM = 0
         /\ INCREASE_LINES_NUM \in Nat \ {0}
         /\ Lines = Rows(line_num) /\ Lines \subseteq Rows(capacity)
         /\ logic_index \in [Rows(capacity) -> Rows(capacity)]
         /\ memory_index \in [Rows(capacity) -> Rows(capacity)]
         /\ ColumnsFit(field, capacity)
         /\ Len(field) \in Nat /\ DOMAIN field = 1 .. Len(field)
         /\ \A f \in DOMAIN field : field[f] \in Column(capacity) /\ field[f].column_index = f
         /\ \A l \in Lines, f \in DOMAIN field : field[f].data[logic_index[l]] # Junk
         /\ ~overwritten => \A l \in Lines : memory_index[logic_index[l]] = l
<1>1. ColumnsFit(field, capacity) BY DEF IInv, TypeOK, ColumnsFit, Column, Cell, Rows
<1>2. \A f \in 1 .. Len(field) : field[f] \in Column(capacity)
  BY <1>1, ElementOfSeq DEF ColumnsFit
<1>3. Len(field) \in Nat /\ DOMAIN field = 1 .. Len(field)
  BY <1>1, LenProperties DEF ColumnsFit
<1>4. \A f \in DOMAIN field : field[f] \in Column(capacity) /\ field[f].column_index = f
  BY <1>1, <1>2, <1>3 DEF ColumnsFit
<1>5. Lines = Rows(line_num) /\ Lines \subseteq Rows(capacity)
  BY DEF IInv, TypeOK, Lines, Rows
<1>6. QED
  BY <1>1, <1>3, <1>4, <1>5, TableAssumption
  DEF IInv, TypeOK, Rows, NoUnsetCell, get_value, IndexesInvert, MemoryIndexInverts

LEMMA PartsNext ==
  ASSUME exists' \in BOOLEAN, overwritten' \in BOOLEAN,
         capacity' \in Nat, line_num' \in Nat, line_num' <= capacity',
         capacity' % INCREASE_LINES_NUM = 0,
         logic_index' \in [Rows(capacity') -> Rows(capacity')],
         memory_index' \in [Rows(capacity') -> Rows(capacity')],
         ColumnsFit(field', capacity'),
         \A l \in Rows(line_num'), f \in DOMAIN field' :
           field'[f].data[logic_index'[l]] # Junk,
         ~overwritten' => \A l \in Rows(line_num') : memory_index'[logic_index'[l]] = l
  PROVE  IInv'
<1>1. TypeOK'
  <2>1. line_num' \in 0 .. capacity' OBVIOUS
  <2>2. /\ field' \in Seq([name : Names, column_index : Nat,
                           data : [0 .. capacity' - 1 -> Values \cup {NULL, Junk}]])
        /\ \A f \in DOMAIN field' : field'[f].column_index = f
    BY DEF ColumnsFit, Column, Cell, Rows
  <2>3. /\ logic_index' \in [0 .. capacity' - 1 -> 0 .. capacity' - 1]
        /\ memory_index' \in [0 .. capacity' - 1 -> 0 .. capacity' - 1]
    BY DEF Rows
  <2>4. QED BY <2>1, <2>2, <2>3, Zenon DEF TypeOK
<1>2. NoUnsetCell' BY DEF NoUnsetCell, get_value, Lines, Rows
<1>3. IndexesInvert' BY DEF IndexesInvert, MemoryIndexInverts, Lines, Rows
<1>4. QED BY <1>1, <1>2, <1>3 DEF IInv

(* While the arrays invert each other, rows do not share a physical row.   *)
LEMMA RowsDiffer ==
  ASSUME IInv, ~overwritten, NEW k \in Lines, NEW l \in Lines,
         logic_index[k] = logic_index[l]
  PROVE  k = l
BY Parts

(* Columns written down one by one.                                        *)
LEMMA ColumnsMade ==
  ASSUME NEW c, NEW n \in Nat, NEW fs, DOMAIN fs = 1 .. n, fs = [f \in 1 .. n |-> fs[f]],
         \A f \in 1 .. n : fs[f] \in Column(c) /\ fs[f].column_index = f
  PROVE  ColumnsFit(fs, c)
<1>1. fs \in Seq(Column(c)) BY IsASeq
<1>2. QED BY <1>1 DEF ColumnsFit

-----------------------------------------------------------------------------
(* Each operation preserves the invariant *)

LEMMA InitInv == Init => IInv
<1> SUFFICES ASSUME Init PROVE IInv OBVIOUS
<1> USE DEF Init
<1>1. field \in Seq([name : Names, column_index : Nat,
                     data : [0 .. capacity - 1 -> Values \cup {NULL, Junk}]])
      /\ DOMAIN field = {}
  BY EmptySeq
<1>2. 0 .. capacity - 1 = {} OBVIOUS
<1>3. capacity % INCREASE_LINES_NUM = 0 BY NoRemainder, TableAssumption
<1>4. TypeOK
  <2>1. line_num \in 0 .. capacity OBVIOUS
  <2>2. logic_index \in [{} -> {}] /\ memory_index \in [{} -> {}] OBVIOUS
  <2>3. exists \in BOOLEAN /\ overwritten \in BOOLEAN OBVIOUS
  <2> HIDE DEF Init
  <2>4. QED BY <1>1, <1>2, <1>3, <2>1, <2>2, <2>3 DEF TypeOK
<1>5. QED BY <1>4 DEF IInv, IndexesInvert, MemoryIndexInverts, NoUnsetCell, Lines

LEMMA CreateStep ==
  ASSUME IInv, NEW names \in Tuples(Names, MaxFields), create_table(names)
  PROVE  IInv'
<1> DEFINE n == INCREASE_LINES_NUM
<1>1. n \in Nat \ {0} /\ n % n = 0 BY TableAssumption, NoRemainder
<1>2. PICK k \in 0 .. MaxFields : names \in [1 .. k -> Names] BY DEF Tuples
<1>3. k \in Nat BY <1>2, TableAssumption
<1>4. /\ DOMAIN field' = 1 .. k /\ field' = [f \in 1 .. k |-> field'[f]]
      /\ \A f \in 1 .. k : field'[f] = [name |-> names[f], column_index |-> f,
                                        data |-> [p \in 0 .. n - 1 |-> Junk]]
  BY <1>2 DEF create_table
<1>5. /\ exists' = TRUE /\ overwritten' = overwritten /\ line_num' = 0 /\ capacity' = n
      /\ logic_index' \in [Rows(n) -> Rows(n)] /\ memory_index' \in [Rows(n) -> Rows(n)]
  BY DEF create_table, Identity, Rows
<1> HIDE DEF n
<1>6. \A f \in 1 .. k : field'[f] \in Column(n) /\ field'[f].column_index = f
  BY <1>2, <1>3, <1>4 DEF Column, Rows, Cell
<1>7. ColumnsFit(field', n) BY <1>3, <1>4, <1>6, ColumnsMade
<1>8. Rows(line_num') = {} BY <1>5 DEF Rows
<1>9. overwritten \in BOOLEAN BY Parts
<1>10. QED BY <1>1, <1>5, <1>7, <1>8, <1>9, PartsNext DEF n

LEMMA FreeStep ==
  ASSUME IInv, free_table
  PROVE  IInv'
<1> USE DEF free_table
<1>1. Rows(capacity') = {} /\ Rows(line_num') = {} BY DEF Rows
<1>2. ColumnsFit(field', capacity') BY EmptySeq DEF ColumnsFit
<1>3. capacity' % INCREASE_LINES_NUM = 0 BY NoRemainder, TableAssumption
<1>4. logic_index' \in [{} -> {}] /\ memory_index' \in [{} -> {}] OBVIOUS
<1>5. exists' \in BOOLEAN /\ overwritten' \in BOOLEAN /\ capacity' = 0 /\ line_num' = 0
  OBVIOUS
<1>6. QED BY <1>1, <1>2, <1>3, <1>4, <1>5, PartsNext

(* Where add_record puts what.                                             *)
LEMMA AddedParts ==
  ASSUME IInv, NEW values \in Tuples(Values, MaxFields), add_record(values)
  PROVE  /\ capacity' \in Nat /\ capacity <= capacity' /\ line_num < capacity'
         /\ capacity' % INCREASE_LINES_NUM = 0
         /\ line_num' = line_num + 1 /\ exists /\ exists' = exists
         /\ overwritten' = (overwritten \/ line_num \in RowsInUse)
         /\ Len(values) \in 0 .. Len(field) /\ \A f \in 1 .. Len(values) : values[f] \in Values
         /\ logic_index' \in [Rows(capacity') -> Rows(capacity')]
         /\ memory_index' \in [Rows(capacity') -> Rows(capacity')]
         /\ logic_index'[line_num] = line_num /\ memory_index'[line_num] = line_num
         /\ \A i \in Rows(capacity) \ {line_num} :
              logic_index'[i] = logic_index[i] /\ memory_index'[i] = memory_index[i]
         /\ DOMAIN field' = DOMAIN field /\ field' = [f \in 1 .. Len(field) |-> field'[f]]
         /\ \A f \in DOMAIN field :
              /\ field'[f] \in Column(capacity')
              /\ field'[f].column_index = f /\ field'[f].name = field[f].name
              /\ field'[f].data[line_num] = IF f <= Len(values) THEN values[f] ELSE NULL
              /\ \A p \in Rows(capacity) \ {line_num} : field'[f].data[p] = field[f].data[p]
<1> DEFINE cap == IF line_num >= capacity THEN capacity + INCREASE_LINES_NUM ELSE capacity
           cell(f) == IF f <= Len(values) THEN values[f] ELSE NULL
<1>1. /\ capacity \in Nat /\ line_num \in Nat /\ line_num <= capacity
      /\ capacity % INCREASE_LINES_NUM = 0 /\ INCREASE_LINES_NUM \in Nat \ {0}
      /\ logic_index \in [Rows(capacity) -> Rows(capacity)]
      /\ memory_index \in [Rows(capacity) -> Rows(capacity)]
      /\ DOMAIN field = 1 .. Len(field) /\ Len(field) \in Nat
      /\ \A f \in DOMAIN field : field[f] \in Column(capacity) /\ field[f].column_index = f
  BY Parts
<1>2. cap \in Nat /\ capacity <= cap /\ line_num < cap BY <1>1
<1>3. cap % INCREASE_LINES_NUM = 0 BY <1>1, RemainderOfSum
<1>4. Len(values) \in 0 .. Len(field) /\ \A f \in 1 .. Len(values) : values[f] \in Values
  <2>1. PICK k \in 0 .. MaxFields : values \in [1 .. k -> Values] BY DEF Tuples
  <2>2. k \in Nat BY <2>1, TableAssumption
  <2>3. Len(values) = k BY <2>1, <2>2
  <2>4. Len(values) <= Len(field) BY DEF add_record
  <2>5. QED BY <1>1, <2>1, <2>2, <2>3, <2>4
<1>5. /\ capacity' = cap
      /\ logic_index' = [Grown(logic_index, Identity(cap)) EXCEPT ![line_num] = line_num]
      /\ memory_index' = [Grown(memory_index, Identity(cap)) EXCEPT ![line_num] = line_num]
      /\ field' = [f \in DOMAIN field |->
                     [field[f] EXCEPT !.data =
                        [Grown(@, [p \in 0 .. cap - 1 |-> Junk]) EXCEPT ![line_num] = cell(f)]]]
      /\ line_num' = line_num + 1 /\ exists /\ exists' = exists
      /\ overwritten' = (overwritten \/ line_num \in RowsInUse)
  BY Zenon DEF add_record
<1> HIDE DEF cap
<1>6. /\ logic_index' \in [Rows(cap) -> Rows(cap)]
      /\ memory_index' \in [Rows(cap) -> Rows(cap)]
      /\ logic_index'[line_num] = line_num /\ memory_index'[line_num] = line_num
      /\ \A i \in Rows(capacity) \ {line_num} :
           logic_index'[i] = logic_index[i] /\ memory_index'[i] = memory_index[i]
  <2>1. ASSUME NEW a \in [Rows(capacity) -> Rows(capacity)]
        PROVE  LET b == [Grown(a, Identity(cap)) EXCEPT ![line_num] = line_num]
               IN  /\ b \in [Rows(cap) -> Rows(cap)] /\ b[line_num] = line_num
                   /\ \A i \in Rows(capacity) \ {line_num} : b[i] = a[i]
    BY <1>1, <1>2, SMTT(30) DEF Grown, Identity, Rows
  <2>2. QED BY <1>1, <1>5, <2>1
<1>7. DOMAIN field' = DOMAIN field /\ field' = [f \in 1 .. Len(field) |-> field'[f]]
  BY <1>1, <1>5
<1>8. ASSUME NEW f \in DOMAIN field
      PROVE  /\ field'[f] \in Column(cap)
             /\ field'[f].column_index = f /\ field'[f].name = field[f].name
             /\ field'[f].data[line_num] = cell(f)
             /\ \A p \in Rows(capacity) \ {line_num} : field'[f].data[p] = field[f].data[p]
  <2> DEFINE new == [Grown(field[f].data, [p \in 0 .. cap - 1 |-> Junk])
                       EXCEPT ![line_num] = cell(f)]
  <2>1. field'[f] = [field[f] EXCEPT !.data = new] BY <1>5
  <2>2. field[f].data \in [Rows(capacity) -> Cell] /\ cell(f) \in Cell
    BY <1>1, <1>4 DEF Column, Cell
  <2> HIDE DEF cell
  <2>3. /\ new \in [Rows(cap) -> Cell] /\ new[line_num] = cell(f)
        /\ \A p \in Rows(capacity) \ {line_num} : new[p] = field[f].data[p]
    BY <1>1, <1>2, <2>2 DEF Grown, Rows, Cell
  <2> HIDE DEF new
  <2>4. QED BY <1>1, <2>1, <2>3 DEF Column
<1>9. QED BY <1>2, <1>3, <1>4, <1>5, <1>6, <1>7, <1>8

LEMMA AddRecordStep ==
  ASSUME IInv, NEW values \in Tuples(Values, MaxFields), add_record(values)
  PROVE  IInv'
<1>1. ColumnsFit(field', capacity')
  <2>1. Len(field) \in Nat /\ DOMAIN field = 1 .. Len(field) BY Parts
  <2>2. /\ DOMAIN field' = 1 .. Len(field) /\ field' = [f \in 1 .. Len(field) |-> field'[f]]
        /\ \A f \in 1 .. Len(field) : field'[f] \in Column(capacity')
                                       /\ field'[f].column_index = f
    BY <2>1, AddedParts
  <2>3. QED BY <2>1, <2>2, ColumnsMade, ZenonT(40)
<1>2. ASSUME NEW l \in Rows(line_num'), NEW f \in DOMAIN field'
      PROVE  field'[f].data[logic_index'[l]] # Junk
  <2>1. CASE logic_index'[l] = line_num
    BY <2>1, AddedParts, TableAssumption
  <2>2. CASE logic_index'[l] # line_num
    <3>1. l \in Lines /\ l \in Rows(capacity) \ {line_num} BY <2>2, AddedParts, Parts DEF Rows
    <3>2. logic_index'[l] = logic_index[l] /\ logic_index[l] \in Rows(capacity) \ {line_num}
      BY <2>2, <3>1, AddedParts, Parts
    <3>3. f \in DOMAIN field /\ field[f].data[logic_index[l]] # Junk
      BY <3>1, AddedParts, Parts
    <3>4. QED BY <3>2, <3>3, AddedParts
  <2>3. QED BY <2>1, <2>2
<1>3. ASSUME ~overwritten', NEW l \in Rows(line_num')
      PROVE  memory_index'[logic_index'[l]] = l
  <2>1. CASE l = line_num BY <2>1, AddedParts
  <2>2. CASE l # line_num
    <3>1. l \in Lines /\ l \in Rows(capacity) \ {line_num} BY <2>2, AddedParts, Parts DEF Rows
    <3>2. logic_index'[l] = logic_index[l] BY <3>1, AddedParts
    <3>3. logic_index[l] \in Rows(capacity) BY <3>1, Parts
    <3>4. logic_index[l] # line_num
      <4>1. line_num \notin RowsInUse /\ ~overwritten BY <1>3, AddedParts, Parts
      <4>2. logic_index[l] \in RowsInUse BY <3>1 DEF RowsInUse
      <4>3. QED BY <4>1, <4>2
    <3>5. QED BY <1>3, <3>1, <3>2, <3>3, <3>4, AddedParts, Parts
  <2>3. QED BY <2>1, <2>2
<1>4. /\ exists' \in BOOLEAN /\ overwritten' \in BOOLEAN
      /\ line_num' \in Nat /\ line_num' <= capacity'
  BY AddedParts, Parts
<1>5. QED BY <1>1, <1>2, <1>3, <1>4, AddedParts, PartsNext

(* The physical row that rm_record frees, the one behind the last logical  *)
(* row, the logical row that memory_index gives for it, and the logical    *)
(* row that comes to be row i.                                             *)
Gone(line) == logic_index[line]
Last == logic_index[line_num - 1]
Back == memory_index[Last]
After(line, i) == IF i \in line .. line_num - 2 THEN i + 1 ELSE i

(* Where rm_record puts what: the row behind the last logical row moves    *)
(* into the freed row, and the rows after the removed one move up.         *)
LEMMA RemovedParts ==
  ASSUME IInv, NEW line \in Lines, rm_record(line)
  PROVE  /\ Gone(line) \in Rows(capacity) /\ Last \in Rows(capacity) /\ Back \in Rows(capacity)
         /\ line_num' = line_num - 1 /\ line_num \in Nat \ {0} /\ capacity' = capacity
         /\ exists' = exists /\ overwritten' = overwritten
         /\ \A i \in Rows(capacity) :
              logic_index'[i] = IF Gone(line) # Last /\ After(line, i) = Back THEN Gone(line)
                                ELSE logic_index[After(line, i)]
         /\ logic_index' \in [Rows(capacity) -> Rows(capacity)]
         /\ memory_index' \in [Rows(capacity) -> Rows(capacity)]
         /\ \A p \in Rows(capacity) :
              LET onto == {i \in line .. line_num - 2 : logic_index'[i] = p}
              IN  IF onto = {}
                  THEN memory_index'[p] = IF Gone(line) # Last /\ p = Gone(line) THEN Back
                                          ELSE memory_index[p]
                  ELSE memory_index'[p] \in onto
         /\ DOMAIN field' = DOMAIN field /\ field' = [f \in 1 .. Len(field) |-> field'[f]]
         /\ \A f \in DOMAIN field :
              /\ field'[f] \in Column(capacity)
              /\ field'[f].column_index = f /\ field'[f].name = field[f].name
              /\ \A p \in Rows(capacity) :
                   field'[f].data[p] = field[f].data[IF p = Gone(line) THEN Last ELSE p]
<1> DEFINE L == IF Gone(line) = Last THEN logic_index ELSE [logic_index EXCEPT ![Back] = Gone(line)]
           M == IF Gone(line) = Last THEN memory_index ELSE [memory_index EXCEPT ![Gone(line)] = Back]
           F == IF Gone(line) = Last THEN field
                ELSE EachColumn(LAMBDA d : [d EXCEPT ![Gone(line)] = d[Last]])
           L2 == [i \in DOMAIN L |-> IF i \in line .. line_num - 2 THEN L[i + 1] ELSE L[i]]
           onto(p) == {i \in line .. line_num - 2 : L2[i] = p}
           M2 == [p \in DOMAIN M |-> IF onto(p) = {} THEN M[p] ELSE Max(onto(p))]
<1>1. /\ capacity \in Nat /\ line_num \in Nat /\ line_num <= capacity
      /\ logic_index \in [Rows(capacity) -> Rows(capacity)]
      /\ memory_index \in [Rows(capacity) -> Rows(capacity)]
      /\ DOMAIN field = 1 .. Len(field) /\ Len(field) \in Nat
      /\ \A f \in DOMAIN field : field[f] \in Column(capacity) /\ field[f].column_index = f
      /\ line \in 0 .. line_num - 1
  BY Parts DEF Rows
<1>2. /\ line_num - 1 \in Rows(capacity) /\ line \in Rows(capacity)
      /\ Gone(line) \in Rows(capacity) /\ Last \in Rows(capacity) /\ Back \in Rows(capacity)
  <2>1. line_num - 1 \in Rows(capacity) /\ line \in Rows(capacity) BY <1>1 DEF Rows
  <2>2. Gone(line) \in Rows(capacity) /\ Last \in Rows(capacity)
    BY <1>1, <2>1 DEF Gone, Last
  <2>3. Back \in Rows(capacity) BY <1>1, <2>2 DEF Back
  <2>4. QED BY <2>1, <2>2, <2>3
<1>3. filled(Gone(line), Last) = [logic |-> L, memory |-> M, field |-> F]
  BY DEF filled, Gone, Last, Back
<1>4. /\ L \in [Rows(capacity) -> Rows(capacity)] /\ M \in [Rows(capacity) -> Rows(capacity)]
      /\ \A i \in Rows(capacity) :
           L[i] = IF Gone(line) # Last /\ i = Back THEN Gone(line) ELSE logic_index[i]
      /\ \A p \in Rows(capacity) :
           M[p] = IF Gone(line) # Last /\ p = Gone(line) THEN Back ELSE memory_index[p]
  BY <1>1, <1>2
<1>5. /\ F = [f \in 1 .. Len(field) |-> F[f]] /\ DOMAIN F = DOMAIN field
      /\ \A f \in DOMAIN field :
           /\ F[f] \in Column(capacity) /\ F[f].column_index = f /\ F[f].name = field[f].name
           /\ \A p \in Rows(capacity) :
                F[f].data[p] = field[f].data[IF p = Gone(line) THEN Last ELSE p]
  <2>1. CASE Gone(line) = Last
    <3>1. F = field BY <2>1
    <3>2. field \in Seq(Column(capacity)) BY Parts DEF ColumnsFit
    <3>3. field = [f \in 1 .. Len(field) |-> field[f]] BY <3>2
    <3> HIDE DEF F
    <3>4. QED BY <1>1, <2>1, <3>1, <3>3
  <2>2. CASE Gone(line) # Last
    <3>1. F = [f \in DOMAIN field |->
                 [field[f] EXCEPT !.data = [field[f].data EXCEPT ![Gone(line)] = field[f].data[Last]]]]
      BY <2>2 DEF EachColumn
    <3> HIDE DEF F
    <3>2. ASSUME NEW f \in DOMAIN field
          PROVE  /\ F[f] \in Column(capacity) /\ F[f].column_index = f /\ F[f].name = field[f].name
                 /\ \A p \in Rows(capacity) :
                      F[f].data[p] = field[f].data[IF p = Gone(line) THEN Last ELSE p]
      <4>1. field[f] \in Column(capacity) /\ field[f].column_index = f BY <1>1
      <4>2. F[f] = [field[f] EXCEPT !.data =
                      [field[f].data EXCEPT ![Gone(line)] = field[f].data[Last]]]
        BY <3>1
      <4>3. QED BY <1>2, <4>1, <4>2 DEF Column
    <3>3. QED BY <1>1, <3>1, <3>2
  <2>3. QED BY <2>1, <2>2
<1> HIDE DEF L, M, F
<1>6. shifted([logic |-> L, memory |-> M, field |-> F], line)
        = [logic |-> L2, memory |-> M2, field |-> F]
  <2> DEFINE t == [logic |-> L, memory |-> M, field |-> F]
  <2>1. t.logic = L /\ t.memory = M OBVIOUS
  <2>2. shifted(t, line) = [t EXCEPT !.logic = L2, !.memory = M2] BY <2>1 DEF shifted
  <2> HIDE DEF L2, M2
  <2>3. QED BY <2>2
<1>7. /\ logic_index' = L2 /\ memory_index' = M2 /\ field' = F
      /\ line_num' = line_num - 1 /\ capacity' = capacity
      /\ exists' = exists /\ overwritten' = overwritten
  <2>1. shifted(filled(logic_index[line], logic_index[line_num - 1]), line)
          = [logic |-> L2, memory |-> M2, field |-> F]
    BY <1>3, <1>6 DEF Gone, Last
  <2> HIDE DEF L2, M2
  <2>2. QED BY <2>1 DEF rm_record
<1>8. ASSUME NEW i \in Rows(capacity)
      PROVE  /\ L2[i] = IF Gone(line) # Last /\ After(line, i) = Back THEN Gone(line)
                        ELSE logic_index[After(line, i)]
             /\ L2[i] \in Rows(capacity)
  <2>1. After(line, i) \in Rows(capacity) BY <1>1 DEF Rows, After
  <2>2. L2[i] = L[After(line, i)] BY <1>4 DEF After
  <2> HIDE DEF L2
  <2>3. QED BY <1>4, <2>1, <2>2
<1>9. L2 \in [Rows(capacity) -> Rows(capacity)] BY <1>4, <1>8
<1>10. ASSUME NEW p \in Rows(capacity)
       PROVE  /\ M2[p] \in Rows(capacity)
              /\ IF onto(p) = {} THEN M2[p] = M[p] ELSE M2[p] \in onto(p)
  <2>1. M2[p] = IF onto(p) = {} THEN M[p] ELSE Max(onto(p)) BY <1>4
  <2>2. onto(p) \subseteq 0 .. capacity - 1 BY <1>1
  <2>3. onto(p) # {} => Max(onto(p)) \in onto(p)
    <3>1. onto(p) \subseteq 0 .. capacity BY <1>1, <2>2
    <3> HIDE DEF onto
    <3>2. QED BY <1>1, <3>1, MaxProperties
  <2> HIDE DEF onto, M2
  <2>4. QED BY <1>4, <2>1, <2>2, <2>3 DEF Rows
<1>11. M2 \in [Rows(capacity) -> Rows(capacity)] BY <1>4, <1>10
<1> HIDE DEF M2, L2
<1>12. QED BY <1>1, <1>2, <1>4, <1>5, <1>7, <1>8, <1>9, <1>10, <1>11

(* The rows that are left stand on rows that were in use.                  *)
LEMMA RemoveRecordStep ==
  ASSUME IInv, NEW line \in Lines, rm_record(line)
  PROVE  IInv'
<1>1. /\ Gone(line) \in Rows(capacity) /\ Last \in Rows(capacity) /\ Back \in Rows(capacity)
      /\ line_num' = line_num - 1 /\ line_num \in Nat \ {0} /\ capacity' = capacity
      /\ exists' = exists /\ overwritten' = overwritten
      /\ \A i \in Rows(capacity) :
           logic_index'[i] = IF Gone(line) # Last /\ After(line, i) = Back THEN Gone(line)
                             ELSE logic_index[After(line, i)]
      /\ logic_index' \in [Rows(capacity) -> Rows(capacity)]
      /\ memory_index' \in [Rows(capacity) -> Rows(capacity)]
      /\ \A p \in Rows(capacity) :
           LET onto == {i \in line .. line_num - 2 : logic_index'[i] = p}
           IN  IF onto = {}
               THEN memory_index'[p] = IF Gone(line) # Last /\ p = Gone(line) THEN Back
                                       ELSE memory_index[p]
               ELSE memory_index'[p] \in onto
      /\ DOMAIN field' = DOMAIN field /\ field' = [f \in 1 .. Len(field) |-> field'[f]]
      /\ \A f \in DOMAIN field :
           /\ field'[f] \in Column(capacity)
           /\ field'[f].column_index = f /\ field'[f].name = field[f].name
           /\ \A p \in Rows(capacity) :
                field'[f].data[p] = field[f].data[IF p = Gone(line) THEN Last ELSE p]
  BY RemovedParts
<1>2. line \in 0 .. line_num - 1 /\ line_num - 1 \in Lines /\ Lines \subseteq Rows(capacity)
      /\ Lines = 0 .. line_num - 1 /\ Rows(line_num') = 0 .. line_num - 2
  BY <1>1, Parts DEF Rows
<1>3. ColumnsFit(field', capacity')
  <2>1. Len(field) \in Nat /\ DOMAIN field = 1 .. Len(field) BY Parts
  <2>2. /\ DOMAIN field' = 1 .. Len(field) /\ field' = [f \in 1 .. Len(field) |-> field'[f]]
        /\ \A f \in 1 .. Len(field) : field'[f] \in Column(capacity)
                                       /\ field'[f].column_index = f
    BY <1>1, <2>1
  <2>3. ColumnsFit(field', capacity) BY <2>1, <2>2, ColumnsMade, ZenonT(40)
  <2>4. QED BY <1>1, <2>3
<1>4. \A i \in Rows(line_num') : After(line, i) \in Lines /\ i \in Rows(capacity) /\ i \in Lines
  BY <1>1, <1>2 DEF After
<1>5. ASSUME NEW l \in Rows(line_num'), NEW f \in DOMAIN field'
      PROVE  field'[f].data[logic_index'[l]] # Junk
  <2>1. PICK k \in Lines : logic_index'[l] = logic_index[k] BY <1>1, <1>2, <1>4 DEF Gone
  <2>2. logic_index[k] \in Rows(capacity) BY <1>2, Parts
  <2>3. field'[f].data[logic_index'[l]]
          = field[f].data[IF logic_index[k] = Gone(line) THEN Last ELSE logic_index[k]]
    BY <1>1, <2>1, <2>2
  <2>4. field[f].data[Last] # Junk /\ field[f].data[logic_index[k]] # Junk
    BY <1>1, <1>2, Parts DEF Last
  <2>5. QED BY <2>3, <2>4
<1>6. ASSUME ~overwritten', NEW l \in Rows(line_num')
      PROVE  memory_index'[logic_index'[l]] = l
  <2>1. Back = line_num - 1 /\ memory_index[Gone(line)] = line
        /\ \A k \in Lines : memory_index[logic_index[k]] = k
    BY <1>1, <1>2, <1>6, Parts DEF Back, Last, Gone
  <2>2. Gone(line) = Last => line = line_num - 1 BY <2>1 DEF Back
  <2>3. \A i \in Rows(line_num') :
          logic_index'[i] = IF Gone(line) # Last /\ After(line, i) = line_num - 1 THEN Gone(line)
                            ELSE logic_index[After(line, i)]
    BY <1>1, <1>4, <2>1
  <2> DEFINE p == logic_index'[l]
  <2>4. p \in Rows(capacity) BY <1>1, <1>4
  <2>5. ASSUME NEW i \in Rows(line_num'), logic_index'[i] = p PROVE i = l
    <3>1. \A k \in Rows(line_num') : After(line, k) # line BY <1>1, <1>2 DEF After
    <3>2. \A k, m \in Lines : logic_index[k] = logic_index[m] => k = m BY <2>1
    <3>3. \A k \in Rows(line_num') : After(line, k) \in Lines /\ logic_index[After(line, k)] # Gone(line)
      BY <1>2, <1>4, <3>1, <3>2 DEF Gone
    <3>4. After(line, i) = After(line, l) BY <1>4, <2>3, <2>5, <3>2, <3>3
    <3>5. QED BY <1>1, <1>2, <3>4 DEF After
  <2>6. CASE l \in line .. line_num - 2
    BY <1>1, <1>2, <2>4, <2>5, <2>6
  <2>7. CASE l \notin line .. line_num - 2
    <3>1. p = logic_index[l] /\ l # line_num - 1 /\ l \in Lines /\ l # line
      BY <1>1, <1>2, <1>4, <2>3, <2>7 DEF After
    <3>2. p # Gone(line) BY <1>2, <2>1, <3>1 DEF Gone
    <3>3. {i \in line .. line_num - 2 : logic_index'[i] = p} = {} BY <1>2, <2>5, <2>7
    <3>4. memory_index'[p] = memory_index[p] BY <1>1, <2>4, <3>2, <3>3
    <3>5. QED BY <2>1, <3>1, <3>4
  <2>8. QED BY <2>6, <2>7
<1>7. /\ exists' \in BOOLEAN /\ overwritten' \in BOOLEAN /\ capacity' \in Nat
      /\ line_num' \in Nat /\ line_num' <= capacity' /\ capacity' % INCREASE_LINES_NUM = 0
  BY <1>1, Parts
<1>8. QED BY <1>1, <1>3, <1>5, <1>6, <1>7, PartsNext

(* Renumbering writes a column's place into it and changes nothing else.   *)
LEMMA RenumberedParts ==
  ASSUME NEW c, NEW n \in Nat, NEW fs, DOMAIN fs = 1 .. n,
         \A f \in 1 .. n : fs[f] \in Column(c)
  PROVE  /\ ColumnsFit(Renumbered(fs), c)
         /\ DOMAIN Renumbered(fs) = 1 .. n
         /\ \A f \in 1 .. n : /\ Renumbered(fs)[f].name = fs[f].name
                              /\ Renumbered(fs)[f].data = fs[f].data
<1> DEFINE r == Renumbered(fs)
<1>1. DOMAIN r = 1 .. n /\ r = [f \in 1 .. n |-> r[f]] BY DEF Renumbered
<1>2. ASSUME NEW f \in 1 .. n
      PROVE  /\ r[f] \in Column(c) /\ r[f].column_index = f
             /\ r[f].name = fs[f].name /\ r[f].data = fs[f].data
  <2>1. r[f] = [fs[f] EXCEPT !.column_index = f] BY DEF Renumbered
  <2>2. fs[f] \in Column(c) /\ f \in Nat OBVIOUS
  <2> HIDE DEF r
  <2>3. QED BY <2>1, <2>2 DEF Column
<1> HIDE DEF r
<1>3. ColumnsFit(r, c) BY <1>1, <1>2, ColumnsMade
<1>4. QED BY <1>1, <1>2, <1>3 DEF r

(* A step that leaves the rows alone and puts cells that are set on the    *)
(* rows in use.                                                            *)
LEMMA RowsStay ==
  ASSUME IInv, UNCHANGED <<line_num, capacity, logic_index, memory_index, overwritten>>,
         exists' \in BOOLEAN, ColumnsFit(field', capacity),
         \A l \in Lines, f \in DOMAIN field' : field'[f].data[logic_index[l]] # Junk
  PROVE  IInv'
BY Parts, PartsNext

LEMMA RemovedColumns ==
  ASSUME IInv, NEW f \in DOMAIN field, rm_field(f)
  PROVE  /\ ColumnsFit(field', capacity) /\ DOMAIN field' = 1 .. Len(field) - 1
         /\ Len(field) \in Nat \ {0} /\ f \in 1 .. Len(field)
         /\ \A g \in DOMAIN field' :
              LET h == IF g < f THEN g ELSE g + 1
              IN  /\ h \in DOMAIN field
                  /\ field'[g].name = field[h].name /\ field'[g].data = field[h].data
<1> DEFINE less == RemoveAt(field, f)
<1>1. /\ field \in Seq(Column(capacity)) /\ f \in 1 .. Len(field)
      /\ DOMAIN field = 1 .. Len(field) /\ Len(field) \in Nat
  BY Parts DEF ColumnsFit
<1>2. /\ less \in Seq(Column(capacity)) /\ Len(less) = Len(field) - 1
      /\ DOMAIN less = 1 .. Len(field) - 1
      /\ \A g \in 1 .. Len(field) - 1 : less[g] = IF g < f THEN field[g] ELSE field[g + 1]
  BY <1>1, RemoveAtProperties
<1>3. field' = Renumbered(less) BY DEF rm_field
<1> HIDE DEF less
<1>4. Len(field) - 1 \in Nat /\ \A g \in 1 .. Len(field) - 1 : less[g] \in Column(capacity)
  BY <1>1, <1>2, ElementOfSeq
<1>5. /\ ColumnsFit(field', capacity) /\ DOMAIN field' = 1 .. Len(field) - 1
      /\ \A g \in 1 .. Len(field) - 1 : /\ field'[g].name = less[g].name
                                        /\ field'[g].data = less[g].data
  BY <1>2, <1>3, <1>4, RenumberedParts
<1>6. QED BY <1>1, <1>2, <1>5

LEMMA RemoveFieldStep ==
  ASSUME IInv, NEW f \in DOMAIN field, rm_field(f)
  PROVE  IInv'
<1>1. exists' \in BOOLEAN BY Parts DEF rm_field
<1>2. UNCHANGED <<line_num, capacity, logic_index, memory_index, overwritten>> BY DEF rm_field
<1>3. QED BY <1>1, <1>2, RemovedColumns, Parts, RowsStay

LEMMA AddedColumns ==
  ASSUME IInv, NEW name \in Names, add_field(name)
  PROVE  /\ ColumnsFit(field', capacity) /\ DOMAIN field' = 1 .. Len(field) + 1
         /\ \A f \in DOMAIN field : field'[f] = field[f]
         /\ field'[Len(field) + 1].name = name
         /\ \A p \in RowsInUse : field'[Len(field) + 1].data[p] = NULL
<1> DEFINE new == [name |-> name, column_index |-> Len(field) + 1,
                   data |-> [p \in 0 .. capacity - 1 |-> IF p \in RowsInUse THEN NULL ELSE Junk]]
<1>1. /\ field \in Seq(Column(capacity)) /\ DOMAIN field = 1 .. Len(field)
      /\ Len(field) \in Nat /\ \A f \in DOMAIN field : field[f].column_index = f
  BY Parts DEF ColumnsFit
<1>2. new \in Column(capacity) BY <1>1 DEF Column, Rows, Cell
<1>3. RowsInUse \subseteq 0 .. capacity - 1 BY Parts DEF RowsInUse, Rows
<1>4. \A p \in RowsInUse : new.data[p] = NULL BY <1>3
<1>5. new.name = name /\ new.column_index = Len(field) + 1 OBVIOUS
<1>6. field' = Append(field, new) BY DEF add_field
<1> HIDE DEF new
<1>7. /\ field' \in Seq(Column(capacity)) /\ DOMAIN field' = 1 .. Len(field) + 1
      /\ \A f \in 1 .. Len(field) : field'[f] = field[f]
      /\ field'[Len(field) + 1] = new
  BY <1>1, <1>2, <1>6, AppendElements
<1>8. \A f \in DOMAIN field' : field'[f].column_index = f
  BY <1>1, <1>5, <1>7
<1>9. QED BY <1>1, <1>4, <1>5, <1>7, <1>8 DEF ColumnsFit

LEMMA AddFieldStep ==
  ASSUME IInv, NEW name \in Names, add_field(name)
  PROVE  IInv'
<1>1. exists' \in BOOLEAN BY Parts DEF add_field
<1>2. UNCHANGED <<line_num, capacity, logic_index, memory_index, overwritten>> BY DEF add_field
<1>3. ASSUME NEW l \in Lines, NEW f \in DOMAIN field'
      PROVE  field'[f].data[logic_index[l]] # Junk
  <2>1. CASE f \in DOMAIN field BY <2>1, AddedColumns, Parts
  <2>2. CASE f \notin DOMAIN field
    <3>1. f = Len(field) + 1 BY <2>2, AddedColumns, Parts
    <3>2. logic_index[l] \in RowsInUse BY DEF RowsInUse
    <3>3. QED BY <3>1, <3>2, AddedColumns, TableAssumption
  <2>3. QED BY <2>1, <2>2
<1>4. QED BY <1>1, <1>2, <1>3, AddedColumns, RowsStay

LEMMA SwapRecordStep ==
  ASSUME IInv, NEW a \in Lines, NEW b \in Lines, swap_record(a, b)
  PROVE  IInv'
<1>1. /\ logic_index' = [logic_index EXCEPT ![a] = logic_index[b], ![b] = logic_index[a]]
      /\ memory_index' = [memory_index EXCEPT ![logic_index[b]] = a, ![logic_index[a]] = b]
      /\ UNCHANGED <<exists, field, line_num, capacity, overwritten>>
  BY DEF swap_record
<1>2. /\ logic_index \in [Rows(capacity) -> Rows(capacity)]
      /\ memory_index \in [Rows(capacity) -> Rows(capacity)]
      /\ a \in Rows(capacity) /\ b \in Rows(capacity) /\ Lines \subseteq Rows(capacity)
      /\ Lines = Rows(line_num)
  BY Parts
<1>3. /\ logic_index' \in [Rows(capacity) -> Rows(capacity)]
      /\ memory_index' \in [Rows(capacity) -> Rows(capacity)]
      /\ \A i \in Rows(capacity) :
           logic_index'[i] = logic_index[IF i = b THEN a ELSE IF i = a THEN b ELSE i]
      /\ \A p \in Rows(capacity) :
           memory_index'[p] = IF p = logic_index[a] THEN b ELSE
                              IF p = logic_index[b] THEN a ELSE memory_index[p]
  BY <1>1, <1>2
<1>4. ASSUME NEW l \in Lines, NEW f \in DOMAIN field
      PROVE  field[f].data[logic_index'[l]] # Junk
  BY <1>2, <1>3, Parts
<1>5. ASSUME ~overwritten, NEW l \in Lines
      PROVE  memory_index'[logic_index'[l]] = l
  <2>1. \A k \in Lines : memory_index[logic_index[k]] = k BY <1>5, Parts
  <2>2. QED BY <1>2, <1>3, <2>1
<1>6. QED BY <1>1, <1>2, <1>3, <1>4, <1>5, Parts, PartsNext

LEMMA SwappedColumns ==
  ASSUME IInv, NEW f \in DOMAIN field, NEW g \in DOMAIN field, swap_field(f, g)
  PROVE  /\ ColumnsFit(field', capacity) /\ DOMAIN field' = DOMAIN field
         /\ \A h \in DOMAIN field :
              LET k == IF h = g THEN f ELSE IF h = f THEN g ELSE h
              IN  field'[h].name = field[k].name /\ field'[h].data = field[k].data
<1> DEFINE less == [field EXCEPT ![f] = field[g], ![g] = field[f]]
<1>1. /\ DOMAIN field = 1 .. Len(field) /\ Len(field) \in Nat
      /\ \A h \in DOMAIN field : field[h] \in Column(capacity)
  BY Parts
<1>2. /\ DOMAIN less = 1 .. Len(field)
      /\ \A h \in 1 .. Len(field) : less[h] = field[IF h = g THEN f ELSE IF h = f THEN g ELSE h]
  BY <1>1
<1>3. field' = Renumbered(less) BY DEF swap_field
<1> HIDE DEF less
<1>4. \A h \in 1 .. Len(field) : less[h] \in Column(capacity) BY <1>1, <1>2
<1>5. /\ ColumnsFit(field', capacity) /\ DOMAIN field' = 1 .. Len(field)
      /\ \A h \in 1 .. Len(field) : /\ field'[h].name = less[h].name
                                    /\ field'[h].data = less[h].data
  BY <1>1, <1>2, <1>3, <1>4, RenumberedParts
<1>6. QED BY <1>1, <1>2, <1>5

LEMMA SwapFieldStep ==
  ASSUME IInv, NEW f \in DOMAIN field, NEW g \in DOMAIN field, swap_field(f, g)
  PROVE  IInv'
<1>1. exists' \in BOOLEAN BY Parts DEF swap_field
<1>2. UNCHANGED <<line_num, capacity, logic_index, memory_index, overwritten>> BY DEF swap_field
<1>3. ASSUME NEW l \in Lines, NEW h \in DOMAIN field'
      PROVE  field'[h].data[logic_index[l]] # Junk
  <2> DEFINE k == IF h = g THEN f ELSE IF h = f THEN g ELSE h
  <2>1. h \in DOMAIN field /\ k \in DOMAIN field /\ field'[h].data = field[k].data
    BY SwappedColumns
  <2> HIDE DEF k
  <2>2. QED BY <2>1, Parts
<1>4. QED BY <1>1, <1>2, <1>3, SwappedColumns, RowsStay

(* The columns of S get a new cell in one row.                             *)
Writes(line, S, v) ==
  field' = [f \in DOMAIN field |->
              IF f \in S THEN [field[f] EXCEPT !.data[logic_index[line]] = v[f]]
              ELSE field[f]]

LEMMA WrittenColumns ==
  ASSUME IInv, NEW line \in Lines, NEW S \in SUBSET DOMAIN field, NEW v,
         \A f \in S : v[f] \in Values,
         Writes(line, S, v)
  PROVE  /\ ColumnsFit(field', capacity) /\ DOMAIN field' = DOMAIN field
         /\ \A f \in DOMAIN field :
              /\ field'[f].name = field[f].name
              /\ \A p \in Rows(capacity) :
                   field'[f].data[p] = IF f \in S /\ p = logic_index[line] THEN v[f]
                                       ELSE field[f].data[p]
<1>1. /\ DOMAIN field = 1 .. Len(field) /\ Len(field) \in Nat
      /\ \A f \in DOMAIN field : field[f] \in Column(capacity) /\ field[f].column_index = f
      /\ logic_index[line] \in Rows(capacity)
  BY Parts
<1>2. DOMAIN field' = 1 .. Len(field) /\ field' = [f \in 1 .. Len(field) |-> field'[f]]
  BY <1>1 DEF Writes
<1>3. ASSUME NEW f \in DOMAIN field
      PROVE  /\ field'[f] \in Column(capacity) /\ field'[f].column_index = f
             /\ field'[f].name = field[f].name
             /\ \A p \in Rows(capacity) :
                  field'[f].data[p] = IF f \in S /\ p = logic_index[line] THEN v[f]
                                      ELSE field[f].data[p]
  <2>1. field[f] \in Column(capacity) /\ field[f].column_index = f BY <1>1
  <2>2. CASE f \in S
    <3>1. field'[f] = [field[f] EXCEPT !.data = [field[f].data EXCEPT ![logic_index[line]] = v[f]]]
      BY <2>2 DEF Writes
    <3>2. v[f] \in Cell BY <2>2 DEF Cell
    <3>3. QED BY <1>1, <2>1, <2>2, <3>1, <3>2 DEF Column
  <2>3. CASE f \notin S BY <2>1, <2>3 DEF Writes
  <2>4. QED BY <2>2, <2>3
<1>4. ColumnsFit(field', capacity)
  <2>1. \A f \in 1 .. Len(field) : field'[f] \in Column(capacity) /\ field'[f].column_index = f
    BY <1>1, <1>3
  <2>2. Len(field) \in Nat BY <1>1
  <2>3. QED BY <1>2, <2>1, <2>2, ColumnsMade
<1>5. QED BY <1>1, <1>2, <1>3, <1>4

LEMMA WriteStep ==
  ASSUME IInv, NEW line \in Lines, NEW S \in SUBSET DOMAIN field, NEW v,
         \A f \in S : v[f] \in Values,
         Writes(line, S, v),
         UNCHANGED <<exists, line_num, capacity, logic_index, memory_index, overwritten>>
  PROVE  IInv'
<1>1. /\ ColumnsFit(field', capacity) /\ DOMAIN field' = DOMAIN field
      /\ \A f \in DOMAIN field, p \in Rows(capacity) :
           field'[f].data[p] = IF f \in S /\ p = logic_index[line] THEN v[f]
                               ELSE field[f].data[p]
  BY WrittenColumns, SMTT(30)
<1>2. ASSUME NEW l \in Lines, NEW f \in DOMAIN field
      PROVE  field'[f].data[logic_index[l]] # Junk
  <2>1. logic_index[l] \in Rows(capacity) /\ field[f].data[logic_index[l]] # Junk BY Parts
  <2>2. field'[f].data[logic_index[l]] = IF f \in S /\ logic_index[l] = logic_index[line] THEN v[f]
                                         ELSE field[f].data[logic_index[l]]
    BY <1>1, <2>1
  <2>3. QED BY <2>1, <2>2, TableAssumption
<1>3. exists' \in BOOLEAN BY Parts
<1>4. QED BY <1>1, <1>2, <1>3, RowsStay

(* set_value and update_record are such writes.                            *)
LEMMA SetValueWrites ==
  ASSUME IInv, NEW line \in Lines, NEW f \in DOMAIN field, NEW v \in Values,
         set_value(line, f, v)
  PROVE  \E S \in SUBSET DOMAIN field : \E w :
           /\ \A g \in S : w[g] \in Values
           /\ Writes(line, S, w)
           /\ UNCHANGED <<exists, line_num, capacity, logic_index, memory_index, overwritten>>
<1> DEFINE w == [g \in {f} |-> v]
<1>1. field' = [field EXCEPT ![f] = [field[f] EXCEPT !.data[logic_index[line]] = v]]
  BY DEF set_value
<1>2. field = [g \in DOMAIN field |-> field[g]] BY Parts DEF ColumnsFit
<1>3. field' = [g \in DOMAIN field |->
                  IF g \in {f} THEN [field[g] EXCEPT !.data[logic_index[line]] = w[g]]
                  ELSE field[g]]
  BY <1>1, <1>2
<1>4. UNCHANGED <<exists, line_num, capacity, logic_index, memory_index, overwritten>>
  BY DEF set_value
<1>5. {f} \in SUBSET DOMAIN field /\ \A g \in {f} : w[g] \in Values OBVIOUS
<1> HIDE DEF w
<1>6. Writes(line, {f}, w) BY <1>3 DEF Writes
<1>7. QED BY <1>4, <1>5, <1>6

LEMMA UpdateRecordWrites ==
  ASSUME IInv, NEW line \in Lines, NEW values \in Tuples(Values, MaxFields),
         update_record(line, values)
  PROVE  \E S \in SUBSET DOMAIN field : \E w :
           /\ \A g \in S : w[g] \in Values
           /\ Writes(line, S, w)
           /\ UNCHANGED <<exists, line_num, capacity, logic_index, memory_index, overwritten>>
<1>1. PICK k \in 0 .. MaxFields : values \in [1 .. k -> Values] BY DEF Tuples
<1>2. k \in Nat /\ Len(values) = k BY <1>1, TableAssumption
<1>3. DOMAIN field = 1 .. Len(field) /\ Len(field) \in Nat BY Parts
<1>4. /\ Len(values) <= Len(field)
      /\ field' = [g \in DOMAIN field |->
                     IF g <= Len(values)
                     THEN [field[g] EXCEPT !.data[logic_index[line]] = values[g]]
                     ELSE field[g]]
      /\ UNCHANGED <<exists, line_num, capacity, logic_index, memory_index, overwritten>>
  BY DEF update_record
<1>5. 1 .. k \in SUBSET DOMAIN field /\ \A g \in 1 .. k : values[g] \in Values
  BY <1>1, <1>2, <1>3, <1>4
<1>6. field' = [g \in DOMAIN field |->
                  IF g \in 1 .. k THEN [field[g] EXCEPT !.data[logic_index[line]] = values[g]]
                  ELSE field[g]]
  <2>1. \A g \in DOMAIN field : g <= Len(values) <=> g \in 1 .. k BY <1>2, <1>3
  <2>2. QED BY <1>4, <2>1
<1>7. Writes(line, 1 .. k, values) BY <1>6 DEF Writes
<1>8. QED BY <1>4, <1>5, <1>7

LEMMA ClearedColumns ==
  ASSUME IInv, clear_table
  PROVE  /\ capacity' \in Nat /\ capacity' % INCREASE_LINES_NUM = 0
         /\ ColumnsFit(field', capacity') /\ DOMAIN field' = DOMAIN field
         /\ \A f \in DOMAIN field : field'[f].name = field[f].name
<1> DEFINE n == INCREASE_LINES_NUM
           c == Min({capacity, n})
<1>1. /\ DOMAIN field = 1 .. Len(field) /\ Len(field) \in Nat
      /\ \A f \in DOMAIN field : field[f] \in Column(capacity) /\ field[f].column_index = f
      /\ capacity \in Nat /\ n \in Nat \ {0} /\ capacity % n = 0
  BY Parts
<1>2. c \in {capacity, n}
  <2>1. \E x \in {capacity, n} : \A y \in {capacity, n} : x <= y BY <1>1
  <2>2. QED BY <2>1, Zenon DEF Min
<1>3. capacity' = c BY DEF clear_table
<1> HIDE DEF c
<1>4. c \in Nat /\ c % n = 0 BY <1>1, <1>2, NoRemainder
<1>5. field' = [f \in DOMAIN field |-> [field[f] EXCEPT !.data = [p \in Rows(c) |-> NULL]]]
  BY <1>3 DEF clear_table, EachColumn, Rows
<1>6. DOMAIN field' = 1 .. Len(field) /\ field' = [f \in 1 .. Len(field) |-> field'[f]]
  BY <1>1, <1>5
<1>7. ASSUME NEW f \in DOMAIN field
      PROVE  /\ field'[f] \in Column(c) /\ field'[f].column_index = f
             /\ field'[f].name = field[f].name
  <2>1. field'[f] = [field[f] EXCEPT !.data = [p \in Rows(c) |-> NULL]] BY <1>5
  <2>2. field[f] \in Column(capacity) /\ field[f].column_index = f BY <1>1
  <2>3. QED BY <2>1, <2>2 DEF Column, Cell
<1>8. ColumnsFit(field', c)
  <2>1. \A f \in 1 .. Len(field) : field'[f] \in Column(c) /\ field'[f].column_index = f
    BY <1>1, <1>7
  <2>2. Len(field) \in Nat BY <1>1
  <2>3. QED BY <1>6, <2>1, <2>2, ColumnsMade, ZenonT(40)
<1>9. QED BY <1>1, <1>3, <1>4, <1>6, <1>7, <1>8

LEMMA ClearStep ==
  ASSUME IInv, clear_table
  PROVE  IInv'
<1>1. /\ line_num' = 0 /\ exists' = exists /\ overwritten' = overwritten
      /\ logic_index' = Identity(capacity') /\ memory_index' = Identity(capacity')
  BY DEF clear_table
<1>2. /\ logic_index' \in [Rows(capacity') -> Rows(capacity')]
      /\ memory_index' \in [Rows(capacity') -> Rows(capacity')]
      /\ Rows(line_num') = {}
  BY <1>1 DEF Identity, Rows
<1>3. exists' \in BOOLEAN /\ overwritten' \in BOOLEAN /\ line_num' \in Nat BY <1>1, Parts
<1>4. capacity' \in Nat /\ line_num' <= capacity' BY <1>1, ClearedColumns
<1>5. QED BY <1>1, <1>2, <1>3, <1>4, ClearedColumns, PartsNext

LEMMA NextInv ==
  ASSUME IInv, [Next]_vars
  PROVE  IInv'
<1>1. ASSUME NEW line \in Lines, NEW f \in DOMAIN field, NEW v \in Values,
             set_value(line, f, v)
      PROVE  IInv'
  BY <1>1, SetValueWrites, WriteStep
<1>2. ASSUME NEW line \in Lines, NEW values \in Tuples(Values, MaxFields),
             update_record(line, values)
      PROVE  IInv'
  BY <1>2, UpdateRecordWrites, WriteStep
<1>3. CASE UNCHANGED vars
  BY <1>3 DEF vars, IInv, TypeOK, IndexesInvert, MemoryIndexInverts, NoUnsetCell, Lines,
     get_value
<1>4. QED
  BY <1>1, <1>2, <1>3, CreateStep, FreeStep, AddRecordStep, RemoveRecordStep,
     RemoveFieldStep, AddFieldStep, SwapRecordStep, SwapFieldStep, ClearStep DEF Next

-----------------------------------------------------------------------------
(* The refinement of Grid.  While every row stands on a physical row of    *)
(* its own, each operation changes the visible records as Grid says.       *)

Columns == [f \in DOMAIN field |-> field[f].name]
Records == [r \in 1 .. line_num |-> get_record(r - 1)]
RecordOf(w) == [1 .. w -> Values \cup {NULL}]
Record == RecordOf(Len(field))

VisibleParts ==
  /\ Columns \in Seq(Names) /\ Columns \in [1 .. Len(field) -> Names]
  /\ Len(Columns) = Len(field) /\ Len(field) \in Nat /\ DOMAIN field = 1 .. Len(field)
  /\ Records \in Seq(Record) /\ Records \in [1 .. line_num -> Record]
  /\ Len(Records) = line_num /\ line_num \in Nat
  /\ \A f \in DOMAIN field : Columns[f] = field[f].name
  /\ \A r \in 1 .. line_num, f \in DOMAIN field :
       Records[r][f] = field[f].data[logic_index[r - 1]]
  /\ \A r \in 1 .. line_num :
       /\ r - 1 \in Lines /\ r - 1 \in Rows(capacity)
       /\ logic_index[r - 1] \in Rows(capacity) /\ logic_index[r - 1] \in RowsInUse

LEMMA Visible == IInv => VisibleParts
<1> SUFFICES ASSUME IInv PROVE VisibleParts OBVIOUS
<1>1. /\ Len(field) \in Nat /\ DOMAIN field = 1 .. Len(field) /\ line_num \in Nat
      /\ \A f \in DOMAIN field : field[f] \in Column(capacity)
      /\ Lines = Rows(line_num) /\ Lines \subseteq Rows(capacity)
      /\ logic_index \in [Rows(capacity) -> Rows(capacity)]
      /\ \A l \in Lines, f \in DOMAIN field : field[f].data[logic_index[l]] # Junk
  BY Parts
<1>2. \A f \in DOMAIN field : field[f].name \in Names /\ field[f].data \in [Rows(capacity) -> Cell]
  BY <1>1 DEF Column
<1>3. Columns \in [1 .. Len(field) -> Names] /\ \A f \in DOMAIN field : Columns[f] = field[f].name
  BY <1>1, <1>2 DEF Columns
<1>4. Columns \in Seq(Names) /\ Len(Columns) = Len(field) BY <1>1, <1>3
<1>5. \A r \in 1 .. line_num :
        /\ r - 1 \in Lines /\ r - 1 \in Rows(capacity)
        /\ logic_index[r - 1] \in Rows(capacity) /\ logic_index[r - 1] \in RowsInUse
  BY <1>1 DEF Rows, RowsInUse
<1>6. \A r \in 1 .. line_num, f \in DOMAIN field :
        field[f].data[logic_index[r - 1]] \in Values \cup {NULL}
  BY <1>1, <1>2, <1>5 DEF Cell
<1>7. \A r \in 1 .. line_num :
        /\ Records[r] = [f \in DOMAIN field |-> field[f].data[logic_index[r - 1]]]
        /\ Records[r] \in Record
  BY <1>1, <1>6 DEF Records, get_record, get_value, Record, RecordOf
<1>8. Records \in [1 .. line_num -> Record] BY <1>7 DEF Records
<1>9. Records \in Seq(Record) /\ Len(Records) = line_num BY <1>1, <1>8
<1>10. QED BY <1>1, <1>3, <1>4, <1>5, <1>7, <1>8, <1>9 DEF VisibleParts

LEMMA VisibleNext == IInv' => VisibleParts' BY Visible, PTL

(* Two lists of records of the same cells.                                 *)
LEMMA SameCells ==
  ASSUME NEW w \in Nat, NEW s \in Seq(RecordOf(w)), NEW t \in Seq(RecordOf(w)),
         Len(s) = Len(t), \A r \in 1 .. Len(s), f \in 1 .. w : s[r][f] = t[r][f]
  PROVE  s = t
<1>1. ASSUME NEW r \in 1 .. Len(s) PROVE s[r] = t[r]
  <2> DEFINE u == s[r]
             v == t[r]
  <2>1. u \in RecordOf(w) /\ v \in RecordOf(w) BY ElementOfSeq
  <2>2. \A f \in 1 .. w : u[f] = v[f] OBVIOUS
  <2> HIDE DEF u, v
  <2>3. u = v BY <2>1, <2>2 DEF RecordOf
  <2>4. QED BY <2>3 DEF u, v
<1>2. QED BY <1>1, SeqEqual

LEMMA SameColumns ==
  ASSUME VisibleParts, VisibleParts', DOMAIN field' = DOMAIN field,
         \A f \in DOMAIN field : field'[f].name = field[f].name
  PROVE  Columns' = Columns /\ Len(field') = Len(field) /\ Record' = Record
<1>1. /\ Len(field') \in Nat /\ Len(field) \in Nat
      /\ 1 .. Len(field') = 1 .. Len(field)
  BY DEF VisibleParts
<1>2. Len(field') = Len(field) BY <1>1, SameBound
<1>3. Columns' = Columns BY <1>2, SMTT(30) DEF VisibleParts
<1>4. QED BY <1>2, <1>3 DEF Record

LEMMA InsertStep ==
  ASSUME IInv, IInv', ~overwritten', NEW values \in Tuples(Values, MaxFields),
         add_record(values)
  PROVE  G!Insert /\ exists
<1>1. VisibleParts /\ VisibleParts' BY Visible, VisibleNext
<1> DEFINE new == G!Padded(values, Len(Columns))
<1>2. /\ line_num' = line_num + 1 /\ exists /\ exists' = exists
      /\ line_num \notin RowsInUse
      /\ Len(values) \in 0 .. Len(field) /\ \A f \in 1 .. Len(values) : values[f] \in Values
      /\ logic_index'[line_num] = line_num
      /\ \A i \in Rows(capacity) \ {line_num} : logic_index'[i] = logic_index[i]
      /\ DOMAIN field' = DOMAIN field
      /\ \A f \in DOMAIN field :
           /\ field'[f].name = field[f].name
           /\ field'[f].data[line_num] = IF f <= Len(values) THEN values[f] ELSE NULL
           /\ \A p \in Rows(capacity) \ {line_num} : field'[f].data[p] = field[f].data[p]
  BY AddedParts
<1>3. Columns' = Columns /\ Len(field') = Len(field) /\ Record' = Record
  BY <1>1, <1>2, SameColumns
<1>4. /\ new \in Record
      /\ \A f \in 1 .. Len(field) : new[f] = IF f <= Len(values) THEN values[f] ELSE NULL
  BY <1>1, <1>2 DEF G!Padded, Record, RecordOf, VisibleParts
<1> HIDE DEF new
<1>5. /\ Append(Records, new) \in Seq(Record)
      /\ Len(Append(Records, new)) = line_num + 1
      /\ \A r \in 1 .. line_num : Append(Records, new)[r] = Records[r]
      /\ Append(Records, new)[line_num + 1] = new
  BY <1>1, <1>4, AppendElements DEF VisibleParts
<1>6. Records' \in Seq(Record) /\ Len(Records') = line_num + 1
      /\ Records' \in [1 .. line_num + 1 -> Record]
  BY <1>1, <1>2, <1>3 DEF VisibleParts
<1>7. ASSUME NEW r \in 1 .. line_num + 1, NEW f \in 1 .. Len(field)
      PROVE  Records'[r][f] = Append(Records, new)[r][f]
  <2>1. /\ Records'[r][f] = field'[f].data[logic_index'[r - 1]]
        /\ f \in DOMAIN field /\ line_num \in Nat
    BY <1>1, <1>2, <1>3 DEF VisibleParts
  <2>2. CASE r = line_num + 1 BY <1>2, <1>4, <1>5, <2>1, <2>2
  <2>3. CASE r # line_num + 1
    <3>1. r \in 1 .. line_num /\ r - 1 # line_num BY <2>1, <2>3
    <3>2. /\ Records[r][f] = field[f].data[logic_index[r - 1]]
          /\ r - 1 \in Rows(capacity) /\ logic_index[r - 1] \in Rows(capacity)
          /\ logic_index[r - 1] # line_num
      BY <1>1, <1>2, <2>1, <3>1 DEF VisibleParts
    <3>3. QED BY <1>2, <1>5, <2>1, <3>1, <3>2, SMTT(30)
  <2>4. QED BY <2>2, <2>3
<1>8. Records' = Append(Records, new)
  <2> DEFINE more == Append(Records, new)
             now == Records'
  <2>1. now \in Seq(Record) /\ more \in Seq(Record) /\ Len(now) = Len(more)
        /\ Len(now) = line_num + 1
        /\ \A r \in 1 .. line_num + 1, f \in 1 .. Len(field) : now[r][f] = more[r][f]
    BY <1>5, <1>6, <1>7
  <2> HIDE DEF now, more
  <2>2. now = more
    <3>1. Len(field) \in Nat BY <1>1 DEF VisibleParts
    <3>2. QED BY <2>1, <3>1, SameCells DEF Record
  <2>3. QED BY <2>2 DEF now, more
<1>9. values \in UNION {[1 .. w -> Values] : w \in 0 .. Len(Columns)}
  <2>1. PICK k \in 0 .. MaxFields : values \in [1 .. k -> Values] BY DEF Tuples
  <2>2. k \in Nat /\ Len(values) = k BY <2>1, TableAssumption
  <2>3. k \in 0 .. Len(Columns) BY <1>1, <1>2, <2>2 DEF VisibleParts
  <2>4. QED BY <2>1, <2>3
<1>10. \E cells \in UNION {[1 .. w -> Values] : w \in 0 .. Len(Columns)} :
         Records' = Append(Records, G!Padded(cells, Len(Columns)))
  BY <1>8, <1>9 DEF new
<1>11. QED BY <1>2, <1>3, <1>10 DEF G!Insert, Columns, Records

LEMMA CreateGrid ==
  ASSUME IInv, IInv', NEW names \in Tuples(Names, MaxFields), create_table(names)
  PROVE  G!Create
<1>1. VisibleParts' BY VisibleNext
<1>2. PICK k \in 0 .. MaxFields : names \in [1 .. k -> Names] BY DEF Tuples
<1>3. /\ ~exists /\ exists' /\ line_num' = 0 /\ names # <<>> /\ DOMAIN field' = 1 .. k
  BY <1>2 DEF create_table
<1>4. k \in Nat /\ k # 0 BY <1>2, <1>3, TableAssumption
<1>5. Columns' \in Seq(Names) /\ DOMAIN Columns' = 1 .. k BY <1>1, <1>3 DEF VisibleParts
<1>6. Columns' # <<>> BY <1>4, <1>5
<1>7. Records' = <<>> BY <1>3 DEF Records
<1>8. QED BY <1>3, <1>5, <1>6, <1>7 DEF G!Create, Columns, Records

LEMMA DestroyGrid ==
  ASSUME IInv, free_table
  PROVE  G!Destroy /\ exists
<1>1. Records' = <<>> /\ Columns' = <<>> BY DEF free_table, Records, Columns
<1>2. exists /\ ~exists' BY DEF free_table
<1>3. QED BY <1>1, <1>2 DEF G!Destroy, Columns, Records

LEMMA ClearGrid ==
  ASSUME IInv, IInv', clear_table
  PROVE  G!Clear /\ exists
<1>1. VisibleParts /\ VisibleParts' BY Visible, VisibleNext
<1>2. Columns' = Columns BY <1>1, ClearedColumns, SameColumns
<1>3. Records' = <<>>
  <2>1. line_num' = 0 BY DEF clear_table
  <2>2. QED BY <2>1 DEF Records
<1>4. exists /\ exists' = exists BY DEF clear_table
<1>5. QED BY <1>2, <1>3, <1>4 DEF G!Clear, Columns, Records

(* Removing a record: the rows behind it move up, and the last one's cells *)
(* are found in the freed row.                                             *)
LEMMA RemoveGrid ==
  ASSUME IInv, IInv', ~overwritten, NEW line \in Lines, rm_record(line)
  PROVE  G!Remove(line + 1) /\ line + 1 \in 1 .. line_num
<1> DEFINE less == G!RemoveAt(Records, line + 1)
<1>1. VisibleParts /\ VisibleParts' BY Visible, VisibleNext
<1>2. /\ Gone(line) \in Rows(capacity) /\ Last \in Rows(capacity)
      /\ line_num' = line_num - 1 /\ line_num \in Nat \ {0} /\ exists' = exists
      /\ \A i \in Rows(capacity) :
           logic_index'[i] = IF Gone(line) # Last /\ After(line, i) = Back THEN Gone(line)
                             ELSE logic_index[After(line, i)]
      /\ DOMAIN field' = DOMAIN field
      /\ \A f \in DOMAIN field :
           /\ field'[f].name = field[f].name
           /\ \A p \in Rows(capacity) :
                field'[f].data[p] = field[f].data[IF p = Gone(line) THEN Last ELSE p]
  BY RemovedParts
<1>3. /\ line \in 0 .. line_num - 1 /\ Lines = 0 .. line_num - 1 /\ Lines \subseteq Rows(capacity)
      /\ \A k \in Lines : memory_index[logic_index[k]] = k
      /\ \A k \in Lines : logic_index[k] \in Rows(capacity)
  BY Parts DEF Rows
<1>4. Columns' = Columns /\ Len(field') = Len(field) /\ Record' = Record
  BY <1>1, <1>2, SameColumns
<1>5. /\ less \in Seq(Record) /\ Len(less) = line_num - 1
      /\ \A r \in 1 .. line_num - 1 : less[r] = Records[IF r < line + 1 THEN r ELSE r + 1]
  <2>1. /\ Records \in Seq(Record) /\ Len(Records) = line_num /\ line + 1 \in 1 .. Len(Records)
    BY <1>1, <1>3 DEF VisibleParts
  <2>2. less = RemoveAt(Records, line + 1) BY DEF G!RemoveAt, RemoveAt
  <2> HIDE DEF less
  <2>3. /\ less \in Seq(Record) /\ Len(less) = Len(Records) - 1
        /\ \A r \in 1 .. Len(Records) - 1 :
             less[r] = IF r < line + 1 THEN Records[r] ELSE Records[r + 1]
    BY <2>1, <2>2, RemoveAtProperties
  <2>4. QED BY <2>1, <2>3
<1> HIDE DEF less
<1>6. Back = line_num - 1 BY <1>2, <1>3 DEF Back, Last
<1>7. ASSUME NEW r \in 1 .. line_num - 1, NEW f \in 1 .. Len(field)
      PROVE  Records'[r][f] = less[r][f]
  <2> DEFINE i == r - 1
             k == After(line, i)
  <2>1. /\ k \in Lines /\ k # line /\ i \in Rows(capacity)
        /\ k + 1 = (IF r < line + 1 THEN r ELSE r + 1) /\ k + 1 \in 1 .. line_num
    BY <1>2, <1>3 DEF After
  <2>2. Records'[r][f] = field'[f].data[logic_index'[i]] /\ f \in DOMAIN field
    BY <1>1, <1>2, <1>4 DEF VisibleParts
  <2>3. Records[k + 1][f] = field[f].data[logic_index[k]]
    <3>1. (k + 1) - 1 = k BY <1>3, <2>1
    <3> HIDE DEF k
    <3>2. Records[k + 1][f] = field[f].data[logic_index[(k + 1) - 1]]
      BY <1>1, <2>1, <2>2 DEF VisibleParts
    <3>3. QED BY <3>1, <3>2
  <2>4. less[r][f] = field[f].data[logic_index[k]] BY <1>5, <2>1, <2>3
  <2> HIDE DEF k, i
  <2>5. logic_index[k] \in Rows(capacity) /\ logic_index[k] # Gone(line)
    BY <1>3, <2>1 DEF Gone
  <2>6. logic_index'[i] = IF Gone(line) # Last /\ k = Back THEN Gone(line) ELSE logic_index[k]
    BY <1>2, <2>1 DEF k
  <2>7. CASE Gone(line) # Last /\ k = Back
    <3>1. field'[f].data[logic_index'[i]] = field[f].data[Last]
      BY <1>2, <2>2, <2>6, <2>7
    <3>2. logic_index[k] = Last BY <1>6, <2>7 DEF Last
    <3>3. QED BY <2>2, <2>4, <3>1, <3>2
  <2>8. CASE ~(Gone(line) # Last /\ k = Back)
    <3>1. logic_index'[i] = logic_index[k] BY <2>6, <2>8
    <3>2. field'[f].data[logic_index[k]] = field[f].data[logic_index[k]]
      BY <1>2, <2>2, <2>5
    <3>3. QED BY <2>2, <2>4, <3>1, <3>2
  <2>9. QED BY <2>7, <2>8
<1>8. Records' = less
  <2> DEFINE now == Records'
  <2>1. /\ now \in Seq(RecordOf(Len(field))) /\ less \in Seq(RecordOf(Len(field)))
        /\ Len(now) = line_num - 1 /\ Len(less) = line_num - 1
        /\ \A r \in 1 .. line_num - 1, f \in 1 .. Len(field) : now[r][f] = less[r][f]
        /\ Len(field) \in Nat
    BY <1>1, <1>2, <1>4, <1>5, <1>7 DEF VisibleParts, Record
  <2> HIDE DEF now
  <2>2. now = less BY <2>1, SameCells
  <2>3. QED BY <2>2 DEF now
<1>9. line + 1 \in 1 .. line_num BY <1>2, <1>3
<1>10. QED BY <1>2, <1>4, <1>8, <1>9 DEF G!Remove, Columns, Records, less

LEMMA ExchangeGrid ==
  ASSUME IInv, IInv', NEW a \in Lines, NEW b \in Lines, swap_record(a, b)
  PROVE  /\ G!Exchange(a + 1, b + 1)
         /\ a + 1 \in 1 .. line_num /\ b + 1 \in 1 .. line_num
<1>1. VisibleParts /\ VisibleParts' BY Visible, VisibleNext
<1>2. /\ logic_index' = [logic_index EXCEPT ![a] = logic_index[b], ![b] = logic_index[a]]
      /\ UNCHANGED <<exists, field, line_num>>
  BY DEF swap_record
<1>3. /\ a \in 0 .. line_num - 1 /\ b \in 0 .. line_num - 1 /\ line_num \in Nat
      /\ logic_index \in [Rows(capacity) -> Rows(capacity)]
      /\ a \in Rows(capacity) /\ b \in Rows(capacity)
  BY Parts DEF Rows
<1>4. Columns' = Columns /\ Record' = Record BY <1>2 DEF Columns, Record
<1> DEFINE swapped == G!Swapped(Records, a + 1, b + 1)
<1>5. /\ swapped \in [1 .. line_num -> Record]
      /\ \A r \in 1 .. line_num :
           swapped[r] = Records[IF r = b + 1 THEN a + 1 ELSE IF r = a + 1 THEN b + 1 ELSE r]
  <2>1. a + 1 \in 1 .. line_num /\ b + 1 \in 1 .. line_num BY <1>3
  <2>2. Records \in [1 .. line_num -> Record] BY <1>1 DEF VisibleParts
  <2>3. swapped = [Records EXCEPT ![a + 1] = Records[b + 1], ![b + 1] = Records[a + 1]]
    BY DEF G!Swapped
  <2> HIDE DEF swapped
  <2>4. QED BY <2>1, <2>2, <2>3
<1> HIDE DEF swapped
<1>6. ASSUME NEW r \in 1 .. line_num
      PROVE  Records'[r] = swapped[r]
  <2> DEFINE k == IF r = b + 1 THEN a + 1 ELSE IF r = a + 1 THEN b + 1 ELSE r
  <2>1. k \in 1 .. line_num /\ r - 1 \in Rows(capacity) BY <1>1, <1>3 DEF VisibleParts
  <2>2. logic_index'[r - 1] = logic_index[k - 1] BY <1>2, <1>3, <2>1
  <2> HIDE DEF k
  <2>3. Records[k] = [f \in DOMAIN field |-> field[f].data[logic_index[k - 1]]]
    BY <2>1 DEF Records, get_record, get_value
  <2>4. Records'[r] = [f \in DOMAIN field |-> field[f].data[logic_index'[r - 1]]]
    BY <1>2 DEF Records, get_record, get_value
  <2>5. Records'[r] = Records[k] BY <2>2, <2>3, <2>4
  <2>6. QED BY <1>5, <2>5 DEF k
<1>7. Records' = swapped
  <2>1. Records' \in [1 .. line_num -> Record] BY <1>1, <1>2, <1>4 DEF VisibleParts
  <2>2. QED BY <1>3, <1>5, <1>6, <2>1
<1>8. a + 1 \in 1 .. line_num /\ b + 1 \in 1 .. line_num BY <1>3
<1>9. QED BY <1>2, <1>4, <1>7, <1>8 DEF G!Exchange, Columns, Records, swapped

(* A write to one record leaves the others alone.                          *)
LEMMA UpdateGrid ==
  ASSUME IInv, IInv', ~overwritten, NEW line \in Lines, NEW S \in SUBSET DOMAIN field, NEW v,
         \A f \in S : v[f] \in Values, Writes(line, S, v),
         UNCHANGED <<exists, line_num, capacity, logic_index, memory_index, overwritten>>
  PROVE  G!Update(line + 1) /\ line + 1 \in 1 .. line_num
<1> DEFINE new == Records'[line + 1]
           updated == [Records EXCEPT ![line + 1] = new]
<1>1. VisibleParts /\ VisibleParts' BY Visible, VisibleNext
<1>2. /\ DOMAIN field' = DOMAIN field
      /\ \A f \in DOMAIN field : field'[f].name = field[f].name
      /\ \A f \in DOMAIN field, p \in Rows(capacity) :
           field'[f].data[p] = IF f \in S /\ p = logic_index[line] THEN v[f]
                               ELSE field[f].data[p]
  <2>1. DOMAIN field' = DOMAIN field BY WrittenColumns
  <2>2. ASSUME NEW f \in DOMAIN field PROVE field'[f].name = field[f].name
    BY WrittenColumns
  <2>3. ASSUME NEW f \in DOMAIN field, NEW p \in Rows(capacity)
        PROVE  field'[f].data[p] = IF f \in S /\ p = logic_index[line] THEN v[f]
                                   ELSE field[f].data[p]
    BY WrittenColumns, SMTT(30)
  <2>4. QED BY <2>1, <2>2, <2>3
<1>3. Columns' = Columns /\ Len(field') = Len(field) /\ Record' = Record
  BY <1>1, <1>2, SameColumns
<1>4. /\ line \in 0 .. line_num - 1 /\ line_num \in Nat /\ Lines = 0 .. line_num - 1
      /\ line + 1 \in 1 .. line_num
  BY Parts DEF Rows
<1>5. Records' \in Seq(Record) /\ Len(Records') = line_num /\ new \in Record
      /\ Records' \in [1 .. line_num -> Record]
  BY <1>1, <1>3, <1>4 DEF VisibleParts
<1> HIDE DEF new
<1>6. /\ updated \in Seq(Record) /\ Len(updated) = line_num
      /\ \A r \in 1 .. line_num : updated[r] = IF r = line + 1 THEN new ELSE Records[r]
  BY <1>1, <1>4, <1>5, ExceptSeq DEF VisibleParts
<1> HIDE DEF updated
<1>7. ASSUME NEW r \in 1 .. line_num, NEW f \in 1 .. Len(field)
      PROVE  Records'[r][f] = updated[r][f]
  <2>1. CASE r = line + 1 BY <1>6, <2>1 DEF new
  <2>2. CASE r # line + 1
    <3>1. /\ r - 1 \in Lines /\ f \in DOMAIN field
          /\ Records[r][f] = field[f].data[logic_index[r - 1]]
          /\ logic_index[r - 1] \in Rows(capacity)
      BY <1>1 DEF VisibleParts
    <3>2. f \in DOMAIN field' /\ line_num' = line_num /\ logic_index' = logic_index
      BY <1>2, <3>1
    <3>3. Records'[r][f] = field'[f].data[logic_index[r - 1]]
      BY <1>1, <3>2 DEF VisibleParts
    <3>4. r - 1 # line BY <1>4, <2>2
    <3>5. logic_index[r - 1] # logic_index[line] BY <3>1, <3>4, RowsDiffer
    <3>6. QED BY <1>2, <1>6, <2>2, <3>1, <3>3, <3>5
  <2>3. QED BY <2>1, <2>2
<1>8. Records' = updated
  <2> DEFINE now == Records'
  <2>1. /\ now \in Seq(RecordOf(Len(field))) /\ updated \in Seq(RecordOf(Len(field)))
        /\ Len(now) = line_num /\ Len(updated) = line_num
        /\ \A r \in 1 .. line_num, f \in 1 .. Len(field) : now[r][f] = updated[r][f]
        /\ Len(field) \in Nat
    BY <1>1, <1>5, <1>6, <1>7 DEF VisibleParts, Record
  <2> HIDE DEF now
  <2>2. now = updated BY <2>1, SameCells
  <2>3. QED BY <2>2 DEF now
<1>9. new \in [1 .. Len(Columns) -> G!Cells]
  BY <1>1, <1>5 DEF VisibleParts, Record, RecordOf, G!Cells
<1>10. \E cells \in [1 .. Len(Columns) -> G!Cells] :
         Records' = [Records EXCEPT ![line + 1] = cells]
  BY <1>8, <1>9 DEF updated
<1>11. QED BY <1>3, <1>4, <1>10 DEF G!Update, Columns, Records

(* In a new column every visible record has an unset cell.                 *)
LEMMA AddColumnGrid ==
  ASSUME IInv, IInv', NEW name \in Names, add_field(name)
  PROVE  G!AddColumn /\ exists
<1> DEFINE w == Len(field)
           wide == [i \in DOMAIN Records |-> Append(Records[i], NULL)]
<1>1. VisibleParts /\ VisibleParts' BY Visible, VisibleNext
<1>2. /\ exists /\ UNCHANGED <<exists, line_num, logic_index>> BY DEF add_field
<1>3. /\ DOMAIN field' = 1 .. w + 1 /\ \A f \in DOMAIN field : field'[f] = field[f]
      /\ field'[w + 1].name = name /\ \A p \in RowsInUse : field'[w + 1].data[p] = NULL
  BY AddedColumns
<1>4. /\ w \in Nat /\ DOMAIN field = 1 .. w /\ Len(field') = w + 1
      /\ Columns \in Seq(Names) /\ Len(Columns) = w
      /\ Columns' \in Seq(Names) /\ Len(Columns') = w + 1
  <2>1. Len(field') \in Nat /\ w \in Nat /\ 1 .. Len(field') = 1 .. w + 1
    BY <1>1, <1>3 DEF VisibleParts
  <2>2. w + 1 \in Nat BY <2>1
  <2>3. Len(field') = w + 1 BY <2>1, <2>2, SameBound
  <2>4. QED BY <1>1, <2>3 DEF VisibleParts
<1> HIDE DEF w
<1>5. Columns' = Append(Columns, name)
  <2> DEFINE more == Append(Columns, name)
             now == Columns'
  <2>1. /\ more \in Seq(Names) /\ Len(more) = w + 1 /\ more[w + 1] = name
        /\ \A f \in 1 .. w : more[f] = Columns[f]
    BY <1>4, AppendElements
  <2>2. \A f \in 1 .. w : now[f] = Columns[f]
    <3>1. \A f \in DOMAIN field' : now[f] = field'[f].name BY <1>1 DEF VisibleParts
    <3>2. \A f \in DOMAIN field : Columns[f] = field[f].name BY <1>1 DEF VisibleParts
    <3>3. QED BY <1>3, <1>4, <3>1, <3>2
  <2>3. now[w + 1] = name BY <1>1, <1>3, <1>4, SMTT(30) DEF VisibleParts
  <2>4. now \in Seq(Names) /\ Len(now) = w + 1 BY <1>4
  <2> HIDE DEF now, more
  <2>5. \A f \in 1 .. w + 1 : now[f] = more[f] BY <1>4, <2>1, <2>2, <2>3
  <2>6. now = more BY <2>1, <2>4, <2>5, SeqEqual
  <2>7. QED BY <2>6 DEF now, more
<1>6. ASSUME NEW r \in 1 .. line_num
      PROVE  Records'[r] = wide[r] /\ r \in DOMAIN Records /\ r \in DOMAIN Records'
  <2> DEFINE more == Append(Records[r], NULL)
             now == Records'[r]
  <2>1. /\ Records[r] \in RecordOf(w) /\ now \in RecordOf(w + 1)
        /\ r \in DOMAIN Records /\ r \in DOMAIN Records'
    BY <1>1, <1>2, <1>4 DEF VisibleParts, Record, w
  <2>2. Records[r] \in Seq(Values \cup {NULL}) /\ Len(Records[r]) = w
    BY <1>4, <2>1 DEF RecordOf
  <2>3. /\ more \in Seq(Values \cup {NULL}) /\ Len(more) = w + 1 /\ more[w + 1] = NULL
        /\ \A f \in 1 .. w : more[f] = Records[r][f]
    BY <2>2, AppendElements
  <2>4. /\ \A f \in 1 .. w : Records[r][f] = field[f].data[logic_index[r - 1]]
        /\ \A f \in 1 .. w + 1 : now[f] = field'[f].data[logic_index[r - 1]]
        /\ logic_index[r - 1] \in RowsInUse
    BY <1>1, <1>2, <1>3, <1>4 DEF VisibleParts
  <2>5. now \in Seq(Values \cup {NULL}) /\ Len(now) = w + 1 BY <1>4, <2>1 DEF RecordOf
  <2>6. \A f \in 1 .. w : now[f] = Records[r][f] BY <1>3, <1>4, <2>4
  <2>7. now[w + 1] = NULL BY <1>3, <1>4, <2>4
  <2> HIDE DEF now, more
  <2>8. \A f \in 1 .. w + 1 : now[f] = more[f] BY <1>4, <2>3, <2>6, <2>7
  <2>9. now = more BY <2>3, <2>5, <2>8, SeqEqual
  <2>10. QED BY <2>1, <2>9 DEF now, more
<1>7. Records' = wide
  <2>1. DOMAIN Records = 1 .. line_num /\ Records' = [r \in 1 .. line_num |-> Records'[r]]
    BY <1>2 DEF Records
  <2>2. QED BY <1>6, <2>1
<1>8. \E n \in Names : Columns' = Append(Columns, n) BY <1>5
<1>9. QED BY <1>2, <1>7, <1>8 DEF G!AddColumn, Columns, Records

LEMMA RemoveColumnGrid ==
  ASSUME IInv, IInv', NEW f \in DOMAIN field, rm_field(f)
  PROVE  G!RemoveColumn(f) /\ f \in DOMAIN Columns
<1> DEFINE w == Len(field)
           less == [i \in DOMAIN Records |-> G!RemoveAt(Records[i], f)]
<1>1. VisibleParts /\ VisibleParts' BY Visible, VisibleNext
<1>2. UNCHANGED <<exists, line_num, logic_index>> BY DEF rm_field
<1>3. /\ DOMAIN field' = 1 .. w - 1 /\ w \in Nat \ {0} /\ f \in 1 .. w
      /\ \A g \in 1 .. w - 1 :
           LET h == IF g < f THEN g ELSE g + 1
           IN  /\ h \in DOMAIN field
               /\ field'[g].name = field[h].name /\ field'[g].data = field[h].data
  BY RemovedColumns
<1>4. /\ DOMAIN field = 1 .. w /\ Len(field') = w - 1 /\ DOMAIN Columns = 1 .. w
      /\ Columns \in [1 .. w -> Names] /\ Len(Columns) = w
      /\ Columns' \in [1 .. w - 1 -> Names]
  <2>1. Len(field') \in Nat /\ w - 1 \in Nat /\ 1 .. Len(field') = 1 .. w - 1
    <3>1. Len(field') \in Nat /\ DOMAIN field' = 1 .. Len(field') BY <1>1 DEF VisibleParts
    <3>2. QED BY <1>3, <3>1
  <2>2. Len(field') = w - 1 BY <2>1, SameBound
  <2>3. QED BY <1>1, <2>2 DEF VisibleParts
<1> HIDE DEF w
<1>5. Columns' = G!RemoveAt(Columns, f)
  <2>1. \A g \in 1 .. w - 1 : Columns'[g] = IF g < f THEN Columns[g] ELSE Columns[g + 1]
    BY <1>1, <1>3, <1>4, ZenonT(40) DEF VisibleParts
  <2>2. QED BY <1>4, <2>1 DEF G!RemoveAt
<1>6. ASSUME NEW r \in 1 .. line_num
      PROVE  Records'[r] = less[r] /\ r \in DOMAIN Records /\ r \in DOMAIN Records'
  <2> DEFINE now == Records'[r]
  <2>1. /\ Records[r] \in RecordOf(w) /\ now \in RecordOf(w - 1)
        /\ r \in DOMAIN Records /\ r \in DOMAIN Records'
    BY <1>1, <1>2, <1>4 DEF VisibleParts, Record, w
  <2>2. Len(Records[r]) = w BY <1>3, <2>1 DEF RecordOf
  <2>3. /\ \A g \in 1 .. w : Records[r][g] = field[g].data[logic_index[r - 1]]
        /\ \A g \in 1 .. w - 1 : now[g] = field'[g].data[logic_index[r - 1]]
    BY <1>1, <1>2, <1>3, <1>4 DEF VisibleParts
  <2> HIDE DEF now
  <2>4. \A g \in 1 .. w - 1 : now[g] = IF g < f THEN Records[r][g] ELSE Records[r][g + 1]
    BY <1>3, <1>4, <2>3
  <2>5. now = G!RemoveAt(Records[r], f)
    BY <2>1, <2>2, <2>4 DEF G!RemoveAt, RecordOf
  <2>6. QED BY <2>1, <2>5 DEF now
<1>7. Records' = less
  <2>1. DOMAIN Records = 1 .. line_num /\ Records' = [r \in 1 .. line_num |-> Records'[r]]
    BY <1>2 DEF Records
  <2>2. QED BY <1>6, <2>1
<1>8. QED BY <1>2, <1>3, <1>4, <1>5, <1>7 DEF G!RemoveColumn, Columns, Records

LEMMA ExchangeColumnsGrid ==
  ASSUME IInv, IInv', NEW f \in DOMAIN field, NEW g \in DOMAIN field, swap_field(f, g)
  PROVE  G!ExchangeColumns(f, g) /\ f \in DOMAIN Columns /\ g \in DOMAIN Columns
<1> DEFINE w == Len(field)
           swapped == [i \in DOMAIN Records |-> G!Swapped(Records[i], f, g)]
           from(h) == IF h = g THEN f ELSE IF h = f THEN g ELSE h
<1>1. VisibleParts /\ VisibleParts' BY Visible, VisibleNext
<1>2. UNCHANGED <<exists, line_num, logic_index>> BY DEF swap_field
<1>3. /\ DOMAIN field' = DOMAIN field
      /\ \A h \in DOMAIN field :
           field'[h].name = field[from(h)].name /\ field'[h].data = field[from(h)].data
  BY SwappedColumns
<1>4. /\ DOMAIN field = 1 .. w /\ Len(field') = w /\ w \in Nat /\ DOMAIN Columns = 1 .. w
      /\ Columns \in [1 .. w -> Names] /\ Columns' \in [1 .. w -> Names]
  <2>1. Len(field') \in Nat /\ w \in Nat /\ 1 .. Len(field') = 1 .. w
    BY <1>1, <1>3 DEF VisibleParts
  <2>2. Len(field') = w BY <2>1, SameBound
  <2>3. QED BY <1>1, <2>2 DEF VisibleParts
<1> HIDE DEF w
<1>5. Columns' = G!Swapped(Columns, f, g)
  <2>1. \A h \in 1 .. w : Columns'[h] = Columns[from(h)]
    <3>1. \A h \in DOMAIN field' : Columns'[h] = field'[h].name BY <1>1 DEF VisibleParts
    <3>2. \A h \in DOMAIN field : Columns[h] = field[h].name BY <1>1 DEF VisibleParts
    <3>3. QED BY <1>3, <1>4, <3>1, <3>2
  <2>2. QED BY <1>4, <2>1 DEF G!Swapped
<1>6. ASSUME NEW r \in 1 .. line_num
      PROVE  Records'[r] = swapped[r] /\ r \in DOMAIN Records /\ r \in DOMAIN Records'
  <2> DEFINE now == Records'[r]
  <2>1. /\ Records[r] \in RecordOf(w) /\ now \in RecordOf(w)
        /\ r \in DOMAIN Records /\ r \in DOMAIN Records'
    BY <1>1, <1>2, <1>4 DEF VisibleParts, Record, w
  <2>2. /\ \A h \in 1 .. w : Records[r][h] = field[h].data[logic_index[r - 1]]
        /\ \A h \in 1 .. w : now[h] = field'[h].data[logic_index[r - 1]]
    BY <1>1, <1>2, <1>3, <1>4 DEF VisibleParts
  <2> HIDE DEF now
  <2>3. ASSUME NEW h \in 1 .. w PROVE now[h] = Records[r][from(h)]
    <3>1. from(h) \in 1 .. w /\ h \in DOMAIN field BY <1>4
    <3>2. field'[h].data = field[from(h)].data BY <1>3, <3>1
    <3> HIDE DEF from
    <3>3. QED BY <2>2, <3>1, <3>2
  <2>4. now = G!Swapped(Records[r], f, g)
    BY <1>4, <2>1, <2>3 DEF G!Swapped, RecordOf
  <2>5. QED BY <2>1, <2>4 DEF now
<1>7. Records' = swapped
  <2>1. DOMAIN Records = 1 .. line_num /\ Records' = [r \in 1 .. line_num |-> Records'[r]]
    BY <1>2 DEF Records
  <2>2. QED BY <1>6, <2>1
<1>8. QED BY <1>2, <1>4, <1>5, <1>7 DEF G!ExchangeColumns, Columns, Records

(* A table that does not exist has no columns and no records.              *)
NothingLeft == ~exists => line_num = 0 /\ DOMAIN field = {}

LEMMA NothingLeftStep ==
  ASSUME IInv, NothingLeft, [Next]_vars
  PROVE  NothingLeft'
<1>1. Lines # {} \/ DOMAIN field # {} => exists BY Parts DEF NothingLeft, Rows
<1>2. CASE UNCHANGED vars BY <1>2 DEF vars, NothingLeft
<1>3. CASE Next
  <2>1. CASE exists' BY <2>1 DEF NothingLeft
  <2>2. CASE free_table BY <2>2 DEF free_table, NothingLeft
  <2>3. CASE ~exists' /\ ~free_table
    <3>1. ASSUME NEW names, create_table(names) PROVE exists' BY <3>1 DEF create_table
    <3>2. ASSUME NEW values, add_record(values) PROVE exists' BY <3>2 DEF add_record
    <3>3. ASSUME NEW line \in Lines, rm_record(line) PROVE exists'
      BY <1>1, <3>3 DEF rm_record
    <3>4. ASSUME NEW f \in DOMAIN field, rm_field(f) PROVE exists' BY <1>1, <3>4 DEF rm_field
    <3>5. ASSUME NEW name, add_field(name) PROVE exists' BY <3>5 DEF add_field
    <3>6. ASSUME NEW a \in Lines, NEW b \in Lines, swap_record(a, b) PROVE exists'
      BY <1>1, <3>6 DEF swap_record
    <3>7. ASSUME NEW f \in DOMAIN field, NEW g \in DOMAIN field, swap_field(f, g) PROVE exists'
      BY <1>1, <3>7 DEF swap_field
    <3>8. ASSUME NEW line \in Lines, NEW f, NEW v, set_value(line, f, v) PROVE exists'
      BY <1>1, <3>8 DEF set_value
    <3>9. ASSUME NEW line \in Lines, NEW values, update_record(line, values) PROVE exists'
      BY <1>1, <3>9 DEF update_record
    <3>10. ASSUME clear_table PROVE exists' BY <3>10 DEF clear_table
    <3>11. QED
      BY <1>3, <2>3, <3>1, <3>2, <3>3, <3>4, <3>5, <3>6, <3>7, <3>8, <3>9, <3>10 DEF Next
  <2>4. QED BY <2>1, <2>2, <2>3
<1>4. QED BY <1>2, <1>3

(* Every operation that finds and leaves the rows apart is one of Grid's.  *)
LEMMA GridStep ==
  ASSUME IInv, NothingLeft, [Next]_vars
  PROVE  [G!Next]_(G!vars)
<1>1. IInv' BY NextInv
<1>2. CASE overwritten \/ overwritten' BY <1>2 DEF G!Next
<1>3. CASE UNCHANGED vars
  BY <1>3 DEF vars, G!vars, get_record, get_value
<1>4. CASE Next /\ ~overwritten /\ ~overwritten'
  <2> DEFINE Op == \/ G!Destroy \/ G!Insert \/ G!Clear \/ G!AddColumn
                   \/ \E i \in DOMAIN Records : G!Remove(i) \/ G!Update(i)
                   \/ \E i, j \in DOMAIN Records : G!Exchange(i, j)
                   \/ \E c \in DOMAIN Columns : G!RemoveColumn(c)
                   \/ \E c, d \in DOMAIN Columns : G!ExchangeColumns(c, d)
  <2>1. DOMAIN Records = 1 .. line_num /\ DOMAIN Columns = DOMAIN field
    BY DEF Records, Columns
  <2>2. Lines # {} \/ DOMAIN field # {} => exists BY Parts DEF NothingLeft, Rows
  <2>3. Op /\ exists => G!Next BY <1>4 DEF G!Next, Records, Columns
  <2>4. ASSUME NEW names \in Tuples(Names, MaxFields), create_table(names) PROVE G!Next
    BY <1>1, <1>4, <2>4, CreateGrid DEF G!Next
  <2>5. free_table => Op /\ exists BY DestroyGrid
  <2>6. ASSUME NEW values \in Tuples(Values, MaxFields), add_record(values)
        PROVE  Op /\ exists
    BY <1>1, <1>4, <2>6, InsertStep
  <2>7. ASSUME NEW line \in Lines, rm_record(line) PROVE Op /\ exists
    BY <1>1, <1>4, <2>1, <2>2, <2>7, RemoveGrid
  <2>8. ASSUME NEW f \in DOMAIN field, rm_field(f) PROVE Op /\ exists
    BY <1>1, <2>1, <2>2, <2>8, RemoveColumnGrid
  <2>9. ASSUME NEW name \in Names, add_field(name) PROVE Op /\ exists
    BY <1>1, <2>9, AddColumnGrid
  <2>10. ASSUME NEW a \in Lines, NEW b \in Lines, swap_record(a, b) PROVE Op /\ exists
    BY <1>1, <2>1, <2>2, <2>10, ExchangeGrid
  <2>11. ASSUME NEW f \in DOMAIN field, NEW g \in DOMAIN field, swap_field(f, g)
         PROVE  Op /\ exists
    BY <1>1, <2>1, <2>2, <2>11, ExchangeColumnsGrid
  <2>12. ASSUME NEW line \in Lines, NEW f \in DOMAIN field, NEW v \in Values,
                set_value(line, f, v)
         PROVE  Op /\ exists
    <3>1. G!Update(line + 1) /\ line + 1 \in 1 .. line_num
      BY <1>1, <1>4, <2>12, SetValueWrites, UpdateGrid
    <3>2. QED BY <2>1, <2>2, <3>1
  <2>13. ASSUME NEW line \in Lines, NEW values \in Tuples(Values, MaxFields),
                update_record(line, values)
         PROVE  Op /\ exists
    <3>1. G!Update(line + 1) /\ line + 1 \in 1 .. line_num
      BY <1>1, <1>4, <2>13, UpdateRecordWrites, UpdateGrid
    <3>2. QED BY <2>1, <2>2, <3>1
  <2>14. clear_table => Op /\ exists BY <1>1, ClearGrid
  <2> HIDE DEF Op
  <2>15. QED
    BY <1>4, <2>3, <2>4, <2>5, <2>6, <2>7, <2>8, <2>9, <2>10, <2>11, <2>12, <2>13, <2>14
    DEF Next
<1>5. QED BY <1>2, <1>3, <1>4

LEMMA InitGrid == Init => G!Init
<1> SUFFICES ASSUME Init PROVE G!Init OBVIOUS
<1>1. exists = FALSE /\ DOMAIN field = {} /\ line_num = 0 /\ overwritten = FALSE BY DEF Init
<1>2. Columns = <<>> BY <1>1 DEF Columns
<1>3. Records = <<>> BY <1>1 DEF Records
<1>4. QED BY <1>1, <1>2, <1>3 DEF G!Init, Columns, Records

-----------------------------------------------------------------------------
(* Theorems *)

LEMMA AlwaysInv == Spec => []IInv
<1>1. Init => IInv BY InitInv
<1>2. IInv /\ [Next]_vars => IInv' BY NextInv
<1>3. QED BY <1>1, <1>2, PTL DEF Spec

(* Every array of tblh.c is as long as capacity says, whatever the         *)
(* operations and in whatever order.                                       *)
THEOREM TableTypes == Spec => []TypeOK
<1>1. IInv => TypeOK BY DEF IInv
<1>2. QED BY <1>1, AlwaysInv, PTL

(* logic_index and memory_index invert each other (tblh.h:39-40) until an  *)
(* insertion hits a row in use.                                            *)
THEOREM IndexesStayInverse == Spec => []IndexesInvert
<1>1. IInv => IndexesInvert BY DEF IInv
<1>2. QED BY <1>1, AlwaysInv, PTL

(* get_value never returns memory that nothing was written to.             *)
THEOREM CellsAreSet == Spec => []NoUnsetCell
<1>1. IInv => NoUnsetCell BY DEF IInv
<1>2. QED BY <1>1, AlwaysInv, PTL

(* The table of tblh.c implements Grid: each operation does to the visible *)
(* records what it promises, until an insertion hits a row in use.         *)
THEOREM TableIsAGrid == Spec => ImplementsGrid
<1>1. Init => IInv /\ NothingLeft /\ G!Init
  BY InitInv, InitGrid DEF Init, NothingLeft
<1>2. IInv /\ [Next]_vars => IInv' BY NextInv
<1>3. IInv /\ NothingLeft /\ [Next]_vars => NothingLeft' BY NothingLeftStep
<1>4. IInv /\ NothingLeft /\ [Next]_vars => [G!Next]_(G!vars) BY GridStep
<1>5. QED BY <1>1, <1>2, <1>3, <1>4, PTL DEF Spec, ImplementsGrid, G!Spec
=============================================================================

-------------------------------- MODULE Grid --------------------------------
(***************************************************************************)
(* What a table of tblh.c promises: columns in an order, records in an     *)
(* order, and a cell for each record and column.  There are no physical    *)
(* rows, no index arrays and no capacity here.                             *)
(***************************************************************************)
EXTENDS Lists

CONSTANTS
  Names,       (* column names                      *)
  Values,      (* what a cell can hold              *)
  NULL         (* the content of a cell not set yet *)

VARIABLES
  exists,      (* the table exists                                         *)
  columns,     (* the column names in order                                *)
  records,     (* the records in order, each a sequence of cells           *)
  live         (* FALSE once the promise has ended (see Table)             *)

vars == <<exists, columns, records, live>>

Cells == Values \cup {NULL}

(* The two positions change places. *)
Swapped(s, i, j) == [s EXCEPT ![i] = s[j], ![j] = s[i]]

(* A record given only its first cells. *)
Padded(cells, width) ==
  [c \in 1 .. width |-> IF c <= Len(cells) THEN cells[c] ELSE NULL]

Init ==
  /\ exists = FALSE
  /\ columns = <<>> /\ records = <<>>
  /\ live = TRUE

Create == ~exists /\ exists' /\ records' = <<>> /\ columns' \in Seq(Names) \ {<<>>}

Destroy == exists /\ ~exists' /\ records' = <<>> /\ columns' = <<>>

Insert ==
  /\ \E cells \in UNION {[1 .. w -> Values] : w \in 0 .. Len(columns)} :
       records' = Append(records, Padded(cells, Len(columns)))
  /\ UNCHANGED <<exists, columns>>

Remove(i) == records' = RemoveAt(records, i) /\ UNCHANGED <<exists, columns>>

Exchange(i, j) == records' = Swapped(records, i, j) /\ UNCHANGED <<exists, columns>>

(* Any cells of one record are replaced. *)
Update(i) ==
  /\ \E cells \in [1 .. Len(columns) -> Cells] : records' = [records EXCEPT ![i] = cells]
  /\ UNCHANGED <<exists, columns>>

Clear == records' = <<>> /\ UNCHANGED <<exists, columns>>

AddColumn ==
  /\ \E name \in Names : columns' = Append(columns, name)
  /\ records' = [i \in DOMAIN records |-> Append(records[i], NULL)]
  /\ UNCHANGED exists

RemoveColumn(c) ==
  /\ columns' = RemoveAt(columns, c)
  /\ records' = [i \in DOMAIN records |-> RemoveAt(records[i], c)]
  /\ UNCHANGED exists

ExchangeColumns(c, d) ==
  /\ columns' = Swapped(columns, c, d)
  /\ records' = [i \in DOMAIN records |-> Swapped(records[i], c, d)]
  /\ UNCHANGED exists

(* A step that starts while the promise lasts is one of the operations.    *)
Next ==
  \/ /\ live /\ exists
     /\ \/ Destroy \/ Insert \/ Clear \/ AddColumn
        \/ \E i \in DOMAIN records : Remove(i) \/ Update(i)
        \/ \E i, j \in DOMAIN records : Exchange(i, j)
        \/ \E c \in DOMAIN columns : RemoveColumn(c)
        \/ \E c, d \in DOMAIN columns : ExchangeColumns(c, d)
  \/ live /\ Create
  \/ ~live \/ ~live'

Spec == Init /\ [][Next]_vars
=============================================================================

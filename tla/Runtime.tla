------------------------------- MODULE Runtime -------------------------------
(***************************************************************************)
(* The state of a Logex session: the variables (context.c), the lists that *)
(* the built-in functions make (builtin.c), and what imported packages     *)
(* have registered (package.c, function.c).  A step is a statement.        *)
(*                                                                         *)
(* A value is a number or a list; bitmaps and texts are copied like        *)
(* numbers.  A list holds the addresses of its elements, and bignum_copy   *)
(* copies the addresses only (list_copy).  malloc may return any address   *)
(* that is not in use.  Elements that no list holds are never freed.  List *)
(* elements are numbers here; lists in lists are left out.                 *)
(*                                                                         *)
(* A definition whose name says what it does wrong is a faulty variant of  *)
(* the one after it, which the specification does not use.                 *)
(***************************************************************************)
EXTENDS Stores, SequencesExt

CONSTANTS
  VarNames,            (* the variables of the scripts                      *)
  Cells,               (* addresses for list elements                       *)
  Numbers,             (* the numbers of the scripts                        *)
  FunctionsOf,         (* for each package the functions it registers       *)
  ConstantsOf,         (* and the variables it sets,                        *)
  Constant,            (* all to numbers like this one                      *)
  MAX_FUNCTIONS,       (* 256                                               *)
  MAX_PACKAGES,        (* 32                                                *)
  MaxItems             (* bound: elements of a list                         *)

ASSUME RuntimeAssumption ==
  /\ MAX_FUNCTIONS \in Nat /\ MAX_PACKAGES \in Nat
  /\ Numbers \subseteq Nat /\ Constant \in Nat /\ NULL \notin VarNames
  /\ \A p \in DOMAIN FunctionsOf : FunctionsOf[p] \in Seq(Range(FunctionsOf[p]))

VARIABLES
  ctx,          (* each variable's value                                    *)
  heap,         (* the elements that are allocated                          *)
  popped,       (* history: an element has been popped from a list          *)
  misread,      (* history: freed memory was taken for an element           *)
  functions,    (* the registered functions, with their packages            *)
  packages      (* the packages that are loaded                             *)

runtimeVars == <<ctx, heap, popped, misread, functions, packages>>

OfType(type) == [type |-> type, n |-> 0, items |-> <<>>]
NumberValue(n) == [OfType("number") EXCEPT !.n = n]
ListValue(items) == [OfType("list") EXCEPT !.items = items]
Undefined == OfType("undefined")
NoValue == OfType("null")

IsList(v) == ctx[v].type = "list"

(* A variable is made only if there is memory; the old value of one that    *)
(* exists is given up first, and without memory there is none after that.   *)
AllSet(targets, value) ==
  \E failed \in SUBSET targets :
    /\ AllocFails \/ failed = {}
    /\ ctx' = [v \in VarNames |->
                 IF v \notin targets \/ (v \in failed /\ ctx[v] = Undefined) THEN ctx[v]
                 ELSE IF v \in failed THEN NoValue ELSE value]
context_set(v, value) == AllSet({v}, value)

(* An expression alone is printed; with "let v =" its value goes to v. *)
Deliver(v, value) == IF v = NULL THEN UNCHANGED ctx ELSE context_set(v, value)

LetsNumber(v) ==
  /\ \E n \in Numbers : context_set(v, NumberValue(n))
  /\ UNCHANGED <<heap, popped, misread, functions, packages>>

(* context_get gives a copy: of a list, one that shares the elements. *)
LetsVariable(v, w) ==
  /\ ctx[w] \notin {Undefined, NoValue} /\ context_set(v, ctx[w])
  /\ UNCHANGED <<heap, popped, misread, functions, packages>>

builtin_list(v) ==
  /\ context_set(v, ListValue(<<>>))
  /\ UNCHANGED <<heap, popped, misread, functions, packages>>

(* lpush and rpush: a copy of the list with one more element, which is new. *)
WithElement(w, cell, side) ==
  ListValue(IF side = "l" THEN <<cell>> \o ctx[w].items ELSE Append(ctx[w].items, cell))
HeapWith(cell, n) == [c \in DOMAIN heap \cup {cell} |-> IF c = cell THEN n ELSE heap[c]]
builtin_push(v, w, side) ==
  /\ IsList(w) /\ Len(ctx[w].items) < MaxItems
  /\ \E cell \in Cells \ DOMAIN heap, n \in Numbers :
       heap' = HeapWith(cell, n) /\ context_set(v, WithElement(w, cell, side))
  /\ UNCHANGED <<popped, misread, functions, packages>>

(* lpop and rpop take the element off the copy they were given, and free it. *)
EndCell(w, side) == IF side = "l" THEN Head(ctx[w].items) ELSE Last(ctx[w].items)
builtin_pop(v, w, side) ==
  /\ IsList(w) /\ ctx[w].items # <<>>
  /\ popped' = TRUE
  /\ LET cell == EndCell(w, side)
     IN IF cell \in DOMAIN heap
        THEN /\ heap' = [c \in DOMAIN heap \ {cell} |-> heap[c]]
             /\ Deliver(v, NumberValue(heap[cell]))
             /\ UNCHANGED misread
        ELSE misread' = TRUE /\ UNCHANGED <<ctx, heap>>
  /\ UNCHANGED <<functions, packages>>

builtin_lget_frees(v, w) ==
  /\ IsList(w)
  /\ \E i \in DOMAIN ctx[w].items :
       LET cell == ctx[w].items[i]
       IN IF cell \in DOMAIN heap
          THEN /\ heap' = [c \in DOMAIN heap \ {cell} |-> heap[c]]
               /\ Deliver(v, NumberValue(heap[cell])) /\ UNCHANGED misread
          ELSE misread' = TRUE /\ UNCHANGED <<ctx, heap>>
  /\ UNCHANGED <<popped, functions, packages>>
builtin_lget(v, w) ==
  /\ IsList(w)
  /\ \E i \in DOMAIN ctx[w].items :
       LET cell == ctx[w].items[i]
       IN IF cell \in DOMAIN heap THEN Deliver(v, NumberValue(heap[cell])) /\ UNCHANGED misread
          ELSE misread' = TRUE /\ UNCHANGED ctx
  /\ UNCHANGED <<heap, popped, functions, packages>>

builtin_llen(v, w) ==
  /\ IsList(w) /\ Deliver(v, NumberValue(Len(ctx[w].items)))
  /\ UNCHANGED <<heap, popped, misread, functions, packages>>

-----------------------------------------------------------------------------
(* A function whose name is taken, or that finds the table full, is left    *)
(* out; the package does not notice more than the count.                    *)
function_register_anyway(fs, name, package) ==
  IF Len(fs) >= MAX_FUNCTIONS THEN fs
  ELSE Append(fs, [name |-> name, package |-> package])
function_register(fs, name, package) ==
  IF Len(fs) >= MAX_FUNCTIONS \/ \E i \in DOMAIN fs : fs[i].name = name THEN fs
  ELSE Append(fs, [name |-> name, package |-> package])
package_register(fs, package) ==
  FoldLeft(LAMBDA fs1, name : function_register(fs1, name, package), fs, FunctionsOf[package])

(* A package that is loaded is not loaded again.  Its constants overwrite   *)
(* variables of their names.                                                *)
package_load(package) ==
  /\ package \notin packages /\ Cardinality(packages) < MAX_PACKAGES
  /\ packages' = packages \cup {package}
  /\ functions' = package_register(functions, package)
  /\ AllSet(ConstantsOf[package], NumberValue(Constant))
  /\ UNCHANGED <<heap, popped, misread>>

(* The session ends: all of its memory goes, and the packages are closed. *)
interpreter_create ==
  /\ ctx = [v \in VarNames |-> Undefined] /\ heap = <<>>
  /\ popped = FALSE /\ misread = FALSE /\ functions = <<>> /\ packages = {}
interpreter_destroy ==
  /\ ctx' = [v \in VarNames |-> Undefined] /\ heap' = <<>>
  /\ popped' = FALSE /\ misread' = FALSE /\ functions' = <<>> /\ packages' = {}

Targets == VarNames \cup {NULL}
Statement ==
  \/ \E v \in VarNames : LetsNumber(v) \/ builtin_list(v)
  \/ \E v, w \in VarNames : LetsVariable(v, w) \/ builtin_llen(v, w)
  \/ \E v, w \in VarNames, side \in {"l", "r"} : builtin_push(v, w, side)
  \/ \E v \in Targets, w \in VarNames, side \in {"l", "r"} : builtin_pop(v, w, side)
  \/ \E v \in Targets, w \in VarNames : builtin_lget(v, w)
  \/ \E p \in DOMAIN FunctionsOf : package_load(p)

(* What a session does that has read freed memory is not followed further. *)
RuntimeNext == (~misread /\ Statement) \/ interpreter_destroy

RuntimeSpec == interpreter_create /\ [][RuntimeNext]_runtimeVars

-----------------------------------------------------------------------------
(* What a script reads from a variable: a freed element has no value. *)
ElementAt(cell) == IF cell \in DOMAIN heap THEN <<heap[cell]>> ELSE <<>>
Reading(v) ==
  <<ctx[v].type, ctx[v].n, [i \in DOMAIN ctx[v].items |-> ElementAt(ctx[v].items[i])]>>

(* Until an element is popped nobody sees that lists share their elements:  *)
(* a statement changes what is read from the variable it assigns, and from  *)
(* no other.                                                                *)
Ends == \A v \in VarNames : ctx[v] = Undefined
StatementsChangeOneVariable ==
  [][~popped' /\ ~Ends' /\ packages' = packages =>
       \E target \in VarNames : \A v \in VarNames \ {target} : Reading(v)' = Reading(v)]_runtimeVars

(* Every registered function has a name of its own and the code of a loaded *)
(* package behind it, however names clash and the table fills up.           *)
FunctionsBacked ==
  /\ Len(functions) <= MAX_FUNCTIONS
  /\ \A i \in DOMAIN functions :
       /\ functions[i].package \in packages
       /\ \A j \in DOMAIN functions : functions[i].name = functions[j].name => i = j

(* What README.md shows: after lpop and rpop the list can still be read. *)
ElementsLive == \A v \in VarNames : Range(ctx[v].items) \subseteq DOMAIN heap
==============================================================================

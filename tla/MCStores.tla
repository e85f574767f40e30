------------------------------- MODULE MCStores -------------------------------
(***************************************************************************)
(* The data structures of lib/ and the parts of Logex, one at work in each *)
(* behaviour: the others stay as they were created, but while they wait    *)
(* the bitmap has lost its memory and the number has no digits, so that    *)
(* there is nothing to say about them.                                     *)
(***************************************************************************)
EXTENDS Kvalot, HashTable, BlockList, Bitmap, Bignum, Registry, Runtime, Evaluator, Program

VARIABLE subject  (* the part at work *)

k1 == "k1"
k2 == "k2"
k3 == "k3"
k4 == "k4"

(* Three keys of the last of 2 or 4 slots and one of the first, of which   *)
(* two stay together in 5, 8 and 10.                                       *)
MCHash == k1 :> 7 @@ k2 :> 47 @@ k3 :> 3 @@ k4 :> 0
OneLength == [k \in Keys |-> 3]
TwoLengths == [k \in Keys |-> IF k = k1 THEN 2 ELSE 1]

(* Bits across bytes and words of two bits and two bytes. *)
MCBitLiterals == {<<1>>, <<0, 1, 1, 0, 1>>}

(* In base 4: 0, 2, -1, 13, 0.2 and 1.01. *)
MCLiterals ==
  { Text(FALSE, <<0>>, <<>>), Text(FALSE, <<2>>, <<>>), Text(TRUE, <<1>>, <<>>),
    Text(FALSE, <<1, 3>>, <<>>), Text(FALSE, <<0>>, <<2>>), Text(FALSE, <<1>>, <<0, 1>>) }

(* A user and root, of different groups. *)
MCGroups == "alice" :> {"g1"} @@ "root" :> {"g0"}
MCPrimary == "alice" :> "g1" @@ "root" :> "g0"
MCSettings == {Classes \X {"add"}, Classes \X {"change"}}

(* Two packages that both want a function "abs", and a constant. *)
MCFunctionsOf == "math" :> <<"abs", "max">> @@ "example" :> <<"double", "abs">>
MCConstantsOf == "math" :> {"e"} @@ "example" :> {}

(* An operator of each level, and the three kinds of literals. *)
MCTerms == {Leaf("number", TRUE), Leaf("number", FALSE), Leaf("bitmap", FALSE)}

(* A new bitmap whose first assignment found no memory.                    *)
LostBitmap == [length |-> 0, is_large |-> TRUE, data |-> <<>>]
NoDigits == Number(FALSE, <<>>, 0, 0)

libraryVars == <<kvalotVars, hashVars, listVars, bm>>
logexVars == <<acc, registryVars, runtimeVars, expression, program>>

Init ==
  /\ kvalot_create /\ hash_create /\ list_create
  /\ reg_init /\ interpreter_create /\ eval_create /\ program_create
  /\ subject \in {"kvalot", "hash", "list", "bitmap", "bignum",
                  "registry", "runtime", "evaluator", "program"}
  /\ bm = IF subject = "bitmap" THEN bitmap_create ELSE LostBitmap
  /\ IF subject = "bignum" THEN bignum_create ELSE acc = NoDigits

LibraryNext ==
  \/ subject = "kvalot" /\ KvalotNext /\ UNCHANGED <<hashVars, listVars, bm>>
  \/ subject = "hash" /\ HashNext /\ UNCHANGED <<kvalotVars, listVars, bm>>
  \/ subject = "list" /\ ListNext /\ UNCHANGED <<kvalotVars, hashVars, bm>>
  \/ subject = "bitmap" /\ BitmapNext /\ UNCHANGED <<kvalotVars, hashVars, listVars>>

LogexNext ==
  \/ /\ subject = "bignum" /\ BignumNext
     /\ UNCHANGED <<registryVars, runtimeVars, expression, program>>
  \/ /\ subject = "registry" /\ RegistryNext
     /\ UNCHANGED <<acc, runtimeVars, expression, program>>
  \/ /\ subject = "runtime" /\ RuntimeNext
     /\ UNCHANGED <<acc, registryVars, expression, program>>
  \/ /\ subject = "evaluator" /\ EvaluatorNext
     /\ UNCHANGED <<acc, registryVars, runtimeVars, program>>
  \/ /\ subject = "program" /\ ProgramNext
     /\ UNCHANGED <<acc, registryVars, runtimeVars, expression>>

Next ==
  /\ \/ LibraryNext /\ UNCHANGED logexVars
     \/ LogexNext /\ UNCHANGED libraryVars
  /\ UNCHANGED subject

Symmetry == Permutations(Values) \cup Permutations(Hooks)

vars == <<libraryVars, logexVars, subject>>
Spec == Init /\ [][Next]_vars

-----------------------------------------------------------------------------
(* The properties of the parts that are costly to evaluate, each looked at  *)
(* while its part is at work.                                               *)

(* Precedence: Evaluator.EvaluatesAsWritten of evaluator.c.                 *)
ExpressionsEvaluatedAsWritten == subject = "evaluator" => EvaluatesAsWritten
(* Nesting: Program.ParsedAsWritten of parser.c.                            *)
StatementsParsedAsWritten == subject = "program" => ParsedAsWritten
(* Control flow: Program.RunsAsMeant of ast.c.                              *)
StatementsRunAsMeant == subject = "program" => RunsAsMeant
==============================================================================

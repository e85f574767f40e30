--------------------------------- MODULE Naql ---------------------------------
(***************************************************************************)
(* Tokens, syntax trees, and the statements of NAQL, the language of the   *)
(* tables, stores, lists and bitmaps (parser.c and the constructors of     *)
(* ast.c).  A statement is one or two words, arguments of given token      *)
(* types, and a semicolon.  The first word decides which function parses   *)
(* it, so the functions for stores, lists and bitmaps have forms that they *)
(* are never called for.  ast_execute knows none of these statements.      *)
(***************************************************************************)
EXTENDS Stores, SequencesExt

(* A tree: its kind, the variable, package or operation, its expressions    *)
(* (sequences of tokens) and its blocks (sequences of trees).               *)
Tree(kind, name, exprs, blocks) ==
  [kind |-> kind, name |-> name, exprs |-> exprs, blocks |-> blocks]
NoTree == Tree("error", NULL, <<>>, <<>>)

Tkn(tok, value) == [tok |-> tok, value |-> value]
Word(tok) == Tkn(tok, NULL)

(* A parse function returns a tree and the next position; after an error    *)
(* the position does not matter.                                            *)
Type(ts, at) == IF at <= Len(ts) THEN ts[at].tok ELSE "TOK_END"
Parsed(tree, at) == [tree |-> tree, at |-> at]
ParseError == Parsed(NoTree, 0)
Failed(parsed) == parsed.tree.kind = "error"

(* All tokens up to one that ends an expression, also within parentheses:   *)
(* only a right parenthesis must be one that the expression did not open.   *)
(* A semicolon does not end it.                                             *)
EndsExpression_past_commas ==
  {"TOK_END", ":", "end", "else", "newline", ")"}
EndsExpression ==
  {"TOK_END", ":", "end", "else", ",", "newline", ")"}
Unclosed(ts, at, i) ==
  Cardinality({j \in at .. i - 1 : ts[j].tok = "("}) - Cardinality({j \in at .. i - 1 : ts[j].tok = ")"})
parser_parse_expression_string(ts, at) ==
  LET Stops(i) == ts[i].tok = ")" => Unclosed(ts, at, i) = 0
      stops == {i \in at .. Len(ts) : ts[i].tok \in EndsExpression /\ Stops(i)}
      stop == IF stops = {} THEN Len(ts) + 1 ELSE CHOOSE i \in stops : \A j \in stops : i <= j
  IN [expr |-> SubSeq(ts, at, stop - 1), at |-> stop]

-----------------------------------------------------------------------------
(* The forms of the statements: the node, the words, and what each argument *)
(* may be.  Where the code takes the next token whatever it is, that it     *)
(* takes a semicolon too is left out.                                       *)
NaqlForm(node, words, args) == [node |-> node, words |-> words, args |-> args]
ObjectType == {"TABLE", "KVALOT", "LIST", "BITMAP", "STREAM"}
AName == {"identifier"}
AnIndex == {"number"}
AKey == {"identifier", "string"}
AValue == AnIndex \cup AKey \cup {"bitmap"}
AnyToken == AValue \cup ObjectType \cup EndsExpression \cup
  {"expression", "=", "(", "if", "for", "in", "range", "while", "do", "import", "let", "static",
   "HOOK", "FIELD", "ADD", "GET", "SET", "DEL", "WHERE", "SWAP", "CLEAR", "LPUSH", "RPUSH",
   "LPOP", "RPOP", "EXISTS", "COUNT", "FLIP"}

(* Whatever is to be done with the object, the node is that of a creation.  *)
parser_parse_hook ==
  {NaqlForm("AST_HOOK_CREATE", <<"HOOK">>, <<ObjectType, AName>>),
   NaqlForm("AST_HOOK_CREATE", <<"HOOK", "DEL">>, <<AName>>),
   NaqlForm("AST_HOOK_CREATE", <<"HOOK", "CLEAR">>, <<AName>>),
   NaqlForm("AST_HOOK_CREATE", <<"HOOK">>, <<AName>>)}
parser_parse_field ==
  {NaqlForm("AST_FIELD_ADD", <<"FIELD", "ADD">>, <<AName, AnyToken>>),
   NaqlForm("AST_FIELD_ADD", <<"FIELD", "ADD">>, <<AName, AnyToken, AnyToken>>),
   NaqlForm("AST_FIELD_DEL", <<"FIELD", "DEL">>, <<AnIndex>>),
   NaqlForm("AST_FIELD_SWAP", <<"FIELD", "SWAP">>, <<AnIndex, AnIndex>>)}

(* ADD takes any number of values, but has room for 32; GET WHERE takes an  *)
(* expression, which runs past the semicolon that has to follow it.         *)
parser_parse_table_op(values) ==
  {NaqlForm("AST_TABLE_ADD", <<"ADD">>, [i \in 1 .. values |-> AnyToken]),
   NaqlForm("AST_TABLE_GET", <<"GET">>, <<AnIndex>>),
   NaqlForm("AST_TABLE_SET", <<"SET">>, <<AnIndex, AnIndex, AnyToken>>),
   NaqlForm("AST_TABLE_DEL", <<"DEL">>, <<AnIndex>>)}
ParseWhere(ts, at) ==
  LET e == parser_parse_expression_string(ts, at + 2)
  IN IF Type(ts, e.at) = ";" THEN Parsed(Tree("AST_TABLE_WHERE", NULL, <<e.expr>>, <<>>), e.at + 1)
     ELSE ParseError

parser_parse_kvalot_op ==
  {NaqlForm("AST_KVALOT_SET", <<"SET">>, <<AKey, AnyToken>>),
   NaqlForm("AST_KVALOT_GET", <<"GET">>, <<AKey>>),
   NaqlForm("AST_KVALOT_DEL", <<"DEL">>, <<AKey>>),
   NaqlForm("AST_KVALOT_EXISTS", <<"EXISTS">>, <<AKey>>)}
parser_parse_list_op ==
  {NaqlForm("AST_LIST_LPUSH", <<"LPUSH">>, <<AnyToken>>),
   NaqlForm("AST_LIST_RPUSH", <<"RPUSH">>, <<AnyToken>>),
   NaqlForm("AST_LIST_LPOP", <<"LPOP">>, <<>>), NaqlForm("AST_LIST_RPOP", <<"RPOP">>, <<>>),
   NaqlForm("AST_LIST_GET", <<"GET">>, <<AnIndex>>)}
parser_parse_bitmap_op ==
  {NaqlForm("AST_BITMAP_SET", <<"SET">>, <<AnIndex, AnIndex>>),
   NaqlForm("AST_BITMAP_GET", <<"GET">>, <<AnIndex>>),
   NaqlForm("AST_BITMAP_COUNT", <<"COUNT">>, <<>>),
   NaqlForm("AST_BITMAP_FLIP", <<"FLIP">>, <<AnIndex>>)}

(* ADD, GET, SET and DEL are always of a table. *)
FormsFor(word, values) ==
  CASE word = "HOOK" -> parser_parse_hook
    [] word = "FIELD" -> parser_parse_field
    [] word \in {"ADD", "GET", "SET", "DEL"} -> parser_parse_table_op(values)
    [] word \in {"LPUSH", "RPUSH", "LPOP", "RPOP"} -> parser_parse_list_op
    [] word = "EXISTS" -> parser_parse_kvalot_op
    [] word \in {"COUNT", "FLIP"} -> parser_parse_bitmap_op
    [] OTHER -> {}

Follows(ts, at, form) ==
  LET args == at + Len(form.words)
  IN /\ \A i \in DOMAIN form.words : Type(ts, at + i - 1) = form.words[i]
     /\ \A i \in DOMAIN form.args : Type(ts, args + i - 1) \in form.args[i]
     /\ Type(ts, args + Len(form.args)) = ";"
Words(form) == [i \in DOMAIN form.words |-> Word(form.words[i])]
NaqlTree(form, args) == Tree(form.node, NULL, <<Words(form), args>>, <<>>)
ParseNaql(ts, at) ==
  LET semicolons == {i \in at .. Len(ts) : ts[i].tok = ";"}
      values == IF semicolons = {} THEN 0
                ELSE (CHOOSE i \in semicolons : \A j \in semicolons : i <= j) - (at + 1)
      forms == {form \in FormsFor(Type(ts, at), values) : Follows(ts, at, form)}
      form == CHOOSE f \in forms : TRUE
      from == at + Len(form.words)
      semicolon == from + Len(form.args)
  IN IF Type(ts, at) = "GET" /\ Type(ts, at + 1) = "WHERE" THEN ParseWhere(ts, at)
     ELSE IF forms = {} THEN ParseError
     ELSE Parsed(NaqlTree(form, SubSeq(ts, from, semicolon - 1)), semicolon + 1)

(* A statement of every form, with two values for ADD, and its text. *)
AllNaqlForms ==
  parser_parse_hook \cup parser_parse_field \cup parser_parse_table_op(2)
  \cup parser_parse_kvalot_op \cup parser_parse_list_op \cup parser_parse_bitmap_op
Example(arg) == CHOOSE tok \in arg : arg \cap AValue # {} => tok \in AValue
NaqlStatements ==
  {NaqlTree(form, [i \in DOMAIN form.args |-> Tkn(Example(form.args[i]), NULL)]) : form \in AllNaqlForms}
NaqlText(tree) == tree.exprs[1] \o tree.exprs[2] \o <<Word(";")>>
===============================================================================

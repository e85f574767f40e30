------------------------------- MODULE Program -------------------------------
(***************************************************************************)
(* Control flow in Logex: how a statement is parsed (parser.c) and how the *)
(* tree is executed (ast.c).  An expression is one token, in parentheses   *)
(* or not: whether a variable is less than a number, what it is plus a     *)
(* number, or a number.  What a run did is told by the sequence of its     *)
(* effects: what was assigned to which variable, and what was imported.    *)
(*                                                                         *)
(* A definition whose name says what it does wrong is a faulty variant of  *)
(* the one after it, which the specification does not use.                 *)
(***************************************************************************)
EXTENDS Naql

CONSTANTS
  ScriptVars,        (* the variables of the programs, all 0 at first       *)
  LoopVar,           (* and the one of the for loops, not defined at first  *)
  Bounds,            (* the numbers in conditions and ranges                *)
  MaxNesting,        (* bound: blocks within blocks                         *)
  MaxRounds          (* bound: rounds of a loop that are followed           *)

VARIABLE program     (* the statement at hand, and how deep it is *)

ReturnsSuccess == 0
ReturnsAssigned == 1      (* of eval_statement *)
ReturnsImported == 2
ReturnsError == -1
GoesOn == 9               (* the bound on rounds was met *)

Expr(form, v, n) == <<Tkn("expression", [form |-> form, of |-> v, n |-> n])>>

-----------------------------------------------------------------------------
(* Parsing.  A statement that begins with a token that ends an expression,  *)
(* such as a stray comma, makes parse_block add empty statements for ever:  *)
(* no such program is written below.                                        *)
parser_parse_assignment(ts, at, v) ==
  LET e == parser_parse_expression_string(ts, at)
  IN Parsed(Tree("assignment", v, <<e.expr>>, <<>>), e.at)

(* let v = e and static let v = e; the tree does not say which. *)
ParseLet(ts, at) ==
  IF Type(ts, at) = "identifier" /\ Type(ts, at + 1) = "="
  THEN parser_parse_assignment(ts, at + 2, ts[at].value) ELSE ParseError

parser_parse_import(ts, at) ==
  IF Type(ts, at) = "identifier" THEN Parsed(Tree("import", ts[at].value, <<>>, <<>>), at + 1)
  ELSE ParseError

(* Without "=" the identifier is put before the rest of the expression. *)
ParseIdentifier(ts, at) ==
  IF Type(ts, at + 1) = "=" THEN parser_parse_assignment(ts, at + 2, ts[at].value)
  ELSE LET rest == parser_parse_expression_string(ts, at + 1)
       IN Parsed(Tree("expression", NULL, << <<ts[at]>> \o rest.expr >>, <<>>), rest.at)

ParseExpression(ts, at) ==
  LET e == parser_parse_expression_string(ts, at)
  IN Parsed(Tree("expression", NULL, <<e.expr>>, <<>>), e.at)

RECURSIVE parser_parse_statement(_, _), BlockFrom(_, _, _)

(* Statements up to end, else, while or the last token: the while is meant  *)
(* for do-while.                                                            *)
EndsBlock == {"end", "else", "while", "TOK_END"}
BlockFrom(ts, at, block) ==
  IF Type(ts, at) \in EndsBlock THEN Parsed(Tree("block", NULL, <<>>, block), at)
  ELSE IF Type(ts, at) = "newline" THEN BlockFrom(ts, at + 1, block)
  ELSE LET stmt == parser_parse_statement(ts, at)
       IN IF Failed(stmt) THEN ParseError
          ELSE BlockFrom(ts, stmt.at, Append(block, stmt.tree))
parser_parse_block(ts, at) == BlockFrom(ts, at, <<>>)

Expects(parsed, ts, tok, next) ==
  IF Failed(parsed) \/ Type(ts, parsed.at) # tok THEN ParseError ELSE next
EndsWith(parsed, ts, tok, tree) ==
  Expects(parsed, ts, tok, Parsed(tree, parsed.at + 1))

parser_parse_if(ts, at) ==
  LET cond == ParseExpression(ts, at)
      then == parser_parse_block(ts, cond.at + 1)
      other == Expects(Parsed(cond.tree, then.at + 1), ts, ":", parser_parse_block(ts, then.at + 2))
  IN Expects(cond, ts, ":",
       IF Failed(then) THEN ParseError
       ELSE IF Type(ts, then.at) = "else"
       THEN EndsWith(other, ts, "end",
              Tree("if", NULL, cond.tree.exprs, <<then.tree, other.tree>>))
       ELSE EndsWith(then, ts, "end", Tree("if", NULL, cond.tree.exprs, <<then.tree>>)))

parser_parse_while(ts, at) ==
  LET cond == ParseExpression(ts, at)
      body == parser_parse_block(ts, cond.at + 1)
  IN Expects(cond, ts, ":",
       EndsWith(body, ts, "end", Tree("while", NULL, cond.tree.exprs, <<body.tree>>)))

parser_parse_do_while(ts, at) ==
  LET body == parser_parse_block(ts, at + 1)
      cond == ParseExpression(ts, body.at + 1)
  IN IF Type(ts, at) # ":" THEN ParseError
     ELSE Expects(body, ts, "while",
            Parsed(Tree("do", NULL, cond.tree.exprs, <<body.tree>>), cond.at))

(* for v in range(start, end) or range(start, end, step) *)
RangeEnds(ts, from, until) ==
  IF Type(ts, until.at) # "," THEN [exprs |-> <<from.expr, until.expr>>, at |-> until.at]
  ELSE LET step == parser_parse_expression_string(ts, until.at + 1)
       IN [exprs |-> <<from.expr, until.expr, step.expr>>, at |-> step.at]
parser_parse_for(ts, at) ==
  LET from == parser_parse_expression_string(ts, at + 4)
      until == parser_parse_expression_string(ts, from.at + 1)
      range == RangeEnds(ts, from, until)
      body == parser_parse_block(ts, range.at + 2)
  IN IF /\ [i \in 0..3 |-> Type(ts, at + i)]
             = [i \in 0..3 |-> <<"identifier", "in", "range", "(">>[i + 1]]
        /\ Type(ts, from.at) = "," /\ Type(ts, range.at) = ")" /\ Type(ts, range.at + 1) = ":"
     THEN EndsWith(body, ts, "end", Tree("for", ts[at].value, range.exprs, <<body.tree>>))
     ELSE ParseError

parser_parse_statement(ts, at) ==
  CASE Type(ts, at) = "if" -> parser_parse_if(ts, at + 1)
    [] Type(ts, at) = "for" -> parser_parse_for(ts, at + 1)
    [] Type(ts, at) = "while" -> parser_parse_while(ts, at + 1)
    [] Type(ts, at) = "do" -> parser_parse_do_while(ts, at + 1)
    [] Type(ts, at) = "import" -> parser_parse_import(ts, at + 1)
    [] Type(ts, at) = "let" -> ParseLet(ts, at + 1)
    [] Type(ts, at) = "static" ->
         IF Type(ts, at + 1) = "let" THEN ParseLet(ts, at + 2) ELSE ParseError
    [] Type(ts, at) = "identifier" -> ParseIdentifier(ts, at)
    [] FormsFor(Type(ts, at), 0) # {} -> ParseNaql(ts, at)
    [] OTHER -> ParseExpression(ts, at)

-----------------------------------------------------------------------------
(* Execution.  A run has what the code returned, the variables (NULL where  *)
(* there is none) and the effects so far.                                   *)
Run(ret, vars, effects) == [ret |-> ret, vars |-> vars, effects |-> effects]
Started == Run(ReturnsSuccess, [v \in ScriptVars |-> 0] @@ (LoopVar :> NULL), <<>>)
With(run, ret) == [run EXCEPT !.ret = ret]
Assigned(run, v, n) == Run(run.ret, [run.vars EXCEPT ![v] = n], Append(run.effects, <<v, n>>))

(* eval_expression: NULL is an error. *)
ValueOf(expr, run) ==
  LET bare == IF expr # <<>> /\ expr[1].tok = "(" THEN SubSeq(expr, 2, Len(expr) - 1) ELSE expr
  IN IF Len(bare) # 1 THEN NULL
  ELSE IF bare[1].tok = "identifier" THEN run.vars[bare[1].value]
  ELSE LET e == bare[1].value
       IN CASE e.form = "number" -> e.n
            [] run.vars[e.of] = NULL -> NULL
            [] e.form = "plus" -> run.vars[e.of] + e.n
            [] e.form = "less" -> IF run.vars[e.of] < e.n THEN 1 ELSE 0
bignum_is_true(n) == n # 0

(* eval_statement, given v = e, returns 1, and given import p, returns 2. *)
ExecuteAssignment(tree, run) ==
  LET n == ValueOf(tree.exprs[1], run)
  IN IF n = NULL THEN With(run, ReturnsError)
     ELSE With(Assigned(run, tree.name, n), ReturnsAssigned)
ExecuteImport(tree, run) ==
  [run EXCEPT !.ret = ReturnsImported, !.effects = Append(@, <<"import", tree.name>>)]

RECURSIVE ast_execute(_, _), ExecuteBlock(_, _, _), ForRounds(_, _, _, _, _, _),
          WhileRounds(_, _, _), DoRounds(_, _, _)

(* Each statement must return success for the next one to run. *)
ExecuteBlock(stmts, i, run) ==
  IF i > Len(stmts) THEN With(run, ReturnsSuccess)
  ELSE LET after == ast_execute(stmts[i], run)
       IN IF after.ret # ReturnsSuccess THEN after ELSE ExecuteBlock(stmts, i + 1, after)

ExecuteIf(tree, run) ==
  LET cond == ValueOf(tree.exprs[1], run)
  IN IF cond = NULL THEN With(run, ReturnsError)
     ELSE IF bignum_is_true(cond) THEN ast_execute(tree.blocks[1], run)
     ELSE IF Len(tree.blocks) = 2 THEN ast_execute(tree.blocks[2], run)
     ELSE With(run, ReturnsSuccess)

(* The loop variable gets the counter, and not the other way round. *)
ForRounds_up_to_the_end(tree, current, end, step, rounds, run) ==
  IF current > end THEN With(run, ReturnsSuccess)
  ELSE IF rounds = 0 THEN With(run, GoesOn)
  ELSE LET after == ast_execute(tree.blocks[1], Assigned(run, tree.name, current))
       IN IF after.ret # ReturnsSuccess THEN after
          ELSE ForRounds(tree, current + step, end, step, rounds - 1, after)
ForRounds(tree, current, end, step, rounds, run) ==
  IF current >= end THEN With(run, ReturnsSuccess)
  ELSE IF rounds = 0 THEN With(run, GoesOn)
  ELSE LET after == ast_execute(tree.blocks[1], Assigned(run, tree.name, current))
       IN IF after.ret # ReturnsSuccess THEN after
          ELSE ForRounds(tree, current + step, end, step, rounds - 1, after)
ExecuteFor(tree, run) ==
  LET values == [i \in DOMAIN tree.exprs |-> ValueOf(tree.exprs[i], run)]
  IN IF \E i \in DOMAIN values : values[i] = NULL THEN With(run, ReturnsError)
     ELSE ForRounds(tree, values[1], values[2], IF Len(values) = 3 THEN values[3] ELSE 1,
                    MaxRounds, run)

WhileRounds(tree, rounds, run) ==
  LET cond == ValueOf(tree.exprs[1], run)
  IN IF cond = NULL THEN With(run, ReturnsError)
     ELSE IF ~bignum_is_true(cond) THEN With(run, ReturnsSuccess)
     ELSE IF rounds = 0 THEN With(run, GoesOn)
     ELSE LET after == ast_execute(tree.blocks[1], run)
          IN IF after.ret # ReturnsSuccess THEN after ELSE WhileRounds(tree, rounds - 1, after)

DoRounds(tree, rounds, run) ==
  LET after == ast_execute(tree.blocks[1], run)
      cond == ValueOf(tree.exprs[1], after)
  IN IF rounds = 0 THEN With(run, GoesOn)
     ELSE IF after.ret # ReturnsSuccess THEN after
     ELSE IF cond = NULL THEN With(after, ReturnsError)
     ELSE IF bignum_is_true(cond) THEN DoRounds(tree, rounds - 1, after)
     ELSE With(after, ReturnsSuccess)

ast_execute(tree, run) ==
  CASE tree.kind = "expression" ->
         With(run, IF ValueOf(tree.exprs[1], run) = NULL THEN ReturnsError ELSE ReturnsSuccess)
    [] tree.kind = "assignment" -> ExecuteAssignment(tree, run)
    [] tree.kind = "import" -> ExecuteImport(tree, run)
    [] tree.kind = "if" -> ExecuteIf(tree, run)
    [] tree.kind = "for" -> ExecuteFor(tree, run)
    [] tree.kind = "while" -> WhileRounds(tree, MaxRounds, run)
    [] tree.kind = "do" -> DoRounds(tree, MaxRounds, run)
    [] tree.kind = "block" -> ExecuteBlock(tree.blocks, 1, run)
    [] OTHER -> With(run, ReturnsError)

-----------------------------------------------------------------------------
(* Programs are made by putting the one at hand into a larger statement,    *)
(* one of NAQL into one at most.                                            *)
Simple ==
  {Tree("assignment", v, <<Expr("plus", v, 1)>>, <<>>) : v \in ScriptVars}
  \cup {Tree("expression", NULL, << <<Tkn("identifier", LoopVar)>> >>, <<>>),
        Tree("import", "math", <<>>, <<>>)}
InParentheses(expr) == <<Word("(")>> \o expr \o <<Word(")")>>
Block(stmts) == Tree("block", NULL, <<>>, stmts)
Conditions == {<<Expr("less", v, n)>> : v \in ScriptVars \cup {LoopVar}, n \in Bounds}
Ranges == {<<Expr("number", NULL, 0), Expr("number", NULL, n)>> : n \in Bounds}
          \cup {<<Expr("number", NULL, 0), InParentheses(Expr("number", NULL, n)), Expr("number", NULL, 2)>>
                  : n \in Bounds}

program_create ==
  program = [tree |-> CHOOSE tree \in Simple : TRUE, nesting |-> 0]

BlocksAround(tree) ==
  {Block(<<tree>>)} \cup {Block(<<other, tree>>) : other \in Simple}
  \cup {Block(<<tree, other>>) : other \in Simple}
Enclosing(tree) ==
  UNION { {Tree("for", LoopVar, range, <<block>>) : range \in Ranges}
          \cup {Tree(kind, NULL, cond, <<block>>) : kind \in {"if", "while", "do"}, cond \in Conditions}
          \cup {Tree("if", NULL, cond, <<Block(<<>>), block>>) : cond \in Conditions}
          : block \in BlocksAround(tree) }
ProgramNext ==
  \/ /\ program.nesting < MaxNesting
     /\ \E tree \in Enclosing(program.tree) :
          program' = [tree |-> tree, nesting |-> program.nesting + 1]
  \/ \E tree \in Simple : program' = [tree |-> tree, nesting |-> 0]
  \/ /\ program.nesting = 0
     /\ \E tree \in NaqlStatements : program' = [tree |-> tree, nesting |-> MaxNesting - 1]

-----------------------------------------------------------------------------
(* The text of a tree, with assignments in one of their three forms. *)
AssignmentForms == {<<>>, <<Word("let")>>, <<Word("static"), Word("let")>>}
RECURSIVE TextOf(_, _), TextOfBlock(_, _)
TextOfBlock(block, form) ==
  <<Word(":"), Word("newline")>>
  \o FlattenSeq([i \in DOMAIN block.blocks |-> Append(TextOf(block.blocks[i], form), Word("newline"))])
TextOf(tree, form) ==
  LET named == <<Tkn("identifier", tree.name)>>
  IN CASE tree.kind = "expression" -> tree.exprs[1]
       [] tree.kind = "assignment" -> form \o named \o <<Word("=")>> \o tree.exprs[1]
       [] tree.kind = "import" -> <<Word("import")>> \o named
       [] tree.kind \in {"if", "while"} ->
            <<Word(tree.kind)>> \o tree.exprs[1] \o TextOfBlock(tree.blocks[1], form)
            \o (IF Len(tree.blocks) = 1 THEN <<>>
                ELSE <<Word("else")>> \o TextOfBlock(tree.blocks[2], form))
            \o <<Word("end")>>
       [] tree.kind = "do" ->
            <<Word("do")>> \o TextOfBlock(tree.blocks[1], form) \o <<Word("while")>> \o tree.exprs[1]
       [] tree.kind = "for" ->
            <<Word("for")>> \o named \o <<Word("in"), Word("range"), Word("(")>> \o tree.exprs[1]
            \o FlattenSeq([i \in 1..(Len(tree.exprs) - 1) |-> <<Word(",")>> \o tree.exprs[i + 1]])
            \o <<Word(")")>> \o TextOfBlock(tree.blocks[1], form) \o <<Word("end")>>
       [] OTHER -> NaqlText(tree)

(* A while in a block ends the block, because it might be that of a do; and *)
(* of stores, lists and bitmaps, SET, GET and DEL are taken for a table's.  *)
TakenForOthers ==
  {"AST_KVALOT_SET", "AST_KVALOT_GET", "AST_KVALOT_DEL", "AST_LIST_GET",
   "AST_BITMAP_SET", "AST_BITMAP_GET"}
RECURSIVE Misread(_)
Misread(tree) ==
  \/ tree.kind \in TakenForOthers
  \/ \E i \in DOMAIN tree.blocks :
       \/ tree.kind = "block" /\ tree.blocks[i].kind = "while"
       \/ Misread(tree.blocks[i])

(* The tree is that of the text, whichever way statements nest, an if has   *)
(* its else and a NAQL statement its optional parts, except for a while in  *)
(* a block and the statements that are taken for those of a table.          *)
ParsedAsWritten ==
  Misread(program.tree)
  \/ \A form \in AssignmentForms :
       LET text == TextOf(program.tree, form)
       IN parser_parse_statement(text, 1) = Parsed(program.tree, Len(text) + 1)

(* What the statements of a list are to do, one after the other: a branch   *)
(* or a body goes to the front of the list, and a loop follows its body.    *)
RoundsInAll == (MaxRounds + 1) ^ (MaxNesting + 1)
ForFrom(tree, n) == [tree EXCEPT !.exprs[1] = Expr("number", NULL, n)]
StepOf(tree, run) == IF Len(tree.exprs) = 3 THEN ValueOf(tree.exprs[3], run) ELSE 1
RECURSIVE Meant(_, _, _)
Meant(stmts, rounds, run) ==
  IF stmts = <<>> THEN run
  ELSE IF rounds = 0 THEN With(run, GoesOn)
  ELSE
    LET tree == Head(stmts)
        rest == Tail(stmts)
        value == ValueOf(tree.exprs[1], run)
        Goes(todo, after) == Meant(todo \o rest, rounds - 1, after)
    IN CASE tree.kind = "block" -> Goes(tree.blocks, run)
         [] tree.kind = "import" -> Goes(<<>>, With(ExecuteImport(tree, run), ReturnsSuccess))
         [] tree.kind = "do" ->
              Goes(<<tree.blocks[1], [tree EXCEPT !.kind = "while"]>>, run)
         [] tree.kind \in {"assignment", "expression", "if", "while", "for"} /\ value = NULL ->
              With(run, ReturnsError)
         [] tree.kind = "assignment" /\ value # NULL -> Goes(<<>>, Assigned(run, tree.name, value))
         [] tree.kind = "expression" /\ value # NULL -> Goes(<<>>, run)
         [] tree.kind = "if" /\ value # NULL ->
              Goes(IF value # 0 THEN <<tree.blocks[1]>> ELSE Tail(tree.blocks), run)
         [] tree.kind = "while" /\ value # NULL ->
              Goes(IF value # 0 THEN <<tree.blocks[1], tree>> ELSE <<>>, run)
         [] tree.kind = "for" /\ value # NULL ->
              IF value >= ValueOf(tree.exprs[2], run) THEN Goes(<<>>, run)
              ELSE Goes(<<tree.blocks[1], ForFrom(tree, value + StepOf(tree, run))>>,
                        Assigned(run, tree.name, value))
         [] OTHER -> With(run, ReturnsError)

(* A program does what its statements are to do, in their order: the same  *)
(* effects, the same variables, an error exactly where there is one.  Left *)
(* out are the programs in which something is to be done after an          *)
(* assignment or an import has been made: every enclosing block and loop   *)
(* stops there (ast.c:749).                                                *)
RunsAsMeant ==
  LET run == ast_execute(program.tree, Started)
      meant == Meant(<<program.tree>>, RoundsInAll, Started)
      made == {i \in DOMAIN meant.effects : meant.effects[i][1] # LoopVar}
  IN made \subseteq {Len(meant.effects)} =>
       IF run.ret = GoesOn THEN IsPrefix(run.effects, meant.effects)
       ELSE /\ run.effects = meant.effects /\ run.vars = meant.vars
            /\ run.ret \in {ReturnsSuccess, ReturnsError} => run.ret = meant.ret
==============================================================================

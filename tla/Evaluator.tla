------------------------------ MODULE Evaluator ------------------------------
(***************************************************************************)
(* How Logex evaluates an expression (evaluator.c): recursive descent that *)
(* computes while it parses, one level of functions for each precedence.   *)
(*                                                                         *)
(* Numbers and bitmaps are terms that say how they were computed; what the *)
(* arithmetic makes of them is the subject of Bignum and Bitmap.  A result *)
(* counts as positive and not zero, so only literals, with or without a    *)
(* sign, make a division by zero or a negative exponent.  Strings, lists,  *)
(* variables and calls are left out: a call is one more kind of operand.   *)
(* The lexer is not modelled: an expression is a sequence of tokens.       *)
(*                                                                         *)
(* A definition whose name says what it does wrong is a faulty variant of  *)
(* the one after it, which the specification does not use.                 *)
(***************************************************************************)
EXTENDS Stores, SequencesExt

CONSTANTS
  LiteralTerms,    (* the literals                                          *)
  SampleOperators, (* the binary operators that expressions are made of     *)
  MaxOperators     (* bound: operators in an expression                     *)

VARIABLE expression  (* what is evaluated, and its number of operators *)

EVAL_SUCCESS == 0
EVAL_ERROR == -1
EVAL_DIV_ZERO == -2

Leaf(type, zero) == [op |-> "operand", type |-> type, zero |-> zero, args |-> <<>>]
Term(op, type, args) == [op |-> op, type |-> type, zero |-> FALSE, args |-> args]

IsNegativeTerm(term) == term.op = "neg" /\ term.args[1].op = "operand"

Ok(term, at) == [ret |-> EVAL_SUCCESS, term |-> term, at |-> at]
Fails(code) == [ret |-> code, term |-> NULL, at |-> 0]

-----------------------------------------------------------------------------
(* The operators, level by level, from the loosest to the tightest; a       *)
(* level's operators associate to the left, and ** to the right.            *)
Comparisons == {"==", "!=", "<", "<=", ">", ">="}
Levels ==
  << {"xor"}, {"iff"}, {"impl"}, {"or"}, {"and"}, {"|"}, {"&"},
     Comparisons, {"<<", ">>"}, {"+", "-"}, {"*", "/", "%"}, {"**"} >>
PowerLevel == Len(Levels)

(* *, /, % and then + and -: of two numbers. *)
ArithmeticResult(op, a, b) ==
  IF a.type # b.type \/ a.type = "bitmap" THEN Fails(EVAL_ERROR)
  ELSE IF op \in {"/", "%"} /\ b.zero THEN Fails(EVAL_DIV_ZERO)
  ELSE Ok(Term(op, "number", <<a, b>>), 0)

PowerResult(op, a, b) ==
  IF a.type # "number" \/ b.type # "number" \/ IsNegativeTerm(b) THEN Fails(EVAL_ERROR)
  ELSE Ok(Term(op, "number", <<a, b>>), 0)

ShiftResult(op, a, b) ==
  IF a.type # "bitmap" \/ b.type # "number" \/ IsNegativeTerm(b) THEN Fails(EVAL_ERROR)
  ELSE Ok(Term(op, "bitmap", <<a, b>>), 0)

BitResult(op, a, b) ==
  IF a.type # "bitmap" \/ b.type # "bitmap" THEN Fails(EVAL_ERROR)
  ELSE Ok(Term(op, "bitmap", <<a, b>>), 0)

ComparisonResult(op, a, b) == Ok(Term(op, "number", <<a, b>>), 0)

(* ^ means "xor" between bitmaps and "and" between anything else. *)
AndResult(op, a, b) ==
  Ok(Term(op, IF a.type = "bitmap" /\ b.type = "bitmap" THEN "bitmap" ELSE "number", <<a, b>>), 0)

BooleanResult(op, a, b) == Ok(Term(op, "number", <<a, b>>), 0)

BinaryResult(op, a, b) ==
  CASE op \in {"+", "-", "*", "/", "%"} -> ArithmeticResult(op, a, b)
    [] op = "**" -> PowerResult(op, a, b)
    [] op \in {"<<", ">>"} -> ShiftResult(op, a, b)
    [] op \in Comparisons -> ComparisonResult(op, a, b)
    [] op \in {"&", "|"} -> BitResult(op, a, b)
    [] op = "and" -> AndResult(op, a, b)
    [] OTHER -> BooleanResult(op, a, b)

(* The sign is a flag that is toggled whatever the type. *)
UnaryResult(op, a) ==
  CASE op = "neg" -> Ok([Term("neg", a.type, <<a>>) EXCEPT !.zero = a.zero], 0)
    [] op = "pos" -> Ok(a, 0)
    [] op = "!" -> Ok(Term("!", "number", <<a>>), 0)
    [] op = "~" -> IF a.type = "bitmap" THEN Ok(Term("~", "bitmap", <<a>>), 0)
                   ELSE Fails(EVAL_ERROR)

-----------------------------------------------------------------------------
(* A token is an operand, a parenthesis or an operator. *)
OperandToken(term) == [tok |-> "operand", term |-> term]
Token(tok) == [tok |-> tok, term |-> NULL]
Tok(ts, at) == IF at <= Len(ts) THEN ts[at].tok ELSE "end"
Unary == [tok \in {"-", "+", "!", "~"} |->
           CASE tok = "-" -> "neg" [] tok = "+" -> "pos" [] OTHER -> tok]

RECURSIVE parse_primary(_, _), parse_level(_, _, _), parse_power(_, _),
          parse_rest(_, _, _)

(* An operand, a unary operator and another primary, or parentheses. *)
parse_primary(ts, at) ==
  LET tok == Tok(ts, at)
  IN IF tok = "operand" THEN Ok(ts[at].term, at + 1)
     ELSE IF tok \in DOMAIN Unary
     THEN LET inner == parse_primary(ts, at + 1)
          IN IF inner.ret # EVAL_SUCCESS THEN inner
             ELSE [UnaryResult(Unary[tok], inner.term) EXCEPT !.at = inner.at]
     ELSE IF tok = "("
     THEN LET inner == parse_level(1, ts, at + 1)
          IN IF inner.ret # EVAL_SUCCESS THEN inner
             ELSE IF Tok(ts, inner.at) # ")" THEN Fails(EVAL_ERROR)
             ELSE Ok(inner.term, inner.at + 1)
     ELSE Fails(EVAL_ERROR)

Joined(op, left, right) ==
  IF right.ret # EVAL_SUCCESS THEN right
  ELSE [BinaryResult(op, left.term, right.term) EXCEPT !.at = right.at]

(* Associates to the right: the right operand is a power again. *)
parse_power(ts, at) ==
  LET left == parse_primary(ts, at)
  IN IF left.ret # EVAL_SUCCESS \/ Tok(ts, left.at) # "**" THEN left
     ELSE Joined("**", left, parse_power(ts, left.at + 1))

(* The other levels: an operand of the next level, and a loop. *)
parse_rest(level, ts, left) ==
  IF left.ret # EVAL_SUCCESS \/ Tok(ts, left.at) \notin Levels[level] THEN left
  ELSE parse_rest(level, ts,
         Joined(Tok(ts, left.at), left, parse_level(level + 1, ts, left.at + 1)))
parse_level_to_the_right(level, ts, at) ==
  IF level = PowerLevel THEN parse_power(ts, at)
  ELSE LET left == parse_level(level + 1, ts, at)
       IN IF left.ret # EVAL_SUCCESS \/ Tok(ts, left.at) \notin Levels[level] THEN left
          ELSE Joined(Tok(ts, left.at), left, parse_level(level, ts, left.at + 1))
parse_level(level, ts, at) ==
  IF level = PowerLevel THEN parse_power(ts, at)
  ELSE parse_rest(level, ts, parse_level(level + 1, ts, at))

(* All of the tokens must be used. *)
eval_expression(ts) ==
  LET result == parse_level(1, ts, 1)
  IN IF result.ret = EVAL_SUCCESS /\ Tok(ts, result.at) # "end" THEN Fails(EVAL_ERROR)
     ELSE result

-----------------------------------------------------------------------------
(* Expressions are made larger one operator at a time. *)
eval_create ==
  expression = [tree |-> CHOOSE term \in LiteralTerms : TRUE, operators |-> 0]
Builds(op, args) ==
  /\ expression.operators < MaxOperators
  /\ expression' = [tree |-> Term(op, "any", args), operators |-> expression.operators + 1]
EvaluatorNext ==
  \/ \E op \in SampleOperators, term \in LiteralTerms :
       Builds(op, <<expression.tree, term>>) \/ Builds(op, <<term, expression.tree>>)
  \/ \E op \in Range(Unary) : Builds(op, <<expression.tree>>)
  \/ \E term \in LiteralTerms : expression' = [tree |-> term, operators |-> 0]

(* How tight an expression holds together, as evaluator.h and the order of  *)
(* the parse functions have it.                                             *)
LevelOf(tree) ==
  IF Len(tree.args) = 2 THEN CHOOSE l \in DOMAIN Levels : tree.op \in Levels[l]
  ELSE PowerLevel + 1

(* The tokens of an expression, with the parentheses that it needs, or with *)
(* all of them.                                                             *)
RECURSIVE Written(_, _)
Bracketed(tree, brackets, all) ==
  IF brackets THEN <<Token("(")>> \o Written(tree, all) \o <<Token(")")>>
  ELSE Written(tree, all)
Written(tree, all) ==
  IF tree.op = "operand" THEN <<OperandToken(tree)>>
  ELSE IF Len(tree.args) = 1
  THEN <<Token(CHOOSE tok \in DOMAIN Unary : Unary[tok] = tree.op)>>
       \o Bracketed(tree.args[1], all \/ LevelOf(tree.args[1]) <= PowerLevel, all)
  ELSE LET level == LevelOf(tree)
           ofLeft == LevelOf(tree.args[1])
           ofRight == LevelOf(tree.args[2])
       IN Bracketed(tree.args[1], all \/ ofLeft < level \/ (ofLeft = level /\ level = PowerLevel), all)
          \o <<Token(tree.op)>>
          \o Bracketed(tree.args[2], all \/ ofRight < level \/ (ofRight = level /\ level # PowerLevel), all)

(* What it means: operands first, from left to right, up to an error. *)
RECURSIVE Meaning(_)
Meaning(tree) ==
  IF tree.op = "operand" THEN Ok(tree, 0)
  ELSE LET left == Meaning(tree.args[1])
       IN IF left.ret # EVAL_SUCCESS THEN left
          ELSE IF Len(tree.args) = 1 THEN UnaryResult(tree.op, left.term)
          ELSE Joined(tree.op, left, Meaning(tree.args[2]))

(* An expression is evaluated with the precedence and the grouping that     *)
(* evaluator.h gives, whether or not the parentheses that these make        *)
(* unnecessary are written, and stops at the same error; cut off before its *)
(* last token it is an error.                                               *)
EvaluatesAsWritten ==
  LET tree == expression.tree
      meaning == Meaning(tree)
      ts == Written(tree, FALSE)
  IN /\ \A all \in BOOLEAN :
          LET result == eval_expression(Written(tree, all))
          IN result.ret = meaning.ret /\ result.term = meaning.term
     /\ eval_expression(SubSeq(ts, 1, Len(ts) - 1)).ret # EVAL_SUCCESS
==============================================================================

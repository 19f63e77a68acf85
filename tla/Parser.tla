-------------------------------- MODULE Parser --------------------------------
(***************************************************************************)
(* The parser (marigold/parser.go), recursive descent over tokens.         *)
(*                                                                         *)
(* A parse function takes the tokens and the cursor (from one) to the node *)
(* it builds and the cursor after it, [node, at].  The cursor Panicked,    *)
(* where no token is, stands for a panic; a function that returns nil      *)
(* gives a nil node and the cursor where it stopped.                       *)
(***************************************************************************)
EXTENDS Marigold

Panicked == 0
At(ts, i) == IF i \in DOMAIN ts THEN ts[i].tok ELSE "Eof"
consumeAssert(ts, i, t) == IF At(ts, i) = t THEN i + 1 ELSE Panicked
consumeIf(ts, i, t) == IF At(ts, i) = t THEN i + 1 ELSE i
Parsed(n, i) == [node |-> n, at |-> i]
Keywords == {"Len", "Emit", "Stop", "Assert"}
KeywordName == "Len" :> "len" @@ "Emit" :> "emit" @@ "Stop" :> "stop" @@ "Assert" :> "assert"

(***************************************************************************)
(* Types.                                                                  *)
(***************************************************************************)
RECURSIVE parseType(_, _)
parseArrayType(ts, i) ==
  LET sized == At(ts, i + 1) = "IntLiteral"
      elem == parseType(ts, consumeAssert(ts, IF sized THEN i + 2 ELSE i + 1, "RSquare"))
  IN  IF elem.node = NilType THEN elem
      ELSE Parsed(ArrayType(IF sized THEN ts[i + 1].int ELSE Inferred, elem.node), elem.at)
parseMapType(ts, i) ==
  LET open == consumeAssert(ts, i + 1, "LSquare")
      value == parseType(ts, consumeAssert(ts, open + 1, "RSquare"))
  IN  CASE open = Panicked \/ At(ts, open) = "Eof" -> Parsed(NilType, Panicked)
        [] At(ts, open) # "String" -> Parsed(NilType, open + 1)
        [] value.node = NilType -> value
        [] OTHER -> Parsed(MapType(value.node), value.at)
parseType(ts, i) ==
  CASE At(ts, i) \in {"Int", "Float", "String", "Bool"} -> Parsed(TypeFromTokenType(At(ts, i)), i + 1)
    [] At(ts, i) = "LSquare" -> parseArrayType(ts, i)
    [] At(ts, i) = "Map" -> parseMapType(ts, i)
    [] OTHER -> Parsed(NilType, i)

(***************************************************************************)
(* Expressions.                                                            *)
(***************************************************************************)
(* Expressions, statements and functions are parsed by functions that call *)
(* each other; parse, which is defined below, is where they meet.          *)
RECURSIVE parse(_, _, _)
parseExpression(ts, i) == parse("expression", ts, i)
parseStatement(ts, i) == parse("statement", ts, i)
parseFunctionDefinition(ts, i) == parse("function", ts, i)

(* The arguments of a call up to the parenthesis; commas may be left out.  *)
RECURSIVE parseArguments(_, _, _)
parseArguments(ts, i, args) ==
  LET arg == parseExpression(ts, i) IN
  CASE At(ts, i) = "Eof" -> Parsed(NilExpr, Panicked)
    [] At(ts, i) = "RParen" -> Parsed(CallExpr("", args), i + 1)
    [] arg.node = NilExpr -> arg
    [] OTHER -> parseArguments(ts, consumeIf(ts, arg.at, "Comma"), Append(args, arg.node))

parseFunctionCall(ts, i) ==
  LET call == parseArguments(ts, consumeAssert(ts, i + 1, "LParen"), <<>>) IN
  IF call.node = NilExpr THEN call
  ELSE Parsed([call.node EXCEPT !.name = IF At(ts, i) = "Identifier" THEN ts[i].name ELSE KeywordName[At(ts, i)]],
              call.at)

RECURSIVE parseElements(_, _, _)
parseElements(ts, i, elems) ==
  LET elem == parseExpression(ts, i)
      all == Append(elems, elem.node)
  IN  CASE elem.node = NilExpr -> elem
        [] At(ts, elem.at) = "RSquare" -> Parsed(ArrayLiteral(all), elem.at + 1)
        [] At(ts, elem.at) = "Comma" -> parseElements(ts, elem.at + 1, all)
        [] OTHER -> Parsed(NilExpr, elem.at)
parseArrayLiteral(ts, i) ==
  IF At(ts, i + 1) = "RSquare" THEN Parsed(ArrayLiteral(<<>>), i + 2) ELSE parseElements(ts, i + 1, <<>>)

parseMapLiteral(ts, i) ==
  CASE At(ts, i + 1) = "RBrace" -> Parsed(MapLiteral, i + 2)
    [] At(ts, i + 1) = "Eof" -> Parsed(NilExpr, Panicked)
    [] OTHER -> Parsed(NilExpr, i + 1)

parseIndexOrSlice(ts, i, l) ==
  LET open == consumeAssert(ts, i, "LSquare")
      first == parseExpression(ts, open)
      last == parseExpression(ts, IF At(ts, open) = "Colon" THEN open + 1 ELSE first.at + 1)
      close(n, at) == LET j == consumeAssert(ts, at, "RSquare")
                      IN  Parsed(IF j = Panicked THEN NilExpr ELSE n, j)
  IN  CASE At(ts, open) = "Eof" -> Parsed(NilExpr, Panicked)
        [] At(ts, open) = "Colon" ->
             IF last.node = NilExpr THEN last ELSE close(SliceExpr(l, NilExpr, last.node), last.at)
        [] first.node = NilExpr -> first
        [] At(ts, first.at) = "Colon" ->
             IF At(ts, first.at + 1) = "RSquare" THEN Parsed(SliceExpr(l, first.node, NilExpr), first.at + 2)
             ELSE IF last.node = NilExpr THEN Parsed(NilExpr, IF At(ts, first.at + 1) = "Eof" THEN Panicked ELSE last.at)
             ELSE close(SliceExpr(l, first.node, last.node), last.at)
        [] OTHER -> close(IndexExpr(l, first.node), first.at)

LiteralOf(t) ==
  CASE t.tok = "IntLiteral" -> IntLiteral(t.int)
    [] t.tok = "FloatLiteral" -> FloatLiteral(t.float)
    [] t.tok = "StringLiteral" -> StringLiteral(t.str)
    [] t.tok = "BoolLiteral" -> BoolLiteral(t.bool)

parseParentheses(ts, i) ==
  LET in == parseExpression(ts, i + 1)
      close == consumeAssert(ts, in.at, "RParen")
  IN  Parsed(IF close = Panicked THEN NilExpr ELSE in.node, close)

parseAtom(ts, i) ==
  CASE At(ts, i) \in {"IntLiteral", "FloatLiteral", "StringLiteral", "BoolLiteral"} -> Parsed(LiteralOf(ts[i]), i + 1)
    [] At(ts, i) = "Identifier" ->
         (CASE At(ts, i + 1) = "LParen" -> parseFunctionCall(ts, i)
            [] At(ts, i + 1) = "LSquare" -> parseIndexOrSlice(ts, i + 1, IdentifierExpr(ts[i].name))
            [] OTHER -> Parsed(IdentifierExpr(ts[i].name), i + 1))
    [] At(ts, i) \in Keywords ->
         IF At(ts, i + 1) = "LParen" THEN parseFunctionCall(ts, i) ELSE Parsed(NilExpr, Panicked)
    [] At(ts, i) = "LParen" -> parseParentheses(ts, i)
    [] At(ts, i) = "LSquare" -> parseArrayLiteral(ts, i)
    [] At(ts, i) = "LBrace" -> parseMapLiteral(ts, i)
    [] OTHER -> Parsed(NilExpr, i)

RECURSIVE parseFactor(_, _)
parseFactor(ts, i) ==
  LET operand == parseFactor(ts, i + 1) IN
  IF At(ts, i) \in {"Minus", "Not"}
  THEN Parsed(IF operand.at = Panicked THEN NilExpr ELSE UnaryExpr(At(ts, i), operand.node), operand.at)
  ELSE parseAtom(ts, i)

(* Mutant: exponentiation takes the nearest operand on its left.           *)
RECURSIVE parsePowerLeft(_, _)
parsePowerLeft(ts, i) ==
  LET l == parseFactor(ts, i)
      r == parseFactor(ts, l.at + 1)
      rest == parseFactor(ts, r.at + 1)
      one == BinaryExpr("Exponent", l.node, r.node)
  IN  CASE l.node = NilExpr \/ At(ts, l.at) # "Exponent" -> l
        [] At(ts, r.at) = "Exponent" -> Parsed(BinaryExpr("Exponent", one, rest.node), rest.at)
        [] OTHER -> Parsed(one, r.at)

(* Associates to the right, and binds weaker than a sign.                  *)
RECURSIVE parsePower(_, _)
parsePower(ts, i) ==
  LET l == parseFactor(ts, i)
      r == parsePower(ts, l.at + 1)
  IN  IF l.node = NilExpr \/ At(ts, l.at) # "Exponent" THEN l
      ELSE Parsed(IF r.at = Panicked THEN NilExpr ELSE BinaryExpr("Exponent", l.node, r.node), r.at)

(* The left-associative operators, from the weakest level to the           *)
(* strongest: parseLogicalOr, parseLogicalAnd, parseRelational,            *)
(* parseAdditive, parseTerm.                                               *)
Levels ==
  <<{"LogicalOr"}, {"LogicalAnd"}, Equalities \cup Comparisons, {"Plus", "Minus"}, {"Multiply", "Divide", "Modulo"}>>

RECURSIVE parseLevel(_, _, _), parseMore(_, _, _)
parseMore(ts, l, level) ==
  LET r == parseLevel(ts, l.at + 1, level + 1) IN
  CASE At(ts, l.at) \notin Levels[level] -> l
    [] r.at = Panicked -> r
    [] OTHER -> parseMore(ts, Parsed(BinaryExpr(At(ts, l.at), l.node, r.node), r.at), level)
parseLevel(ts, i, level) ==
  IF level > Len(Levels) THEN parsePower(ts, i)
  ELSE LET l == parseLevel(ts, i, level + 1) IN
       IF l.node = NilExpr THEN l ELSE parseMore(ts, l, level)

(***************************************************************************)
(* Statements.  A nil statement ends its block, whether a brace is there   *)
(* or something could not be parsed.                                       *)
(***************************************************************************)
RECURSIVE parseBlock(_, _, _)
parseBlock(ts, i, ss) ==
  LET s == parseStatement(ts, i) IN
  IF s.node = NilStmt THEN Parsed(Block(ss), s.at) ELSE parseBlock(ts, s.at, Append(ss, s.node))

(* A block in braces.                                                      *)
parseBody(ts, i) ==
  LET b == parseBlock(ts, consumeAssert(ts, i, "LBrace"), <<>>)
  IN  Parsed(b.node, consumeAssert(ts, b.at, "RBrace"))

parseAssignment(ts, i) ==
  LET declares == At(ts, i + 1) = "Colon"
      type == parseType(ts, i + 2)
      at == IF declares THEN type.at ELSE i + 1
      rhs == parseExpression(ts, at + 1)
      stmt(r) == AssignmentStmt(IdentifierExpr(ts[i].name), IF declares THEN type.node ELSE NilType, r)
  IN  CASE declares /\ type.node = NilType -> Parsed(NilStmt, at)
        [] At(ts, at) = "Eof" -> Parsed(NilStmt, Panicked)
        [] At(ts, at) # "Assign" -> Parsed(stmt(NilExpr), at)
        [] rhs.node = NilExpr -> Parsed(NilStmt, rhs.at)
        [] OTHER -> Parsed(stmt(rhs.node), rhs.at)

parseIndexedAssignment(ts, i) ==
  LET l == parseIndexOrSlice(ts, i + 1, IdentifierExpr(ts[i].name))
      rhs == parseExpression(ts, consumeAssert(ts, l.at, "Assign"))
  IN  CASE l.node = NilExpr -> Parsed(NilStmt, l.at)
        [] rhs.node = NilExpr -> Parsed(NilStmt, rhs.at)
        [] OTHER -> Parsed(AssignmentStmt(l.node, NilType, rhs.node), rhs.at)

parseIf(ts, i) ==
  LET c == parseExpression(ts, i + 1)
      then == parseBody(ts, c.at)
      else == parseBody(ts, then.at + 1)
      stmt(b, at) == Parsed(IF at = Panicked THEN NilStmt ELSE IfStmt(c.node, then.node, b), at)
  IN  CASE c.node = NilExpr -> Parsed(NilStmt, Panicked)
        [] At(ts, then.at) = "Else" -> stmt(else.node, else.at)
        [] OTHER -> stmt(NilBlock, then.at)

parseWhile(ts, i) ==
  LET c == parseExpression(ts, i + 1)
      body == parseBody(ts, c.at)
  IN  IF c.node = NilExpr \/ body.at = Panicked THEN Parsed(NilStmt, Panicked)
      ELSE Parsed(WhileStmt(c.node, body.node), body.at)

(* An expression where a nil one is fatal.                                 *)
MustParse(e, stmt) == IF e.node = NilExpr THEN Parsed(NilStmt, Panicked) ELSE Parsed(stmt, e.at)

statementAt(ts, i) ==
  LET here == parseExpression(ts, i)
      after == parseExpression(ts, i + 1)
      call == parseFunctionCall(ts, i)
  IN
  CASE At(ts, i) \in {"Eof", "RBrace"} -> Parsed(NilStmt, i)
    [] At(ts, i) = "If" -> parseIf(ts, i)
    [] At(ts, i) = "While" -> parseWhile(ts, i)
    [] At(ts, i) = "Return" -> MustParse(after, ReturnStmt(after.node))
    [] At(ts, i) = "Break" -> Parsed(BreakStmt, i + 1)
    [] At(ts, i) = "Continue" -> Parsed(ContinueStmt, i + 1)
    [] At(ts, i) = "Identifier" ->
         (CASE At(ts, i + 1) = "Eof" -> Parsed(NilStmt, i)
            [] At(ts, i + 1) \in {"Assign", "Colon"} -> parseAssignment(ts, i)
            [] At(ts, i + 1) = "LSquare" -> parseIndexedAssignment(ts, i)
            [] At(ts, i + 1) = "LParen" ->
                 IF call.node = NilExpr THEN Parsed(NilStmt, call.at) ELSE Parsed(ExpressionStmt(call.node), call.at)
            [] OTHER -> IF here.node = NilExpr THEN Parsed(NilStmt, here.at)
                        ELSE Parsed(ExpressionStmt(here.node), here.at))
    [] OTHER -> MustParse(here, ExpressionStmt(here.node))

(***************************************************************************)
(* Functions and the program.  A name that is a keyword is refused by the  *)
(* token's type already.                                                   *)
(***************************************************************************)
RECURSIVE parseParameters(_, _, _, _)
parseParameters(ts, i, ps, types) ==
  LET colon == consumeAssert(ts, consumeAssert(ts, i, "Identifier"), "Colon")
      type == parseType(ts, colon)
  IN  CASE At(ts, i) = "RParen" -> [ps |-> ps, types |-> types, at |-> i + 1]
        [] colon = Panicked \/ type.node = NilType -> [ps |-> ps, types |-> types, at |-> Panicked]
        [] OTHER -> parseParameters(ts, consumeIf(ts, type.at, "Comma"), Append(ps, ts[i].name), Append(types, type.node))

(* Whatever goes wrong is fatal in Parse.                                  *)
functionAt(ts, i) ==
  LET name == consumeAssert(ts, i, "Define")
      params == parseParameters(ts, consumeAssert(ts, consumeAssert(ts, name, "Identifier"), "LParen"), <<>>, <<>>)
      type == parseType(ts, consumeAssert(ts, params.at, "Colon"))
      body == parseBody(ts, type.at)
  IN  IF type.node = NilType \/ body.at = Panicked \/ ts[name].name \in {"int", "float", "string"}
      THEN [name |-> "", at |-> Panicked]
      ELSE [name |-> ts[name].name, at |-> body.at,
            node |-> Function(ts[name].name, params.ps, params.types, type.node, body.node)]

(* What parseExpression, parseStatement and parseFunctionDefinition do.    *)
parse(what, ts, i) ==
  CASE what = "expression" -> parseLevel(ts, i, 1)
    [] what = "statement" -> statementAt(ts, i)
    [] what = "function" -> functionAt(ts, i)

(* The functions by name, the last definition of a name; NoProgram after a *)
(* panic.                                                                  *)
NoProgram == [nil |-> TRUE]
RECURSIVE parseFrom(_, _, _)
parseFrom(ts, i, p) ==
  LET f == parseFunctionDefinition(ts, i) IN
  CASE i = Len(ts) + 1 -> p
    [] f.at = Panicked -> NoProgram
    [] OTHER -> parseFrom(ts, f.at, f.name :> f.node @@ p)
Parse(ts) == parseFrom(ts, 1, [f \in {} |-> 0])
==============================================================================

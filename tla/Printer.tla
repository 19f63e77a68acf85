-------------------------------- MODULE Printer --------------------------------
(***************************************************************************)
(* The source of a syntax tree, as the tokens that the lexer would deliver *)
(* for it, with parentheses only where precedence asks for them.  It is    *)
(* the reference for the parser: what it prints, the parser must read back.*)
(***************************************************************************)
EXTENDS Parser

LOCAL SE == INSTANCE SequencesExt

T(t) == <<[tok |-> t]>>
Name(x) == <<[tok |-> "Identifier", name |-> x]>>

(* Prints the members of a sequence one after the other, with a separator. *)
Between(parts, sep) == SE!FoldLeft(LAMBDA s, p : IF s = <<>> THEN p ELSE s \o sep \o p, <<>>, parts)

RECURSIVE TypeTokens(_)
TypeTokens(t) ==
  CASE t = IntType -> T("Int")
    [] t = FloatType -> T("Float")
    [] t = StringType -> T("String")
    [] t = BoolType -> T("Bool")
    [] IsArray(t) -> T("LSquare") \o (IF t[2] = Inferred THEN <<>> ELSE <<[tok |-> "IntLiteral", int |-> t[2]]>>)
                     \o T("RSquare") \o TypeTokens(t[3])
    [] IsMap(t) -> T("Map") \o T("LSquare") \o T("String") \o T("RSquare") \o TypeTokens(t[2])

LiteralToken(e) ==
  CASE e.valueType = "Int" -> <<[tok |-> "IntLiteral", int |-> e.int]>>
    [] e.valueType = "Float" -> <<[tok |-> "FloatLiteral", float |-> e.float]>>
    [] e.valueType = "String" -> <<[tok |-> "StringLiteral", str |-> e.str]>>
    [] e.valueType = "Bool" -> <<[tok |-> "BoolLiteral", bool |-> e.bool]>>

(* How tightly an expression binds.                                        *)
PowerLevel == 6
SignLevel == 7
Precedence(e) ==
  CASE e.type = "BinaryExpr" ->
         IF e.operator = "Exponent" THEN PowerLevel ELSE CHOOSE i \in DOMAIN Levels : e.operator \in Levels[i]
    [] e.type = "UnaryExpr" -> SignLevel
    [] OTHER -> 8

CallToken(f) == IF \E k \in Keywords : KeywordName[k] = f THEN T(CHOOSE k \in Keywords : KeywordName[k] = f) ELSE Name(f)

(* An expression where one that binds at least at this level is expected.  *)
RECURSIVE ExprTokens(_, _)
ExprTokens(e, level) ==
  LET sub(x) == IF x = NilExpr THEN <<>> ELSE ExprTokens(x, 1)
      own == Precedence(e)
      list(es) == Between([i \in DOMAIN es |-> sub(es[i])], T("Comma"))
      bare ==
        CASE e.type = "LiteralExpr" -> LiteralToken(e)
          [] e.type = "IdentifierExpr" -> Name(e.name)
          [] e.type = "UnaryExpr" -> T(e.operator) \o ExprTokens(e.rhs, own)
          [] e.type = "BinaryExpr" ->
               LET right == e.operator = "Exponent" IN
               ExprTokens(e.lhs, IF right THEN own + 1 ELSE own) \o T(e.operator)
               \o ExprTokens(e.rhs, IF right THEN own ELSE own + 1)
          [] e.type = "CallExpr" -> CallToken(e.name) \o T("LParen") \o list(e.args) \o T("RParen")
          [] e.type = "ArrayLiteral" -> T("LSquare") \o list(e.args) \o T("RSquare")
          [] e.type = "MapLiteral" -> T("LBrace") \o T("RBrace")
          [] e.type = "IndexExpr" -> sub(e.lhs) \o T("LSquare") \o sub(e.rhs) \o T("RSquare")
          [] e.type = "SliceExpr" -> sub(e.lhs) \o T("LSquare") \o sub(e.start) \o T("Colon") \o sub(e.end) \o T("RSquare")
  IN  IF own < level THEN T("LParen") \o bare \o T("RParen") ELSE bare

RECURSIVE StatementTokens(_)
BlockTokens(b) == T("LBrace") \o Between([i \in DOMAIN b.statements |-> StatementTokens(b.statements[i])], <<>>) \o T("RBrace")
StatementTokens(s) ==
  CASE s.type = "AssignmentStmt" ->
         ExprTokens(s.lhs, 1) \o (IF s.varType = NilType THEN <<>> ELSE T("Colon") \o TypeTokens(s.varType))
         \o (IF s.rhs = NilExpr THEN <<>> ELSE T("Assign") \o ExprTokens(s.rhs, 1))
    [] s.type = "ReturnStmt" -> T("Return") \o ExprTokens(s.rhs, 1)
    [] s.type = "IfStmt" -> T("If") \o ExprTokens(s.conditional, 1) \o BlockTokens(s.block)
                            \o (IF s.elseBlock = NilBlock THEN <<>> ELSE T("Else") \o BlockTokens(s.elseBlock))
    [] s.type = "WhileStmt" -> T("While") \o ExprTokens(s.conditional, 1) \o BlockTokens(s.block)
    [] s.type = "BreakStmt" -> T("Break")
    [] s.type = "ContinueStmt" -> T("Continue")
    [] s.type = "ExpressionStmt" -> ExprTokens(s.rhs, 1)

FunctionTokens(d) ==
  T("Define") \o Name(d.name) \o T("LParen")
  \o Between([i \in DOMAIN d.parameters |-> Name(d.parameters[i]) \o T("Colon") \o TypeTokens(d.parameterTypes[i])], T("Comma"))
  \o T("RParen") \o T("Colon") \o TypeTokens(d.returnType) \o BlockTokens(d.block)

Tokens(p) == LET fs == SE!SetToSeq(DOMAIN p) IN Between([i \in DOMAIN fs |-> FunctionTokens(p[fs[i]])], <<>>)
==============================================================================

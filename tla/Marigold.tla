------------------------------- MODULE Marigold -------------------------------
(***************************************************************************)
(* The abstract syntax of Marigold (marigold/ast.go), its types            *)
(* (marigold/types.go) and the typechecker (marigold/typechecker.go).      *)
(*                                                                         *)
(* A program is a function from names to functions, as Ast.Functions is;   *)
(* the order in which Go walks that map is a parameter of the operators    *)
(* that walk it.  Names are strings, string literals sequences of bytes,   *)
(* types tuples; NilType is Go's nil, and ErrorType stands for a panic of  *)
(* the typechecker.                                                        *)
(***************************************************************************)
EXTENDS Integers, Sequences, TLC

LOCAL INSTANCE SequencesExt

IntLiteral(n) == [type |-> "LiteralExpr", valueType |-> "Int", int |-> n]
FloatLiteral(n) == [type |-> "LiteralExpr", valueType |-> "Float", float |-> n]
StringLiteral(s) == [type |-> "LiteralExpr", valueType |-> "String", str |-> s]
BoolLiteral(b) == [type |-> "LiteralExpr", valueType |-> "Bool", bool |-> b]
IdentifierExpr(x) == [type |-> "IdentifierExpr", name |-> x]
UnaryExpr(o, r) == [type |-> "UnaryExpr", operator |-> o, rhs |-> r]
BinaryExpr(o, l, r) == [type |-> "BinaryExpr", operator |-> o, lhs |-> l, rhs |-> r]
CallExpr(f, args) == [type |-> "CallExpr", name |-> f, args |-> args]
ArrayLiteral(args) == [type |-> "ArrayLiteral", args |-> args]
MapLiteral == [type |-> "MapLiteral"]
IndexExpr(l, r) == [type |-> "IndexExpr", lhs |-> l, rhs |-> r]
SliceExpr(l, from, to) == [type |-> "SliceExpr", lhs |-> l, start |-> from, end |-> to]
NilExpr == [type |-> "nil"]

Block(ss) == [statements |-> ss]
NilBlock == [nil |-> TRUE]
AssignmentStmt(l, t, r) == [type |-> "AssignmentStmt", lhs |-> l, varType |-> t, rhs |-> r]
ReturnStmt(e) == [type |-> "ReturnStmt", rhs |-> e]
IfStmt(c, b, else) == [type |-> "IfStmt", conditional |-> c, block |-> b, elseBlock |-> else]
WhileStmt(c, b) == [type |-> "WhileStmt", conditional |-> c, block |-> b]
BreakStmt == [type |-> "BreakStmt"]
ContinueStmt == [type |-> "ContinueStmt"]
ExpressionStmt(e) == [type |-> "ExpressionStmt", rhs |-> e]
NilStmt == [type |-> "nil"]

Function(f, ps, ts, t, b) ==
  [name |-> f, parameters |-> ps, parameterTypes |-> ts, returnType |-> t, block |-> b]

(***************************************************************************)
(* Types.                                                                  *)
(***************************************************************************)
IntType == <<"int">>
FloatType == <<"float">>
StringType == <<"string">>
BoolType == <<"bool">>
AnyType == <<"any">>
ArrayType(size, elem) == <<"array", size, elem>>
MapType(value) == <<"map", value>>
NilType == <<>>
ErrorType == <<"error">>
Proper(t) == t \notin {NilType, ErrorType}
IsArray(t) == Len(t) = 3
IsMap(t) == Len(t) = 2
Inferred == -1

IsNumeric(t) == t \in {IntType, FloatType}

IsAssignableTo(t, u) == Proper(t) /\ (t = u \/ (IsNumeric(t) /\ IsNumeric(u)))

TypeFromTokenType(tt) ==
  CASE tt = "Int" -> IntType
    [] tt = "Float" -> FloatType
    [] tt = "String" -> StringType
    [] tt = "Bool" -> BoolType
    [] OTHER -> NilType

StringContext == {"@caller", "@address", "@origin", "@coinbase", "@tsxdata"}
IntContext == {"@balance", "@gasprice", "@callvalue", "@timestamp", "@difficulty", "@height", "@gaslimit"}
GetBlockchainContextVariable(x) ==
  CASE x \in StringContext -> StringType
    [] x \in IntContext -> IntType
    [] OTHER -> NilType

(***************************************************************************)
(* Scopes: a sequence of functions from names to types, the innermost      *)
(* first and the global one last.                                          *)
(***************************************************************************)
EmptyScope == [x \in {} |-> NilType]
GlobalScope == "memory" :> ArrayType(Inferred, StringType) @@ "persistent" :> MapType(StringType)

findVariable(scopes, x) ==
  LET in == {i \in DOMAIN scopes : x \in DOMAIN scopes[i]} IN
  IF in = {} THEN NilType ELSE scopes[CHOOSE i \in in : \A j \in in : i <= j][x]

(***************************************************************************)
(* Expressions.                                                            *)
(***************************************************************************)
Comparisons == {"LessThan", "LessEqual", "GreaterThan", "GreaterEqual"}
Equalities == {"Equal", "NotEqual"}
Logical == {"LogicalAnd", "LogicalOr"}

isValidUnaryOperatorUse(o, t) == o = "Minus" /\ IsNumeric(t)

isValidBinaryOperatorUse(o, l, r) ==
  LET strings == l = StringType /\ r = StringType
      numbers == IsNumeric(l) /\ IsNumeric(r)
  IN  CASE o \in {"Plus"} \cup Comparisons -> strings \/ numbers
        [] o \in {"Minus", "Multiply", "Divide", "Modulo", "Exponent"} -> numbers
        [] o \in Equalities -> /\ Proper(l) /\ Proper(r)
                               /\ IsAssignableTo(l, r) \/ IsAssignableTo(r, l)
        [] o \in Logical -> l = BoolType /\ r = BoolType

binaryType(o, l, r) ==
  CASE ~isValidBinaryOperatorUse(o, l, r) -> ErrorType
    [] o \in Comparisons \cup Equalities \cup Logical -> BoolType
    [] o \in {"Divide", "Exponent"} -> FloatType
    [] l = StringType -> StringType
    [] OTHER -> IF FloatType \in {l, r} THEN FloatType ELSE IntType

(* A call with arguments of types ts; functions are p.                     *)
Convertible == {IntType, FloatType, StringType}
callType(p, f, ts) ==
  LET one(S, t) == IF Len(ts) = 1 /\ ts[1] \in S THEN t ELSE ErrorType IN
  CASE f = "len" ->
         IF Len(ts) = 1 /\ (ts[1] = StringType \/ IsArray(ts[1]) \/ IsMap(ts[1])) THEN IntType ELSE ErrorType
    [] f = "string" -> one(Convertible, StringType)
    [] f = "int" -> one(Convertible, IntType)
    [] f = "float" -> one(Convertible, FloatType)
    [] f = "emit" -> one(Convertible \cup {BoolType}, AnyType)
    [] f = "stop" -> IF ts = <<>> THEN AnyType ELSE ErrorType
    [] f = "assert" -> one({BoolType}, BoolType)
    [] OTHER ->
         IF /\ f \in DOMAIN p
            /\ Len(ts) = Len(p[f].parameterTypes)
            /\ \A i \in DOMAIN ts : IsAssignableTo(ts[i], p[f].parameterTypes[i])
         THEN p[f].returnType ELSE ErrorType

(* The name of a function is an identifier without a type.                 *)
identifierType(p, scopes, x) ==
  CASE findVariable(scopes, x) # NilType -> findVariable(scopes, x)
    [] GetBlockchainContextVariable(x) # NilType -> GetBlockchainContextVariable(x)
    [] OTHER -> IF x \in DOMAIN p THEN NilType ELSE ErrorType

arrayType(ts) ==
  CASE ts = <<>> -> NilType
    [] ts[1] = ErrorType -> ErrorType
    [] OTHER -> IF \A i \in 2 .. Len(ts) : Proper(ts[i]) /\ ts[i] = ts[1]
                THEN ArrayType(Inferred, ts[1]) ELSE ErrorType

indexType(l, i) ==
  CASE l = StringType -> IF IsAssignableTo(i, IntType) THEN StringType ELSE ErrorType
    [] IsArray(l) -> IF IsAssignableTo(i, IntType) THEN l[3] ELSE ErrorType
    [] IsMap(l) -> IF i = StringType THEN l[2] ELSE ErrorType
    [] OTHER -> ErrorType

RECURSIVE typecheckExpression(_, _, _)
typecheckExpression(p, scopes, e) ==
  LET T(x) == typecheckExpression(p, scopes, x)
      bound(x) == x = NilExpr \/ IsAssignableTo(T(x), IntType)
      types(es) == [i \in DOMAIN es |-> T(es[i])]
  IN
  CASE e.type = "nil" -> ErrorType
    [] e.type = "UnaryExpr" -> IF isValidUnaryOperatorUse(e.operator, T(e.rhs)) THEN T(e.rhs) ELSE ErrorType
    [] e.type = "LiteralExpr" -> TypeFromTokenType(e.valueType)
    [] e.type = "IdentifierExpr" -> identifierType(p, scopes, e.name)
    [] e.type = "BinaryExpr" -> binaryType(e.operator, T(e.lhs), T(e.rhs))
    [] e.type = "CallExpr" -> callType(p, e.name, types(e.args))
    [] e.type = "ArrayLiteral" -> arrayType(types(e.args))
    [] e.type = "MapLiteral" -> NilType
    [] e.type = "IndexExpr" -> indexType(T(e.lhs), T(e.rhs))
    [] e.type = "SliceExpr" ->
         IF T(e.lhs) = StringType /\ bound(e.start) /\ bound(e.end) THEN StringType ELSE ErrorType

(* The identifiers of an expression.  A context variable that is read is   *)
(* added to the global scope, and can be assigned to from then on.         *)
RECURSIVE Identifiers(_)
Identifiers(e) ==
  CASE e.type = "IdentifierExpr" -> {e.name}
    [] e.type = "UnaryExpr" -> Identifiers(e.rhs)
    [] e.type \in {"BinaryExpr", "IndexExpr"} -> Identifiers(e.lhs) \cup Identifiers(e.rhs)
    [] e.type \in {"CallExpr", "ArrayLiteral"} -> UNION {Identifiers(e.args[i]) : i \in DOMAIN e.args}
    [] e.type = "SliceExpr" -> Identifiers(e.lhs) \cup Identifiers(e.start) \cup Identifiers(e.end)
    [] OTHER -> {}

Load(scopes, e) ==
  LET new == {x \in Identifiers(e) : findVariable(scopes, x) = NilType
                                     /\ GetBlockchainContextVariable(x) # NilType}
  IN  [scopes EXCEPT ![Len(scopes)] = @ @@ [x \in new |-> GetBlockchainContextVariable(x)]]

(***************************************************************************)
(* Statements: each takes a context                                        *)
(*   [p, scopes, returnType, inLoop, ok]                                   *)
(* to the one after it; ok is FALSE once the typechecker has panicked.     *)
(***************************************************************************)
Read(c, e) == [c EXCEPT !.scopes = Load(c.scopes, e)]
Require(c, b) == [c EXCEPT !.ok = c.ok /\ b]
TypeIn(c, e) == typecheckExpression(c.p, c.scopes, e)

(* What a declaration of type t with initialiser e of type r declares: the *)
(* size of an array may come from its literal.                             *)
DeclaredType(t, e) ==
  IF e.type = "ArrayLiteral" /\ IsArray(t) /\ t[2] = Inferred THEN ArrayType(Len(e.args), t[3]) ELSE t
InitialiserType(t, e, r) ==
  CASE r = NilType -> DeclaredType(t, e)
    [] e.type = "ArrayLiteral" /\ IsArray(t) /\ IsArray(r) -> ArrayType(Len(e.args), r[3])
    [] OTHER -> r

checkDeclaration(c, s) ==
  LET t == DeclaredType(s.varType, s.rhs)
      d == Read(Require(c, /\ s.lhs.name \notin DOMAIN c.scopes[1]
                           /\ \/ s.rhs = NilExpr
                              \/ IsAssignableTo(InitialiserType(s.varType, s.rhs, TypeIn(c, s.rhs)), t)), s.rhs)
  IN  [d EXCEPT !.scopes[1] = s.lhs.name :> t @@ @]

(* Mutant: a variable takes a value of any type.                           *)
checkReassignmentUntyped(c, s) ==
  Read(Require(c, TypeIn(c, s.rhs) # ErrorType /\ TypeIn(c, s.lhs) # ErrorType), s.rhs)

checkReassignment(c, s) ==
  CASE s.lhs.type = "IdentifierExpr" ->
         Read(Require(c, IsAssignableTo(TypeIn(c, s.rhs), findVariable(c.scopes, s.lhs.name))), s.rhs)
    [] s.lhs.type = "IndexExpr" ->
         Read(Read(Require(c, IsAssignableTo(TypeIn(c, s.rhs), TypeIn(c, s.lhs))), s.lhs), s.rhs)
    [] OTHER -> Require(c, FALSE)

checkReturn(c, s) ==
  LET t == TypeIn(c, s.rhs) IN
  Read(Require(c, IF t = NilType THEN IsArray(c.returnType) \/ IsMap(c.returnType)
                  ELSE IsAssignableTo(t, c.returnType)), s.rhs)

RECURSIVE typecheckStatement(_, _)

(* A block has a scope of its own; what it loads stays.                    *)
typecheckBlock(c, b) ==
  LET in == [c EXCEPT !.scopes = <<EmptyScope>> \o c.scopes]
      out == FoldLeft(typecheckStatement, in, b.statements)
  IN  [c EXCEPT !.ok = out.ok, !.scopes[Len(c.scopes)] = out.scopes[Len(out.scopes)]]

checkCondition(c, s) == Read(Require(c, TypeIn(c, s.conditional) = BoolType), s.conditional)

checkIf(c, s) ==
  LET then == typecheckBlock(checkCondition(c, s), s.block) IN
  IF s.elseBlock = NilBlock THEN then ELSE typecheckBlock(then, s.elseBlock)

checkWhile(c, s) ==
  LET in == [checkCondition(c, s) EXCEPT !.inLoop = TRUE] IN
  [typecheckBlock(in, s.block) EXCEPT !.inLoop = c.inLoop]

typecheckStatement(c, s) ==
  CASE ~c.ok -> c
    [] s.type = "AssignmentStmt" -> IF s.varType # NilType THEN checkDeclaration(c, s) ELSE checkReassignment(c, s)
    [] s.type = "ReturnStmt" -> checkReturn(c, s)
    [] s.type = "IfStmt" -> checkIf(c, s)
    [] s.type = "WhileStmt" -> checkWhile(c, s)
    [] s.type \in {"BreakStmt", "ContinueStmt"} -> Require(c, c.inLoop)
    [] s.type = "ExpressionStmt" -> Read(Require(c, TypeIn(c, s.rhs) # ErrorType), s.rhs)

(* The parameters are declared in the scope of the body.                   *)
typecheckFunctionDefinition(c, f) ==
  LET d == c.p[f]
      parameters == [x \in {d.parameters[i] : i \in DOMAIN d.parameters} |->
                       d.parameterTypes[CHOOSE i \in DOMAIN d.parameters : d.parameters[i] = x]]
      in == [Require(c, IsInjective(d.parameters))
               EXCEPT !.scopes = <<parameters, c.scopes[1]>>, !.returnType = d.returnType]
      out == FoldLeft(typecheckStatement, in, d.block.statements)
  IN  [c EXCEPT !.ok = out.ok, !.scopes = <<out.scopes[2]>>]

(* Typecheck accepts program p, whose functions Go visits in this order.   *)
Typecheck(p, order) ==
  /\ {"init", "call"} \subseteq DOMAIN p
  /\ \A f \in {"init", "call"} : p[f].parameters = <<>> /\ p[f].returnType = IntType
  /\ FoldLeft(typecheckFunctionDefinition,
              [p |-> p, scopes |-> <<GlobalScope>>, returnType |-> NilType, inLoop |-> FALSE, ok |-> TRUE],
              order).ok
==============================================================================

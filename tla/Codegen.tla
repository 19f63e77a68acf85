-------------------------------- MODULE Codegen --------------------------------
(***************************************************************************)
(* The code generator (marigold/codegen.go): from a program that passed    *)
(* the typechecker to instructions of the virtual machine.                 *)
(*                                                                         *)
(* A generator takes the CodegenContext                                    *)
(*   [code, index, locals, next, scopes, loops, literals, failed]          *)
(* to the one after it.  An address is the index of an instruction, from   *)
(* zero.  failed stands for a panic (logFatal, a nil expression, a value   *)
(* of another type than asserted).  The literals are the string table, in  *)
(* the order of their addresses, which are handed out one after the other. *)
(***************************************************************************)
EXTENDS AVM, Marigold

LOCAL SE == INSTANCE SequencesExt

(***************************************************************************)
(* String literals.                                                        *)
(***************************************************************************)
Slots(s) == 1 + Chunks(Len(s))
TableSize(literals) == SE!FoldLeft(LAMBDA n, s : n + Slots(s), 0, literals)
AddressOf(literals, s) == TableSize(SubSeq(literals, 1, SE!SelectInSeq(literals, LAMBDA t : t = s) - 1))

RegisterStringLiteral(literals, s) ==
  IF s \in SE!ToSet(literals) THEN literals ELSE Append(literals, s)

(* Slices, map literals and the left sides of assignments are not visited. *)
RECURSIVE collectFromExpression(_, _)
collectFromExpression(l, e) ==
  CASE e.type = "LiteralExpr" -> IF e.valueType = "String" THEN RegisterStringLiteral(l, e.str) ELSE l
    [] e.type \in {"BinaryExpr", "IndexExpr"} -> collectFromExpression(collectFromExpression(l, e.lhs), e.rhs)
    [] e.type = "UnaryExpr" -> collectFromExpression(l, e.rhs)
    [] e.type \in {"CallExpr", "ArrayLiteral"} -> SE!FoldLeft(collectFromExpression, l, e.args)
    [] OTHER -> l

(* Mutant: the else block is not visited.                                  *)
RECURSIVE collectFromThen(_, _)
collectFromThen(l, s) ==
  CASE s.type \in {"ExpressionStmt", "AssignmentStmt", "ReturnStmt"} -> collectFromExpression(l, s.rhs)
    [] s.type \in {"IfStmt", "WhileStmt"} ->
         SE!FoldLeft(collectFromThen, collectFromExpression(l, s.conditional), s.block.statements)
    [] OTHER -> l

RECURSIVE collectFromStatement(_, _)
collectFromStatement(l, s) ==
  LET block(k, b) == IF b = NilBlock THEN k ELSE SE!FoldLeft(collectFromStatement, k, b.statements) IN
  CASE s.type \in {"ExpressionStmt", "AssignmentStmt", "ReturnStmt"} -> collectFromExpression(l, s.rhs)
    [] s.type = "IfStmt" -> block(block(collectFromExpression(l, s.conditional), s.block), s.elseBlock)
    [] s.type = "WhileStmt" -> block(collectFromExpression(l, s.conditional), s.block)
    [] OTHER -> l

CollectStringLiterals(p, order) ==
  SE!FoldLeft(LAMBDA l, f : SE!FoldLeft(collectFromStatement, l, p[f].block.statements), <<>>, order)

(***************************************************************************)
(* Emitting.                                                               *)
(***************************************************************************)
Here(c) == Len(c.code)
Emits(c, o) == [c EXCEPT !.code = Append(@, [op |-> o, value |-> 0])]
EmitPush(c, n) == [c EXCEPT !.code = Append(@, [op |-> "PUSH", value |-> n])]
EmitAll(c, os) == SE!FoldLeft(Emits, c, os)
Patch(c, at, n) == [c EXCEPT !.code[at + 1].value = n]
logFatal(c) == [c EXCEPT !.failed = TRUE]

(* The stores that put a literal into memory, length first.                *)
stores(literals, s) ==
  SE!FlattenSeq([i \in 1 .. Slots(s) |->
    <<[op |-> "PUSH", value |-> IF i = 1 THEN Len(s) ELSE ChunkOf(s, i - 2)],
      [op |-> "PUSH", value |-> AddressOf(literals, s) + i - 1], [op |-> "MSTORE", value |-> 0]>>])
GenerateStringInitialization(c) ==
  [c EXCEPT !.code = @ \o SE!FlattenSeq([i \in DOMAIN c.literals |-> stores(c.literals, c.literals[i])])]

(***************************************************************************)
(* Expressions.                                                            *)
(***************************************************************************)
(* As in the parser, generate is where generators that call each other     *)
(* meet.                                                                   *)
RECURSIVE generate(_, _, _)
GenerateExpression(c, e) == generate("expression", c, e)
generateStatement(c, s) == generate("statement", c, s)
GenerateFunctionDefinition(c, d) == generate("function", c, d)

isStringExpression(c, e) ==
  \/ e.type = "LiteralExpr" /\ e.valueType = "String"
  \/ e.type = "IdentifierExpr" /\ findVariable(c.scopes, e.name) = StringType

(* The value of a boolean literal is a string, and asserted to be a bool.  *)
generateLiteral(c, e) ==
  CASE e.valueType = "Int" -> EmitPush(c, e.int)
    [] e.valueType = "String" ->
         LET d == [c EXCEPT !.literals = RegisterStringLiteral(@, e.str)]
         IN  EmitPush(d, AddressOf(d.literals, e.str))
    [] OTHER -> logFatal(c)

ContextOpcode ==
  "@caller" :> "CALLER" @@ "@address" :> "ADDRESS" @@ "@balance" :> "BALANCE" @@ "@origin" :> "ORIGIN"
  @@ "@gasprice" :> "GASPRICE" @@ "@callvalue" :> "CALLVALUE" @@ "@timestamp" :> "TIMESTAMP"
  @@ "@difficulty" :> "DIFFICULTY" @@ "@coinbase" :> "COINBASE" @@ "@height" :> "HEIGHT"
  @@ "@gaslimit" :> "GASLIMIT" @@ "@tsxdata" :> "TSXDATA"

generateIdentifier(c, e) ==
  CASE GetBlockchainContextVariable(e.name) # NilType -> Emits(c, ContextOpcode[e.name])
    [] e.name \in DOMAIN c.locals -> Emits(EmitPush(c, c.locals[e.name]), "LOAD_LOCAL")
    [] OTHER -> logFatal(c)

(* Built-in functions of one argument, with the opcode for a string and    *)
(* the one for anything else; "" where there is none.                      *)
Builtins ==
  "emit" :> <<"EMITSTR", "EMIT">> @@ "len" :> <<"STRLEN", "">> @@ "int" :> <<"STRTOINT", "">>
  @@ "string" :> <<"", "INTTOSTR">> @@ "emit_str" :> <<"EMITSTR", "EMITSTR">> @@ "str_len" :> <<"STRLEN", "STRLEN">>

generateCall(c, e) ==
  LET args == SE!FoldLeft(GenerateExpression, c, e.args) IN
  CASE e.name \in DOMAIN Builtins ->
         LET o == Builtins[e.name][IF isStringExpression(c, e.args[1]) THEN 1 ELSE 2] IN
         IF Len(e.args) # 1 \/ o = "" THEN logFatal(c) ELSE Emits(args, o)
    [] e.name = "str_concat" -> IF Len(e.args) # 2 THEN logFatal(c) ELSE Emits(args, "STRCONCAT")
    [] e.name = "float" -> IF Len(e.args) # 1 THEN logFatal(c) ELSE args
    [] e.name \in DOMAIN c.index -> Emits(EmitPush(args, c.index[e.name]), "CALL")
    [] OTHER -> logFatal(c)

Names(e, x) == e.type = "IdentifierExpr" /\ e.name = x

generateIndexExpr(c, e) ==
  CASE Names(e.lhs, "persistent") -> Emits(GenerateExpression(c, e.rhs), "PLOAD")
    [] Names(e.lhs, "memory") -> Emits(GenerateExpression(c, e.rhs), "MLOAD")
    [] isStringExpression(c, e.lhs) -> Emits(GenerateExpression(GenerateExpression(c, e.lhs), e.rhs), "STRINDEX")
    [] OTHER -> logFatal(c)

generateSliceExpr(c, e) ==
  LET bound(d, b, default) == IF b = NilExpr THEN EmitPush(d, default) ELSE GenerateExpression(d, b) IN
  IF isStringExpression(c, e.lhs)
  THEN Emits(bound(bound(GenerateExpression(c, e.lhs), e.start, 0), e.end, ToEnd), "STRSLICE")
  ELSE logFatal(c)

Operations ==
  "Minus" :> <<"SUB">> @@ "Multiply" :> <<"MUL">> @@ "Divide" :> <<"DIV">> @@ "Modulo" :> <<"MOD">>
  @@ "Equal" :> <<"EQ">> @@ "NotEqual" :> <<"EQ", "ISZERO">>
  @@ "LessThan" :> <<"LT">> @@ "GreaterThan" :> <<"GT">>
  @@ "LessEqual" :> <<"GT", "ISZERO">> @@ "GreaterEqual" :> <<"LT", "ISZERO">>

generateBinaryExpression(c, e) ==
  LET operands == GenerateExpression(GenerateExpression(c, e.lhs), e.rhs) IN
  CASE e.operator = "Plus" ->
         Emits(operands, IF isStringExpression(c, e.lhs) /\ isStringExpression(c, e.rhs) THEN "STRCONCAT" ELSE "ADD")
    [] e.operator \in DOMAIN Operations -> EmitAll(operands, Operations[e.operator])
    [] OTHER -> logFatal(c)

generateUnaryExpression(c, e) ==
  LET operand == GenerateExpression(c, e.rhs) IN
  IF e.operator = "Minus" THEN EmitAll(EmitPush(EmitPush(operand, 0), 1), <<"SWAP", "SUB">>)
  ELSE Emits(operand, "ISZERO")

expressionOf(c, e) ==
  CASE c.failed -> c
    [] e.type = "LiteralExpr" -> generateLiteral(c, e)
    [] e.type = "BinaryExpr" -> generateBinaryExpression(c, e)
    [] e.type = "UnaryExpr" -> generateUnaryExpression(c, e)
    [] e.type = "IdentifierExpr" -> generateIdentifier(c, e)
    [] e.type = "CallExpr" -> generateCall(c, e)
    [] e.type = "IndexExpr" -> generateIndexExpr(c, e)
    [] e.type = "SliceExpr" -> generateSliceExpr(c, e)
    [] e.type \in {"ArrayLiteral", "MapLiteral", "nil"} -> logFatal(c)

(***************************************************************************)
(* Statements.                                                             *)
(***************************************************************************)
(* The scope that the typechecker has filled for a block.                  *)
ScopeOf(b) ==
  LET decls == {i \in DOMAIN b.statements :
                  b.statements[i].type = "AssignmentStmt" /\ b.statements[i].varType # NilType}
      names == {b.statements[i].lhs.name : i \in decls}
  IN  [x \in names |-> b.statements[CHOOSE i \in decls : b.statements[i].lhs.name = x].varType]

RECURSIVE generateStatements(_, _)
generateStatements(c, ss) ==
  IF c.failed \/ ss = <<>> THEN c ELSE generateStatements(generateStatement(c, Head(ss)), Tail(ss))
generateBlock(c, b) ==
  LET out == generateStatements([c EXCEPT !.scopes = <<ScopeOf(b)>> \o @], b.statements)
  IN  [out EXCEPT !.scopes = c.scopes]

storesTo(c, x) ==
  IF x \in DOMAIN c.locals THEN Emits(EmitPush(c, c.locals[x]), "STORE_LOCAL")
  ELSE Emits(EmitPush([c EXCEPT !.locals = x :> c.next @@ @, !.next = @ + 1], c.next), "STORE_LOCAL")

generateAssignment(c, s) ==
  LET value == GenerateExpression(c, s.rhs)
      at(o) == Emits(GenerateExpression(value, s.lhs.rhs), o)
  IN  CASE value.failed -> value
        [] s.lhs.type = "IdentifierExpr" -> storesTo(value, s.lhs.name)
        [] s.lhs.type = "IndexExpr" /\ Names(s.lhs.lhs, "persistent") -> at("PSTORE")
        [] s.lhs.type = "IndexExpr" /\ Names(s.lhs.lhs, "memory") -> at("MSTORE")
        [] OTHER -> logFatal(c)

generateReturn(c, s) == Emits(GenerateExpression(c, s.rhs), "RETURN")

(* The jump past a block when the condition is false, to be patched.       *)
jumpUnless(c, e) == EmitAll(EmitPush(Emits(GenerateExpression(c, e), "ISZERO"), 0), <<"JUMPC">>)
jumpTo(c, n) == Emits(EmitPush(c, n), "JUMP")

(* Mutant: the then block runs into the else block.                        *)
generateIfThrough(c, s) ==
  LET cond == jumpUnless(c, s.conditional)
      then == generateBlock(cond, s.block)
  IN  IF s.elseBlock = NilBlock THEN Patch(then, Here(cond) - 2, Here(then))
      ELSE generateBlock(Patch(then, Here(cond) - 2, Here(then)), s.elseBlock)

generateIf(c, s) ==
  LET cond == jumpUnless(c, s.conditional)
      then == generateBlock(cond, s.block)
      skip == jumpTo(then, 0)
      else == generateBlock(Patch(skip, Here(cond) - 2, Here(skip)), s.elseBlock)
  IN  IF s.elseBlock = NilBlock THEN Patch(then, Here(cond) - 2, Here(then))
      ELSE Patch(else, Here(skip) - 2, Here(else))

(* The jumps of the breaks of the loop are patched at its end.             *)
generateWhile(c, s) ==
  LET cond == jumpUnless(c, s.conditional)
      body == generateBlock([cond EXCEPT !.loops = Append(@, [continueAddr |-> Here(c), breaks |-> <<>>])], s.block)
      breaks == body.loops[Len(body.loops)].breaks
      back == jumpTo([body EXCEPT !.loops = c.loops], Here(c))
  IN  SE!FoldLeft(LAMBDA d, at : Patch(d, at, Here(back)), back, <<Here(cond) - 2>> \o breaks)

generateBreak(c) ==
  IF c.loops = <<>> THEN logFatal(c)
  ELSE jumpTo([c EXCEPT !.loops[Len(c.loops)].breaks = Append(@, Here(c))], 0)

generateContinue(c) ==
  IF c.loops = <<>> THEN logFatal(c) ELSE jumpTo(c, c.loops[Len(c.loops)].continueAddr)

statementOf(c, s) ==
  CASE s.type = "AssignmentStmt" -> generateAssignment(c, s)
    [] s.type = "ReturnStmt" -> generateReturn(c, s)
    [] s.type = "IfStmt" -> generateIf(c, s)
    [] s.type = "WhileStmt" -> generateWhile(c, s)
    [] s.type = "BreakStmt" -> generateBreak(c)
    [] s.type = "ContinueStmt" -> generateContinue(c)
    [] s.type = "ExpressionStmt" -> Emits(GenerateExpression(c, s.rhs), "POP")

(***************************************************************************)
(* Functions and the program.                                              *)
(***************************************************************************)
(* The body's last instruction decides whether a RETURN is added, also     *)
(* where a jump leads past it.                                             *)
functionOf(c, d) ==
  LET parameters == SE!ToSet(d.parameters)
      slot == [x \in parameters |-> (CHOOSE i \in DOMAIN d.parameters : d.parameters[i] = x) - 1]
      type == [x \in parameters |-> d.parameterTypes[slot[x] + 1]]
      in == [c EXCEPT !.index = d.name :> Here(c) @@ @, !.locals = slot, !.next = Len(d.parameters),
                      !.scopes = <<type>> \o @]
      body == generateBlock(in, d.block)
      out == IF body.code[Here(body)].op = "RETURN" THEN body ELSE Emits(EmitPush(body, 0), "RETURN")
  IN  [out EXCEPT !.locals = c.locals, !.next = c.next, !.scopes = c.scopes]

(* What GenerateExpression, generateStatement and                          *)
(* GenerateFunctionDefinition do.                                          *)
generate(what, c, n) ==
  CASE what = "expression" -> expressionOf(c, n)
    [] what = "statement" -> statementOf(c, n)
    [] what = "function" -> functionOf(c, n)

RECURSIVE generateFunctions(_, _, _)
generateFunctions(c, p, names) ==
  IF c.failed \/ names = <<>> THEN c
  ELSE generateFunctions(GenerateFunctionDefinition(c, p[Head(names)]), p, Tail(names))

(* Where a path jumps to function f.                                       *)
enter(c, at, f) == Patch(c, at, c.index[f])

(* The string table is filled in the order collected, the functions are    *)
(* generated in the order others; both come from walks over a map.         *)
CodegenWithContext(p, collected, others) ==
  LET start == [code |-> <<>>, index |-> [x \in {} |-> 0], locals |-> [x \in {} |-> 0], next |-> 0,
                scopes |-> <<[x \in StringContext |-> StringType]>>, loops |-> <<>>,
                literals |-> CollectStringLiterals(p, collected), failed |-> FALSE]
      initPath == jumpTo(GenerateStringInitialization(jumpTo(jumpTo(start, 4), 0)), 0)
      callPath == jumpTo(GenerateStringInitialization(Patch(initPath, 2, Here(initPath))), 0)
      helpers == SelectSeq(others, LAMBDA f : f \notin {"init", "call"})
      functions == generateFunctions(callPath, p, <<"init">> \o helpers \o <<"call">>)
  IN  IF functions.failed THEN functions
      ELSE enter(enter(functions, Here(initPath) - 2, "init"), Here(callPath) - 2, "call")
==============================================================================

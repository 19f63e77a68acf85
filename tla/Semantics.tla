------------------------------- MODULE Semantics -------------------------------
(***************************************************************************)
(* What a Marigold program means, by evaluation of its syntax tree: the    *)
(* reference against which compiled programs are checked.  Variables have  *)
(* lexical scope, strings are values, numbers are the words of the         *)
(* machine.                                                                *)
(*                                                                         *)
(* An evaluation takes a state [vars, storage, fuel, ...] to the one after *)
(* it, whose kind says how it ended: "next", "return", "break",            *)
(* "continue", "error" for what must fail when it runs, "confused" for an  *)
(* operand of the wrong type, or "unspecified" for what the compiler       *)
(* accepts but does not translate by the letter.  Each such case is named  *)
(* where it is met.                                                        *)
(***************************************************************************)
EXTENDS Codegen

LOCAL SE == INSTANCE SequencesExt

Number(n) == [int |-> n]
Text(s) == [str |-> s]
IsText(v) == "str" \in DOMAIN v

Ended(m) == m.kind # "next"
Gives(m, v) == [m EXCEPT !.val = v]
Becomes(m, k) == [m EXCEPT !.kind = k]
Unspecified(m) == Becomes(m, "unspecified")
Confused(m) == Becomes(m, "confused")

(* Variables by lexical scope, the innermost first.                        *)
Holds(m, x) == {i \in DOMAIN m.vars : x \in DOMAIN m.vars[i]}
Innermost(m, x) == CHOOSE i \in Holds(m, x) : \A j \in Holds(m, x) : i <= j

(* Operands that the generator recognises as strings.                      *)
Recognised(e) == e.type \in {"LiteralExpr", "IdentifierExpr"}

Truths(b) == Number(IF b THEN 1 ELSE 0)
Machine == "Plus" :> "ADD" @@ "Minus" :> "SUB" @@ "Multiply" :> "MUL" @@ "Divide" :> "DIV" @@ "Modulo" :> "MOD"

(* The value of a binary operation.                                        *)
Binds(m, e, a, b) ==
  LET o == e.operator IN
  CASE IsText(a) # IsText(b) \/ (IsText(a) /\ o \in {"Minus", "Multiply", "Divide", "Modulo"}) -> Confused(m)
    [] IsText(a) /\ o = "Plus" ->
         \* a concatenation of concatenations adds addresses
         IF Recognised(e.lhs) /\ Recognised(e.rhs) THEN Gives(m, Text(a.str \o b.str)) ELSE Unspecified(m)
    [] IsText(a) /\ o \in Equalities ->
         \* an empty string is compared by its address
         IF a.str = <<>> \/ b.str = <<>> THEN Unspecified(m)
         ELSE Gives(m, Truths((a.str = b.str) = (o = "Equal")))
    [] IsText(a) -> Unspecified(m)                \* strings are ordered by address
    [] o \in Equalities -> Gives(m, Truths((a.int = b.int) = (o = "Equal")))
    [] o \in {"LessThan", "GreaterEqual"} -> Gives(m, Truths((Result("LT", a.int, b.int) = 1) = (o = "LessThan")))
    [] o \in {"GreaterThan", "LessEqual"} -> Gives(m, Truths((Result("GT", a.int, b.int) = 1) = (o = "GreaterThan")))
    [] OTHER -> Gives(m, Number(Result(Machine[o], a.int, b.int)))

Converts(m, f, v) ==
  CASE f \in {"len", "int"} /\ ~IsText(v) -> Confused(m)
    [] f = "len" -> Gives(m, Number(Len(v.str)))
    [] f = "int" -> IF IsNumeral(v.str) THEN Gives(m, Number(ParseInt(v.str))) ELSE Becomes(m, "error")
    [] f = "string" -> IF IsText(v) THEN Unspecified(m)   \* taken for a number
                       ELSE Gives(m, Text(Decimal(BigInt64(v.int))))
    [] f = "float" -> IF IsText(v) THEN Unspecified(m) ELSE m   \* passes an address
    [] f = "emit" -> IF IsText(v) THEN Unspecified(m)     \* pops its operand, and the statement another
                     ELSE m

(* s[i] for a byte that is a character, s[from:to].                        *)
Slices(m, s, from, to) ==
  LET end == IF to = ToEnd THEN Len(s) ELSE to IN
  IF from < 0 \/ from > Len(s) \/ end < from \/ end > Len(s) THEN Becomes(m, "error")
  ELSE Gives(m, Text(SubSeq(s, from + 1, end)))
Picks(m, s, i) == IF i < 0 \/ i >= Len(s) THEN Becomes(m, "error") ELSE Gives(m, Text(Utf8[s[i + 1]]))

(* A function whose last instruction is a RETURN inside an if: its other   *)
(* path runs into the function after it.                                   *)
RECURSIVE EndsInReturn(_)
EndsInReturn(b) ==
  /\ b.statements # <<>>
  /\ LET s == b.statements[Len(b.statements)] IN
     \/ s.type = "ReturnStmt"
     \/ s.type = "IfStmt" /\ EndsInReturn(IF s.elseBlock = NilBlock THEN s.block ELSE s.elseBlock)

(* Expressions and blocks are evaluated through Run, defined below.        *)
RECURSIVE Run(_, _, _)
Eval(m, e) == Run("expression", m, e)
Exec(m, b) == Run("block", m, b)

(* A function of two parameters without locals of its own: the only frame  *)
(* that CALL and RETURN lay out right.                                     *)
Applies(m, d, args) ==
  LET in == [m EXCEPT !.vars = <<[x \in SE!ToSet(d.parameters) |->
                                    args[CHOOSE i \in DOMAIN d.parameters : d.parameters[i] = x]]>>,
                      !.callee = TRUE, !.fuel = @ - 1]
      out == Exec(in, d.block)
  IN  CASE Len(d.parameters) # 2 -> Unspecified(m)
        [] m.fuel = 0 -> Becomes(m, "error")
        [] out.kind \in {"error", "confused", "unspecified"} -> out
        [] out.kind = "next" /\ (EndsInReturn(d.block) \/ d.returnType = StringType) -> Unspecified(m)
        [] OTHER -> [out EXCEPT !.vars = m.vars, !.callee = m.callee, !.kind = "next",
                                !.val = IF out.kind = "return" THEN @ ELSE Number(0)]

(* The values of a sequence of expressions, from left to right.            *)
RECURSIVE EvalRest(_, _)
EvalRest(r, es) ==
  IF Ended(r.m) \/ es = <<>> THEN r
  ELSE LET v == Eval(r.m, Head(es)) IN EvalRest([m |-> v, vals |-> Append(r.vals, v.val)], Tail(es))
EvalAll(m, es) == EvalRest([m |-> m, vals |-> <<>>], es)

Calls(m, e) ==
  LET r == EvalAll(m, e.args) IN
  IF Ended(r.m) THEN r.m
  ELSE IF e.name \in DOMAIN m.program THEN Applies(r.m, m.program[e.name], r.vals)
  ELSE Converts(r.m, e.name, r.vals[1])

Reads(m, e) ==
  LET k == Eval(m, e.rhs)
      s == Eval(m, e.lhs)
      i == Eval(s, e.rhs)
  IN  CASE Names(e.lhs, "memory") -> Unspecified(m)       \* shares its slots with the literals
        [] Names(e.lhs, "persistent") ->
             (CASE Ended(k) -> k
                [] ~IsText(k.val) -> Confused(k)
                [] k.val.str = <<>> -> Unspecified(m)     \* an empty key is stored as its address
                [] OTHER -> Gives(k, Text(IF k.val.str \in DOMAIN k.storage THEN k.storage[k.val.str] ELSE <<>>)))
        [] Ended(s) \/ Ended(i) -> i
        [] OTHER -> IF IsText(s.val) /\ ~IsText(i.val) THEN Picks(i, s.val.str, BigInt64(i.val.int)) ELSE Confused(i)

Evaluates(m, e) ==
  CASE Ended(m) -> m
    [] e.type = "LiteralExpr" ->
         IF e.valueType = "Int" THEN Gives(m, Number(e.int))
         ELSE IF e.str \in m.collected THEN Gives(m, Text(e.str))
         ELSE Unspecified(m)                              \* never put into memory
    [] e.type = "IdentifierExpr" ->
         (CASE e.name = "@tsxdata" -> Gives(m, Text(m.data))
            [] e.name \in StringContext \cup {"@balance"} -> Unspecified(m)  \* addresses are numbers; BALANCE pops one
            [] e.name \in IntContext -> Gives(m, Number(Context[ContextOpcode[e.name]]))
            [] OTHER -> Gives(m, m.vars[Innermost(m, e.name)][e.name]))
    [] e.type = "UnaryExpr" ->
         LET v == Eval(m, e.rhs) IN IF Ended(v) THEN v
                              ELSE IF IsText(v.val) THEN Confused(v) ELSE Gives(v, Number(Result("SUB", 0, v.val.int)))
    [] e.type = "BinaryExpr" ->
         LET r == EvalAll(m, <<e.lhs, e.rhs>>) IN IF Ended(r.m) THEN r.m ELSE Binds(r.m, e, r.vals[1], r.vals[2])
    [] e.type = "CallExpr" -> Calls(m, e)
    [] e.type = "IndexExpr" -> Reads(m, e)
    [] e.type = "SliceExpr" ->
         LET r == EvalAll(m, <<e.lhs, IF e.start = NilExpr THEN IntLiteral(0) ELSE e.start,
                               IF e.end = NilExpr THEN IntLiteral(ToEnd) ELSE e.end>>)
         IN  IF Ended(r.m) THEN r.m
             ELSE IF [i \in 1 .. 3 |-> IsText(r.vals[i])] # <<TRUE, FALSE, FALSE>> THEN Confused(r.m)
             ELSE Slices(r.m, r.vals[1].str, BigInt64(r.vals[2].int), BigInt64(r.vals[3].int))

Assigns(m, s) ==
  LET v == Eval(m, s.rhs)
      k == Eval(v, s.lhs.rhs)
      x == s.lhs.name
  IN
  CASE Ended(v) -> v
    [] s.lhs.type = "IndexExpr" ->
         (CASE Names(s.lhs.lhs, "memory") -> Unspecified(m)
            [] Ended(k) -> k
            [] ~IsText(k.val) \/ ~IsText(v.val) -> Confused(k)
            [] k.val.str = <<>> \/ v.val.str = <<>> -> Unspecified(m)   \* stored as addresses
            [] OTHER -> [k EXCEPT !.storage = k.val.str :> v.val.str @@ @])
    [] GetBlockchainContextVariable(x) # NilType -> Unspecified(m)      \* a slot that is never read
    [] s.varType # NilType ->
         \* an inner variable takes the slot of the outer one
         IF Holds(m, x) # {} \/ m.callee THEN Unspecified(m) ELSE [v EXCEPT !.vars[1] = x :> v.val @@ @]
    [] OTHER -> [v EXCEPT !.vars[Innermost(m, x)][x] = v.val]

(* A loop; fuel stands for gas where it does not end.                      *)
RECURSIVE Loops(_, _)
Loops(m, s) ==
  LET c == Eval(m, s.conditional)
      b == Exec([c EXCEPT !.fuel = @ - 1], s.block)
  IN  CASE Ended(c) -> c
        [] c.val.int = 0 -> c
        [] c.fuel = 0 -> Becomes(c, "error")
        [] b.kind \in {"next", "continue"} -> Loops(Becomes(b, "next"), s)
        [] b.kind = "break" -> Becomes(b, "next")
        [] OTHER -> b

Does(m, s) ==
  CASE s.type = "AssignmentStmt" -> Assigns(m, s)
    [] s.type = "ReturnStmt" -> LET v == Eval(m, s.rhs) IN IF Ended(v) THEN v ELSE Becomes(v, "return")
    [] s.type = "IfStmt" ->
         LET c == Eval(m, s.conditional) IN
         IF Ended(c) THEN c
         ELSE IF c.val.int # 0 THEN Exec(c, s.block)
         ELSE IF s.elseBlock = NilBlock THEN c ELSE Exec(c, s.elseBlock)
    [] s.type = "WhileStmt" -> Loops(m, s)
    [] s.type = "BreakStmt" -> Becomes(m, "break")
    [] s.type = "ContinueStmt" -> Becomes(m, "continue")
    [] s.type = "ExpressionStmt" -> Eval(m, s.rhs)

RECURSIVE DoesAll(_, _)
DoesAll(m, ss) == IF Ended(m) \/ ss = <<>> THEN m ELSE DoesAll(Does(m, Head(ss)), Tail(ss))
Executes(m, b) ==
  LET out == DoesAll([m EXCEPT !.vars = <<[x \in {} |-> Number(0)]>> \o @], b.statements)
  IN  [out EXCEPT !.vars = SubSeq(@, 1 + Len(@) - Len(m.vars), Len(@))]

Run(what, m, n) == IF what = "expression" THEN Evaluates(m, n) ELSE Executes(m, n)

(* The entry f of program p on a storage: how it ends and what it leaves   *)
(* stored.                                                                 *)
Means(p, f, st, input, fuel) ==
  LET collected == SE!ToSet(CollectStringLiterals(p, SE!SetToSeq(DOMAIN p)))
      out == Exec([kind |-> "next", val |-> Number(0), vars |-> <<>>, storage |-> st, fuel |-> fuel,
                   callee |-> FALSE, program |-> p, collected |-> collected, data |-> input], p[f].block)
  IN  IF out.kind = "next" /\ EndsInReturn(p[f].block) THEN Unspecified(out) ELSE out
==============================================================================

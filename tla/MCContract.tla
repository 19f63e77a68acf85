------------------------------ MODULE MCContract ------------------------------
(***************************************************************************)
(* Contracts over bytes 0, 1 (the digits), 2 (the minus sign) and 3, on a  *)
(* machine with words of 10 bits and three bytes to a word.                *)
(***************************************************************************)
EXTENDS Contract

MCOpcodes ==
  {"PUSH", "POP", "SWAP", "ADD", "SUB", "MUL", "DIV", "MOD", "EQ", "LT", "GT", "ISZERO", "JUMP", "JUMPC",
   "MSTORE", "MLOAD", "PSTORE", "PLOAD", "LOAD_LOCAL", "STORE_LOCAL", "CALL", "RETURN", "EMIT", "STRCONCAT",
   "STRLEN", "EMITSTR", "STRINDEX", "STRSLICE", "STRTOINT", "INTTOSTR", "CALLER", "BALANCE", "HEIGHT", "TSXDATA"}
MCContext == [o \in {"CALLER", "HEIGHT"} |-> 5]
MCUtf8 == [c \in 0 .. 3 |-> IF c = 3 THEN <<3, 3>> ELSE <<c>>]

K == StringLiteral(<<3>>)
L == StringLiteral(<<3, 0, 3, 1>>)
M == StringLiteral(<<1, 3>>)
N(n) == IntLiteral(n)
V(x) == IdentifierExpr(x)
Bin(o, l, r) == BinaryExpr(o, l, r)
Let(x, t, e) == AssignmentStmt(V(x), t, e)
Set(x, e) == AssignmentStmt(V(x), NilType, e)
Stored(k) == IndexExpr(V("persistent"), k)
Put(k, e) == AssignmentStmt(Stored(k), NilType, e)
Str(e) == CallExpr("string", <<e>>)
Return0 == ReturnStmt(N(0))
Entry(f, ss) == Function(f, <<>>, <<>>, IntType, Block(ss))
If(c, ss) == IfStmt(c, Block(ss), NilBlock)
IfElse(c, ss, rest) == IfStmt(c, Block(ss), Block(rest))
While(c, ss) == WhileStmt(c, Block(ss))

(* A contract that does ss when it is called; K is collected from init.    *)
Program(init, ss, others) ==
  [f \in {"init", "call"} \cup {d.name : d \in others} |->
     IF f = "init" THEN Entry("init", init)
     ELSE IF f = "call" THEN Entry("call", ss) ELSE CHOOSE d \in others : d.name = f]
ReadsK == Let("k", StringType, Stored(K))
NamesL == Let("l", StringType, L)
Does1(ss) == Program(<<ReadsK, NamesL, Put(K, Str(N(1))), Return0>>, ss \o <<Return0>>, {})

Arithmetics == {"Plus", "Minus", "Multiply", "Divide", "Modulo"}
Relations == Equalities \cup Comparisons
Both(o, q, a, b, c) == {Bin(o, Bin(q, a, b), c), Bin(o, a, Bin(q, b, c))}
Sums == UNION {Both(o, q, N(7), N(2), N(3)) : o, q \in Arithmetics}
        \cup {UnaryExpr("Minus", e) : e \in {N(3), UnaryExpr("Minus", N(3)), Bin("Plus", N(3), N(1))}}
        \cup {Bin(o, UnaryExpr("Minus", N(7)), N(2)) : o \in Arithmetics}

(* Numbers are stored as numerals, conditions by what they choose.         *)
Arith == {Does1(<<Put(K, Str(e))>>) : e \in Sums}
Conditions ==
  {Does1(<<IfElse(Bin(r, Bin("Plus", N(a), N(1)), N(3)), <<Put(K, Str(N(1)))>>, <<Put(K, Str(N(0)))>>), Put(L, Stored(K))>>) :
     r \in Relations, a \in 1 .. 3}
  \cup {Does1(<<Let("b", BoolType, Bin(r, UnaryExpr("Minus", N(1)), N(1))), If(V("b"), <<Put(K, Str(N(1)))>>)>>) : r \in Relations}

(* Loops, with what may stand in their bodies.                             *)
X == V("x")
Up == Set("x", Bin("Plus", X, N(1)))
Bodies ==
  {<<Up>>, <<Up, BreakStmt, Up>>, <<Up, If(Bin("Equal", X, N(2)), <<BreakStmt>>)>>,
   <<Up, If(Bin("Equal", X, N(2)), <<Up, ContinueStmt>>), Put(K, Str(X))>>,
   <<Up, IfElse(Bin("LessThan", X, N(2)), <<ContinueStmt>>, <<BreakStmt>>), Put(K, Str(N(7)))>>,
   <<Up, Let("y", IntType, N(0)), While(Bin("LessThan", V("y"), X), <<Set("y", Bin("Plus", V("y"), N(1))),
                                         If(Bin("Equal", V("y"), N(2)), <<BreakStmt>>)>>),
     Put(L, Str(V("y")))>>,
   <<If(Bin("Equal", X, N(1)), <<Put(K, Str(X)), ReturnStmt(X)>>), Up>>,
   <<Put(K, Str(X))>>}
Loop ==
  {Does1(<<Let("x", IntType, N(0)), While(Bin(r, X, N(3)), b), Let("z", StringType, L), Put(K, Str(X))>>) :
     r \in {"LessThan", "NotEqual"}, b \in Bodies}

(* Strings: the data of the call, what is stored, literals.                *)
Data == V("@tsxdata")
S == V("s")
Texts ==
  {Data, S, L, Bin("Plus", S, L), Bin("Plus", Data, S), Bin("Plus", Bin("Plus", S, L), Data), Stored(Data), Stored(S),
   IndexExpr(S, N(0)), IndexExpr(Data, N(1)), SliceExpr(Data, NilExpr, N(2)), SliceExpr(Data, N(1), NilExpr),
   SliceExpr(S, N(1), N(3)), Str(CallExpr("len", <<Data>>)), Str(CallExpr("int", <<Data>>)), Str(S),
   Str(Bin("Plus", CallExpr("int", <<S>>), N(1))), StringLiteral(<<>>), V("@caller"), Str(V("@height")), N(1)}
Strings ==
  {Does1(<<Let("s", StringType, Stored(k)), Let("t", StringType, e), Put(k, V("t"))>>) : e \in Texts, k \in {K, Data}}
  \cup {Does1(<<IfElse(Bin(r, Data, e), <<Put(Data, K)>>, <<Put(K, M)>>), ExpressionStmt(CallExpr("emit", <<N(1)>>))>>) :
          r \in Equalities, e \in {K, Stored(K), Data}}

(* Functions: bodies over two parameters, and how they are called.         *)
A == V("a")
B == V("b")
F(l, r) == CallExpr("f", <<l, r>>)
Fun(f, ps, t, ss) == Function(f, ps, [i \in DOMAIN ps |-> t], t, Block(ss))
IntBodies ==
  {<<ReturnStmt(Bin("Minus", A, B))>>,
   <<If(Bin("LessThan", A, B), <<ReturnStmt(B)>>), ReturnStmt(A)>>,
   <<IfElse(Bin("LessThan", A, B), <<Set("a", B)>>, <<ReturnStmt(A)>>)>>,
   <<If(Bin("Equal", A, N(0)), <<ReturnStmt(B)>>), ReturnStmt(F(Bin("Minus", A, N(1)), Bin("Plus", B, N(1))))>>,
   <<While(Bin("LessThan", A, N(3)), <<Set("a", Bin("Plus", A, B)), If(Bin("Equal", A, N(2)), <<ReturnStmt(B)>>)>>)>>,
   <<Put(K, Str(A)), ReturnStmt(B)>>,
   <<Let("c", IntType, A), ReturnStmt(V("c"))>>}
Uses == {F(N(1), N(2)), Bin("Minus", F(N(2), N(1)), F(X, X)), F(F(N(1), X), N(3))}
Calls1(e, others) ==
  Program(<<ReadsK, NamesL, Return0>>, <<Let("x", IntType, N(2)), Put(L, Str(e)), Put(K, Str(X)), Return0>>, others)
StringF(ss) == Function("f", <<"a", "b">>, <<StringType, StringType>>, StringType, Block(ss))
Functional ==
  {Calls1(e, {Fun("f", <<"a", "b">>, IntType, ss)}) : e \in Uses, ss \in IntBodies}
  \cup {Program(<<ReadsK, NamesL, Return0>>, <<Let("s", StringType, F(Data, L)), Put(K, S), Return0>>, {StringF(ss)}) :
          ss \in {<<ReturnStmt(Bin("Plus", A, B))>>, <<IfElse(Bin("Equal", A, K), <<ReturnStmt(B)>>, <<ReturnStmt(A)>>)>>,
                  <<Set("a", Stored(B)), ReturnStmt(A)>>, <<Set("b", Bin("Plus", B, K))>>}}

(* A function that is called from another one, or from init, or has not    *)
(* two parameters.                                                         *)
Twice == Fun("g", <<"a", "b">>, IntType, <<ReturnStmt(F(B, A))>>)
Minus2 == Fun("f", <<"a", "b">>, IntType, <<ReturnStmt(Bin("Minus", A, B))>>)
Several(ps) == Fun("f", ps, IntType, <<ReturnStmt(Bin("Minus", A, V(ps[Len(ps)])))>>)
Ordered ==
  {Calls1(CallExpr("f", <<N(1)>>), {Several(<<"a">>)}), Calls1(CallExpr("f", <<N(1), X, N(3)>>), {Several(<<"a", "b", "c">>)}),
   Calls1(CallExpr("g", <<N(1), X>>), {Twice, Minus2}),
   Program(<<ReadsK, ReturnStmt(F(N(1), N(2)))>>, <<Return0>>, {Minus2})}

(* What the typechecker or the code generator refuses, and more of the     *)
(* grammar.                                                                *)
Ints == ArrayType(Inferred, IntType)
Grammar ==
  UNION {Both(o, q, X, X, X) : o, q \in Relations \cup Logical \cup {"Exponent", "Plus"}}
  \cup {UnaryExpr(o, e) : o \in {"Not", "Minus"}, e \in {BoolLiteral(TRUE), Bin("Exponent", X, X), Bin("Plus", S, N(1))}}
  \cup {Bin("Exponent", UnaryExpr("Minus", X), Bin("Exponent", X, FloatLiteral(1))), ArrayLiteral(<<X, N(1)>>), ArrayLiteral(<<>>),
        MapLiteral, Bin("Plus", X, S), Bin("Minus", S, S), Bin("Equal", X, S), V("f"), V("q"), IndexExpr(X, X), IndexExpr(S, S),
        SliceExpr(S, S, N(1)), CallExpr("len", <<X>>), CallExpr("stop", <<>>), CallExpr("assert", <<BoolLiteral(TRUE)>>),
        CallExpr("int", <<X>>), CallExpr("float", <<S>>), F(X, S), F(X, X), CallExpr("f", <<X>>), IndexExpr(V("memory"), X)}
Checked ==
  {Program(<<Return0>>, <<Let("x", IntType, N(1)), Let("s", StringType, Str(X)), ss,
                        ReturnStmt(Bin("Plus", X, CallExpr("len", <<S>>)))>>, {Minus2}) :
     ss \in {Let("y", t, e) : t \in {IntType, BoolType, Ints, ArrayType(2, IntType), MapType(StringType)}, e \in Grammar}
            \cup {Set(x, e) : x \in {"x", "s", "q", "@height"}, e \in {N(1), S, V("@height")}}
            \cup {Put(k, e) : k, e \in {X, S}} \cup {BreakStmt, Let("x", IntType, N(2)), ReturnStmt(S), If(X, <<>>),
                   While(Bin("Equal", X, X), <<Let("x", StringType, S), BreakStmt>>), Let("y", IntType, NilExpr)}}

MCSources == Arith \cup Conditions \cup Loop \cup Strings \cup Functional \cup Ordered \cup Checked

(* A key that is only written.                                             *)
WriteOnly == {Program(<<Return0>>, <<Put(K, Str(N(1))), Return0>>, {})}

MCRequests == {[data |-> <<3>>, limit |-> 30000], [data |-> <<1, 0>>, limit |-> 30000], [data |-> <<1>>, limit |-> 2500],
               [data |-> <<1>>, limit |-> 0]}
NoTasks == <<>>
==============================================================================

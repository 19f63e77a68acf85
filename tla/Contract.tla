------------------------------- MODULE Contract -------------------------------
(***************************************************************************)
(* The life of a contract, from its source to its calls: cmd/marigold      *)
(* parses, typechecks and compiles it, ExecutorImpl (execution.go) deploys *)
(* it and runs its calls on the virtual machine of module AVM.             *)
(***************************************************************************)
EXTENDS Semantics, Printer

LOCAL SE == INSTANCE SequencesExt
LOCAL INSTANCE FiniteSets

CONSTANTS
  Sources,      \* the programs, as syntax trees
  Requests,     \* [data, limit]: a transaction's data and its gas
  Enough,       \* gas for every run that ends
  MaxCalls,     \* how many calls are made
  Fuel          \* bound on the iterations and calls of a run that ends

VARIABLES
  source, ast,
  compiled,     \* what codegen leaves: code, index, literals
  storage,      \* AccountState.Persistent of the contract
  stage, outcome, calls

contract == <<source, ast, compiled, storage, stage, outcome, calls>>
vars == <<contract, avmVars>>

Orders(p) == {o \in [1 .. Cardinality(DOMAIN p) -> DOMAIN p] : IsInjective(o)}
Nothing == [x \in {} |-> 0]

(* NewRuntimeWithIC.                                                       *)
Fresh(limit, at, st) ==
  /\ stack' = <<>> /\ memory' = [a \in 0 .. MaxMemory - 1 |-> 0]
  /\ NextMemoryAddr' = FirstAddr /\ Persistent' = st
  /\ IC' = at /\ FramePointer' = 0 /\ ReturnStack' = <<>> /\ FrameStack' = <<>>
  /\ GasAvailable' = limit /\ GasUsed' = 0

ContractInit ==
  /\ source \in Sources /\ ast = NoProgram
  /\ compiled = Nothing /\ storage = Nothing
  /\ stage = "source" /\ outcome = "ok" /\ calls = 0
  /\ task = [program |-> <<>>, gas |-> 0, start |-> 0, stored |-> Nothing, data |-> <<>>]
  /\ stack = <<>> /\ memory = [a \in 0 .. MaxMemory - 1 |-> 0]
  /\ NextMemoryAddr = FirstAddr /\ Persistent = Nothing
  /\ IC = 0 /\ FramePointer = 0 /\ ReturnStack = <<>> /\ FrameStack = <<>>
  /\ GasAvailable = 0 /\ GasUsed = 0 /\ status = "done"

(***************************************************************************)
(* The compiler.  Go's map order is any order, in each walk anew.          *)
(***************************************************************************)
ParseSource ==
  /\ stage = "source"
  /\ ast' = Parse(Tokens(source))
  /\ stage' = IF ast' = NoProgram THEN "refused" ELSE "parsed"
  /\ UNCHANGED <<source, compiled, storage, outcome, calls, avmVars>>

TypecheckSource ==
  /\ stage = "parsed"
  /\ \E order \in Orders(ast) : stage' = IF Typecheck(ast, order) THEN "checked" ELSE "refused"
  /\ UNCHANGED <<source, ast, compiled, storage, outcome, calls, avmVars>>

Compile ==
  /\ stage = "checked"
  /\ \E collected, others \in Orders(ast) :
       LET c == CodegenWithContext(ast, collected, others) IN
       /\ stage' = IF c.failed THEN "refused" ELSE "compiled"
       /\ compiled' = IF c.failed THEN Nothing ELSE [code |-> c.code, index |-> c.index, literals |-> c.literals]
  /\ UNCHANGED <<source, ast, storage, outcome, calls, avmVars>>

(***************************************************************************)
(* The executor.  Without gas no runtime is made.                          *)
(***************************************************************************)
Start(r, at, st) ==
  /\ Fresh(r.limit, at, st)
  /\ status' = "running"
  /\ task' = [program |-> compiled.code, gas |-> r.limit, start |-> at, stored |-> st, data |-> r.data]

Deploy ==
  /\ stage = "compiled" /\ stage' = "deploying"
  /\ \E r \in Requests : Start(r, 0, Nothing)
  /\ UNCHANGED <<source, ast, compiled, storage, outcome, calls>>

CallContract ==
  /\ stage = "deployed" /\ stage' = "calling"
  /\ calls < MaxCalls /\ calls' = calls + 1
  /\ \E r \in Requests : Start(r, 2, storage)
  /\ UNCHANGED <<source, ast, compiled, storage, outcome>>

Execution ==
  /\ stage \in {"deploying", "calling"} /\ task.gas > 0
  /\ Next
  /\ UNCHANGED contract

(* The end of a run: its storage replaces the contract's only after        *)
(* success.                                                                *)
Success == status \in {"done", "stopped"}
Settle ==
  /\ status # "running" \/ task.gas = 0
  /\ outcome' = CASE Success -> "ok" [] status = "panic" -> "crashed" [] OTHER -> "failed"
  /\ storage' = IF Success THEN Persistent ELSE storage
  /\ Fresh(0, 0, Nothing) /\ status' = "done"
  /\ UNCHANGED <<source, ast, compiled, calls, task>>

EndDeployment ==
  /\ stage = "deploying" /\ stage' = IF Success THEN "deployed" ELSE "failed"
  /\ Settle

EndCall ==
  /\ stage = "calling" /\ stage' = "deployed"
  /\ Settle

ContractNext ==
  \/ ParseSource \/ TypecheckSource \/ Compile
  \/ Deploy \/ CallContract \/ Execution \/ EndDeployment \/ EndCall

ContractSpecification == ContractInit /\ [][ContractNext]_vars

(***************************************************************************)
(* Properties.                                                             *)
(***************************************************************************)
(* The parser reads a program as it was written: precedence,               *)
(* associativity, the end of every statement.                              *)
ParsesBack == stage # "source" => ast = source

Meant(p, f, st, data) == Means(p, f, st, data, Fuel)
Promised == INSTANCE ContractSpec
  WITH program <- source, request <- [data |-> task.data, limit |-> task.gas], Meaning <- Meant,
       stage <- IF stage \in {"deploying", "deployed", "calling", "failed"} THEN stage ELSE "written"

(* A deployed contract does what its source says, in whichever order the   *)
(* maps of the compiler were walked: the machine's run, instruction by     *)
(* instruction, has the effect on the storage that the evaluation of the   *)
(* syntax tree has, and none if it fails.                                  *)
RunsAsWritten == Promised!PromiseSpec

(* "Type Safety: Static analysis prevents runtime type errors in Marigold  *)
(* contracts" (README.md:355): what the typechecker accepts is never       *)
(* applied to an operand of another type, on the paths that are taken.     *)
TypeSafe ==
  stage = "compiled" => \A f \in {"init", "call"}, r \in Requests :
                         Meant(source, f, Nothing, r.data).kind # "confused"

(* "CollectStringLiterals walks through an AST and registers all string    *)
(* literals without generating code" (codegen.go:80): once the functions   *)
(* run, every literal that the code refers to is in memory, and stays      *)
(* there.                                                                  *)
LiteralsInMemory ==
  Running /\ stage \in {"deploying", "calling"} /\ task.gas > 0 /\ IC >= compiled.index["init"] =>
    \A s \in SE!ToSet(compiled.literals) : readStringFromMemory(AddressOf(compiled.literals, s)) = s

(* "Push arguments in order (they will be at frame offsets 0, 1, 2, ...)"  *)
(* (codegen.go:431): where a function of two parameters begins, which is   *)
(* what CALL takes every function to be, the top of the stack is its       *)
(* frame, whatever the caller has left on the stack below.                 *)
ArgumentsInFrame ==
  Running /\ stage \in {"deploying", "calling"} =>
    \A f \in DOMAIN ast \ {"init", "call"} :
      IC = compiled.index[f] /\ Len(ast[f].parameters) = 2 => FramePointer + 2 = Size
==============================================================================

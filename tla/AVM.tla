--------------------------------- MODULE AVM ---------------------------------
(***************************************************************************)
(* The virtual machine for contracts (avm/runtime.go, types/bytecode.go):  *)
(* one run of StartExecution on a program.                                 *)
(*                                                                         *)
(* The sizes are parameters, so that small ones can be checked: words      *)
(* modulo Word (2^256), machine integers modulo Int64 (2^64), Chunk bytes  *)
(* of Base values to a word (32 of 256).  Strings are sequences of bytes;  *)
(* the bytes below Radix (10) are the digits.  Values on the stack are     *)
(* integers of any size and sign, as *big.Int is.                          *)
(***************************************************************************)
EXTENDS Integers, Sequences, Functions

CONSTANTS
  Tasks,        \* what is run, a family of sets of
                \* [program, gas, start, stored, data]
  Word, Int64, Base, Chunk, Radix, Minus,
  MaxStack,     \* config.AVMMaxStackSize
  MaxMemory,    \* config.AVMMaxMemorySize
  FirstAddr,    \* where NextMemoryAddr starts (100)
  ToEnd,        \* the slice end that means the end of the string (999999)
  MaxString,    \* the longest string that readStringFromMemory reads
  Utf8,         \* the bytes of the character that a byte stands for
  MaxAlloc,     \* the largest capacity that make([]byte, 0, n) accepts
  Context,      \* what the opcodes for the blockchain context push
  Opcodes       \* those that OPCODE.Valid accepts

ContextOps == DOMAIN Context

Bytes == 0 .. Base - 1

IsTask(t) ==
  /\ t.gas \in Nat /\ t.start \in Nat /\ t.data \in Seq(Bytes)
  /\ \A k \in DOMAIN t.stored : t.stored[k] \in Seq(Bytes)
  /\ t.program \in Seq(Range(t.program))
  /\ \A i \in DOMAIN t.program : t.program[i].op = "PUSH" => t.program[i].value \in Int

(* Every string that fits into the memory is short enough to be read.      *)
ASSUME AVMAssumption ==
  /\ \A i \in DOMAIN Tasks : \A t \in Tasks[i] : IsTask(t)
  /\ ContextOps \cap {"STOP", "PC"} = {} /\ \A o \in ContextOps : Context[o] \in Int
  /\ {Word, Int64, Chunk, MaxStack, MaxMemory, FirstAddr, MaxString, MaxAlloc} \subseteq Nat \ {0}
  /\ Base \in Nat /\ Radix \in 2 .. Base /\ Minus \in Bytes
  /\ Utf8 \in [Bytes -> Seq(Bytes)]
  /\ FirstAddr <= MaxMemory /\ MaxMemory <= Int64 \div 2
  /\ Chunk * (MaxMemory - FirstAddr) <= MaxString /\ MaxString < Int64

VARIABLES
  task,
  stack, memory, NextMemoryAddr, Persistent,
  IC, FramePointer, ReturnStack, FrameStack,
  GasAvailable, GasUsed,
  status    \* "running", or how the run ended

frames == <<FramePointer, ReturnStack, FrameStack>>
store == <<memory, NextMemoryAddr, Persistent>>
gas == <<GasAvailable, GasUsed>>
avmVars == <<task, stack, store, IC, frames, gas, status>>

ins == task.program[IC + 1]
op == ins.op

(* Mutant: jumps are free.                                                 *)
PriceFreeJump(o) == IF o \in {"STOP", "PC", "JUMP"} THEN 0 ELSE 3

(* opcodeGasPrices.                                                        *)
Price(o) ==
  CASE o \in {"STOP", "PC"} -> 0
    [] o = "NOOP" -> 1
    [] o \in {"MUL", "DIV", "MOD"} -> 5
    [] o \in {"JUMP", "RETURN"} -> 8
    [] o \in {"JUMPC", "CALL", "STRLEN"} -> 10
    [] o = "MLOAD" -> 15
    [] o \in {"MSTORE", "STRINDEX", "BLOCKHASH", "LASTBLOCKHASH"} -> 20
    [] o \in {"STRTOINT", "INTTOSTR"} -> 25
    [] o = "STRSLICE" -> 30
    [] o = "STRCONCAT" -> 50
    [] o = "EMIT" -> 100
    [] o = "EMITSTR" -> 150
    [] o = "BALANCE" -> 400
    [] o \in {"PSTORE", "PLOAD"} -> 1000
    [] o \in (ContextOps \ {"BLOCKHASH", "LASTBLOCKHASH"}) \cup {"POP", "TSXDATA"} -> 2
    [] OTHER -> 3

(* NewRuntimeWithIC; a call starts with the contract's storage.            *)
Init ==
  /\ \E i \in DOMAIN Tasks : task \in Tasks[i]
  /\ stack = <<>>
  /\ memory = [a \in 0 .. MaxMemory - 1 |-> 0]
  /\ NextMemoryAddr = FirstAddr
  /\ Persistent = task.stored
  /\ IC = task.start /\ FramePointer = 0
  /\ ReturnStack = <<>> /\ FrameStack = <<>>
  /\ GasAvailable = task.gas /\ GasUsed = 0
  /\ status = "running"

(***************************************************************************)
(* Numbers.                                                                *)
(***************************************************************************)
Abs(n) == IF n < 0 THEN -n ELSE n
Uint64(n) == Abs(n) % Int64
ToInt(u) == LET w == u % Int64 IN IF w >= Int64 \div 2 THEN w - Int64 ELSE w
BigInt64(n) == IF n < 0 THEN ToInt(-ToInt(Uint64(n))) ELSE ToInt(Uint64(n))

toSigned256(n) == IF n >= Word \div 2 THEN n - Word ELSE n

(* A negative number is moved up by one word only.                         *)
toUnsigned256(n) == IF n < 0 THEN n + Word ELSE n % Word

(* big.Int's Div and Mod: the remainder is never negative.                 *)
EuclidDiv(a, b) == IF b > 0 THEN a \div b ELSE -(a \div (-b))
EuclidMod(a, b) == a % Abs(b)

(* The bits of the words are taken from the lowest up.                     *)
AndLoop ==
  LET and[s \in Nat \X Nat \X Nat \X Nat] ==
        LET a == s[1]  b == s[2]  bit == s[3]  sum == s[4] IN
        IF a = 0 THEN sum
        ELSE and[<<a \div 2, b \div 2, 2 * bit, sum + bit * (a % 2) * (b % 2)>>]
  IN  and
BitAnd(a, b) == AndLoop[<<a % Word, b % Word, 1, 0>>]
BitOr(a, b) == (a % Word) + (b % Word) - BitAnd(a, b)

(* What the first n digits stand for, by n.                                *)
Numeral(base, digits, len) ==
  LET value[n \in 0 .. len] == IF n = 0 THEN 0 ELSE base * value[n - 1] + digits[n]
  IN  value

(* What is left of a number without its last k digits, by k.               *)
Shifted(base, number, len) ==
  LET left[k \in 0 .. len] == IF k = 0 THEN number ELSE left[k - 1] \div base
  IN  left

Truth(p) == IF p THEN 1 ELSE 0

(* The result of a binary operation on the second (a) and the top (b).     *)
Arithmetic == {"ADD", "SUB", "MUL", "DIV", "MOD", "AND", "OR", "LT", "GT"}
Result(o, a, b) ==
  LET x == toSigned256(a)  y == toSigned256(b) IN
  CASE o = "ADD" -> toUnsigned256(x + y)
    [] o = "SUB" -> toUnsigned256(x - y)
    [] o = "MUL" -> toUnsigned256(x * y)
    [] o = "DIV" -> IF y = 0 THEN 0 ELSE toUnsigned256(EuclidDiv(x, y))
    [] o = "MOD" -> IF b = 0 THEN 0 ELSE EuclidMod(a, b)
    [] o = "AND" -> BitAnd(a, b)
    [] o = "OR"  -> BitOr(a, b)
    [] o = "LT"  -> Truth(x < y)
    [] o = "GT"  -> Truth(x > y)

(***************************************************************************)
(* Strings in memory: the length, then the bytes, Chunk to a word.         *)
(***************************************************************************)
Chunks(n) == (n + Chunk - 1) \div Chunk

(* Byte j of a word (FillBytes).                                           *)
ByteOf(w, j) == Shifted(Base, Abs(w), Chunk)[Chunk - j] % Base

(* Bytes of s, padded with zeros.                                          *)
Padded(s, i) ==
  [j \in 1 .. Chunk |-> IF i * Chunk + j <= Len(s) THEN s[i * Chunk + j] ELSE 0]

(* Mutant: the bytes of a chunk in the opposite order.                     *)
ChunkReversed(s, i) ==
  Numeral(Base, [j \in 1 .. Chunk |-> Padded(s, i)[Chunk + 1 - j]], Chunk)[Chunk]

(* The word of chunk i (SetBytes).                                         *)
ChunkOf(s, i) == Numeral(Base, Padded(s, i), Chunk)[Chunk]

Length(a) == Uint64(memory[a])
BytesAt(a) ==
  [n \in 1 .. Length(a) |-> ByteOf(memory[a + 1 + ((n - 1) \div Chunk)], 1 + ((n - 1) % Chunk))]

(* All its slots are there.                                                *)
InMemory(a) == a < MaxMemory /\ a + Chunks(Length(a)) < MaxMemory

(* FillBytes panics on a chunk that does not fit a word.                   *)
BadChunk(a) ==
  a < MaxMemory /\ \E n \in DOMAIN memory \cap (a + 1 .. a + Chunks(Length(a))) : Abs(memory[n]) >= Word

readStringFromMemory(a) ==
  IF InMemory(a) /\ Length(a) <= MaxString THEN BytesAt(a) ELSE <<>>
ReadPanics(a) == BadChunk(a) /\ Length(a) <= MaxString

(* The memory after storing s at a; slots out of bounds are left out, and  *)
(* storeStringInMemory ignores the error.                                  *)
WithString(a, s) ==
  [n \in DOMAIN memory |->
     IF n = a THEN Len(s)
     ELSE IF n \in a + 1 .. a + Chunks(Len(s)) THEN ChunkOf(s, n - a - 1)
     ELSE memory[n]]

(* Mutant: the slot of the length is counted but not skipped.              *)
StoresOverLast(s) ==
  /\ memory' = WithString(NextMemoryAddr - 1, s)
  /\ NextMemoryAddr' = NextMemoryAddr + 1 + Chunks(Len(s))
  /\ UNCHANGED Persistent

storeStringInMemory(s) ==
  /\ memory' = WithString(NextMemoryAddr, s)
  /\ NextMemoryAddr' = NextMemoryAddr + 1 + Chunks(Len(s))
  /\ UNCHANGED Persistent

(* fmt.Sprintf("%d") and big.Int.String, from the last digit on.           *)
DigitLoop ==
  LET digits[s \in Nat \X Seq(Bytes)] ==
        LET n == s[1]  last == s[2] IN
        IF n < Radix THEN <<n>> \o last ELSE digits[<<n \div Radix, <<n % Radix>> \o last>>]
  IN  digits
Decimal(n) ==
  LET digits == DigitLoop[<<Abs(n), <<>>>>] IN IF n < 0 THEN <<Minus>> \o digits ELSE digits

(* STRTOINT.                                                               *)
Unsigned(s) == IF s # <<>> /\ Head(s) = Minus THEN Tail(s) ELSE s
IsNumeral(s) == Unsigned(s) # <<>> /\ \A i \in DOMAIN Unsigned(s) : Unsigned(s)[i] < Radix
ParseInt(s) ==
  LET u == Unsigned(s)
      n == Numeral(Radix, u, Len(u))[Len(u)]
  IN  IF u = s THEN ToInt(n) ELSE ToInt(-n)

(***************************************************************************)
(* Instructions.  Each says what happens to the stack, the store, the      *)
(* frames and IC; gas is charged by ExecuteInstruction.  After an error    *)
(* nothing but GasUsed is looked at, so a failed instruction leaves the    *)
(* rest as it was.                                                         *)
(***************************************************************************)
Ends(how) == status' = how /\ UNCHANGED <<stack, store, IC, frames>>
Fail == Ends("error")
Panic == Ends("panic")

(* memory.Store and memory.Load succeed.                                   *)
InBounds(a) == a < MaxMemory

Size == Len(stack)
Top(n) == stack[Size + 1 - n]
Rest(n) == SubSeq(stack, 1, Size - n)

Continue == IC' = IC + 1 /\ UNCHANGED <<frames, status>>

(* What is left on the stack, with v pushed on it.                         *)
Room(s) == Len(s) < MaxStack
Pushes(s, v) ==
  IF Room(s) THEN stack' = Append(s, v) /\ Continue /\ UNCHANGED store ELSE Fail

(* A string is stored and its address pushed.                              *)
PushesString(s, str) ==
  IF Room(s) THEN /\ storeStringInMemory(str)
                  /\ stack' = Append(s, ToInt(NextMemoryAddr))
                  /\ Continue
  ELSE Fail

Noop == op = "NOOP" /\ Continue /\ UNCHANGED <<stack, store>>

Push == op = "PUSH" /\ Pushes(stack, ins.value)

Pop ==
  /\ op = "POP"
  /\ IF Size = 0 THEN Fail ELSE stack' = Rest(1) /\ Continue /\ UNCHANGED store

Dup == op = "DUP" /\ IF Size = 0 THEN Fail ELSE Pushes(stack, Top(1))

(* A negative distance is not caught by the check.                         *)
Swap ==
  /\ op = "SWAP"
  /\ IF Size = 0 THEN Fail
     ELSE LET s == Rest(1)  l == Len(s)  down == ToInt(Uint64(Top(1))) IN
          IF down >= l THEN Fail
          ELSE IF down < 0 THEN Panic
          ELSE /\ stack' = [s EXCEPT ![l] = s[l - down], ![l - down] = s[l]]
               /\ Continue /\ UNCHANGED store

Binary ==
  /\ op \in Arithmetic
  /\ IF Size < 2 THEN Fail ELSE Pushes(Rest(2), Result(op, Top(2), Top(1)))

(* Two addresses of strings are compared by the strings.                   *)
Eq ==
  /\ op = "EQ"
  /\ IF Size < 2 THEN Fail
     ELSE LET a == Uint64(Top(1))  b == Uint64(Top(2))
              s == readStringFromMemory(a)  t == readStringFromMemory(b)
          IN  IF ReadPanics(a) \/ ReadPanics(b) THEN Panic
              ELSE Pushes(Rest(2), Truth(IF s # <<>> /\ t # <<>> THEN s = t ELSE Top(1) = Top(2)))

IsZero == op = "ISZERO" /\ IF Size = 0 THEN Fail ELSE Pushes(Rest(1), Truth(Top(1) = 0))

Target == ToInt(Uint64(Top(1)))
ValidTarget == Target >= 0 /\ Target < Len(task.program)

Jump ==
  /\ op = "JUMP"
  /\ IF Size = 0 \/ ~ValidTarget THEN Fail
     ELSE /\ stack' = Rest(1) /\ IC' = Target
          /\ UNCHANGED <<store, frames, status>>

JumpC ==
  /\ op = "JUMPC"
  /\ IF Size < 2 \/ ~ValidTarget THEN Fail
     ELSE /\ stack' = Rest(2) /\ IC' = IF Top(2) = 1 THEN Target ELSE IC + 1
          /\ UNCHANGED <<store, frames, status>>

MStore ==
  /\ op = "MSTORE"
  /\ IF Size < 2 \/ ~InBounds(Uint64(Top(1))) THEN Fail
     ELSE /\ memory' = [memory EXCEPT ![Uint64(Top(1))] = Top(2)]
          /\ stack' = Rest(2)
          /\ Continue /\ UNCHANGED <<NextMemoryAddr, Persistent>>

MLoad ==
  /\ op = "MLOAD"
  /\ IF Size = 0 \/ ~InBounds(Uint64(Top(1))) THEN Fail
     ELSE Pushes(Rest(1), memory[Uint64(Top(1))])

(* The storage key of an address: the string there, or its numeral.        *)
Key(a) == LET s == readStringFromMemory(a) IN IF s # <<>> THEN s ELSE Decimal(a)

PStore ==
  /\ op = "PSTORE"
  /\ IF Size < 2 THEN Fail
     ELSE LET a == Uint64(Top(1))  v == Uint64(Top(2))
              s == readStringFromMemory(v)
              value == IF s # <<>> THEN s ELSE Decimal(Top(2))
          IN  IF ReadPanics(a) \/ ReadPanics(v) THEN Panic
              ELSE /\ Persistent' = [k \in DOMAIN Persistent \cup {Key(a)} |->
                                       IF k = Key(a) THEN value ELSE Persistent[k]]
                   /\ stack' = Rest(2)
                   /\ Continue /\ UNCHANGED <<memory, NextMemoryAddr>>

PLoad ==
  /\ op = "PLOAD"
  /\ IF Size = 0 THEN Fail
     ELSE LET a == Uint64(Top(1)) IN
          IF ReadPanics(a) THEN Panic
          ELSE PushesString(Rest(1), IF Key(a) \in DOMAIN Persistent THEN Persistent[Key(a)] ELSE <<>>)

(* Locals are slots of the stack above FramePointer; the stack is extended *)
(* to reach them, past MaxStack if need be.                                *)
Slot == FramePointer + ToInt(Uint64(Top(1)))
Extended(s, i) == [n \in 1 .. (IF Len(s) > i THEN Len(s) ELSE i + 1) |->
                     IF n <= Len(s) THEN s[n] ELSE 0]

LoadLocal ==
  /\ op = "LOAD_LOCAL"
  /\ IF Size = 0 \/ Slot < 0 THEN Fail
     ELSE LET s == Extended(Rest(1), Slot) IN Pushes(s, s[Slot + 1])

StoreLocal ==
  /\ op = "STORE_LOCAL"
  /\ IF Size < 2 \/ Slot < 0 THEN Fail
     ELSE /\ stack' = [Extended(Rest(2), Slot) EXCEPT ![Slot + 1] = Top(2)]
          /\ Continue /\ UNCHANGED store

(* Mutant: the operand that names the function is counted as an argument.  *)
CallWithOperand ==
  /\ op = "CALL"
  /\ IF Size = 0 THEN Fail
     ELSE /\ FrameStack' = Append(FrameStack, FramePointer)
          /\ FramePointer' = Size - 2
          /\ ReturnStack' = Append(ReturnStack, IC + 1)
          /\ IC' = Target
          /\ stack' = Rest(1)
          /\ UNCHANGED <<store, status>>

(* Every function is taken to have two parameters, and the address is not  *)
(* checked.                                                                *)
Call ==
  /\ op = "CALL"
  /\ IF Size = 0 THEN Fail
     ELSE /\ FrameStack' = Append(FrameStack, FramePointer)
          /\ FramePointer' = Size - 1 - 2
          /\ ReturnStack' = Append(ReturnStack, IC + 1)
          /\ IC' = Target
          /\ stack' = Rest(1)
          /\ UNCHANGED <<store, status>>

Front(s) == SubSeq(s, 1, Len(s) - 1)

(* Mutant: the frame pointer of the caller is not restored.                *)
ReturnsInFrame ==
  /\ op = "RETURN" /\ ReturnStack # <<>>
  /\ LET s == Rest(IF Size > 3 THEN 3 ELSE Size) IN
     IF Size = 0 \/ ~Room(s) THEN Fail
     ELSE /\ stack' = Append(s, Top(1))
          /\ ReturnStack' = Front(ReturnStack)
          /\ IC' = ReturnStack[Len(ReturnStack)]
          /\ UNCHANGED <<FramePointer, FrameStack, store, status>>

Return ==
  /\ op = "RETURN" /\ ReturnStack # <<>>
  /\ LET s == Rest(IF Size > 3 THEN 3 ELSE Size) IN
     IF Size = 0 \/ ~Room(s) THEN Fail
     ELSE /\ stack' = Append(s, Top(1))
          /\ FramePointer' = FrameStack[Len(FrameStack)]
          /\ FrameStack' = Front(FrameStack)
          /\ ReturnStack' = Front(ReturnStack)
          /\ IC' = ReturnStack[Len(ReturnStack)]
          /\ UNCHANGED <<store, status>>

Emit ==
  /\ op = "EMIT"
  /\ IF Size = 0 THEN Fail
     ELSE IF Abs(Top(1)) >= Word THEN Panic
     ELSE Continue /\ UNCHANGED <<stack, store>>

(* STRCONCAT shadows err: what fails after the operands are popped is not  *)
(* reported, and the run goes on without a result on the stack.            *)
StrConcat ==
  /\ op = "STRCONCAT"
  /\ IF Size < 2 THEN Fail
     ELSE LET a == Uint64(Top(2))  b == Uint64(Top(1))
              r == BytesAt(a) \o BytesAt(b)
              loads == InBounds(a) /\ InBounds(b)
              stores == NextMemoryAddr + Chunks(Len(r)) < MaxMemory
          IN
          IF loads /\ \E p \in {a, b} : Length(p) > MaxAlloc \/ BadChunk(p) THEN Panic
          ELSE IF loads /\ InMemory(a) /\ InMemory(b)
          THEN /\ memory' = WithString(NextMemoryAddr, r)
               /\ NextMemoryAddr' = IF stores THEN NextMemoryAddr + 1 + Chunks(Len(r)) ELSE NextMemoryAddr
               /\ stack' = IF stores /\ Room(Rest(2)) THEN Append(Rest(2), ToInt(NextMemoryAddr)) ELSE Rest(2)
               /\ Continue /\ UNCHANGED Persistent
          ELSE stack' = Rest(2) /\ Continue /\ UNCHANGED store

StrLen ==
  /\ op = "STRLEN"
  /\ IF Size = 0 \/ ~InBounds(Uint64(Top(1))) THEN Fail
     ELSE Pushes(Rest(1), memory[Uint64(Top(1))])

EmitStr ==
  /\ op = "EMITSTR"
  /\ LET a == Uint64(Top(1)) IN
     IF Size = 0 \/ ~InBounds(a) THEN Fail
     ELSE IF Length(a) > MaxAlloc \/ BadChunk(a) THEN Panic
     ELSE IF ~InMemory(a) THEN Fail
     ELSE stack' = Rest(1) /\ Continue /\ UNCHANGED store

StrIndex ==
  /\ op = "STRINDEX"
  /\ IF Size < 2 THEN Fail
     ELSE LET a == Uint64(Top(2))  i == BigInt64(Top(1))  s == readStringFromMemory(a) IN
          IF ReadPanics(a) THEN Panic
          ELSE IF i < 0 \/ i >= Len(s) THEN Fail
          ELSE PushesString(Rest(2), Utf8[s[i + 1]])

StrSlice ==
  /\ op = "STRSLICE"
  /\ IF Size < 3 THEN Fail
     ELSE LET a == Uint64(Top(3))  s == readStringFromMemory(a)
              from == BigInt64(Top(2))
              to == IF BigInt64(Top(1)) = ToEnd THEN Len(s) ELSE BigInt64(Top(1))
          IN
          IF ReadPanics(a) THEN Panic
          ELSE IF from < 0 \/ from > Len(s) \/ to < from \/ to > Len(s) THEN Fail
          ELSE PushesString(Rest(3), SubSeq(s, from + 1, to))

StrToInt ==
  /\ op = "STRTOINT"
  /\ IF Size = 0 THEN Fail
     ELSE LET a == Uint64(Top(1))  s == readStringFromMemory(a) IN
          IF ReadPanics(a) THEN Panic
          ELSE IF ~IsNumeral(s) THEN Fail
          ELSE Pushes(Rest(1), ParseInt(s))

IntToStr ==
  /\ op = "INTTOSTR"
  /\ IF Size = 0 THEN Fail ELSE PushesString(Rest(1), Decimal(BigInt64(Top(1))))

(* Account states are not available to the machine.                        *)
Balance == op = "BALANCE" /\ IF Size = 0 THEN Fail ELSE Pushes(Rest(1), 0)

BlockchainContext == op \in ContextOps /\ Pushes(stack, Context[op])

TsxData == op = "TSXDATA" /\ PushesString(stack, task.data)

(* A valid opcode without a case.                                          *)
Unimplemented == op = "PC" /\ Fail

Operation ==
  \/ Noop \/ Push \/ Pop \/ Dup \/ Swap \/ Binary \/ Eq \/ IsZero \/ Jump \/ JumpC
  \/ MStore \/ MLoad \/ PStore \/ PLoad \/ LoadLocal \/ StoreLocal \/ Call \/ Return
  \/ Emit \/ StrConcat \/ StrLen \/ EmitStr \/ StrIndex \/ StrSlice \/ StrToInt \/ IntToStr
  \/ Balance \/ BlockchainContext \/ TsxData \/ Unimplemented

(* ValidateInstruction.                                                    *)
ValidInstruction == op \in Opcodes /\ (op = "PUSH" => ins.value >= 0)

(* Mutant: nothing is charged.                                             *)
ChargeNothing == UNCHANGED gas

Charge ==
  /\ GasUsed' = GasUsed + Price(op)
  /\ GasAvailable' = GasAvailable - Price(op)

(* Mutant: the gas is not checked first.                                   *)
ExecuteUnmetered == ValidInstruction /\ Operation /\ Charge /\ UNCHANGED task

(* Mutant: an instruction that cannot be paid takes what is left.          *)
RefusedTakesRest ==
  /\ ~ValidInstruction \/ GasAvailable < Price(op)
  /\ Fail /\ GasAvailable' = 0 /\ UNCHANGED <<task, GasUsed>>

(* Neither STOP nor a RETURN without a caller pays; an instruction that    *)
(* fails does.                                                             *)
Refused ==
  /\ ~ValidInstruction \/ GasAvailable < Price(op)
  /\ Fail /\ UNCHANGED <<task, gas>>
Stop ==
  /\ ValidInstruction /\ GasAvailable >= Price(op)
  /\ op = "RETURN" => ReturnStack = <<>>
  /\ op \in {"STOP", "RETURN"}
  /\ Ends("stopped") /\ UNCHANGED <<task, gas>>
Execute ==
  /\ ValidInstruction /\ GasAvailable >= Price(op)
  /\ Operation /\ Charge
  /\ UNCHANGED task

(* The loop of StartExecution; an IC below zero is an index out of range.  *)
Running == status = "running"
Finish ==
  /\ Running /\ IC >= Len(task.program)
  /\ Ends("done") /\ UNCHANGED <<task, gas>>
OutOfRange ==
  /\ Running /\ IC < 0
  /\ Panic /\ UNCHANGED <<task, gas>>
ExecuteInstruction ==
  /\ Running /\ 0 <= IC /\ IC < Len(task.program)
  /\ Refused \/ Stop \/ Execute

Next == ExecuteInstruction \/ Finish \/ OutOfRange

Spec == Init /\ [][Next]_avmVars /\ WF_avmVars(Next)

(***************************************************************************)
(* Properties.                                                             *)
(***************************************************************************)
AvmTypeOK ==
  /\ \E i \in DOMAIN Tasks : task \in Tasks[i]
  /\ stack \in Seq(Int)
  /\ DOMAIN memory = 0 .. MaxMemory - 1 /\ \A a \in DOMAIN memory : memory[a] \in Int
  /\ NextMemoryAddr \in Nat /\ NextMemoryAddr >= FirstAddr
  /\ \A k \in DOMAIN Persistent : Persistent[k] \in Seq(Bytes)
  /\ IC \in Int /\ FramePointer \in Int
  /\ ReturnStack \in Seq(Int) /\ FrameStack \in Seq(Int)
  /\ GasAvailable \in Nat /\ GasUsed \in Nat
  /\ status \in {"running", "done", "stopped", "error", "panic"}

(* What the sender pays for is what the run was given: gas used and gas    *)
(* left always add up to the limit, on the error paths too.                *)
GasAccounted == GasUsed + GasAvailable = task.gas

(* "Gas metering to prevent infinite loops" (README.md): a step that does  *)
(* not end the run takes gas.                                              *)
StepsPay == [][status' = "running" => GasAvailable' < GasAvailable]_avmVars

(* Whatever a program jumps to, calls or returns from, its run ends.       *)
Terminates == <>(status # "running")

(* CALL and RETURN keep the two stacks of a runtime in step, so that a     *)
(* RETURN finds the frame that its CALL saved.                             *)
FramesMatch == Running => Len(FrameStack) = Len(ReturnStack)

(* Strings are immutable: only MSTORE changes a slot below NextMemoryAddr. *)
StringsStable ==
  [][\A a \in DOMAIN memory :
       a < NextMemoryAddr /\ memory'[a] # memory[a] => op = "MSTORE"]_avmVars

(* The address that an instruction pushes for a new string reads back as   *)
(* that string: PLOAD what PSTORE stored, TSXDATA the transaction's data,  *)
(* INTTOSTR a numeral of the number; unless the memory is full.            *)
NewString ==
  CASE op = "TSXDATA" -> task.data
    [] op = "INTTOSTR" -> Decimal(BigInt64(Top(1)))
    [] op = "PLOAD" -> Persistent[Key(Uint64(Top(1)))]
ReadsBack ==
  [][/\ NextMemoryAddr' # NextMemoryAddr /\ NextMemoryAddr' <= MaxMemory
     /\ op \in {"TSXDATA", "INTTOSTR", "PLOAD"}
     /\ op = "PLOAD" => Key(Uint64(Top(1))) \in DOMAIN Persistent
     => readStringFromMemory(stack[Len(stack)])' = NewString]_avmVars
==============================================================================

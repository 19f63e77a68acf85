------------------------------ MODULE AVMProofs ------------------------------
(***************************************************************************)
(* The virtual machine, for all programs, sizes and contexts: its gas, its *)
(* frames, the types of its state, and what becomes of strings.            *)
(***************************************************************************)
EXTENDS AVM, LoopTheorems

(* A leaf is proved by Zenon, unless it names SMT for its arithmetic, its  *)
(* sequences or its records, or PTL.                                       *)
USE Zenon

GasInv ==
  /\ \E i \in DOMAIN Tasks : task \in Tasks[i]
  /\ GasAvailable \in Nat /\ GasUsed \in Nat
  /\ GasAccounted

(* Every price is a natural number, and only STOP and PC are free.         *)
LEMMA Prices ==
  ASSUME NEW o
  PROVE  Price(o) \in Nat /\ (o \notin {"STOP", "PC"} => Price(o) > 0)
BY SMT DEF Price

(* Every instruction but PC that Operation executes has a positive price,  *)
(* and PC ends the run.                                                    *)
LEMMA OperationPays ==
  ASSUME Operation, status' = "running"
  PROVE  op \notin {"STOP", "PC"}
BY AVMAssumption
DEF Operation, Noop, Push, Pop, Dup, Swap, Binary, Arithmetic, Eq, IsZero, Jump, JumpC, MStore,
    MLoad, PStore, PLoad, LoadLocal, StoreLocal, Call, Return, Emit, StrConcat, StrLen, EmitStr,
    StrIndex, StrSlice, StrToInt, IntToStr, Balance, BlockchainContext, TsxData, Unimplemented,
    Fail, Ends

(* GasInv is inductive.                                                    *)
LEMMA GasInductive == GasInv /\ [Next]_avmVars => GasInv'
<1> SUFFICES ASSUME GasInv, [Next]_avmVars PROVE GasInv'
  OBVIOUS
<1> USE DEF GasInv, GasAccounted
<1>1. PICK i \in DOMAIN Tasks : task \in Tasks[i]
  OBVIOUS
<1>2. task.gas \in Nat
  BY <1>1, AVMAssumption DEF IsTask
<1>3. CASE Execute
  <2>1. Price(op) \in Nat
    BY Prices
  <2>2. task' = task /\ GasUsed' = GasUsed + Price(op) /\ GasAvailable' = GasAvailable - Price(op)
    BY <1>3 DEF Execute, Charge
  <2>3. GasAvailable >= Price(op)
    BY <1>3 DEF Execute
  <2> QED BY <1>2, <2>1, <2>2, <2>3, SMT
<1>4. CASE UNCHANGED <<task, gas>>
  BY <1>4 DEF gas
<1>5. [Next]_avmVars => Execute \/ UNCHANGED <<task, gas>>
  BY DEF Next, ExecuteInstruction, Finish, OutOfRange, Refused, Stop, avmVars, gas
<1> QED BY <1>3, <1>4, <1>5

(* The gas used and the gas left add up to the gas limit in every state of *)
(* every run: on errors, panics and early ends as well.                    *)
THEOREM GasConserved == Spec => []GasAccounted
<1>1. Init => GasInv
  BY AVMAssumption, SMT DEF Init, GasInv, GasAccounted, IsTask
<1>2. GasInv => GasAccounted
  BY DEF GasInv
<1> QED BY <1>1, <1>2, GasInductive, PTL DEF Spec

(* Every step that leaves the machine running takes gas, so a run has at   *)
(* most as many steps as it has gas.                                       *)
THEOREM GasBoundsRuns == Spec => StepsPay
<1>1. GasInv /\ [Next]_avmVars => [status' = "running" => GasAvailable' < GasAvailable]_avmVars
  <2> SUFFICES ASSUME GasInv, Next, status' = "running" PROVE GasAvailable' < GasAvailable
    OBVIOUS
  <2>1. Execute
    BY DEF Next, ExecuteInstruction, Finish, OutOfRange, Refused, Stop, Fail, Panic, Ends
  <2>2. Price(op) \in Nat /\ Price(op) > 0
    BY <2>1, OperationPays, Prices DEF Execute
  <2>3. GasAvailable' = GasAvailable - Price(op)
    BY <2>1 DEF Execute, Charge
  <2> QED BY <2>2, <2>3, SMT DEF GasInv
<1>2. Init => GasInv
  BY AVMAssumption, SMT DEF Init, GasInv, GasAccounted, IsTask
<1> QED BY <1>1, <1>2, GasInductive, PTL DEF Spec, StepsPay

-----------------------------------------------------------------------------
(* The two stacks are as long as each other, whatever they hold.           *)
FrameInv ==
  \E T : /\ FrameStack \in Seq(T) /\ ReturnStack \in Seq(T)
         /\ Len(FrameStack) = Len(ReturnStack)

(* Only CALL and RETURN touch the frames.                                  *)
LEMMA OperationFrames ==
  ASSUME Operation
  PROVE  Call \/ Return \/ UNCHANGED frames
BY DEF Operation, Noop, Push, Pop, Dup, Swap, Binary, Eq, IsZero, Jump, JumpC, MStore,
    MLoad, PStore, PLoad, LoadLocal, StoreLocal, Emit, StrConcat, StrLen, EmitStr,
    StrIndex, StrSlice, StrToInt, IntToStr, Balance, BlockchainContext, TsxData, Unimplemented,
    Pushes, PushesString, Continue, Fail, Panic, Ends

(* No step makes one of the two stacks longer than the other.              *)
LEMMA FramesInductive == FrameInv /\ [Next]_avmVars => FrameInv'
<1> SUFFICES ASSUME FrameInv, [Next]_avmVars PROVE FrameInv'
  OBVIOUS
<1>1. PICK T : FrameStack \in Seq(T) /\ ReturnStack \in Seq(T) /\ Len(FrameStack) = Len(ReturnStack)
  BY DEF FrameInv
<1>2. CASE UNCHANGED frames
  BY <1>1, <1>2 DEF FrameInv, frames
<1>3. CASE Call /\ ~UNCHANGED frames
  <2> DEFINE V == T \cup {FramePointer, IC + 1}
  <2>1. FrameStack' = Append(FrameStack, FramePointer) /\ ReturnStack' = Append(ReturnStack, IC + 1)
    BY <1>3 DEF Call, Fail, Ends
  <2>2. FrameStack \in Seq(V) /\ ReturnStack \in Seq(V) /\ FramePointer \in V /\ IC + 1 \in V
    BY <1>1, SMT
  <2> HIDE DEF V
  <2>3. FrameStack' \in Seq(V) /\ ReturnStack' \in Seq(V) /\ Len(FrameStack') = Len(ReturnStack')
    BY <1>1, <2>1, <2>2, SMT
  <2> QED BY <2>3 DEF FrameInv
<1>4. CASE Return /\ ~UNCHANGED frames
  <2>1. FrameStack' = Front(FrameStack) /\ ReturnStack' = Front(ReturnStack) /\ ReturnStack # <<>>
    BY <1>4 DEF Return, Fail, Ends
  <2>2. FrameStack # <<>> /\ Len(ReturnStack) > 0
    BY <1>1, <2>1, SMT
  <2>3. FrameStack' \in Seq(T) /\ ReturnStack' \in Seq(T) /\ Len(FrameStack') = Len(ReturnStack')
    BY <1>1, <2>1, <2>2, SMT DEF Front
  <2> QED BY <2>3 DEF FrameInv
<1>5. [Next]_avmVars => Operation \/ UNCHANGED frames
  BY DEF Next, ExecuteInstruction, Execute, Finish, OutOfRange, Refused, Stop, Fail, Panic, Ends, avmVars
<1> QED BY <1>2, <1>3, <1>4, <1>5, OperationFrames

(* CALL and RETURN can be reached by jumps in any order, and still every   *)
(* RETURN that has a return address finds the frame that was saved with    *)
(* it.                                                                     *)
THEOREM FramesInStep == Spec => []FramesMatch
<1>1. Init => FrameInv
  <2> SUFFICES ASSUME Init PROVE FrameInv
    OBVIOUS
  <2>1. FrameStack = <<>> /\ ReturnStack = <<>>
    BY DEF Init
  <2>2. FrameStack \in Seq({}) /\ ReturnStack \in Seq({}) /\ Len(FrameStack) = Len(ReturnStack)
    BY <2>1, SMT
  <2> QED BY <2>2 DEF FrameInv
<1>2. FrameInv => FramesMatch
  BY DEF FrameInv, FramesMatch
<1> QED BY <1>1, <1>2, FramesInductive, PTL DEF Spec

-----------------------------------------------------------------------------
(* The sizes, one by one.                                                  *)
LEMMA Sizes ==
  /\ Word \in Nat \ {0} /\ Int64 \in Nat \ {0} /\ Chunk \in Nat \ {0}
  /\ MaxMemory \in Nat \ {0} /\ FirstAddr \in Nat \ {0}
  /\ MaxString \in Nat /\ MaxStack \in Nat
  /\ Base \in Nat /\ Base >= 2 /\ Radix \in Nat /\ Radix >= 2 /\ Radix <= Base
BY AVMAssumption, SMT

(* A numeral is computed digit by digit.                                   *)
LEMMA NumeralEquation ==
  ASSUME NEW base \in Nat, NEW len \in Nat, NEW digits,
         \A i \in 1 .. len : digits[i] \in Nat
  PROVE  LET v == Numeral(base, digits, len) IN
         /\ v \in [0 .. len -> Nat] /\ v[0] = 0
         /\ \A i \in 1 .. len : v[i] = base * v[i - 1] + digits[i]
<1> DEFINE step == [p \in (1 .. len) \X Nat |-> base * p[2] + digits[p[1]]]
           Is(f) == f = [n \in 0 .. len |-> IF n = 0 THEN 0 ELSE base * f[n - 1] + digits[n]]
           v == Numeral(base, digits, len)
<1>1. step \in [(1 .. len) \X Nat -> Nat]
  <2>1. ASSUME NEW p \in (1 .. len) \X Nat PROVE base * p[2] + digits[p[1]] \in Nat
    <3>1. p[1] \in 1 .. len /\ p[2] \in Nat
      OBVIOUS
    <3>2. digits[p[1]] \in Nat /\ base * p[2] \in Nat
      BY <3>1, SMT
    <3> QED BY <3>2, SMT
  <2> QED BY <2>1
<1>2. PICK f \in [0 .. len -> Nat] : f[0] = 0 /\ \A i \in 1 .. len : f[i] = step[<<i, f[i - 1]>>]
  <2> HIDE DEF step
  <2>1. 0 \in Nat
    OBVIOUS
  <2>2. StepIn(len, Nat, step)
    BY <1>1 DEF StepIn
  <2>3. \E f : Recursion(f, len, Nat, 0, step)
    BY <2>1, <2>2, RecursionDefined
  <2> QED BY <2>3 DEF Recursion
<1>3. ASSUME NEW i \in 1 .. len PROVE f[i] = base * f[i - 1] + digits[i]
  <2>1. i - 1 \in 0 .. len /\ <<i, f[i - 1]>> \in (1 .. len) \X Nat
    BY <1>2, SMT
  <2> QED BY <1>2, <2>1
<1>4. Is(f)
  BY <1>2, <1>3, SMT
<1>5. Is(v)
  <2> HIDE DEF step
  <2> QED BY <1>4 DEF Numeral
<1> HIDE DEF v, step
<1>6. v[0] = 0 /\ \A i \in 1 .. len : v[i] = base * v[i - 1] + digits[i]
  BY <1>5, SMT
<1> DEFINE N == {k \in Nat : k <= len => v[k] \in Nat}
<1>7. ASSUME NEW k \in Nat, \A j \in Nat : j < k => j \in N PROVE k \in N
  <2>1. CASE k = 0
    BY <1>6, <2>1
  <2>2. CASE k > 0 /\ k <= len
    <3>1. k - 1 \in Nat /\ k - 1 < k /\ k - 1 <= len /\ k \in 1 .. len
      BY <2>2, SMT
    <3>2. v[k - 1] \in Nat /\ digits[k] \in Nat
      BY <1>7, <3>1
    <3>3. ASSUME NEW x \in Nat, NEW y \in Nat PROVE base * x + y \in Nat
      <4>1. base * x \in Nat
        BY SMT
      <4> QED BY <4>1, SMT
    <3>4. base * v[k - 1] + digits[k] \in Nat
      BY <3>2, <3>3
    <3> QED BY <1>6, <3>1, <3>4
  <2> QED BY <2>1, <2>2, SMT
<1>8. \A k \in Nat : k \in N
  <2> HIDE DEF N
  <2> QED BY <1>7, StrongInduction
<1>9. v \in [0 .. len -> Nat]
  <2>1. \A k \in 0 .. len : v[k] \in Nat
    BY <1>8, SMT
  <2> HIDE DEF N
  <2> QED BY <1>5, <2>1
<1> QED BY <1>6, <1>9 DEF v

(* Digits are taken off one by one.                                        *)
LEMMA ShiftedEquation ==
  ASSUME NEW base \in Nat \ {0}, NEW len \in Nat, NEW number \in Nat
  PROVE  LET v == Shifted(base, number, len) IN
         /\ v \in [0 .. len -> Nat] /\ v[0] = number
         /\ \A i \in 1 .. len : v[i] = v[i - 1] \div base
<1> DEFINE step == [p \in (1 .. len) \X Nat |-> p[2] \div base]
           Is(f) == f = [k \in 0 .. len |-> IF k = 0 THEN number ELSE f[k - 1] \div base]
           v == Shifted(base, number, len)
<1>0. ASSUME NEW x \in Nat PROVE x \div base \in Nat
  BY SMT
<1>1. step \in [(1 .. len) \X Nat -> Nat]
  BY <1>0
<1>2. PICK f \in [0 .. len -> Nat] : f[0] = number /\ \A i \in 1 .. len : f[i] = step[<<i, f[i - 1]>>]
  <2> HIDE DEF step
  <2>1. 0 \in Nat
    OBVIOUS
  <2>2. StepIn(len, Nat, step)
    BY <1>1 DEF StepIn
  <2>3. \E f : Recursion(f, len, Nat, number, step)
    BY <2>1, <2>2, RecursionDefined
  <2> QED BY <2>3 DEF Recursion
<1>3. ASSUME NEW i \in 1 .. len PROVE f[i] = f[i - 1] \div base
  <2>1. i - 1 \in 0 .. len /\ <<i, f[i - 1]>> \in (1 .. len) \X Nat
    BY <1>2, SMT
  <2> QED BY <1>2, <2>1
<1>4. Is(f)
  BY <1>2, <1>3, SMT
<1>5. Is(v)
  <2> HIDE DEF step
  <2> QED BY <1>4 DEF Shifted
<1> HIDE DEF v, step
<1>6. v[0] = number /\ \A i \in 1 .. len : v[i] = v[i - 1] \div base
  BY <1>5, SMT
<1> DEFINE N == {k \in Nat : k <= len => v[k] \in Nat}
<1>7. ASSUME NEW k \in Nat, \A j \in Nat : j < k => j \in N PROVE k \in N
  <2>1. CASE k = 0
    BY <1>6, <2>1
  <2>2. CASE k > 0 /\ k <= len
    <3>1. k - 1 \in Nat /\ k - 1 < k /\ k - 1 <= len /\ k \in 1 .. len
      BY <2>2, SMT
    <3>2. v[k - 1] \in Nat
      BY <1>7, <3>1
    <3> QED BY <1>0, <1>6, <3>1, <3>2
  <2> QED BY <2>1, <2>2, SMT
<1>8. \A k \in Nat : k \in N
  <2> HIDE DEF N
  <2> QED BY <1>7, StrongInduction
<1>9. v \in [0 .. len -> Nat]
  <2>1. \A k \in 0 .. len : v[k] \in Nat
    BY <1>8, SMT
  <2> HIDE DEF N
  <2> QED BY <1>5, <2>1
<1> QED BY <1>6, <1>9 DEF v

(* Taking digits off a numeral undoes adding them.                         *)
LEMMA DigitsRoundTrip ==
  ASSUME NEW base \in Nat \ {0}, NEW len \in Nat, NEW digits,
         \A i \in 1 .. len : digits[i] \in 0 .. base - 1
  PROVE  LET v == Numeral(base, digits, len)
             w == Shifted(base, v[len], len)
         IN  \A j \in 1 .. len : w[len - j] % base = digits[j]
<1> DEFINE v == Numeral(base, digits, len)
           w == Shifted(base, v[len], len)
<1>1. \A i \in 1 .. len : digits[i] \in Nat
  BY SMT
<1>2. /\ v \in [0 .. len -> Nat] /\ v[0] = 0
      /\ \A i \in 1 .. len : v[i] = base * v[i - 1] + digits[i]
  BY <1>1, NumeralEquation, SMT
<1>3. /\ w \in [0 .. len -> Nat] /\ w[0] = v[len]
      /\ \A i \in 1 .. len : w[i] = w[i - 1] \div base
  <2> HIDE DEF v
  <2>1. v[len] \in Nat
    BY <1>2, SMT
  <2> QED BY <2>1, ShiftedEquation
<1> HIDE DEF v, w
<1>4. ASSUME NEW j \in 1 .. len PROVE v[j] \div base = v[j - 1] /\ v[j] % base = digits[j]
  <2>1. v[j - 1] \in Nat /\ digits[j] \in 0 .. base - 1 /\ v[j] = base * v[j - 1] + digits[j]
    BY <1>2, SMT
  <2>2. ASSUME NEW q \in Nat, NEW r \in 0 .. base - 1, v[j] = base * q + r
        PROVE  v[j] \div base = q /\ v[j] % base = r
    BY <2>2, Division
  <2> QED BY <2>1, <2>2
<1> DEFINE N == {k \in Nat : k <= len => w[k] = v[len - k]}
<1>5. ASSUME NEW k \in Nat, \A i \in Nat : i < k => i \in N PROVE k \in N
  <2>1. CASE k = 0
    BY <1>3, <2>1, SMT
  <2>2. CASE k > 0 /\ k <= len
    <3>1. k - 1 \in Nat /\ k - 1 < k /\ k - 1 <= len /\ k \in 1 .. len
      BY <2>2, SMT
    <3>2. w[k - 1] = v[len - (k - 1)]
      BY <1>5, <3>1
    <3>3. len - (k - 1) \in 1 .. len /\ len - (k - 1) - 1 = len - k
      BY <2>2, SMT
    <3>4. w[k] = w[k - 1] \div base
      BY <1>3, <3>1
    <3> QED BY <1>4, <3>2, <3>3, <3>4
  <2> QED BY <2>1, <2>2, SMT
<1>6. \A k \in Nat : k \in N
  <2> HIDE DEF N
  <2> QED BY <1>5, StrongInduction
<1>7. ASSUME NEW j \in 1 .. len PROVE w[len - j] % base = digits[j]
  <2>1. len - j \in Nat /\ len - j <= len /\ len - (len - j) = j
    BY SMT
  <2>2. w[len - j] = v[j]
    BY <1>6, <2>1
  <2> QED BY <1>4, <2>2
<1> QED BY <1>7 DEF v, w

(* The bytes of a chunk are those of the string: FillBytes undoes SetBytes. *)
LEMMA ChunkRoundTrip ==
  ASSUME NEW s \in Seq(Bytes), NEW i \in Nat
  PROVE  /\ ChunkOf(s, i) \in Nat
         /\ \A j \in 1 .. Chunk : ByteOf(ChunkOf(s, i), j) = Padded(s, i)[j]
<1> DEFINE p == Padded(s, i)
           v == Numeral(Base, p, Chunk)
<1>0. Chunk \in Nat \ {0} /\ Base \in Nat \ {0}
  BY Sizes, SMT
<1>1. ASSUME NEW j \in 1 .. Chunk PROVE p[j] \in 0 .. Base - 1
  <2>1. 0 \in 0 .. Base - 1
    BY <1>0, SMT
  <2>2. i * Chunk \in Nat /\ i * Chunk + j \in Nat \ {0}
    BY <1>0, SMT
  <2>3. i * Chunk + j <= Len(s) => s[i * Chunk + j] \in Bytes
    BY <2>2, SMT
  <2> QED BY <2>1, <2>3 DEF Padded, Bytes
<1> HIDE DEF p
<1>2. \A j \in 1 .. Chunk : p[j] \in Nat
  BY <1>0, <1>1, SMT
<1>3. v[Chunk] \in Nat
  BY <1>0, <1>2, NumeralEquation, SMT
<1>4. ASSUME NEW j \in 1 .. Chunk PROVE Shifted(Base, v[Chunk], Chunk)[Chunk - j] % Base = p[j]
  BY <1>0, <1>1, DigitsRoundTrip, SMT
<1>5. Abs(v[Chunk]) = v[Chunk]
  BY <1>3, SMT DEF Abs
<1>6. ChunkOf(s, i) = v[Chunk]
  BY DEF ChunkOf, p
<1> QED BY <1>3, <1>4, <1>5, <1>6 DEF ByteOf, p

(* The bits of a number are used up.                                       *)
LEMMA AndType == \A s \in Nat \X Nat \X Nat \X Nat : AndLoop[s] \in Nat
<1> DEFINE A == Nat \X Nat \X Nat \X Nat
           Step(s) == <<s[1] \div 2, s[2] \div 2, 2 * s[3], s[4] + s[3] * (s[1] % 2) * (s[2] % 2)>>
           stop == [s \in A |-> s[1] = 0]
           out == [s \in A |-> s[4]]
           next == [s \in A |-> Step(s)]
           rank == [s \in A |-> s[1]]
           Body(f) == [s \in A |-> IF s[1] = 0 THEN s[4] ELSE f[Step(s)]]
           Form(f) == [s \in A |-> IF stop[s] THEN out[s] ELSE f[next[s]]]
<1>1. CountsDown(A, stop, next, rank)
  <2>1. ASSUME NEW s \in A, ~stop[s]
        PROVE  next[s] \in A /\ rank[next[s]] < rank[s]
    <3>1. s[1] \in Nat /\ s[2] \in Nat /\ s[3] \in Nat /\ s[4] \in Nat
      OBVIOUS
    <3>2. s[1] # 0
      <4> HIDE DEF A
      <4> QED BY <2>1
    <3> HIDE DEF A
    <3>3. ASSUME NEW a \in Nat, NEW b \in Nat, NEW c \in Nat, NEW d \in Nat
          PROVE  /\ a \div 2 \in Nat /\ b \div 2 \in Nat /\ 2 * c \in Nat
                 /\ d + c * (a % 2) * (b % 2) \in Nat
                 /\ a # 0 => a \div 2 < a
      <4>1. a % 2 \in Nat /\ b % 2 \in Nat
        BY SMT
      <4>2. ASSUME NEW x \in Nat, NEW y \in Nat PROVE x * y \in Nat
        BY SMT
      <4>3. c * (a % 2) * (b % 2) \in Nat
        BY <4>1, <4>2
      <4>4. d + c * (a % 2) * (b % 2) \in Nat
        BY <4>3, SMT
      <4> QED BY <4>4, SMT
    <3>4. Step(s) \in A
      <4>1. /\ s[1] \div 2 \in Nat /\ s[2] \div 2 \in Nat /\ 2 * s[3] \in Nat
            /\ s[4] + s[3] * (s[1] % 2) * (s[2] % 2) \in Nat
        BY <3>1, <3>3
      <4> QED BY <4>1 DEF A
    <3>5. s[1] \div 2 < s[1]
      BY <3>1, <3>2, <3>3
    <3>6. next[s] = Step(s) /\ rank[s] = s[1]
      OBVIOUS
    <3>7. rank[Step(s)] = s[1] \div 2
      <4> DEFINE u == Step(s)
      <4>1. u[1] = s[1] \div 2
        OBVIOUS
      <4> HIDE DEF u
      <4>2. u \in A
        BY <3>4 DEF u
      <4>3. rank[u] = u[1]
        BY <4>2
      <4> QED BY <4>1, <4>3 DEF u
    <3> HIDE DEF Step, next, rank
    <3> QED BY <3>4, <3>5, <3>6, <3>7
  <2>2. rank \in [A -> Nat]
    OBVIOUS
  <2> HIDE DEF A, stop, next, rank
  <2> QED BY <2>1, <2>2 DEF CountsDown
<1>2. ASSUME NEW f PROVE Body(f) = Form(f)
  <2> HIDE DEF A, Step
  <2> QED OBVIOUS
<1>3. \E f : f = Body(f)
  <2>1. PICK f : f = Form(f)
    <3> HIDE DEF A, stop, out, next, rank
    <3> QED BY <1>1, LoopDefined, SMT
  <2> HIDE DEF Body, Form
  <2> QED BY <1>2, <2>1
<1>4. AndLoop = Body(AndLoop)
  <2> HIDE DEF A
  <2> QED BY <1>3 DEF AndLoop, A
<1>5. AndLoop = Form(AndLoop)
  <2> HIDE DEF Body, Form
  <2> QED BY <1>2, <1>4
<1>6. \A s \in A : stop[s] => out[s] \in Nat
  OBVIOUS
<1>7. \A s \in A : AndLoop[s] \in Nat
  <2> HIDE DEF A, stop, out, next, rank
  <2>1. IsLoop(AndLoop, A, stop, out, next) /\ Returns(A, stop, out, Nat)
    BY <1>5, <1>6 DEF IsLoop, Returns
  <2> QED BY <1>1, <2>1, LoopType
<1> QED BY <1>7

(* A byte in front of a string.                                            *)
LEMMA PutInFront ==
  ASSUME NEW b \in Bytes, NEW s \in Seq(Bytes)
  PROVE  <<b>> \o s \in Seq(Bytes)
BY SMT

(* A number has digits, and they are used up.                              *)
LEMMA DigitsType == \A s \in Nat \X Seq(Bytes) : DigitLoop[s] \in Seq(Bytes)
<1> DEFINE A == Nat \X Seq(Bytes)
           Step(s) == <<s[1] \div Radix, <<s[1] % Radix>> \o s[2]>>
           stop == [s \in A |-> s[1] < Radix]
           out == [s \in A |-> <<s[1]>> \o s[2]]
           next == [s \in A |-> Step(s)]
           rank == [s \in A |-> s[1]]
           Body(f) == [s \in A |-> IF s[1] < Radix THEN <<s[1]>> \o s[2] ELSE f[Step(s)]]
           Form(f) == [s \in A |-> IF stop[s] THEN out[s] ELSE f[next[s]]]
<1>0. ASSUME NEW n \in Nat
      PROVE  /\ n < Radix => n \in Bytes
             /\ n % Radix \in Bytes /\ n \div Radix \in Nat
             /\ ~(n < Radix) => n \div Radix < n
  <2>1. n % Radix \in 0 .. Radix - 1 /\ n \div Radix \in Nat /\ n = Radix * (n \div Radix) + (n % Radix)
    BY Sizes, SMT
  <2> DEFINE d == n \div Radix
  <2>2. d \in Nat /\ (n >= Radix => d # 0)
    BY <2>1, Sizes, SMT
  <2>3. n >= Radix => d < n
    <3> SUFFICES ASSUME n >= Radix, ~(d < n) PROVE FALSE
      BY <2>2
    <3>1. PICK e \in Nat : Radix = 2 + e
      <4>1. Radix - 2 \in Nat /\ Radix = 2 + (Radix - 2)
        BY Sizes, SMT
      <4> QED BY <4>1
    <3> HIDE DEF d
    <3>2. e * d \in Nat
      BY <2>2, <3>1, SMT
    <3>3. Radix * d = d + d + e * d
      BY <2>2, <3>1, SMT
    <3>4. n % Radix \in Nat /\ n = Radix * d + (n % Radix)
      BY <2>1, Sizes, SMT DEF d
    <3> QED BY <2>2, <3>2, <3>3, <3>4, SMT
  <2>4. n < Radix => n \in Bytes
    BY Sizes, SMT DEF Bytes
  <2>5. n % Radix \in Bytes
    BY <2>1, Sizes, SMT DEF Bytes
  <2> QED BY <2>1, <2>3, <2>4, <2>5, Sizes, SMT
<1>1. CountsDown(A, stop, next, rank)
  <2>1. ASSUME NEW s \in A, ~stop[s]
        PROVE  next[s] \in A /\ rank[next[s]] < rank[s]
    <3>1. s[1] \in Nat /\ s[2] \in Seq(Bytes)
      OBVIOUS
    <3>2. ~(s[1] < Radix)
      <4> HIDE DEF A
      <4> QED BY <2>1
    <3> HIDE DEF A
    <3>3. s[1] \div Radix \in Nat /\ s[1] % Radix \in Bytes
      BY <1>0, <3>1
    <3>4. Step(s) \in A
      <4>1. <<s[1] % Radix>> \o s[2] \in Seq(Bytes)
        BY <3>1, <3>3, PutInFront
      <4> QED BY <3>3, <4>1 DEF A
    <3>5. s[1] \div Radix < s[1]
      BY <1>0, <3>1, <3>2
    <3>6. next[s] = Step(s) /\ rank[s] = s[1]
      OBVIOUS
    <3>7. rank[Step(s)] = s[1] \div Radix
      <4> DEFINE u == Step(s)
      <4>1. u[1] = s[1] \div Radix
        OBVIOUS
      <4> HIDE DEF u
      <4>2. u \in A
        BY <3>4 DEF u
      <4>3. rank[u] = u[1]
        BY <4>2
      <4> QED BY <4>1, <4>3 DEF u
    <3> HIDE DEF Step, next, rank
    <3> QED BY <3>4, <3>5, <3>6, <3>7
  <2>2. rank \in [A -> Nat]
    OBVIOUS
  <2> HIDE DEF A, stop, next, rank
  <2> QED BY <2>1, <2>2 DEF CountsDown
<1>2. ASSUME NEW f PROVE Body(f) = Form(f)
  <2> HIDE DEF A, Step
  <2> QED OBVIOUS
<1>3. \E f : f = Body(f)
  <2>1. PICK f : f = Form(f)
    <3> HIDE DEF A, stop, out, next, rank
    <3> QED BY <1>1, LoopDefined, SMT
  <2> HIDE DEF Body, Form
  <2> QED BY <1>2, <2>1
<1>4. DigitLoop = Body(DigitLoop)
  <2> HIDE DEF A
  <2> QED BY <1>3 DEF DigitLoop, A
<1>5. DigitLoop = Form(DigitLoop)
  <2> HIDE DEF Body, Form
  <2> QED BY <1>2, <1>4
<1>6. ASSUME NEW s \in A, stop[s] PROVE out[s] \in Seq(Bytes)
  <2>1. s[1] \in Nat /\ s[2] \in Seq(Bytes)
    OBVIOUS
  <2>2. s[1] < Radix
    <3> HIDE DEF A
    <3> QED BY <1>6
  <2>3. <<s[1]>> \o s[2] \in Seq(Bytes)
    BY <1>0, <2>1, <2>2, PutInFront
  <2> HIDE DEF A
  <2> QED BY <2>3
<1>7. \A s \in A : DigitLoop[s] \in Seq(Bytes)
  <2> HIDE DEF A, stop, out, next, rank
  <2>1. IsLoop(DigitLoop, A, stop, out, next) /\ Returns(A, stop, out, Seq(Bytes))
    BY <1>5, <1>6 DEF IsLoop, Returns
  <2> QED BY <1>1, <2>1, LoopType
<1> QED BY <1>7

-----------------------------------------------------------------------------
(* The conversions between numbers.                                        *)
LEMMA NumberTypes ==
  ASSUME NEW n \in Int
  PROVE  Abs(n) \in Nat /\ Uint64(n) \in Nat /\ ToInt(n) \in Int /\ BigInt64(n) \in Int
<1>1. ASSUME NEW i \in Int PROVE Abs(i) \in Nat /\ Uint64(i) \in Nat
  BY Sizes, SMT DEF Abs, Uint64
<1>2. ASSUME NEW i \in Int PROVE ToInt(i) \in Int
  <2>1. i % Int64 \in Int
    BY Sizes, SMT
  <2> QED BY <2>1, Sizes, SMT DEF ToInt
<1>3. BigInt64(n) \in Int
  <2>1. Uint64(n) \in Int
    BY <1>1, SMT
  <2>2. ToInt(Uint64(n)) \in Int
    BY <1>2, <2>1
  <2>3. -ToInt(Uint64(n)) \in Int
    BY <2>2, SMT
  <2>4. ToInt(-ToInt(Uint64(n))) \in Int
    BY <1>2, <2>3
  <2> QED BY <2>2, <2>4 DEF BigInt64
<1> QED BY <1>1, <1>2, <1>3

(* An address survives the conversion to int and back.                     *)
LEMMA AddressesSurvive ==
  ASSUME NEW a \in Nat, a < MaxMemory
  PROVE  ToInt(a) = a
<1>1. a < Int64 \div 2 /\ Int64 \div 2 \in Nat
  BY AVMAssumption, Sizes, SMT
<1>2. Int64 \div 2 <= Int64
  BY Sizes, SMT
<1>3. a % Int64 = a
  BY <1>1, <1>2, Sizes, SMT
<1> QED BY <1>1, <1>3, SMT DEF ToInt

(* The result of a binary operation is a number.                           *)
LEMMA ResultType ==
  ASSUME NEW o \in Arithmetic, NEW a \in Int, NEW b \in Int
  PROVE  Result(o, a, b) \in Int
<1>1. ASSUME NEW n \in Int PROVE toSigned256(n) \in Int /\ toUnsigned256(n) \in Int
  BY Sizes, SMT DEF toSigned256, toUnsigned256
<1> DEFINE x == toSigned256(a)
           y == toSigned256(b)
<1>2. x \in Int /\ y \in Int
  BY <1>1
<1> HIDE DEF x, y
<1>3. toUnsigned256(x + y) \in Int /\ toUnsigned256(x - y) \in Int /\ toUnsigned256(x * y) \in Int
  <2>1. x + y \in Int /\ x - y \in Int /\ x * y \in Int
    BY <1>2, SMT
  <2> QED BY <1>1, <2>1
<1>4. y # 0 => toUnsigned256(EuclidDiv(x, y)) \in Int
  <2>1. y # 0 => EuclidDiv(x, y) \in Int
    BY <1>2, SMT DEF EuclidDiv
  <2> QED BY <1>1, <2>1
<1>5. b # 0 => EuclidMod(a, b) \in Int
  BY SMT DEF EuclidMod, Abs
<1>6. BitAnd(a, b) \in Nat
  <2>1. a % Word \in Nat /\ b % Word \in Nat /\ 1 \in Nat /\ 0 \in Nat
    BY Sizes, SMT
  <2>2. <<a % Word, b % Word, 1, 0>> \in Nat \X Nat \X Nat \X Nat
    BY <2>1
  <2> QED BY <2>2, AndType DEF BitAnd
<1>7. BitOr(a, b) \in Int
  BY <1>6, Sizes, SMT DEF BitOr
<1>8. Truth(x < y) \in Int /\ Truth(x > y) \in Int /\ BitAnd(a, b) \in Int /\ 0 \in Int
  BY <1>6, SMT DEF Truth
<1>9. x = toSigned256(a) /\ y = toSigned256(b)
  BY DEF x, y
<1>10. CASE o = "ADD"
  BY <1>3, <1>9, <1>10 DEF Result
<1>11. CASE o = "SUB"
  BY <1>3, <1>9, <1>11 DEF Result
<1>12. CASE o = "MUL"
  BY <1>3, <1>9, <1>12 DEF Result
<1>13. CASE o = "DIV"
  BY <1>4, <1>8, <1>9, <1>13 DEF Result
<1>14. CASE o = "MOD"
  BY <1>5, <1>8, <1>14 DEF Result
<1>15. CASE o = "AND"
  BY <1>8, <1>15 DEF Result
<1>16. CASE o = "OR"
  BY <1>7, <1>16 DEF Result
<1>17. CASE o = "LT"
  BY <1>8, <1>9, <1>17 DEF Result
<1>18. CASE o = "GT"
  BY <1>8, <1>9, <1>18 DEF Result
<1> QED BY <1>10, <1>11, <1>12, <1>13, <1>14, <1>15, <1>16, <1>17, <1>18 DEF Arithmetic

(* A numeral is a string.                                                  *)
LEMMA DecimalType ==
  ASSUME NEW n \in Int
  PROVE  Decimal(n) \in Seq(Bytes)
<1>1. Abs(n) \in Nat /\ <<>> \in Seq(Bytes) /\ Minus \in Bytes
  <2>1. Abs(n) \in Nat
    BY NumberTypes
  <2>2. <<>> \in Seq(Bytes)
    BY SMT
  <2>3. Minus \in Bytes
    BY AVMAssumption
  <2> QED BY <2>1, <2>2, <2>3
<1>2. <<Abs(n), <<>>>> \in Nat \X Seq(Bytes)
  <2>1. ASSUME NEW e \in Seq(Bytes) PROVE <<Abs(n), e>> \in Nat \X Seq(Bytes)
    BY <1>1
  <2> QED BY <1>1, <2>1
<1>3. DigitLoop[<<Abs(n), <<>>>>] \in Seq(Bytes)
  BY <1>2, DigitsType
<1>4. <<Minus>> \o DigitLoop[<<Abs(n), <<>>>>] \in Seq(Bytes)
  BY <1>1, <1>3, PutInFront
<1> QED BY <1>3, <1>4 DEF Decimal

(* A string of digits is a number.                                         *)
LEMMA ParseType ==
  ASSUME NEW s \in Seq(Bytes)
  PROVE  ParseInt(s) \in Int
<1> DEFINE u == Unsigned(s)
           v == Numeral(Radix, u, Len(u))[Len(u)]
<1>1. u \in Seq(Bytes)
  BY SMT DEF Unsigned
<1> HIDE DEF u
<1>2. Len(u) \in Nat /\ \A i \in 1 .. Len(u) : u[i] \in Nat
  <2>1. Len(u) \in Nat /\ \A i \in 1 .. Len(u) : u[i] \in Bytes
    BY <1>1, SMT
  <2>2. ASSUME NEW b \in Bytes PROVE b \in Nat
    BY Sizes, SMT DEF Bytes
  <2> QED BY <2>1, <2>2
<1>3. v \in Nat
  BY <1>2, Sizes, NumeralEquation, SMT
<1> HIDE DEF v
<1>4. v \in Int /\ -v \in Int
  BY <1>3, SMT
<1>5. ToInt(v) \in Int /\ ToInt(-v) \in Int
  BY <1>4, NumberTypes
<1> QED BY <1>5 DEF ParseInt, u, v

-----------------------------------------------------------------------------
(* The chunks of n bytes have room for them, and byte i is in one of them. *)
LEMMA ChunksFit ==
  ASSUME NEW n \in Nat
  PROVE  /\ Chunks(n) \in Nat /\ n <= Chunk * Chunks(n)
         /\ \A i \in 1 .. n : /\ (i - 1) \div Chunk \in Nat /\ (i - 1) \div Chunk < Chunks(n)
                              /\ 1 + ((i - 1) % Chunk) \in 1 .. Chunk
                              /\ ((i - 1) \div Chunk) * Chunk + (1 + ((i - 1) % Chunk)) = i
<1> DEFINE D == Chunks(n)
<1>0. Chunk \in Nat \ {0}
  BY Sizes
<1>1. D \in Nat /\ \E r \in 0 .. Chunk - 1 : n + Chunk - 1 = Chunk * D + r
  <2> DEFINE m == n + Chunk - 1
  <2>1. m \in Nat
    BY <1>0, SMT
  <2>2. D = m \div Chunk
    BY DEF Chunks
  <2> HIDE DEF m, D
  <2>3. m \div Chunk \in Nat /\ m % Chunk \in 0 .. Chunk - 1 /\ m = Chunk * (m \div Chunk) + (m % Chunk)
    BY <1>0, <2>1, SMT
  <2> QED BY <2>2, <2>3 DEF m
<1> HIDE DEF D
<1>2. Chunk * D \in Nat /\ n <= Chunk * D
  BY <1>0, <1>1, SMT
<1>3. ASSUME NEW i \in 1 .. n
      PROVE  /\ (i - 1) \div Chunk \in Nat /\ (i - 1) \div Chunk < D
             /\ 1 + ((i - 1) % Chunk) \in 1 .. Chunk
             /\ ((i - 1) \div Chunk) * Chunk + (1 + ((i - 1) % Chunk)) = i
  <2> DEFINE k == i - 1
             q == k \div Chunk
             r == k % Chunk
  <2>1. k \in Nat /\ k < n /\ k + 1 = i
    BY SMT
  <2> HIDE DEF k
  <2>2. q \in Nat /\ r \in 0 .. Chunk - 1 /\ k = Chunk * q + r
    BY <1>0, <2>1, SMT
  <2> HIDE DEF q, r
  <2>3. Chunk * q \in Nat /\ Chunk * q = q * Chunk
    BY <1>0, <2>2, SMT
  <2>4. q < D
    <3> SUFFICES ASSUME ~(q < D) PROVE FALSE
      OBVIOUS
    <3>1. CASE q = D
      BY <1>0, <1>2, <2>1, <2>2, <3>1, SMT
    <3>2. CASE D < q
      <4>1. Chunk * D + Chunk <= Chunk * q
        BY <1>0, <1>1, <2>2, <3>2, ProductStep
      <4> QED BY <1>0, <1>2, <2>1, <2>2, <2>3, <4>1, SMT
    <3> QED BY <1>1, <2>2, <3>1, <3>2, SMT
  <2>5. 1 + r \in 1 .. Chunk /\ q * Chunk + (1 + r) = i
    BY <1>0, <2>1, <2>2, <2>3, SMT
  <2> QED BY <2>2, <2>4, <2>5 DEF q, r, k
<1> QED BY <1>1, <1>2, <1>3 DEF D

(* What memory and storage hold.                                           *)
MemoryOK == DOMAIN memory = 0 .. MaxMemory - 1 /\ \A a \in DOMAIN memory : memory[a] \in Int
StoreOK ==
  /\ MemoryOK
  /\ NextMemoryAddr \in Nat /\ NextMemoryAddr >= FirstAddr
  /\ \A k \in DOMAIN Persistent : Persistent[k] \in Seq(Bytes)

(* A byte of a word is a byte.                                             *)
LEMMA ByteType ==
  ASSUME NEW w \in Int, NEW j \in 1 .. Chunk
  PROVE  ByteOf(w, j) \in Bytes
<1> DEFINE v == Shifted(Base, Abs(w), Chunk)
<1>1. Abs(w) \in Nat /\ Base \in Nat \ {0} /\ Chunk \in Nat
  BY NumberTypes, Sizes, SMT
<1>2. v \in [0 .. Chunk -> Nat]
  BY <1>1, ShiftedEquation
<1> HIDE DEF v
<1>3. v[Chunk - j] \in Nat
  BY <1>1, <1>2, SMT
<1>4. v[Chunk - j] % Base \in 0 .. Base - 1
  BY <1>1, <1>3, SMT
<1> QED BY <1>4 DEF ByteOf, v, Bytes

(* What is read from memory is a string.                                   *)
LEMMA ReadType ==
  ASSUME MemoryOK, NEW a \in Nat
  PROVE  /\ InMemory(a) => BytesAt(a) \in Seq(Bytes)
         /\ readStringFromMemory(a) \in Seq(Bytes)
<1>1. ASSUME InMemory(a) PROVE BytesAt(a) \in Seq(Bytes)
  <2>1. a \in DOMAIN memory /\ memory[a] \in Int
    BY <1>1, Sizes, SMT DEF InMemory, MemoryOK
  <2> DEFINE n == Length(a)
  <2>2. n \in Nat
    BY <2>1, NumberTypes DEF Length
  <2>3. a + Chunks(n) < MaxMemory
    BY <1>1 DEF InMemory
  <2> HIDE DEF n
  <2>4. ASSUME NEW i \in 1 .. n
        PROVE  ByteOf(memory[a + 1 + ((i - 1) \div Chunk)], 1 + ((i - 1) % Chunk)) \in Bytes
    <3> DEFINE q == (i - 1) \div Chunk
               j == 1 + ((i - 1) % Chunk)
    <3>1. Chunks(n) \in Nat /\ q \in Nat /\ q < Chunks(n) /\ j \in 1 .. Chunk
      BY <2>2, ChunksFit
    <3> HIDE DEF q, j
    <3>2. a + 1 + q \in 0 .. MaxMemory - 1
      BY <2>3, <3>1, Sizes, SMT
    <3>3. memory[a + 1 + q] \in Int
      BY <3>2 DEF MemoryOK
    <3>4. ByteOf(memory[a + 1 + q], j) \in Bytes
      BY <3>1, <3>3, ByteType
    <3> QED BY <3>4 DEF q, j
  <2>5. BytesAt(a) = [i \in 1 .. n |-> ByteOf(memory[a + 1 + ((i - 1) \div Chunk)], 1 + ((i - 1) % Chunk))]
    BY DEF BytesAt, n
  <2>6. BytesAt(a) \in [1 .. n -> Bytes]
    BY <2>4, <2>5
  <2> QED BY <2>2, <2>6, SMT
<1>2. <<>> \in Seq(Bytes)
  BY SMT
<1> QED BY <1>1, <1>2 DEF readStringFromMemory

(* Storing a string leaves numbers in the memory.                          *)
LEMMA WithStringType ==
  ASSUME MemoryOK, NEW a \in Nat, NEW s \in Seq(Bytes), memory' = WithString(a, s)
  PROVE  MemoryOK'
<1>1. Len(s) \in Nat /\ Chunks(Len(s)) \in Nat
  BY ChunksFit, SMT
<1>2. ASSUME NEW n \in DOMAIN memory
      PROVE  WithString(a, s)[n] \in Int
  <2>1. n \in Nat /\ memory[n] \in Int
    BY Sizes, SMT DEF MemoryOK
  <2>2. CASE n = a
    BY <1>1, <2>2, SMT DEF WithString
  <2>3. CASE n # a /\ n \in a + 1 .. a + Chunks(Len(s))
    <3>1. n - a - 1 \in Nat
      BY <1>1, <2>1, <2>3, SMT
    <3>2. ChunkOf(s, n - a - 1) \in Nat
      BY <3>1, ChunkRoundTrip
    <3>3. WithString(a, s)[n] = ChunkOf(s, n - a - 1)
      BY <2>3 DEF WithString
    <3> QED BY <3>2, <3>3, SMT
  <2>4. CASE n # a /\ n \notin a + 1 .. a + Chunks(Len(s))
    BY <2>1, <2>4 DEF WithString
  <2> QED BY <2>2, <2>3, <2>4
<1>3. DOMAIN WithString(a, s) = DOMAIN memory
  BY DEF WithString
<1> QED BY <1>2, <1>3 DEF MemoryOK

(* So does storeStringInMemory.                                            *)
LEMMA StoresType ==
  ASSUME StoreOK, NEW s \in Seq(Bytes), storeStringInMemory(s)
  PROVE  StoreOK'
<1>1. MemoryOK'
  BY WithStringType DEF StoreOK, storeStringInMemory
<1>2. Len(s) \in Nat /\ Chunks(Len(s)) \in Nat
  BY ChunksFit, SMT
<1>3. NextMemoryAddr' \in Nat /\ NextMemoryAddr' >= FirstAddr
  BY <1>2, Sizes, SMT DEF StoreOK, storeStringInMemory
<1>4. Persistent' = Persistent
  BY DEF storeStringInMemory
<1> QED BY <1>1, <1>3, <1>4 DEF StoreOK

-----------------------------------------------------------------------------
FramesOK ==
  /\ IC \in Int /\ FramePointer \in Int
  /\ ReturnStack \in Seq(Int) /\ FrameStack \in Seq(Int)
  /\ Len(FrameStack) = Len(ReturnStack)
StatusOK == status \in {"running", "done", "stopped", "error", "panic"}
MachineOK == stack \in Seq(Int) /\ StoreOK /\ FramesOK /\ StatusOK

(* A run that ends leaves the rest as it was.                              *)
LEMMA EndsType ==
  ASSUME MachineOK, NEW how \in {"running", "done", "stopped", "error", "panic"}, Ends(how)
  PROVE  MachineOK'
BY DEF Ends, MachineOK, StoreOK, MemoryOK, FramesOK, StatusOK, store, frames

(* An instruction that goes on to the next one.                            *)
LEMMA ContinueType ==
  ASSUME MachineOK, Continue, stack' \in Seq(Int), StoreOK'
  PROVE  MachineOK'
<1>1. FramesOK' /\ StatusOK'
  BY SMT DEF Continue, MachineOK, FramesOK, StatusOK, frames
<1> QED BY <1>1 DEF MachineOK

(* The store stays as it was.                                              *)
LEMMA StoreStays ==
  ASSUME StoreOK, UNCHANGED store
  PROVE  StoreOK'
BY DEF StoreOK, MemoryOK, store

(* What is popped is a number, and the rest are numbers.                   *)
LEMMA PopType ==
  ASSUME MachineOK
  PROVE  /\ Size \in Nat
         /\ \A n \in 0 .. Size : Rest(n) \in Seq(Int) /\ Len(Rest(n)) = Size - n
         /\ \A n \in 1 .. Size : Top(n) \in Int
         /\ ~(Size < 2) => Rest(2) \in Seq(Int) /\ Top(1) \in Int /\ Top(2) \in Int
         /\ ~(Size < 3) => Rest(3) \in Seq(Int) /\ Top(3) \in Int
<1>1. stack \in Seq(Int)
  BY DEF MachineOK
<1> QED BY <1>1, SMT DEF Size, Rest, Top

(* A push, of a number or of the address of a string.                      *)
LEMMA PushType ==
  ASSUME MachineOK, NEW s \in Seq(Int)
  PROVE  /\ \A v \in Int : Pushes(s, v) => MachineOK'
         /\ \A str \in Seq(Bytes) : PushesString(s, str) => MachineOK'
<1>1. ASSUME Fail PROVE MachineOK'
  BY <1>1, EndsType DEF Fail
<1>2. ASSUME NEW v \in Int, Pushes(s, v) PROVE MachineOK'
  <2>1. CASE Room(s)
    <3>1. stack' = Append(s, v) /\ Continue /\ UNCHANGED store
      BY <1>2, <2>1 DEF Pushes
    <3>2. stack' \in Seq(Int)
      BY <3>1, SMT
    <3>3. StoreOK'
      BY <3>1, StoreStays DEF MachineOK
    <3> QED BY <3>1, <3>2, <3>3, ContinueType
  <2>2. CASE ~Room(s)
    BY <1>1, <1>2, <2>2 DEF Pushes
  <2> QED BY <2>1, <2>2
<1>3. ASSUME NEW str \in Seq(Bytes), PushesString(s, str) PROVE MachineOK'
  <2>1. CASE Room(s)
    <3>1. storeStringInMemory(str) /\ stack' = Append(s, ToInt(NextMemoryAddr)) /\ Continue
      BY <1>3, <2>1 DEF PushesString
    <3>2. ToInt(NextMemoryAddr) \in Int
      <4>1. NextMemoryAddr \in Int
        BY SMT DEF MachineOK, StoreOK
      <4> QED BY <4>1, NumberTypes
    <3>3. stack' \in Seq(Int)
      BY <3>1, <3>2, SMT
    <3>4. StoreOK'
      BY <3>1, StoresType DEF MachineOK
    <3> QED BY <3>1, <3>3, <3>4, ContinueType
  <2>2. CASE ~Room(s)
    BY <1>1, <1>3, <2>2 DEF PushesString
  <2> QED BY <2>1, <2>2
<1> QED BY <1>2, <1>3

(* An instruction that fails or panics.                                    *)
LEMMA FailType ==
  ASSUME MachineOK, Fail \/ Panic
  PROVE  MachineOK'
BY EndsType DEF Fail, Panic

(* Truth values are numbers.                                               *)
LEMMA TruthType ==
  ASSUME NEW p
  PROVE  Truth(p) \in Int
BY SMT DEF Truth

(* The instructions on the stack.                                          *)
LEMMA StackTypes ==
  ASSUME MachineOK, IsTask(task), 0 <= IC, IC < Len(task.program),
         Noop \/ Push \/ Pop \/ Dup \/ Swap \/ Binary \/ IsZero \/ Emit \/ Balance \/ BlockchainContext
  PROVE  MachineOK'
<1>0. /\ stack \in Seq(Int) /\ Size \in Nat /\ StoreOK /\ IC \in Int
      /\ \A n \in 0 .. Size : Rest(n) \in Seq(Int) /\ Len(Rest(n)) = Size - n
      /\ \A n \in 1 .. Size : Top(n) \in Int
  BY PopType DEF MachineOK, FramesOK
<1>1. CASE Noop \/ Emit
  <2>1. Fail \/ Panic \/ (Continue /\ UNCHANGED <<stack, store>>)
    BY <1>1 DEF Noop, Emit
  <2>2. ASSUME Continue, UNCHANGED <<stack, store>> PROVE MachineOK'
    BY <1>0, <2>2, StoreStays, ContinueType
  <2> QED BY <2>1, <2>2, FailType
<1>2. CASE Push
  <2>1. IC + 1 \in DOMAIN task.program
    BY <1>0, SMT DEF IsTask
  <2>2. ins.value \in Int
    BY <1>2, <2>1 DEF Push, IsTask, ins, op
  <2> QED BY <1>0, <1>2, <2>2, PushType DEF Push
<1>3. CASE Pop
  <2>1. CASE Size = 0
    BY <1>3, <2>1, FailType DEF Pop
  <2>2. CASE Size # 0
    <3>1. stack' = Rest(1) /\ Continue /\ UNCHANGED store
      BY <1>3, <2>2 DEF Pop
    <3>2. Rest(1) \in Seq(Int)
      BY <1>0, <2>2, SMT
    <3> QED BY <1>0, <3>1, <3>2, StoreStays, ContinueType
  <2> QED BY <2>1, <2>2
<1>4. CASE Dup
  <2>1. CASE Size = 0
    BY <1>4, <2>1, FailType DEF Dup
  <2>2. CASE Size # 0
    <3>1. Top(1) \in Int
      BY <1>0, <2>2, SMT
    <3>2. Pushes(stack, Top(1))
      BY <1>4, <2>2 DEF Dup
    <3> QED BY <1>0, <3>1, <3>2, PushType
  <2> QED BY <2>1, <2>2
<1>5. CASE Swap
  <2> DEFINE s == Rest(1)
             l == Len(s)
             down == ToInt(Uint64(Top(1)))
  <2>1. CASE Size = 0 \/ down >= l \/ down < 0
    BY <1>5, <2>1, FailType DEF Swap
  <2>2. CASE ~(Size = 0 \/ down >= l \/ down < 0)
    <3>1. /\ stack' = [s EXCEPT ![l] = s[l - down], ![l - down] = s[l]]
          /\ Continue /\ UNCHANGED store
      BY <1>5, <2>2 DEF Swap
    <3>2. s \in Seq(Int) /\ Top(1) \in Int
      BY <1>0, <2>2, SMT
    <3>3. down \in Int
      <4>1. Uint64(Top(1)) \in Int
        BY <3>2, NumberTypes, SMT
      <4> QED BY <4>1, NumberTypes
    <3>4. ~(down >= l) /\ ~(down < 0)
      BY <2>2
    <3> HIDE DEF s, down
    <3>5. l \in 1 .. Len(s) /\ l - down \in 1 .. Len(s)
      BY <3>2, <3>3, <3>4, SMT
    <3>6. s[l] \in Int /\ s[l - down] \in Int
      BY <3>2, <3>5, SMT
    <3>7. stack' \in Seq(Int)
      <4>1. ASSUME NEW i \in 1 .. Len(s), NEW v \in Int, NEW r \in Seq(Int), Len(r) = Len(s)
            PROVE  [r EXCEPT ![i] = v] \in Seq(Int) /\ Len([r EXCEPT ![i] = v]) = Len(s)
        BY <3>2, <4>1, SMT
      <4>2. [s EXCEPT ![l] = s[l - down]] \in Seq(Int) /\ Len([s EXCEPT ![l] = s[l - down]]) = Len(s)
        BY <3>2, <3>5, <3>6, <4>1
      <4>3. [[s EXCEPT ![l] = s[l - down]] EXCEPT ![l - down] = s[l]] \in Seq(Int)
        BY <3>5, <3>6, <4>1, <4>2
      <4> QED BY <3>1, <4>3
    <3> QED BY <1>0, <3>1, <3>7, StoreStays, ContinueType
  <2> QED BY <2>1, <2>2
<1>6. CASE Binary
  <2>1. CASE Size < 2
    BY <1>6, <2>1, FailType DEF Binary
  <2>2. CASE ~(Size < 2)
    <3>1. Top(1) \in Int /\ Top(2) \in Int /\ Rest(2) \in Seq(Int)
      BY <2>2, PopType
    <3>2. op \in Arithmetic /\ Pushes(Rest(2), Result(op, Top(2), Top(1)))
      BY <1>6, <2>2 DEF Binary
    <3>3. Result(op, Top(2), Top(1)) \in Int
      BY <3>1, <3>2, ResultType
    <3> QED BY <3>1, <3>2, <3>3, PushType
  <2> QED BY <2>1, <2>2
<1>7. CASE IsZero \/ Balance
  <2>1. CASE Size = 0
    BY <1>7, <2>1, FailType DEF IsZero, Balance
  <2>2. CASE Size # 0
    <3>1. Rest(1) \in Seq(Int)
      BY <1>0, <2>2, SMT
    <3>2. Pushes(Rest(1), Truth(Top(1) = 0)) \/ Pushes(Rest(1), 0)
      BY <1>7, <2>2 DEF IsZero, Balance
    <3>3. Truth(Top(1) = 0) \in Int /\ 0 \in Int
      BY SMT DEF Truth
    <3> QED BY <3>1, <3>2, <3>3, PushType
  <2> QED BY <2>1, <2>2
<1>8. CASE BlockchainContext
  <2>1. Context[op] \in Int
    BY <1>8, AVMAssumption DEF BlockchainContext
  <2> QED BY <1>0, <1>8, <2>1, PushType DEF BlockchainContext
<1> QED BY <1>1, <1>2, <1>3, <1>4, <1>5, <1>6, <1>7, <1>8

(* The stack is extended with zeros.                                       *)
LEMMA ExtendedType ==
  ASSUME NEW s \in Seq(Int), NEW i \in Nat
  PROVE  Extended(s, i) \in Seq(Int) /\ i + 1 \in 1 .. Len(Extended(s, i))
<1> DEFINE n == IF Len(s) > i THEN Len(s) ELSE i + 1
<1>1. n \in Nat /\ i + 1 \in 1 .. n /\ Len(s) <= n
  BY SMT
<1>2. Extended(s, i) = [m \in 1 .. n |-> IF m <= Len(s) THEN s[m] ELSE 0]
  BY DEF Extended
<1> HIDE DEF n
<1>3. ASSUME NEW m \in 1 .. n PROVE (IF m <= Len(s) THEN s[m] ELSE 0) \in Int
  BY <1>1, SMT
<1>4. Extended(s, i) \in [1 .. n -> Int]
  BY <1>2, <1>3
<1> QED BY <1>1, <1>4, SMT

(* Jumps, calls and locals.                                                *)
LEMMA ControlTypes ==
  ASSUME MachineOK,
         Jump \/ JumpC \/ Call \/ Return \/ Unimplemented \/ LoadLocal \/ StoreLocal
  PROVE  MachineOK'
<1>0. /\ stack \in Seq(Int) /\ Size \in Nat /\ StoreOK /\ FramesOK /\ StatusOK
      /\ Size # 0 => Rest(1) \in Seq(Int) /\ Top(1) \in Int
      /\ ~(Size < 2) => Rest(2) \in Seq(Int) /\ Top(1) \in Int /\ Top(2) \in Int
  BY PopType, SMT DEF MachineOK
<1>1. Size # 0 => Target \in Int /\ Slot \in Int
  <2> SUFFICES ASSUME Size # 0 PROVE Target \in Int /\ Slot \in Int
    OBVIOUS
  <2>1. Uint64(Top(1)) \in Int
    BY <1>0, NumberTypes, SMT
  <2>2. ToInt(Uint64(Top(1))) \in Int
    BY <2>1, NumberTypes
  <2> QED BY <1>0, <2>2, SMT DEF Target, Slot, FramesOK
<1>2. CASE Jump \/ JumpC
  <2>1. CASE Fail
    BY <2>1, FailType
  <2>2. CASE ~Fail
    <3>1. /\ stack' = Rest(1) \/ (~(Size < 2) /\ stack' = Rest(2))
          /\ Size # 0 /\ (IC' = Target \/ IC' = IC + 1) /\ UNCHANGED <<store, frames, status>>
      BY <1>0, <1>2, <2>2, SMT DEF Jump, JumpC
    <3>2. stack' \in Seq(Int)
      BY <1>0, <3>1
    <3>3. FramesOK' /\ StatusOK'
      BY <1>0, <1>1, <3>1, SMT DEF FramesOK, StatusOK, frames
    <3>4. StoreOK'
      BY <1>0, <3>1, StoreStays
    <3> QED BY <3>2, <3>3, <3>4 DEF MachineOK
  <2> QED BY <2>1, <2>2
<1>3. CASE Call
  <2>1. CASE Fail
    BY <2>1, FailType
  <2>2. CASE ~Fail
    <3>1. /\ Size # 0
          /\ FrameStack' = Append(FrameStack, FramePointer) /\ FramePointer' = Size - 1 - 2
          /\ ReturnStack' = Append(ReturnStack, IC + 1) /\ IC' = Target
          /\ stack' = Rest(1) /\ UNCHANGED <<store, status>>
      BY <1>3, <2>2 DEF Call
    <3>2. FramesOK'
      BY <1>0, <1>1, <3>1, SMT DEF FramesOK
    <3>3. StoreOK' /\ StatusOK'
      BY <1>0, <3>1, StoreStays DEF StatusOK
    <3> QED BY <1>0, <3>1, <3>2, <3>3 DEF MachineOK
  <2> QED BY <2>1, <2>2
<1>4. CASE Return
  <2>1. CASE Fail
    BY <2>1, FailType
  <2>2. CASE ~Fail
    <3> DEFINE s == Rest(IF Size > 3 THEN 3 ELSE Size)
    <3>1. /\ Size # 0 /\ ReturnStack # <<>>
          /\ stack' = Append(s, Top(1))
          /\ FramePointer' = FrameStack[Len(FrameStack)]
          /\ FrameStack' = Front(FrameStack)
          /\ ReturnStack' = Front(ReturnStack)
          /\ IC' = ReturnStack[Len(ReturnStack)]
          /\ UNCHANGED <<store, status>>
      BY <1>4, <2>2 DEF Return
    <3>2. s \in Seq(Int)
      <4>1. (IF Size > 3 THEN 3 ELSE Size) \in 0 .. Size
        BY <1>0, SMT
      <4> QED BY <4>1, PopType
    <3>3. stack' \in Seq(Int)
      <4> HIDE DEF s
      <4> QED BY <1>0, <3>1, <3>2, SMT
    <3>4. FramesOK'
      BY <1>0, <3>1, SMT DEF FramesOK, Front
    <3>5. StoreOK' /\ StatusOK'
      BY <1>0, <3>1, StoreStays DEF StatusOK
    <3> QED BY <3>3, <3>4, <3>5 DEF MachineOK
  <2> QED BY <2>1, <2>2
<1>5. CASE Unimplemented
  BY <1>5, FailType DEF Unimplemented
<1>6. CASE LoadLocal
  <2>1. CASE Size = 0 \/ Slot < 0
    BY <1>6, <2>1, FailType DEF LoadLocal
  <2>2. CASE ~(Size = 0 \/ Slot < 0)
    <3> DEFINE s == Extended(Rest(1), Slot)
    <3>1. Slot \in Nat /\ Rest(1) \in Seq(Int)
      BY <1>0, <1>1, <2>2, SMT
    <3>2. s \in Seq(Int) /\ Slot + 1 \in 1 .. Len(s)
      BY <3>1, ExtendedType
    <3>3. Pushes(s, s[Slot + 1])
      BY <1>6, <2>2 DEF LoadLocal
    <3> HIDE DEF s
    <3>4. s[Slot + 1] \in Int
      BY <3>2, SMT
    <3> QED BY <3>2, <3>3, <3>4, PushType
  <2> QED BY <2>1, <2>2
<1>7. CASE StoreLocal
  <2>1. CASE Size < 2 \/ Slot < 0
    BY <1>7, <2>1, FailType DEF StoreLocal
  <2>2. CASE ~(Size < 2 \/ Slot < 0)
    <3> DEFINE s == Extended(Rest(2), Slot)
    <3>1. Slot \in Nat /\ Rest(2) \in Seq(Int) /\ Top(2) \in Int
      BY <1>0, <1>1, <2>2, SMT
    <3>2. s \in Seq(Int) /\ Slot + 1 \in 1 .. Len(s)
      BY <3>1, ExtendedType
    <3>3. stack' = [s EXCEPT ![Slot + 1] = Top(2)] /\ Continue /\ UNCHANGED store
      BY <1>7, <2>2 DEF StoreLocal
    <3> HIDE DEF s
    <3>4. stack' \in Seq(Int)
      BY <3>1, <3>2, <3>3, SMT
    <3> QED BY <1>0, <3>3, <3>4, StoreStays, ContinueType
  <2> QED BY <2>1, <2>2
<1> QED BY <1>2, <1>3, <1>4, <1>5, <1>6, <1>7

(* What the operands of an instruction address.                            *)
LEMMA OperandTypes ==
  ASSUME MachineOK, NEW n \in 1 .. Size
  PROVE  /\ Top(n) \in Int /\ Uint64(Top(n)) \in Nat /\ BigInt64(Top(n)) \in Int
         /\ readStringFromMemory(Uint64(Top(n))) \in Seq(Bytes)
         /\ Key(Uint64(Top(n))) \in Seq(Bytes)
         /\ InMemory(Uint64(Top(n))) => BytesAt(Uint64(Top(n))) \in Seq(Bytes)
         /\ InBounds(Uint64(Top(n))) => Uint64(Top(n)) \in DOMAIN memory /\ memory[Uint64(Top(n))] \in Int
<1> DEFINE a == Uint64(Top(n))
<1>1. Top(n) \in Int
  BY PopType
<1>2. a \in Nat /\ BigInt64(Top(n)) \in Int
  BY <1>1, NumberTypes
<1>3. MemoryOK
  BY DEF MachineOK, StoreOK
<1> HIDE DEF a
<1>4. readStringFromMemory(a) \in Seq(Bytes) /\ (InMemory(a) => BytesAt(a) \in Seq(Bytes))
  BY <1>2, <1>3, ReadType
<1>5. Decimal(a) \in Seq(Bytes)
  BY <1>2, DecimalType, SMT
<1>6. Key(a) \in Seq(Bytes)
  BY <1>4, <1>5 DEF Key
<1>7. InBounds(a) => a \in DOMAIN memory /\ memory[a] \in Int
  BY <1>2, <1>3, Sizes, SMT DEF InBounds, MemoryOK
<1> QED BY <1>1, <1>2, <1>4, <1>6, <1>7 DEF a

(* Memory and storage.                                                     *)
LEMMA MemoryTypes ==
  ASSUME MachineOK, Eq \/ MStore \/ MLoad \/ StrLen \/ PStore \/ PLoad
  PROVE  MachineOK'
<1>0. /\ stack \in Seq(Int) /\ Size \in Nat /\ StoreOK
      /\ Size # 0 => Rest(1) \in Seq(Int) /\ Top(1) \in Int /\ 1 \in 1 .. Size
      /\ ~(Size < 2) => /\ Rest(2) \in Seq(Int) /\ Top(1) \in Int /\ Top(2) \in Int
                        /\ 1 \in 1 .. Size /\ 2 \in 1 .. Size
  BY PopType, SMT DEF MachineOK
<1>1. CASE Eq
  <2>1. CASE Fail \/ Panic
    BY <2>1, FailType
  <2>2. CASE ~(Fail \/ Panic)
    <3> DEFINE p == LET a == Uint64(Top(1))  b == Uint64(Top(2))
                        s == readStringFromMemory(a)  t == readStringFromMemory(b)
                    IN  IF s # <<>> /\ t # <<>> THEN s = t ELSE Top(1) = Top(2)
    <3>1. ~(Size < 2) /\ Pushes(Rest(2), Truth(p))
      BY <1>1, <2>2 DEF Eq
    <3> HIDE DEF p
    <3>2. Truth(p) \in Int
      BY TruthType
    <3> QED BY <1>0, <3>1, <3>2, PushType
  <2> QED BY <2>1, <2>2
<1>2. CASE MLoad \/ StrLen
  <2>1. CASE Size = 0 \/ ~InBounds(Uint64(Top(1)))
    BY <1>2, <2>1, FailType DEF MLoad, StrLen
  <2>2. CASE ~(Size = 0 \/ ~InBounds(Uint64(Top(1))))
    <3>1. Pushes(Rest(1), memory[Uint64(Top(1))])
      BY <1>2, <2>2 DEF MLoad, StrLen
    <3>2. memory[Uint64(Top(1))] \in Int
      BY <1>0, <2>2, OperandTypes
    <3> QED BY <1>0, <2>2, <3>1, <3>2, PushType
  <2> QED BY <2>1, <2>2
<1>3. CASE MStore
  <2>1. CASE Size < 2 \/ ~InBounds(Uint64(Top(1)))
    BY <1>3, <2>1, FailType DEF MStore
  <2>2. CASE ~(Size < 2 \/ ~InBounds(Uint64(Top(1))))
    <3>1. /\ memory' = [memory EXCEPT ![Uint64(Top(1))] = Top(2)]
          /\ stack' = Rest(2)
          /\ Continue /\ UNCHANGED <<NextMemoryAddr, Persistent>>
      BY <1>3, <2>2 DEF MStore
    <3>2. MemoryOK'
      BY <1>0, <2>2, <3>1 DEF StoreOK, MemoryOK
    <3>3. StoreOK'
      BY <1>0, <3>1, <3>2 DEF StoreOK
    <3> QED BY <1>0, <2>2, <3>1, <3>3, ContinueType
  <2> QED BY <2>1, <2>2
<1>4. CASE PStore
  <2>1. CASE Fail \/ Panic
    BY <2>1, FailType
  <2>2. CASE ~(Fail \/ Panic)
    <3> DEFINE s == readStringFromMemory(Uint64(Top(2)))
               value == IF s # <<>> THEN s ELSE Decimal(Top(2))
               key == Key(Uint64(Top(1)))
    <3>1. /\ ~(Size < 2)
          /\ Persistent' = [k \in DOMAIN Persistent \cup {key} |-> IF k = key THEN value ELSE Persistent[k]]
          /\ stack' = Rest(2)
          /\ Continue /\ UNCHANGED <<memory, NextMemoryAddr>>
      BY <1>4, <2>2 DEF PStore
    <3>2. s \in Seq(Bytes)
      BY <1>0, <3>1, OperandTypes
    <3>3. Decimal(Top(2)) \in Seq(Bytes)
      BY <1>0, <3>1, DecimalType
    <3> HIDE DEF s
    <3>4. value \in Seq(Bytes)
      BY <3>2, <3>3
    <3> HIDE DEF value, key
    <3>5. \A k \in DOMAIN Persistent' : Persistent'[k] \in Seq(Bytes)
      BY <1>0, <3>1, <3>4 DEF StoreOK
    <3>6. StoreOK'
      BY <1>0, <3>1, <3>5 DEF StoreOK, MemoryOK
    <3> QED BY <1>0, <3>1, <3>6, ContinueType
  <2> QED BY <2>1, <2>2
<1>5. CASE PLoad
  <2>1. CASE Fail \/ Panic
    BY <2>1, FailType
  <2>2. CASE ~(Fail \/ Panic)
    <3> DEFINE key == Key(Uint64(Top(1)))
               value == IF key \in DOMAIN Persistent THEN Persistent[key] ELSE <<>>
    <3>1. Size # 0 /\ PushesString(Rest(1), value)
      BY <1>5, <2>2 DEF PLoad
    <3>2. <<>> \in Seq(Bytes)
      BY SMT
    <3> HIDE DEF key
    <3>3. value \in Seq(Bytes)
      BY <1>0, <3>2 DEF StoreOK
    <3> HIDE DEF value
    <3> QED BY <1>0, <3>1, <3>3, PushType
  <2> QED BY <2>1, <2>2
<1> QED BY <1>1, <1>2, <1>3, <1>4, <1>5

(* Strings.                                                                *)
LEMMA StringTypes ==
  ASSUME MachineOK, IsTask(task),
         StrConcat \/ EmitStr \/ StrIndex \/ StrSlice \/ StrToInt \/ IntToStr \/ TsxData
  PROVE  MachineOK'
<1>0. /\ stack \in Seq(Int) /\ Size \in Nat /\ StoreOK
      /\ Size # 0 => Rest(1) \in Seq(Int) /\ 1 \in 1 .. Size
      /\ ~(Size < 2) => Rest(2) \in Seq(Int) /\ 1 \in 1 .. Size /\ 2 \in 1 .. Size
      /\ ~(Size < 3) => Rest(3) \in Seq(Int) /\ 1 \in 1 .. Size /\ 2 \in 1 .. Size /\ 3 \in 1 .. Size
  <2>1. Size \in Nat
    BY PopType
  <2>2. /\ Size # 0 => 1 \in 0 .. Size /\ 1 \in 1 .. Size
        /\ ~(Size < 2) => 1 \in 1 .. Size /\ 2 \in 1 .. Size
        /\ ~(Size < 3) => 1 \in 1 .. Size /\ 2 \in 1 .. Size /\ 3 \in 1 .. Size
    BY <2>1, SMT
  <2>3. stack \in Seq(Int) /\ StoreOK
    BY DEF MachineOK
  <2> HIDE DEF MachineOK
  <2>4. Size # 0 => Rest(1) \in Seq(Int)
    BY <2>2, PopType
  <2>5. (~(Size < 2) => Rest(2) \in Seq(Int)) /\ (~(Size < 3) => Rest(3) \in Seq(Int))
    BY PopType
  <2> QED BY <2>1, <2>2, <2>3, <2>4, <2>5
<1>1. CASE Fail \/ Panic
  BY <1>1, FailType
<1>2. CASE StrConcat /\ ~(Fail \/ Panic)
  <2> DEFINE a == Uint64(Top(2))
             b == Uint64(Top(1))
             r == BytesAt(a) \o BytesAt(b)
             stores == NextMemoryAddr + Chunks(Len(r)) < MaxMemory
  <2>1. ~(Size < 2)
    BY <1>2 DEF StrConcat
  <2>2. \/ /\ InMemory(a) /\ InMemory(b)
           /\ memory' = WithString(NextMemoryAddr, r)
           /\ NextMemoryAddr' = IF stores THEN NextMemoryAddr + 1 + Chunks(Len(r)) ELSE NextMemoryAddr
           /\ stack' = IF stores /\ Room(Rest(2)) THEN Append(Rest(2), ToInt(NextMemoryAddr)) ELSE Rest(2)
           /\ Continue /\ UNCHANGED Persistent
        \/ (stack' = Rest(2) /\ Continue /\ UNCHANGED store)
    BY <1>2, <2>1 DEF StrConcat
  <2>3. CASE stack' = Rest(2) /\ Continue /\ UNCHANGED store
    BY <1>0, <2>1, <2>3, StoreStays, ContinueType
  <2>4. CASE /\ InMemory(a) /\ InMemory(b)
             /\ memory' = WithString(NextMemoryAddr, r)
             /\ NextMemoryAddr' = IF stores THEN NextMemoryAddr + 1 + Chunks(Len(r)) ELSE NextMemoryAddr
             /\ stack' = IF stores /\ Room(Rest(2)) THEN Append(Rest(2), ToInt(NextMemoryAddr)) ELSE Rest(2)
             /\ Continue /\ UNCHANGED Persistent
    <3>1. BytesAt(a) \in Seq(Bytes) /\ BytesAt(b) \in Seq(Bytes)
      BY <1>0, <2>1, <2>4, OperandTypes
    <3>2. r \in Seq(Bytes)
      BY <3>1, SMT
    <3> HIDE DEF r
    <3>3. MemoryOK /\ NextMemoryAddr \in Nat /\ NextMemoryAddr \in Int
      BY <1>0, SMT DEF StoreOK
    <3>4. MemoryOK'
      BY <2>4, <3>2, <3>3, WithStringType
    <3>5. Len(r) \in Nat /\ Chunks(Len(r)) \in Nat
      BY <3>2, ChunksFit, SMT
    <3>6. ToInt(NextMemoryAddr) \in Int
      BY <3>3, NumberTypes
    <3>7. stack' \in Seq(Int)
      <4>1. Append(Rest(2), ToInt(NextMemoryAddr)) \in Seq(Int)
        BY <1>0, <2>1, <3>6, SMT
      <4> QED BY <1>0, <2>1, <2>4, <4>1
    <3>8. NextMemoryAddr' \in Nat /\ NextMemoryAddr' >= FirstAddr
      <4>1. NextMemoryAddr >= FirstAddr
        BY <1>0 DEF StoreOK
      <4> HIDE DEF stores
      <4> QED BY <2>4, <3>3, <3>5, <4>1, Sizes, SMT
    <3>9. StoreOK'
      BY <1>0, <2>4, <3>4, <3>8 DEF StoreOK
    <3> QED BY <2>4, <3>7, <3>9, ContinueType
  <2> QED BY <2>2, <2>3, <2>4
<1>3. CASE EmitStr /\ ~(Fail \/ Panic)
  <2>1. Size # 0 /\ stack' = Rest(1) /\ Continue /\ UNCHANGED store
    BY <1>3 DEF EmitStr
  <2> QED BY <1>0, <2>1, StoreStays, ContinueType
<1>4. CASE StrIndex /\ ~(Fail \/ Panic)
  <2> DEFINE i == BigInt64(Top(1))
             s == readStringFromMemory(Uint64(Top(2)))
  <2>1. ~(Size < 2) /\ ~(i < 0 \/ i >= Len(s)) /\ PushesString(Rest(2), Utf8[s[i + 1]])
    BY <1>4 DEF StrIndex
  <2>2. s \in Seq(Bytes) /\ i \in Int
    BY <1>0, <2>1, OperandTypes
  <2> HIDE DEF s, i
  <2>3. s[i + 1] \in Bytes
    BY <2>1, <2>2, SMT
  <2>4. Utf8[s[i + 1]] \in Seq(Bytes)
    BY <2>3, AVMAssumption
  <2> QED BY <1>0, <2>1, <2>4, PushType
<1>5. CASE StrSlice /\ ~(Fail \/ Panic)
  <2> DEFINE s == readStringFromMemory(Uint64(Top(3)))
             from == BigInt64(Top(2))
             to == IF BigInt64(Top(1)) = ToEnd THEN Len(s) ELSE BigInt64(Top(1))
  <2>1. /\ ~(Size < 3) /\ ~(from < 0 \/ from > Len(s) \/ to < from \/ to > Len(s))
        /\ PushesString(Rest(3), SubSeq(s, from + 1, to))
    BY <1>5 DEF StrSlice
  <2>2. s \in Seq(Bytes) /\ from \in Int /\ BigInt64(Top(1)) \in Int
    BY <1>0, <2>1, OperandTypes
  <2> HIDE DEF s, from
  <2>3. to \in Int
    BY <2>2, SMT
  <2> HIDE DEF to
  <2>4. SubSeq(s, from + 1, to) \in Seq(Bytes)
    BY <2>1, <2>2, <2>3, SMT
  <2> QED BY <1>0, <2>1, <2>4, PushType
<1>6. CASE StrToInt /\ ~(Fail \/ Panic)
  <2> DEFINE s == readStringFromMemory(Uint64(Top(1)))
  <2>1. Size # 0 /\ Pushes(Rest(1), ParseInt(s))
    BY <1>6 DEF StrToInt
  <2>2. s \in Seq(Bytes)
    BY <1>0, <2>1, OperandTypes
  <2> HIDE DEF s
  <2>3. ParseInt(s) \in Int
    BY <2>2, ParseType
  <2> QED BY <1>0, <2>1, <2>3, PushType
<1>7. CASE IntToStr /\ ~(Fail \/ Panic)
  <2>1. Size # 0 /\ PushesString(Rest(1), Decimal(BigInt64(Top(1))))
    BY <1>7 DEF IntToStr
  <2>2. BigInt64(Top(1)) \in Int
    BY <1>0, <2>1, OperandTypes
  <2>3. Decimal(BigInt64(Top(1))) \in Seq(Bytes)
    BY <2>2, DecimalType
  <2> QED BY <1>0, <2>1, <2>3, PushType
<1>8. CASE TsxData
  <2>1. task.data \in Seq(Bytes)
    BY DEF IsTask
  <2> QED BY <1>0, <1>8, <2>1, PushType DEF TsxData
<1> QED BY <1>1, <1>2, <1>3, <1>4, <1>5, <1>6, <1>7, <1>8

(* The type invariant, with the frames in step and the gas accounted for.  *)
AvmInv == GasInv /\ MachineOK

(* A run starts with an empty machine.                                     *)
LEMMA AvmInitially == Init => AvmInv
<1> SUFFICES ASSUME Init PROVE AvmInv
  OBVIOUS
<1>1. PICK i \in DOMAIN Tasks : task \in Tasks[i]
  BY DEF Init
<1>2. IsTask(task)
  BY <1>1, AVMAssumption
<1>3. GasInv
  BY <1>1, <1>2, SMT DEF Init, GasInv, GasAccounted, IsTask
<1>4. StoreOK
  BY <1>2, Sizes, SMT DEF Init, StoreOK, MemoryOK, IsTask
<1>5. stack \in Seq(Int) /\ FramesOK /\ StatusOK
  BY <1>2, SMT DEF Init, FramesOK, StatusOK, IsTask
<1> QED BY <1>3, <1>4, <1>5 DEF AvmInv, MachineOK

(* Every instruction leaves a machine of the right types.                  *)
LEMMA AvmInductive == AvmInv /\ [Next]_avmVars => AvmInv'
<1> SUFFICES ASSUME AvmInv, [Next]_avmVars PROVE AvmInv'
  OBVIOUS
<1>1. GasInv'
  BY GasInductive DEF AvmInv
<1> SUFFICES MachineOK'
  BY <1>1 DEF AvmInv
<1>2. MachineOK
  BY DEF AvmInv
<1>3. CASE UNCHANGED avmVars
  BY <1>2, <1>3 DEF MachineOK, StoreOK, MemoryOK, FramesOK, StatusOK, avmVars, store, frames
<1>4. CASE Ends("error") \/ Ends("stopped") \/ Ends("done") \/ Ends("panic")
  BY <1>2, <1>4, EndsType
<1>5. CASE ExecuteInstruction /\ Execute
  <2>1. Operation /\ 0 <= IC /\ IC < Len(task.program)
    BY <1>5 DEF ExecuteInstruction, Execute
  <2>2. IsTask(task)
    BY AVMAssumption DEF AvmInv, GasInv
  <2>3. \/ Noop \/ Push \/ Pop \/ Dup \/ Swap \/ Binary \/ IsZero \/ Emit \/ Balance \/ BlockchainContext
        \/ Jump \/ JumpC \/ Call \/ Return \/ Unimplemented \/ LoadLocal \/ StoreLocal
        \/ Eq \/ MStore \/ MLoad \/ StrLen \/ PStore \/ PLoad
        \/ StrConcat \/ EmitStr \/ StrIndex \/ StrSlice \/ StrToInt \/ IntToStr \/ TsxData
    BY <2>1 DEF Operation
  <2>4. CASE Noop \/ Push \/ Pop \/ Dup \/ Swap \/ Binary \/ IsZero \/ Emit \/ Balance \/ BlockchainContext
    BY <1>2, <2>1, <2>2, <2>4, StackTypes
  <2>5. CASE Jump \/ JumpC \/ Call \/ Return \/ Unimplemented \/ LoadLocal \/ StoreLocal
    BY <1>2, <2>5, ControlTypes
  <2>6. CASE Eq \/ MStore \/ MLoad \/ StrLen \/ PStore \/ PLoad
    BY <1>2, <2>6, MemoryTypes
  <2>7. CASE StrConcat \/ EmitStr \/ StrIndex \/ StrSlice \/ StrToInt \/ IntToStr \/ TsxData
    BY <1>2, <2>2, <2>7, StringTypes
  <2> QED BY <2>3, <2>4, <2>5, <2>6, <2>7
<1>6. \/ UNCHANGED avmVars \/ Ends("error") \/ Ends("stopped") \/ Ends("done") \/ Ends("panic")
      \/ (ExecuteInstruction /\ Execute)
  BY DEF Next, ExecuteInstruction, Finish, OutOfRange, Refused, Stop, Fail, Panic
<1> QED BY <1>3, <1>4, <1>5, <1>6

(* Whatever a program does, the stack holds numbers, every slot of memory  *)
(* is there and holds one, and storage holds strings.                      *)
THEOREM AvmTypeCorrect == Spec => []AvmTypeOK
<1>1. AvmInv => AvmTypeOK
  BY DEF AvmInv, GasInv, MachineOK, StoreOK, MemoryOK, FramesOK, StatusOK, AvmTypeOK
<1> QED BY <1>1, AvmInitially, AvmInductive, PTL DEF Spec

-----------------------------------------------------------------------------
(* Only MSTORE and new strings change the memory.                          *)
LEMMA MemoryChanges ==
  ASSUME Operation
  PROVE  memory' = memory \/ op = "MSTORE" \/ \E s : memory' = WithString(NextMemoryAddr, s)
BY DEF Operation, Noop, Push, Pop, Dup, Swap, Binary, Eq, IsZero, Jump, JumpC, MStore,
    MLoad, PStore, PLoad, LoadLocal, StoreLocal, Call, Return, Emit, StrConcat, StrLen, EmitStr,
    StrIndex, StrSlice, StrToInt, IntToStr, Balance, BlockchainContext, TsxData, Unimplemented,
    Pushes, PushesString, storeStringInMemory, Fail, Panic, Ends, store

(* A string that was stored, or a literal, stays as it is however many     *)
(* strings are made after it: only MSTORE writes below NextMemoryAddr.     *)
THEOREM StringsAreStable == Spec => StringsStable
<1> DEFINE Stable == \A a \in DOMAIN memory :
                       a < NextMemoryAddr /\ memory'[a] # memory[a] => op = "MSTORE"
<1>1. AvmInv /\ [Next]_avmVars => [Stable]_avmVars
  <2> SUFFICES ASSUME AvmInv, Next, NEW a \in DOMAIN memory,
                      a < NextMemoryAddr, memory'[a] # memory[a]
               PROVE  op = "MSTORE"
    OBVIOUS
  <2>1. Execute
    BY DEF Next, ExecuteInstruction, Finish, OutOfRange, Refused, Stop, Fail, Panic, Ends, store
  <2>2. CASE \E s : memory' = WithString(NextMemoryAddr, s)
    <3>1. PICK s : memory' = WithString(NextMemoryAddr, s)
      BY <2>2
    <3>2. a \in Nat /\ NextMemoryAddr \in Nat
      BY Sizes, SMT DEF AvmInv, MachineOK, StoreOK, MemoryOK
    <3>3. a # NextMemoryAddr /\ a \notin NextMemoryAddr + 1 .. NextMemoryAddr + Chunks(Len(s))
      BY <3>2, SMT
    <3> QED BY <3>1, <3>3 DEF WithString
  <2> QED BY <2>1, <2>2, MemoryChanges DEF Execute
<1> QED BY <1>1, AvmInitially, AvmInductive, PTL DEF Spec, StringsStable

(* A string that fits into the memory reads back as it was stored.         *)
LEMMA StoredReadsBack ==
  ASSUME MachineOK, NEW s \in Seq(Int), NEW str \in Seq(Bytes), PushesString(s, str),
         NextMemoryAddr' # NextMemoryAddr, NextMemoryAddr' <= MaxMemory
  PROVE  readStringFromMemory(stack[Len(stack)])' = str
<1> DEFINE N == NextMemoryAddr
           L == Len(str)
           D == Chunks(L)
<1>1. /\ memory' = WithString(N, str) /\ NextMemoryAddr' = N + 1 + D
      /\ stack' = Append(s, ToInt(N))
  BY DEF PushesString, Fail, Ends, store, storeStringInMemory
<1>2. /\ N \in Nat /\ N >= FirstAddr /\ L \in Nat /\ D \in Nat /\ L <= Chunk * D
      /\ DOMAIN memory = 0 .. MaxMemory - 1
  BY ChunksFit, SMT DEF MachineOK, StoreOK, MemoryOK
<1> HIDE DEF N, L, D
<1>3. N < MaxMemory /\ N + D < MaxMemory
  BY <1>1, <1>2, Sizes, SMT
<1>4. stack'[Len(stack')] = N
  <2>1. ToInt(N) = N
    BY <1>2, <1>3, AddressesSurvive
  <2> QED BY <1>1, <2>1, SMT
<1>5. L <= MaxString /\ L < Int64
  <2> DEFINE room == MaxMemory - FirstAddr
  <2>1. room \in Nat /\ D < room
    BY <1>2, <1>3, Sizes, SMT
  <2>2. Chunk * room <= MaxString /\ MaxString < Int64
    BY AVMAssumption
  <2> HIDE DEF room
  <2>3. Chunk * D \in Nat /\ Chunk * room \in Nat /\ Chunk * D + Chunk <= Chunk * room
    BY <1>2, <2>1, Sizes, ProductStep
  <2> QED BY <1>2, <2>2, <2>3, Sizes, SMT
<1>6. memory'[N] = L
  BY <1>1, <1>2, <1>3, Sizes, SMT DEF WithString, L
<1>7. Uint64(memory'[N]) = L
  BY <1>2, <1>5, <1>6, Sizes, SMT DEF Uint64, Abs
<1>8. ASSUME NEW n \in 1 .. L
      PROVE  ByteOf(memory'[N + 1 + ((n - 1) \div Chunk)], 1 + ((n - 1) % Chunk)) = str[n]
  <2> DEFINE q == (n - 1) \div Chunk
             j == 1 + ((n - 1) % Chunk)
  <2>1. q \in Nat /\ q < D /\ j \in 1 .. Chunk /\ q * Chunk + j = n
    BY <1>2, ChunksFit DEF D
  <2> HIDE DEF q, j
  <2> DEFINE x == N + 1 + q
  <2>2. x \in 0 .. MaxMemory - 1 /\ x # N /\ x \in N + 1 .. N + D /\ x - N - 1 = q
    BY <1>2, <1>3, <2>1, Sizes, SMT
  <2> HIDE DEF x
  <2>3. memory'[x] = ChunkOf(str, x - N - 1)
    BY <1>1, <1>2, <2>2 DEF WithString, D, L
  <2>4. memory'[N + 1 + q] = ChunkOf(str, q)
    BY <2>2, <2>3 DEF x
  <2>5. ByteOf(ChunkOf(str, q), j) = Padded(str, q)[j]
    BY <2>1, ChunkRoundTrip
  <2>6. Padded(str, q)[j] = str[n]
    BY <2>1, SMT DEF Padded, L
  <2> QED BY <2>4, <2>5, <2>6 DEF q, j
<1>9. readStringFromMemory(stack[Len(stack)])' =
        [n \in 1 .. L |-> ByteOf(memory'[N + 1 + ((n - 1) \div Chunk)], 1 + ((n - 1) % Chunk))]
  BY <1>3, <1>4, <1>5, <1>7 DEF readStringFromMemory, InMemory, Length, BytesAt, D
<1>10. readStringFromMemory(stack[Len(stack)])' = [n \in 1 .. L |-> str[n]]
  BY <1>8, <1>9
<1> QED BY <1>10, SMT DEF L

(* The instructions that make strings.                                     *)
LEMMA NewStrings ==
  ASSUME Operation, NextMemoryAddr' # NextMemoryAddr
  PROVE  TsxData \/ IntToStr \/ PLoad \/ op \in {"STRCONCAT", "STRINDEX", "STRSLICE"}
BY DEF Operation, Noop, Push, Pop, Dup, Swap, Binary, Eq, IsZero, Jump, JumpC, MStore,
    MLoad, PStore, LoadLocal, StoreLocal, Call, Return, Emit, StrConcat, StrLen, EmitStr,
    StrIndex, StrSlice, StrToInt, Balance, BlockchainContext, Unimplemented,
    Pushes, Fail, Panic, Ends, store

(* PLOAD reads back what PSTORE stored, TSXDATA the transaction's data and *)
(* INTTOSTR the digits of its number, byte for byte, as long as the memory *)
(* has room.                                                               *)
THEOREM StringsReadBack == Spec => ReadsBack
<1> DEFINE Back ==
      /\ NextMemoryAddr' # NextMemoryAddr /\ NextMemoryAddr' <= MaxMemory
      /\ op \in {"TSXDATA", "INTTOSTR", "PLOAD"}
      /\ op = "PLOAD" => Key(Uint64(Top(1))) \in DOMAIN Persistent
      => readStringFromMemory(stack[Len(stack)])' = NewString
<1>1. AvmInv /\ [Next]_avmVars => [Back]_avmVars
  <2> SUFFICES ASSUME AvmInv, Next,
                      NextMemoryAddr' # NextMemoryAddr, NextMemoryAddr' <= MaxMemory,
                      op \in {"TSXDATA", "INTTOSTR", "PLOAD"},
                      op = "PLOAD" => Key(Uint64(Top(1))) \in DOMAIN Persistent
               PROVE  readStringFromMemory(stack[Len(stack)])' = NewString
    OBVIOUS
  <2>1. Execute /\ MachineOK /\ IsTask(task)
    BY AVMAssumption
    DEF Next, ExecuteInstruction, Finish, OutOfRange, Refused, Stop, Fail, Panic, Ends, store, AvmInv, GasInv
  <2>2. /\ Size \in Nat /\ stack \in Seq(Int)
        /\ Size # 0 => Rest(1) \in Seq(Int) /\ Top(1) \in Int /\ 1 \in 1 .. Size
    BY <2>1, PopType, SMT DEF MachineOK
  <2>3. ~Fail /\ ~Panic
    BY DEF Fail, Panic, Ends, store
  <2>4. CASE op = "TSXDATA"
    <3>1. TsxData
      BY <2>1, <2>4, NewStrings DEF Execute, IntToStr, PLoad
    <3>2. PushesString(stack, task.data) /\ task.data \in Seq(Bytes) /\ NewString = task.data
      BY <2>1, <2>4, <3>1 DEF TsxData, IsTask, NewString
    <3> QED BY <2>1, <2>2, <3>2, StoredReadsBack
  <2>5. CASE op = "INTTOSTR"
    <3> DEFINE str == Decimal(BigInt64(Top(1)))
    <3>1. IntToStr
      BY <2>1, <2>5, NewStrings DEF Execute, TsxData, PLoad
    <3>2. Size # 0 /\ PushesString(Rest(1), str) /\ NewString = str
      BY <2>3, <2>5, <3>1 DEF IntToStr, NewString
    <3>3. BigInt64(Top(1)) \in Int
      BY <2>1, <2>2, <3>2, OperandTypes
    <3>4. str \in Seq(Bytes)
      BY <3>3, DecimalType
    <3> HIDE DEF str
    <3> QED BY <2>1, <2>2, <3>2, <3>4, StoredReadsBack
  <2>6. CASE op = "PLOAD"
    <3> DEFINE str == Persistent[Key(Uint64(Top(1)))]
    <3>1. PLoad
      BY <2>1, <2>6, NewStrings DEF Execute, TsxData, IntToStr
    <3>2. Size # 0 /\ PushesString(Rest(1), str) /\ NewString = str
      BY <2>3, <2>6, <3>1 DEF PLoad, NewString
    <3>3. str \in Seq(Bytes)
      BY <2>1, <2>6 DEF MachineOK, StoreOK
    <3> HIDE DEF str
    <3> QED BY <2>1, <2>2, <3>2, <3>3, StoredReadsBack
  <2> QED BY <2>4, <2>5, <2>6
<1> QED BY <1>1, AvmInitially, AvmInductive, PTL DEF Spec, ReadsBack
==============================================================================

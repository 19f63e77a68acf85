SPECIFICATION Spec
CONSTANTS
  Tasks <- MCTasks
  Word = 64
  Int64 = 32
  Base = 4
  Chunk = 3
  Radix = 2
  Minus = 2
  MaxStack = 3
  MaxMemory = 12
  FirstAddr = 3
  ToEnd = 7
  MaxString = 29
  MaxAlloc = 30
  Utf8 <- MCUtf8
  Context <- MCContext
  Opcodes <- MCOpcodes
CHECK_DEADLOCK FALSE
INVARIANT AvmTypeOK
INVARIANT GasAccounted
INVARIANT FramesMatch
PROPERTY StepsPay
PROPERTY StringsStable
PROPERTY ReadsBack
PROPERTY Terminates

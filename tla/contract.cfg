SPECIFICATION ContractSpecification
CONSTANTS
  Tasks <- NoTasks
  Sources <- MCSources
  Requests <- MCRequests
  Enough = 30000
  MaxCalls = 2
  Fuel = 12
  Word = 1024
  Int64 = 1024
  Base = 4
  Chunk = 3
  Radix = 2
  Minus = 2
  MaxStack = 16
  MaxMemory = 40
  FirstAddr = 12
  ToEnd = 500
  MaxString = 84
  MaxAlloc = 90
  Utf8 <- MCUtf8
  Context <- MCContext
  Opcodes <- MCOpcodes
CHECK_DEADLOCK FALSE
INVARIANT ParsesBack
 
INVARIANT LiteralsInMemory
 
 

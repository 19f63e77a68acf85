-------------------------------- MODULE MCAVM --------------------------------
(***************************************************************************)
(* All programs of a given length over four sets of instructions, on a     *)
(* machine with words of 6 bits, machine integers of 5, three bytes to a   *)
(* word and strings over 0, 1 (the digits), 2 (the minus sign) and 3 (a    *)
(* byte that is no character by itself).                                   *)
(***************************************************************************)
EXTENDS AVM, TLC

I(o) == [op |-> o, value |-> 0]
P(v) == [op |-> "PUSH", value |-> v]

MCOpcodes ==
  {"NOOP", "PC", "PUSH", "POP", "DUP", "SWAP", "ADD", "SUB", "MUL", "DIV", "MOD", "AND", "OR",
   "EQ", "LT", "GT", "ISZERO", "JUMP", "JUMPC", "MSTORE", "MLOAD", "PSTORE", "PLOAD",
   "LOAD_LOCAL", "STORE_LOCAL", "CALL", "RETURN", "STOP", "EMIT", "STRCONCAT", "STRLEN",
   "EMITSTR", "STRINDEX", "STRSLICE", "STRTOINT", "INTTOSTR", "CALLER", "BALANCE", "HEIGHT",
   "BLOCKHASH", "TSXDATA"}
MCContext == [o \in {"CALLER", "HEIGHT", "BLOCKHASH"} |-> IF o = "HEIGHT" THEN 1 ELSE 50]
MCUtf8 == [c \in 0 .. 3 |-> IF c = 3 THEN <<3, 3>> ELSE <<c>>]

Control == {P(0), P(1), P(2)} \cup {I(o) : o \in {"NOOP", "POP", "DUP", "JUMP", "JUMPC", "CALL", "RETURN", "STOP"}}
Strings == {P(1), P(3)} \cup {I(o) : o \in {"TSXDATA", "STRCONCAT", "STRLEN", "STRINDEX", "STRSLICE",
                                      "STRTOINT", "INTTOSTR", "EQ", "EMITSTR", "MSTORE", "MLOAD"}}
Storage == {P(2), P(5)} \cup {I(o) : o \in {"TSXDATA", "PSTORE", "PLOAD", "STRTOINT", "STRCONCAT"}}
Numbers == {P(-1), P(0), P(3), P(40), P(63)}
           \cup {I(o) : o \in {"ADD", "SUB", "MUL", "DIV", "MOD", "AND", "OR", "LT", "GT", "ISZERO", "SWAP",
                               "LOAD_LOCAL", "STORE_LOCAL", "EMIT", "CALL", "PC", "?", "BALANCE",
                               "CALLER", "HEIGHT", "BLOCKHASH"}}

(* Programs of length n over S, with data.                                 *)
Programs(S, n, limit, starts, data) ==
  [program : [1 .. n -> S], gas : {limit}, start : starts,
   stored : {<<2, 1>> :> <<1>>}, data : data]

MCTasks ==
  <<Programs(Control, 4, 40, {0, 2}, {<<>>}),
    Programs(Strings, 4, 190, {0}, {<<1, 0, 3, 1>>, <<2, 1>>}),
    Programs(Storage, 5, 3500, {0}, {<<2, 1>>}),
    Programs(Numbers, 3, 500, {0}, {<<>>})>>
==============================================================================

-------------------------------- MODULE Heap --------------------------------
(***************************************************************************)
(* The heap that the pool of pending transactions is served from: the      *)
(* order of GasPriceQueue (node/mempool.go) and the algorithms of          *)
(* container/heap on it, with slices counted from 1.  Everywhere at gives  *)
(* the times at which the entries were added.                              *)
(***************************************************************************)
EXTENDS Integers, Sequences, Functions

CONSTANTS
  Txs,        \* the transactions that exist
  GasPrice    \* the gas price of each

ASSUME HeapAssumption == GasPrice \in [Txs -> Nat]

Less(at, s, t) ==
  IF GasPrice[s] # GasPrice[t] THEN GasPrice[s] > GasPrice[t] ELSE at[s] < at[t]

Swap(q, i, j) == [q EXCEPT ![i] = q[j], ![j] = q[i]]

(* heap.up, on a slice of n elements.                                      *)
UpLoop(at, n) ==
  LET up[s \in [1 .. n -> Txs] \X (1 .. n)] ==
        LET q == s[1]  j == s[2]  i == j \div 2 IN
        IF j = 1 \/ ~Less(at, q[j], q[i]) THEN q ELSE up[<<Swap(q, i, j), i>>]
  IN  up
Up(at, q, j) == UpLoop(at, Len(q))[<<q, j>>]

(* heap.down, on the first n elements of a slice of len: j is the child    *)
(* that comes first.                                                       *)
FirstChild(at, q, i, n) ==
  IF 2 * i + 1 <= n /\ Less(at, q[2 * i + 1], q[2 * i]) THEN 2 * i + 1 ELSE 2 * i
DownLoop(at, len, n) ==
  LET down[s \in [1 .. len -> Txs] \X (1 .. len)] ==
        LET q == s[1]  i == s[2]  j == FirstChild(at, q, i, n) IN
        IF 2 * i > n \/ ~Less(at, q[j], q[i]) THEN q ELSE down[<<Swap(q, i, j), j>>]
  IN  down
Down(at, q, i, n) == DownLoop(at, Len(q), n)[<<q, i>>]

HeapPush(at, q, t) == Up(at, Append(q, t), Len(q) + 1)

(* GasPriceQueue.Pop: the slice without its last element.                  *)
Cut(q) == SubSeq(q, 1, Len(q) - 1)

(* heap.Pop: what remains; the element popped is q[1].                     *)
HeapPop(at, q) == Cut(Down(at, Swap(q, 1, Len(q)), 1, Len(q) - 1))

(* Mutant: the element is only moved down.                                 *)
HeapFixDown(at, q, i) == Down(at, q, i, Len(q))

HeapFix(at, q, i) ==
  LET d == Down(at, q, i, Len(q)) IN IF d # q THEN d ELSE Up(at, q, i)

(* heap.Init.                                                              *)
InitLoop(at, n) ==
  LET init[s \in [1 .. n -> Txs] \X (0 .. n)] ==
        IF s[2] = 0 THEN s[1] ELSE init[<<Down(at, s[1], s[2], n), s[2] - 1>>]
  IN  init
HeapInit(at, q) == InitLoop(at, Len(q))[<<q, Len(q) \div 2>>]

(* heap.Pop until the slice is empty or n elements have been served.       *)
PopLoop(at) ==
  LET pop[s \in Seq(Txs) \X Seq(Txs) \X Nat] ==
        LET served == s[1]  q == s[2]  n == s[3] IN
        IF n = 0 \/ q = <<>> THEN served
        ELSE pop[<<Append(served, q[1]), HeapPop(at, q), n - 1>>]
  IN  pop

(* No element comes before its parent in the slice.                        *)
HeapOrdered(at, q) == \A i \in 2 .. Len(q) : ~Less(at, q[i], q[i \div 2])
=============================================================================

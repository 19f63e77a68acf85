------------------------------- MODULE Mempool -------------------------------
(***************************************************************************)
(* The pool of pending transactions (node/mempool.go): a map from hash to  *)
(* entry and a binary heap of the same entries, ordered by gas price and   *)
(* then by age.  Every operation runs under mp.mu.  A transaction is       *)
(* identified with its hash and with its entry.                            *)
(***************************************************************************)
EXTENDS Integers, FiniteSets, Heap

CONSTANTS
  MaxSize,    \* config.MempoolMaxSize
  MaxExpiry,  \* config.MempoolMaxExpiry, in ticks of the clock
  MaxTime,    \* bounds the clock
  Removals    \* the sets of transactions that mined blocks take out

ASSUME MempoolAssumption ==
  /\ MaxSize \in Nat \ {0} /\ MaxExpiry \in Nat /\ MaxTime \in Nat
  /\ Removals \subseteq SUBSET Txs

VARIABLES
  transactions,   \* the hashes in the map
  queue,          \* the heap, as the slice that holds it
  addedAt,        \* MempoolEntry.AddedAt
  now             \* the clock

poolVars == <<transactions, queue, addedAt>>
mempoolVars == <<poolVars, now>>

PoolInit ==
  /\ transactions = {} /\ queue = <<>>
  /\ addedAt = [t \in Txs |-> 0]
  /\ now = 0

(* The entries of a Go map, in some order.                                 *)
Listings(S) == Bijection(1 .. Cardinality(S), S)

(* Mutant: the new slice is not made a heap.                               *)
rebuildUnordered(at, S) == Listings(S)

(* rebuildHeap appends the entries in the order of a Go map, which is any. *)
rebuildHeap(at, S) == {HeapInit(at, q) : q \in Listings(S)}

(***************************************************************************)
(* Operations.                                                             *)
(***************************************************************************)
Full == Cardinality(transactions) >= MaxSize

(* Mutant: an equal price is enough.                                       *)
AcceptsEqual(t) ==
  /\ t \notin transactions
  /\ Full /\ queue # <<>> => GasPrice[t] >= GasPrice[queue[Len(queue)]]

(* AddTransaction returns true: the transaction is new and, if the pool is *)
(* full, its price is higher than that of the last element of the slice.   *)
Accepts(t) ==
  /\ t \notin transactions
  /\ Full /\ queue # <<>> => GasPrice[t] > GasPrice[queue[Len(queue)]]

(* removeLowestGasPrice: the position that its linear search finds, the    *)
(* youngest of the cheapest.                                               *)
LowestIdx(q) ==
  CHOOSE i \in DOMAIN q :
    \A j \in DOMAIN q :
      \/ Less(addedAt, q[j], q[i])
      \/ ~Less(addedAt, q[i], q[j]) /\ i <= j

(* Mutant: the last element of the slice is dropped instead.               *)
DropsLast(q) == Cut(q)

removeLowestGasPrice(q) ==
  LET i == LowestIdx(q)  n == Len(q) IN
  IF i = n THEN Cut(q) ELSE HeapFix(addedAt, Cut([q EXCEPT ![i] = q[n]]), i)

(* Mutant: a full pool takes one more.                                     *)
AddsToFull(t) ==
  /\ Accepts(t)
  /\ addedAt' = [addedAt EXCEPT ![t] = now]
  /\ transactions' = transactions \cup {t}
  /\ queue' = HeapPush(addedAt', queue, t)
  /\ UNCHANGED now

(* Mutant: the entry has the time at which it is dropped.                  *)
AddsWithExpiry(t) ==
  /\ Accepts(t)
  /\ addedAt' = [addedAt EXCEPT ![t] = now + MaxExpiry + 1]
  /\ transactions' = transactions \cup {t}
  /\ queue' = HeapPush(addedAt', queue, t)
  /\ UNCHANGED now

(* The times of the entries that stay; 0 for those that are gone.          *)
Times(S) == [t \in Txs |-> IF t \in S THEN addedAt[t] ELSE 0]

AddTransaction(t) ==
  LET kept == IF Full /\ queue # <<>> THEN removeLowestGasPrice(queue) ELSE queue
      evicted == IF Full /\ queue # <<>> THEN {queue[LowestIdx(queue)]} ELSE {}
  IN
  /\ Accepts(t)
  /\ addedAt' = [Times(transactions \ evicted) EXCEPT ![t] = now]
  /\ transactions' = (transactions \ evicted) \cup {t}
  /\ queue' = HeapPush(addedAt', kept, t)
  /\ UNCHANGED now

(* The transactions S leave the map and the heap is rebuilt.               *)
Discard(S) ==
  /\ transactions' = transactions \ S
  /\ queue' \in rebuildHeap(addedAt, transactions')
  /\ addedAt' = Times(transactions')
  /\ UNCHANGED now

(* RemoveTransactions, for the transactions of a block.                    *)
RemoveTransactions(S) == Discard(S)

(* RevalidateTransactions: S are those that fail ValidateTransaction.      *)
RevalidateTransactions(S) == S \cap transactions # {} /\ Discard(S)

(* CleanExpiredTransactions; all that GetTransactions changes.             *)
Expired == {t \in transactions : now - addedAt[t] > MaxExpiry}
cleanExpiredTransactions ==
  /\ transactions' = transactions \ Expired
  /\ queue' \in IF Expired = {} THEN {queue} ELSE rebuildHeap(addedAt, transactions')
  /\ addedAt' = Times(transactions')
  /\ UNCHANGED now

(* What GetTransactions(n) then returns: n times heap.Pop on a copy.       *)
GetTransactions(q, n) == PopLoop(addedAt)[<<<<>>, q, n>>]

Tick == now < MaxTime /\ now' = now + 1 /\ UNCHANGED poolVars

PoolNext ==
  \/ \E t \in Txs : AddTransaction(t)
  \/ \E S \in Removals : RemoveTransactions(S) \/ RevalidateTransactions(S)
  \/ cleanExpiredTransactions
  \/ Tick

PoolSpec == PoolInit /\ [][PoolNext]_mempoolVars

(***************************************************************************)
(* Properties.                                                             *)
(***************************************************************************)
PoolTypeOK ==
  /\ transactions \subseteq Txs
  /\ queue \in Seq(Txs)
  /\ addedAt \in [Txs -> 0 .. MaxTime]
  /\ now \in 0 .. MaxTime

(* The map and the heap hold the same entries, each once, although every   *)
(* operation updates them separately.                                      *)
QueueMatchesMap == Range(queue) = transactions /\ Len(queue) = Cardinality(transactions)

(* GetTransactions serves "highest first": what it returns is in order of  *)
(* price and age, and nothing that it leaves out comes before it, whatever *)
(* insertions, evictions and removals the heap has been through.           *)
ServedInOrder ==
  LET served == GetTransactions(queue, Cardinality(transactions)) IN
  /\ \A i, j \in DOMAIN served :
       i < j => \/ GasPrice[served[i]] > GasPrice[served[j]]
                \/ /\ GasPrice[served[i]] = GasPrice[served[j]]
                   /\ addedAt[served[i]] <= addedAt[served[j]]
  /\ Range(served) = transactions

(* The inductive invariant of the proofs: the slice has every entry of the *)
(* map in one place and is a heap under the times of its entries.          *)
PoolInv ==
  /\ PoolTypeOK
  /\ Range(queue) = transactions /\ IsInjective(queue)
  /\ HeapOrdered(addedAt, queue)

(* config.MempoolMaxSize is a limit.                                       *)
PoolBounded == Cardinality(transactions) <= MaxSize

(* Whatever is evicted to make room pays less than what takes its place.   *)
EvictsCheaper ==
  [][\A t \in transactions' \ transactions, s \in transactions \ transactions' :
       GasPrice[s] < GasPrice[t]]_mempoolVars
==============================================================================

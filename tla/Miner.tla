-------------------------------- MODULE Miner --------------------------------
(***************************************************************************)
(* A transaction's way into a block: wallets submit it to the node's pool  *)
(* (Node.ProcessTransaction), and a miner (cmd/miner) reads the head, the  *)
(* pool and the ledger in three separate requests, mines a block and       *)
(* submits it; the node validates it some time later, and other blocks may *)
(* reach the node in between.                                              *)
(*                                                                         *)
(* The node is seen here through its current chain only, as a sequence of  *)
(* blocks on top of genesis; the parent of a block is given by its height. *)
(* What the node does with forks is the subject of Node.                   *)
(***************************************************************************)
EXTENDS Ledger, Mempool

CONSTANTS
  MinerKey,     \* the miner's address
  PeerKey,      \* the address of a miner elsewhere
  PoolLimit,    \* how many transactions GET /mempool returns
  HttpFails,    \* whether the miner's requests may fail
  MaxBlocks,    \* bounds the chain
  MaxSubmitted  \* bounds the blocks that wait to be processed

Senders == {t.From : t \in Txs}

(* What wallets submit is signed with a key, which is not the empty one    *)
(* and no contract's address.                                              *)
ASSUME MinerAssumption ==
  /\ \A t \in Txs : IsTransaction(t) /\ t.From # NoKey /\ t.From \notin Senders \X Nat
  /\ PoolLimit \in Nat /\ BlockReward \in Words

VARIABLES
  chain,      \* the blocks of the current chain above genesis
  states,     \* its AccountStates
  miner,      \* the miner's loop: where it is and what it has read
  submitted   \* blocks on their way through handleSubmitBlock

minerVars == <<mempoolVars, chain, states, miner, submitted>>

Idle == [pc |-> "info"]

(* NewChain: no accounts.                                                  *)
Init ==
  /\ PoolInit
  /\ chain = <<>> /\ states = <<>>
  /\ miner = Idle
  /\ submitted = {}

(***************************************************************************)
(* The node.                                                               *)
(***************************************************************************)

(* A valid transaction is offered to the pool.                             *)
ProcessTransaction(t) == ValidateTransaction(t, states) /\ AddTransaction(t)

(* POST /submit-transaction.                                               *)
handleSubmitTransaction(t) ==
  /\ ProcessTransaction(t)
  /\ UNCHANGED <<chain, states, miner, submitted>>

(* GET /chain-info, the head.                                              *)
GetChainHead == Len(chain)
handleChainInfo == GetChainHead

(* GET /mempool drops what has expired before it returns the best.         *)
handleGetMempool == cleanExpiredTransactions

(* GET /chain-state, the accounts.                                         *)
GetChain == states
handleChainState == GetChain

(* ApplyBlock of a block that extends the head.                            *)
Extend(b) ==
  /\ Len(chain) < MaxBlocks
  /\ b.parent = Len(chain)
  /\ LET run == ValidateBlock(b, states) IN
     /\ run.result = "ok"
     /\ chain' = Append(chain, b)
     /\ states' = run.states

(* handleSubmitBlock's goroutine: the block becomes the head, or it is not *)
(* valid or not on top of the head.  The pool is not told.                 *)
ProcessBlock(b) ==
  /\ submitted' = submitted \ {b}
  /\ \/ Extend(b)
     \/ /\ b.parent = Len(chain) => ValidateBlock(b, states).result # "ok"
        /\ UNCHANGED <<chain, states>>
  /\ UNCHANGED <<mempoolVars, miner>>

(* A block without transactions comes from the network.                    *)
PeerBlock ==
  /\ Extend([parent |-> Len(chain), GasUsed |-> 0,
             Transactions |-> <<Coinbase(PeerKey, BlockReward)>>])
  /\ UNCHANGED <<mempoolVars, miner, submitted>>

(***************************************************************************)
(* The miner.                                                              *)
(***************************************************************************)
getChainInfo ==
  /\ miner.pc = "info"
  /\ miner' = [pc |-> "pool", parent |-> handleChainInfo]
  /\ UNCHANGED <<mempoolVars, chain, states, submitted>>

(* A failed request counts as an empty pool.                               *)
getMempoolTransactions ==
  /\ miner.pc = "pool"
  /\ \/ /\ handleGetMempool
        /\ miner' = [pc |-> "state", parent |-> miner.parent,
                     txs |-> GetTransactions(queue', PoolLimit)]
     \/ /\ HttpFails
        /\ miner' = [pc |-> "state", parent |-> miner.parent, txs |-> <<>>]
        /\ UNCHANGED mempoolVars
  /\ UNCHANGED <<chain, states, submitted>>

getChainState ==
  /\ miner.pc = "state"
  /\ \E S \in {handleChainState} \cup (IF HttpFails THEN {<<>>} ELSE {}) :
       miner' = [pc |-> "mine", parent |-> miner.parent, txs |-> miner.txs, states |-> S]
  /\ UNCHANGED <<mempoolVars, chain, states, submitted>>

(* createAndMineBlock tries each transaction on a fresh copy of the states *)
(* to find the fees.                                                       *)
Tried(txs, S) == {ApplyTransaction(txs[i], S).result : i \in DOMAIN txs}

SimulatedFees(txs, S) ==
  LET fee(i) == LET o == ApplyTransaction(txs[i], S) IN
                IF o.result = "ok" THEN o.gas * txs[i].GasPrice ELSE 0
  IN  SumFunction([i \in DOMAIN txs |-> fee(i)]) % Width

Mined ==
  NewBlock(miner.parent,
           Coinbase(MinerKey, (BlockReward + SimulatedFees(miner.txs, miner.states)) % Width),
           miner.txs, miner.states)

(* A panic ends the miner; NewBlock's error sends it back to the start.    *)
createAndMineBlock ==
  /\ miner.pc = "mine"
  /\ miner' = IF "panic" \in Tried(miner.txs, miner.states) \/ Mined.result = "panic"
              THEN [pc |-> "dead"]
              ELSE IF Mined.result = "error" THEN Idle
              ELSE [pc |-> "submit", block |-> Mined.block, states |-> miner.states]
  /\ UNCHANGED <<mempoolVars, chain, states, submitted>>

(* After a failed request the miner starts again as well.                  *)
submitBlock ==
  /\ miner.pc = "submit"
  /\ \/ /\ Cardinality(submitted) < MaxSubmitted
        /\ submitted' = submitted \cup {miner.block}
     \/ HttpFails /\ UNCHANGED submitted
  /\ miner' = Idle
  /\ UNCHANGED <<mempoolVars, chain, states>>

StartMining ==
  getChainInfo \/ getMempoolTransactions \/ getChainState \/ createAndMineBlock \/ submitBlock

Next ==
  \/ \E t \in Txs : handleSubmitTransaction(t)
  \/ \E b \in submitted : ProcessBlock(b)
  \/ PeerBlock
  \/ StartMining
  \/ Tick /\ UNCHANGED <<chain, states, miner, submitted>>

Spec == Init /\ [][Next]_minerVars

(***************************************************************************)
(* Properties.                                                             *)
(***************************************************************************)
Applied == UNION {Range(chain[i].Transactions) : i \in DOMAIN chain}

(* Every account holds a word, and the accounts with code are at addresses *)
(* made from a key and a nonce.                                            *)
LedgerTypeOK ==
  \A k \in DOMAIN states :
    /\ states[k].Balance \in 0 .. Width - 1
    /\ states[k].Nonce \in Nat
    /\ states[k].code => k \in Senders \X Nat

(* Coins or code: what has an effect beyond its fees.                      *)
Moves(t) == ~IsCoinbase(t) /\ (t.To # NoKey \/ t.Instructions)

(* ValidateTransaction's nonce check is there to "prevent double-spend": a *)
(* transaction of the current chain that moves coins is never valid again, *)
(* whatever the pool holds and whatever is mined later.                    *)
NoReplay == \A t \in Applied : Moves(t) => ~ValidateTransaction(t, states)

(* ApplyTransaction "assumes already validated" and panics where the       *)
(* sender's balance does not cover the cost: no transaction that           *)
(* ValidateTransaction accepts makes it panic.                             *)
ValidatedNeverPanics ==
  \A t \in Txs :
    ValidateTransaction(t, states) => ApplyTransaction(t, states).result # "panic"

(* A block of transfers to keys adds the block reward to the supply and    *)
(* nothing else: what the senders pay in gas is what the coinbase takes,   *)
(* although both are words that can wrap, as long as the new supply is one *)
(* itself.                                                                 *)
TransfersConserve ==
  [][chain' # chain /\ Supply(states) + BlockReward < Width /\ (\A t \in Range(chain'[Len(chain')].Transactions) : IsTransfer(t, states'))
       => Supply(states') = Supply(states) + BlockReward]_minerVars

(* A block of the miner or of a peer: a coinbase and transactions of       *)
(* wallets.                                                                *)
IsMined(b) ==
  LET c == b.Transactions[1]  txs == Tail(b.Transactions) IN
  /\ b.Transactions = <<c>> \o txs /\ txs \in Seq(Txs)
  /\ c = Coinbase(c.To, c.Amount) /\ c.Amount \in Words

(* NewBlock has made the block on the ledger S, without an error.          *)
IsNew(b, S) ==
  LET new == NewBlock(b.parent, b.Transactions[1], Tail(b.Transactions), S) IN
  new.block = b /\ new.result # "error"

(* The nonce of its sender has reached that of a transaction.              *)
Spent(t) == t.From \in DOMAIN states /\ t.Nonce <= states[t.From].Nonce

(* The inductive invariant of the proofs.                                  *)
MinerInv ==
  /\ PoolInv
  /\ Sound(states, Senders) /\ chain \in Seq(Range(chain))
  /\ miner.pc \in {"state", "mine"} => miner.txs \in Seq(Txs)
  /\ miner.pc = "mine" => Sound(miner.states, Senders)
  /\ miner.pc = "submit" => IsMined(miner.block) /\ IsNew(miner.block, miner.states)
  /\ \A b \in submitted \cup Range(chain) : IsMined(b)
  /\ \A t \in Applied : Moves(t) => Spent(t)

(* What the miner mined: its transactions, and whether all could be        *)
(* included on their own.                                                  *)
MinedTxs == Tail(miner.block.Transactions)
OnHead == miner.pc = "submit" /\ miner.block.parent = Len(chain) /\ miner.states = states
OneEach ==
  \A i, j \in DOMAIN MinedTxs : i # j => MinedTxs[i].From # MinedTxs[j].From
AllGood ==
  \A i \in DOMAIN MinedTxs :
    /\ ValidateTransaction(MinedTxs[i], states)
    /\ ApplyTransaction(MinedTxs[i], states).result = "ok"

(* NewBlock executes the transactions without the coinbase and without     *)
(* validating them, ValidateBlock with both.  They agree on a block mined  *)
(* on the head from one good transaction of each sender.                   *)
GoodBlockAccepted ==
  OnHead /\ OneEach /\ AllGood => ValidateBlock(miner.block, states).result = "ok"

(* cmd/README.md: "Mined blocks get validated and propagated": a block     *)
(* mined on the head, on the head's own states, passes the validation.     *)
MinedBlockAccepted ==
  OnHead => ValidateBlock(miner.block, states).result = "ok"
==============================================================================

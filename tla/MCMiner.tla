------------------------------- MODULE MCMiner -------------------------------
(***************************************************************************)
(* Two wallets, the miner's and alice's, who mines elsewhere, and one of   *)
(* each kind of transaction.  Amounts are scaled down: a transfer takes    *)
(* one unit of gas and the reward is 20.                                   *)
(***************************************************************************)
EXTENDS Miner, TLC

CONSTANTS m, alice, none

Tx(from, to, amount, nonce, limit, price, code) ==
  [From |-> from, To |-> to, Amount |-> amount, Nonce |-> nonce, GasLimit |-> limit,
   GasPrice |-> price, Instructions |-> code, DataGas |-> 0]

Contract == <<m, 0>>

(* A first call writes the storage; the next ones cost more and fail.      *)
MCCallRun == 0 :> [gas |-> 2, ok |-> TRUE, store |-> 1]
          @@ 1 :> [gas |-> 3, ok |-> FALSE, store |-> 1]

Pay == Tx(m, alice, 14, 1, 1, 2, FALSE)
PaySelf == Tx(m, m, 3, 2, 2, 1, FALSE)
Wraps == Tx(m, alice, 250, 1, 1, 8, FALSE)
Deploy == Tx(m, none, 2, 1, 4, 1, TRUE)
Call == Tx(m, Contract, 1, 2, 5, 2, FALSE)
CallAgain == Tx(alice, Contract, 1, 1, 3, 1, FALSE)
DeployAt == Tx(m, Contract, 1, 2, 4, 1, TRUE)

MCTxs == {Pay, PaySelf, Wraps, Deploy, Call, CallAgain, DeployAt}
MCGasPrice == [t \in Txs |-> t.GasPrice]
==============================================================================

------------------------------- MODULE Ledger --------------------------------
(***************************************************************************)
(* Account states and what transactions and blocks do to them              *)
(* (blockchain/validation.go, execution/execution.go, blockchain/mining.go *)
(* NewBlock).  A ledger maps the keys that have an account to              *)
(* [Balance, Nonce, code, store].  Every transaction is signed by its      *)
(* sender.  A contract's program is abstracted to what its runs cost and   *)
(* whether they succeed.                                                   *)
(***************************************************************************)
EXTENDS Integers, Sequences, FiniteSets, Functions

CONSTANTS
  NoKey,               \* the empty PublicKey
  Width,               \* amounts are unsigned words below Width
  BlockReward, ContractDeploymentFee, GasTransfer, GasContractDeploy,
  BlockGasLimit,       \* the 8M of NewBlock
  InitGas,             \* what running a contract's init costs
  CallRun              \* what a call does, by the contract's storage:
                       \* [gas, ok, store]

ASSUME LedgerAssumption ==
  /\ {BlockReward, ContractDeploymentFee, GasTransfer, GasContractDeploy, InitGas} \subseteq Nat
  /\ Width \in Nat \ {0}
  /\ CallRun \in [DOMAIN CallRun -> [gas : Nat, ok : BOOLEAN, store : DOMAIN CallRun]]
  /\ 0 \in DOMAIN CallRun

Words == 0 .. Width - 1

(* The ledgers, and the transactions that JSON or a block can hold.        *)
Accounts == [Balance : Words, Nonce : Nat, code : BOOLEAN, store : DOMAIN CallRun]
IsLedger(S) == S \in [DOMAIN S -> Accounts]

(* A ledger of finitely many accounts, with code only at the addresses of  *)
(* contracts that the holders of the keys K deployed.                      *)
Sound(S, K) ==
  /\ IsLedger(S) /\ IsFiniteSet(DOMAIN S)
  /\ \A k \in DOMAIN S : S[k].code => k \in K \X Nat

IsTransaction(t) ==
  /\ t.Amount \in Words /\ t.Nonce \in Nat
  /\ t.GasLimit \in Nat /\ t.GasPrice \in Nat /\ t.DataGas \in Nat
  /\ t.Instructions \in BOOLEAN

Coinbase(to, amount) ==
  [From |-> NoKey, To |-> to, Amount |-> amount, Nonce |-> 0, GasLimit |-> 0,
   GasPrice |-> 0, Instructions |-> FALSE, DataGas |-> 0]

IsCoinbase(t) == t.From = NoKey
IsContractDeployment(t) == t.To = NoKey /\ t.Instructions

(***************************************************************************)
(* Transactions.                                                           *)
(***************************************************************************)

(* The most that a transaction can cost its sender.                        *)
MaxCost(t) ==
  t.Amount + t.GasLimit * t.GasPrice
    + (IF IsContractDeployment(t) THEN ContractDeploymentFee ELSE 0)

(* Mutant: the overflow checks are left out.                               *)
ValidateWrapped(t, S) ==
  \/ IsCoinbase(t)
  \/ /\ t.GasLimit # 0 /\ t.GasPrice # 0
     /\ t.From \in DOMAIN S
     /\ S[t.From].Balance >= MaxCost(t) % Width
     /\ t.Nonce = S[t.From].Nonce + 1

(* Mutant: a nonce may be left out.                                        *)
ValidateNewNonce(t, S) ==
  \/ IsCoinbase(t)
  \/ /\ t.GasLimit # 0 /\ t.GasPrice # 0
     /\ t.From \in DOMAIN S
     /\ MaxCost(t) < Width
     /\ S[t.From].Balance >= MaxCost(t)
     /\ t.Nonce > S[t.From].Nonce

ValidateTransaction(t, S) ==
  \/ IsCoinbase(t)
  \/ /\ t.GasLimit # 0 /\ t.GasPrice # 0
     /\ t.From \in DOMAIN S
     /\ MaxCost(t) < Width
     /\ S[t.From].Balance >= MaxCost(t)
     /\ t.Nonce = S[t.From].Nonce + 1

Account(balance, code) == [Balance |-> balance, Nonce |-> 0, code |-> code, store |-> 0]

Put(S, k, account) == [j \in DOMAIN S \cup {k} |-> IF j = k THEN account ELSE S[j]]

(* The recipient's balance grows, or its account is created.               *)
Credit(S, k, amount) ==
  IF k \in DOMAIN S THEN [S EXCEPT ![k].Balance = @ + amount]
                    ELSE Put(S, k, Account(amount, FALSE))

Overflows(S, k, amount) == k \in DOMAIN S /\ S[k].Balance + amount >= Width

Outcome(result, gas, S) == [result |-> result, gas |-> gas, states |-> S]

(* Mutant: the contract is stored under the key that the transaction has   *)
(* for its recipient.                                                      *)
RecipientAddress(t, S) == t.To

(* GenerateContractAddress(From, fromState.Nonce).                         *)
ContractAddress(t, S) == <<t.From, S[t.From].Nonce>>

(* executeContractDeployment, when its init succeeds within the limit.     *)
Deployed(t, S) == Put(S, ContractAddress(t, S), Account(t.Amount, TRUE))
InitSucceeds(t) == InitGas <= t.GasLimit

(* executeContractCall: the amount is added once more, and the storage is  *)
(* kept only if the program succeeds.  Out of gas, all of it is used.      *)
Called(t, S) ==
  LET r == CallRun[S[t.To].store] IN
  [S EXCEPT ![t.To].Balance = (@ + t.Amount) % Width,
            ![t.To].store = IF r.ok /\ r.gas <= t.GasLimit THEN r.store ELSE @]
CallGas(t, S) ==
  LET r == CallRun[S[t.To].store] IN IF r.gas <= t.GasLimit THEN r.gas ELSE t.GasLimit

(* Mutant: a transaction does not advance the nonce.                       *)
ChargedNonceKept(t, S, gas, fee) ==
  LET cost == t.Amount + fee + ((gas * t.GasPrice) % Width) IN
  IF gas > t.GasLimit THEN Outcome("error", gas, S)
  ELSE IF cost >= Width \/ S[t.From].Balance < cost THEN Outcome("panic", gas, S)
  ELSE Outcome("ok", gas, [S EXCEPT ![t.From].Balance = @ - cost])

(* Mutant: the gas is not paid for.                                        *)
ChargedAmountOnly(t, S, gas, fee) ==
  LET cost == t.Amount + fee IN
  IF gas > t.GasLimit THEN Outcome("error", gas, S)
  ELSE IF cost >= Width \/ S[t.From].Balance < cost THEN Outcome("panic", gas, S)
  ELSE Outcome("ok", gas, [S EXCEPT ![t.From].Balance = @ - cost, ![t.From].Nonce = @ + 1])

(* The gas limit check and the payment that end a deployment or transfer.  *)
Charged(t, S, gas, fee) ==
  LET cost == t.Amount + fee + ((gas * t.GasPrice) % Width) IN
  IF gas > t.GasLimit THEN Outcome("error", gas, S)
  ELSE IF cost >= Width \/ S[t.From].Balance < cost THEN Outcome("panic", gas, S)
  ELSE Outcome("ok", gas, [S EXCEPT ![t.From].Balance = @ - cost, ![t.From].Nonce = @ + 1])

ApplyDeployment(t, S) ==
  LET base == GasContractDeploy + t.DataGas IN
  IF t.Amount + ContractDeploymentFee >= Width THEN Outcome("panic", base, S)
  ELSE IF InitSucceeds(t)
  THEN Charged(t, Deployed(t, S), base + InitGas, ContractDeploymentFee)
  ELSE Outcome("error", base, S)

(* A transfer; to a contract it is also a call or, if it has instructions, *)
(* runs the deployment of the executor, whose failure is ignored.          *)
ApplyTransfer(t, S) ==
  LET base == GasTransfer + t.DataGas
      paid == Credit(S, t.To, t.Amount)
      runs == t.To \in DOMAIN S /\ S[t.To].code
  IN
  IF Overflows(S, t.To, t.Amount) THEN Outcome("panic", base, S)
  ELSE IF runs /\ t.Instructions /\ InitSucceeds(t)
       THEN Charged(t, Deployed(t, paid), base + InitGas, 0)
  ELSE IF runs /\ ~t.Instructions
       THEN Charged(t, Called(t, paid), base + CallGas(t, paid), 0)
  ELSE Charged(t, paid, base, 0)

(* Errors and panics leave what was changed before them.                   *)
ApplyTransaction(t, S) ==
  IF IsCoinbase(t)
  THEN IF Overflows(S, t.To, t.Amount) THEN Outcome("panic", 0, S)
       ELSE Outcome("ok", 0, Credit(S, t.To, t.Amount))
  ELSE IF t.From \notin DOMAIN S THEN Outcome("error", 0, S)
  ELSE IF IsContractDeployment(t) THEN ApplyDeployment(t, S)
  ELSE IF t.To # NoKey THEN ApplyTransfer(t, S)
  ELSE Outcome("ok", GasTransfer, S)

(***************************************************************************)
(* Blocks: [parent, GasUsed, Transactions], the first transaction the      *)
(* coinbase.                                                               *)
(***************************************************************************)
Tally(S) == [result |-> "ok", gas |-> 0, fees |-> 0, states |-> S]

Count(acc, o, t) ==
  [result |-> "ok", gas |-> (acc.gas + o.gas) % Width,
   fees |-> (acc.fees + o.gas * t.GasPrice) % Width, states |-> o.states]

(* ValidateBlock's loop stops at the first transaction that is not valid   *)
(* or does not apply.                                                      *)
ValidateStep(acc, t) ==
  IF acc.result # "ok" THEN acc
  ELSE IF ~ValidateTransaction(t, acc.states) THEN [acc EXCEPT !.result = "error"]
  ELSE LET o == ApplyTransaction(t, acc.states) IN
       IF o.result # "ok" THEN [acc EXCEPT !.result = o.result] ELSE Count(acc, o, t)

ValidateLoop(txs, S) ==
  LET run[i \in 0 .. Len(txs)] ==
        IF i = 0 THEN Tally(S) ELSE ValidateStep(run[i - 1], txs[i])
  IN  run

ValidateBlock(b, S) ==
  LET run == ValidateLoop(b.Transactions, S)[Len(b.Transactions)]
      good == /\ run.gas = b.GasUsed /\ run.gas <= BlockGasLimit
              /\ b.Transactions[1].Amount = (run.fees + BlockReward) % Width
  IN  IF run.result = "ok" /\ ~good THEN [run EXCEPT !.result = "error"] ELSE run

(* Mutant: every transaction is executed on the states of the parent.      *)
MiningStepFresh(acc, t) ==
  IF acc.result # "ok" THEN acc
  ELSE LET o == ApplyTransaction(t, acc.states) IN
       IF o.result = "ok" THEN [Count(acc, o, t) EXCEPT !.states = acc.states]
       ELSE IF o.result = "error" THEN acc
       ELSE [acc EXCEPT !.result = "panic"]

(* NewBlock's loop skips a transaction that fails, but not what it changed *)
(* and not its place in the block; the coinbase is not executed.           *)
MiningStep(acc, t) ==
  IF acc.result # "ok" THEN acc
  ELSE LET o == ApplyTransaction(t, acc.states) IN
       IF o.result = "ok"
       THEN IF acc.fees + o.gas * t.GasPrice >= Width THEN [acc EXCEPT !.result = "error"]
            ELSE Count(acc, o, t)
       ELSE IF o.result = "error" THEN [acc EXCEPT !.states = o.states]
       ELSE [acc EXCEPT !.result = "panic"]

MiningLoop(txs, S) ==
  LET run[i \in 0 .. Len(txs)] ==
        IF i = 0 THEN Tally(S) ELSE MiningStep(run[i - 1], txs[i])
  IN  run

(* NewBlock returns no block unless the coinbase amount is what it finds.  *)
NewBlock(parent, coinbase, txs, S) ==
  LET run == MiningLoop(txs, S)[Len(txs)]
      good == coinbase.Amount = BlockReward + run.fees /\ run.gas <= BlockGasLimit
  IN
  [result |-> IF run.result = "ok" /\ ~good THEN "error" ELSE run.result,
   block |-> [parent |-> parent, GasUsed |-> run.gas, Transactions |-> <<coinbase>> \o txs]]

(* To a key, not to a contract.                                            *)
IsTransfer(t, S) == t.To # NoKey /\ (t.To \in DOMAIN S => ~S[t.To].code)

(* The sum of all balances.                                                *)
Supply(S) == SumFunction([k \in DOMAIN S |-> S[k].Balance])
==============================================================================

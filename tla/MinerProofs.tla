---------------------------- MODULE MinerProofs ----------------------------
(***************************************************************************)
(* The ledger of the current chain stays sound, no transaction of it can   *)
(* be applied again, and blocks of transfers add the reward only: for any  *)
(* wallets, any chain and any limits, and however the miner's requests     *)
(* fall between the blocks of others.                                      *)
(***************************************************************************)
EXTENDS Miner, LedgerProofs, MempoolProofs

(* A leaf is proved by Zenon, unless it names SMT for its arithmetic, its  *)
(* sequences or its records, or PTL.                                       *)
USE Zenon

-----------------------------------------------------------------------------
(* A transfer to a key or a deployment: nothing that calls a contract.     *)
IsPlain(t, P) == IsTransfer(t, P) \/ IsContractDeployment(t)

(* Its gas and its price are the same on every ledger, and so is the       *)
(* address of the contract once the nonce is the right one.                *)
GasOf(t) ==
  IF IsContractDeployment(t) THEN GasContractDeploy + t.DataGas + InitGas
                             ELSE GasTransfer + t.DataGas
Fee(t) == GasOf(t) * t.GasPrice
Surcharge(t) == IF IsContractDeployment(t) THEN ContractDeploymentFee ELSE 0
Address(t) == <<t.From, t.Nonce - 1>>

(* It would be accepted on the ledger P.                                   *)
Ready(t, P, K) ==
  /\ Signed(t, K) /\ IsPlain(t, P) /\ ValidateTransaction(t, P)
  /\ GasOf(t) <= t.GasLimit

(* What it changes before its sender pays.                                 *)
Provided(t, P) == IF IsContractDeployment(t) THEN Deployed(t, P) ELSE Credit(P, t.To, t.Amount)
Fits(t, P) == IF IsContractDeployment(t) THEN InitSucceeds(t) ELSE ~Overflows(P, t.To, t.Amount)

(* What the validation says of its numbers.                                *)
Priced(t) ==
  /\ GasOf(t) \in Nat /\ Surcharge(t) \in Nat /\ t.Amount \in Nat /\ t.Amount \in Words
  /\ t.GasLimit \in Nat /\ t.GasPrice \in Nat /\ t.GasLimit * t.GasPrice \in Nat
  /\ MaxCost(t) = t.Amount + t.GasLimit * t.GasPrice + Surcharge(t)
  /\ MaxCost(t) \in Nat /\ MaxCost(t) < Width
  /\ t.Amount <= MaxCost(t) /\ t.Amount + Surcharge(t) < Width

LEMMA ValidIsPriced ==
  ASSUME NEW t, NEW P, NEW K, Signed(t, K), ValidateTransaction(t, P)
  PROVE  Priced(t)
<1> DEFINE p == t.GasLimit * t.GasPrice
<1>1. /\ MaxCost(t) < Width /\ t.Amount \in Words /\ t.GasLimit \in Nat /\ t.GasPrice \in Nat
      /\ t.DataGas \in Nat
  BY DEF Signed, ValidateTransaction, IsCoinbase, IsTransaction
<1>2. /\ {ContractDeploymentFee, GasTransfer, GasContractDeploy, InitGas} \subseteq Nat
      /\ Width \in Nat
  BY LedgerAssumption
<1>3. GasOf(t) \in Nat
  BY <1>1, <1>2, SMT DEF GasOf
<1>4. p \in Nat /\ t.Amount \in Nat
  BY <1>1, SMT DEF Words
<1>5. Surcharge(t) \in Nat /\ MaxCost(t) = t.Amount + p + Surcharge(t)
  BY <1>2 DEF Surcharge, MaxCost
<1> HIDE DEF p
<1>6. MaxCost(t) \in Nat /\ t.Amount <= MaxCost(t) /\ t.Amount + Surcharge(t) < Width
  BY <1>1, <1>2, <1>4, <1>5, SMT
<1> QED BY <1>1, <1>3, <1>4, <1>5, <1>6 DEF Priced, p

(* Whatever it does, it ends with the payment.                             *)
LEMMA PlainIsPayment ==
  ASSUME NEW t, NEW P, NEW K, Signed(t, K), IsPlain(t, P), ValidateTransaction(t, P), Fits(t, P)
  PROVE  ApplyTransaction(t, P) = Charged(t, Provided(t, P), GasOf(t), Surcharge(t))
<1>1. ~IsCoinbase(t) /\ t.From \in DOMAIN P
  BY DEF Signed, ValidateTransaction, IsCoinbase
<1>2. CASE IsContractDeployment(t)
  <2>1. ~(t.Amount + ContractDeploymentFee >= Width)
    <3>1. Priced(t) /\ Surcharge(t) = ContractDeploymentFee
      BY <1>2, ValidIsPriced DEF Surcharge
    <3>2. Width \in Nat
      BY LedgerAssumption
    <3> QED BY <3>1, <3>2, SMT DEF Priced
  <2> QED BY <1>1, <1>2, <2>1 DEF ApplyTransaction, ApplyDeployment, Provided, GasOf, Surcharge, Fits
<1>3. CASE ~IsContractDeployment(t)
  <2>1. t.To # NoKey /\ ~(t.To \in DOMAIN P /\ P[t.To].code)
    BY <1>3 DEF IsPlain, IsTransfer
  <2> QED BY <1>1, <1>3, <2>1 DEF ApplyTransaction, ApplyTransfer, Provided, GasOf, Surcharge, Fits
<1> QED BY <1>2, <1>3

(* A sender's key is not an address, and the address is a contract's.      *)
LEMMA AddressOf ==
  ASSUME NEW t, NEW P, NEW K, Signed(t, K), ValidateTransaction(t, P), Sound(P, K)
  PROVE  /\ Address(t) = ContractAddress(t, P) /\ Address(t) \in K \X Nat
         /\ \A u : Signed(u, K) => u.From # Address(t)
<1>1. t.From \in DOMAIN P /\ t.Nonce = P[t.From].Nonce + 1 /\ t.From \in K
  BY DEF Signed, ValidateTransaction, IsCoinbase
<1>2. P[t.From].Nonce \in Nat
  BY <1>1 DEF Sound, IsLedger, Accounts
<1>3. t.Nonce - 1 = P[t.From].Nonce
  BY <1>1, <1>2, SMT
<1>4. Address(t) = ContractAddress(t, P) /\ Address(t) \in K \X Nat
  BY <1>1, <1>2, <1>3 DEF Address, ContractAddress
<1> QED BY <1>4 DEF Signed

(* Nobody else is poorer or has another nonce, and nobody else has code.   *)
NotPoorer(j, P, Q) ==
  j \in DOMAIN P => /\ j \in DOMAIN Q
                    /\ Q[j].Balance >= P[j].Balance /\ Q[j].Nonce = P[j].Nonce
NoNewCode(j, P, Q) == j \in DOMAIN Q /\ Q[j].code => j \in DOMAIN P /\ P[j].code

(* Balances of a ledger are numbers.                                       *)
LEMMA BalanceIsNatural ==
  ASSUME NEW P, NEW K, Sound(P, K), NEW j \in DOMAIN P
  PROVE  P[j].Balance \in Nat
BY LedgerAssumption, SMT DEF Sound, Words, IsLedger, Accounts

(* A credit makes nobody poorer.                                           *)
LEMMA CreditOthers ==
  ASSUME NEW K, NEW P, Sound(P, K), NEW k, NEW amount \in Words, ~Overflows(P, k, amount), NEW j
  PROVE  NotPoorer(j, P, Credit(P, k, amount)) /\ NoNewCode(j, P, Credit(P, k, amount))
<1> DEFINE C == Credit(P, k, amount)
<1>1. IsLedger(P) /\ amount \in Nat
  BY LedgerAssumption, SMT DEF Sound, Words
<1>2. CASE k \in DOMAIN P
  <2>1. C = [P EXCEPT ![k].Balance = @ + amount] /\ P[k] \in Accounts
    BY <1>1, <1>2 DEF Credit, IsLedger
  <2>2. DOMAIN C = DOMAIN P /\ C[k] = [P[k] EXCEPT !.Balance = @ + amount]
        /\ \A i \in DOMAIN P \ {k} : C[i] = P[i]
    BY <1>1, <1>2, <2>1 DEF IsLedger
  <2>3. C[k].Balance = P[k].Balance + amount /\ C[k].Nonce = P[k].Nonce /\ C[k].code = P[k].code
    BY <2>1, <2>2 DEF Accounts
  <2> HIDE DEF C
  <2>4. CASE j = k
    <3>1. P[k].Balance \in Nat
      BY <1>2, BalanceIsNatural
    <3>2. C[k].Balance >= P[k].Balance
      BY <1>1, <2>3, <3>1, SMT
    <3> QED BY <1>2, <2>2, <2>3, <2>4, <3>2 DEF NotPoorer, NoNewCode, C
  <2>5. CASE j # k /\ j \in DOMAIN P
    <3>1. P[j].Balance \in Nat /\ C[j] = P[j]
      BY <2>2, <2>5, BalanceIsNatural
    <3>2. C[j].Balance >= P[j].Balance
      BY <3>1, SMT
    <3> QED BY <2>2, <2>5, <3>1, <3>2 DEF NotPoorer, NoNewCode, C
  <2>6. CASE j \notin DOMAIN P
    BY <2>2, <2>6 DEF NotPoorer, NoNewCode, C
  <2> QED BY <2>4, <2>5, <2>6
<1>3. CASE k \notin DOMAIN P
  <2>1. /\ C = Put(P, k, Account(amount, FALSE)) /\ DOMAIN C = DOMAIN P \cup {k}
        /\ C[k] = Account(amount, FALSE) /\ \A i \in DOMAIN P : C[i] = P[i]
    BY <1>3 DEF Credit, Put
  <2>2. ~C[k].code
    BY <2>1, SMT DEF Account
  <2> HIDE DEF C
  <2>3. CASE j \in DOMAIN P
    <3>1. P[j].Balance \in Nat /\ C[j] = P[j]
      BY <2>1, <2>3, BalanceIsNatural
    <3>2. C[j].Balance >= P[j].Balance
      BY <3>1, SMT
    <3> QED BY <2>1, <2>3, <3>1, <3>2 DEF NotPoorer, NoNewCode, C
  <2>4. CASE j \notin DOMAIN P
    BY <2>1, <2>2, <2>4 DEF NotPoorer, NoNewCode, C
  <2> QED BY <2>3, <2>4
<1> QED BY <1>2, <1>3

(* A deployment touches its address only, whose coins, if there are any,   *)
(* are lost.                                                               *)
LEMMA DeployOthers ==
  ASSUME NEW K, NEW P, Sound(P, K), NEW t, IsTransaction(t), NEW C, C = Deployed(t, P)
  PROVE  /\ \A j : j # ContractAddress(t, P) => NotPoorer(j, P, C) /\ NoNewCode(j, P, C)
         /\ Supply(C) <= Supply(P) + t.Amount
<1> DEFINE k == ContractAddress(t, P)
           a == Account(t.Amount, TRUE)
<1>1. a \in Accounts /\ a.Balance = t.Amount /\ t.Amount \in Nat
  BY LedgerAssumption, SMT DEF Account, Accounts, IsTransaction, Words
<1>2. IsLedger(P) /\ IsFiniteSet(DOMAIN P) /\ C = Put(P, k, a) /\ Supply(P) \in Nat
  BY SupplyType DEF Sound, Deployed
<1> HIDE DEF k, a
<1>3. DOMAIN C = DOMAIN P \cup {k} /\ C[k] = a /\ \A j \in DOMAIN P : j # k => C[j] = P[j]
  BY <1>2 DEF Put
<1>4. ASSUME NEW j, j # k
      PROVE  NotPoorer(j, P, C) /\ NoNewCode(j, P, C)
  <2>1. CASE j \in DOMAIN P
    <3>1. P[j].Balance \in Nat /\ C[j] = P[j]
      BY <1>3, <1>4, <2>1, BalanceIsNatural
    <3>2. C[j].Balance >= P[j].Balance
      BY <3>1, SMT
    <3> QED BY <1>3, <2>1, <3>1, <3>2 DEF NotPoorer, NoNewCode
  <2>2. CASE j \notin DOMAIN P
    BY <1>3, <1>4, <2>2 DEF NotPoorer, NoNewCode
  <2> QED BY <2>1, <2>2
<1>5. Supply(C) <= Supply(P) + t.Amount
  <2>1. CASE k \in DOMAIN P
    <3>1. C = [P EXCEPT ![k] = a]
      BY <1>2, <2>1 DEF Put, IsLedger
    <3>2. Supply(C) = Supply(P) - P[k].Balance + a.Balance /\ P[k].Balance \in Nat
      BY <1>1, <1>2, <2>1, <3>1, SupplyUpdate, BalanceIsNatural
    <3> QED BY <1>1, <1>2, <3>2, SMT
  <2>2. CASE k \notin DOMAIN P
    <3>1. Supply(C) = Supply(P) + a.Balance
      BY <1>1, <1>2, <2>2, SupplyPut
    <3> QED BY <1>1, <1>2, <3>1, SMT
  <2> QED BY <2>1, <2>2
<1> QED BY <1>4, <1>5 DEF k

(* So does either of them, short of the payment.                           *)
Unharmed(t, P, C, K) ==
  /\ Sound(C, K) /\ Supply(C) <= Supply(P) + t.Amount
  /\ \A j : (IsContractDeployment(t) => j # Address(t)) =>
       NotPoorer(j, P, C) /\ NoNewCode(j, P, C)

LEMMA ProvidedOthers ==
  ASSUME NEW K, NEW P, Sound(P, K), NEW t, Signed(t, K), ValidateTransaction(t, P), Fits(t, P)
  PROVE  Unharmed(t, P, Provided(t, P), K) /\ t.From \in DOMAIN Provided(t, P)
         /\ Provided(t, P)[t.From].Balance >= P[t.From].Balance
<1> DEFINE C == Provided(t, P)
<1>1. /\ IsTransaction(t) /\ t.Amount \in Words /\ t.From \in DOMAIN P /\ t.From \in K
      /\ t.From # Address(t) /\ Address(t) = ContractAddress(t, P)
  BY AddressOf DEF Signed, ValidateTransaction, IsCoinbase, IsTransaction
<1>2. Unharmed(t, P, C, K)
  <2>1. CASE IsContractDeployment(t)
    <3>1. C = Deployed(t, P)
      BY <2>1 DEF Provided
    <3> HIDE DEF C
    <3>2. Sound(C, K)
      BY <1>1, <3>1, DeployedGrows DEF Grows
    <3>3. /\ \A j : j # ContractAddress(t, P) => NotPoorer(j, P, C) /\ NoNewCode(j, P, C)
          /\ Supply(C) <= Supply(P) + t.Amount
      BY <1>1, <3>1, DeployOthers
    <3> QED BY <1>1, <2>1, <3>2, <3>3 DEF Unharmed
  <2>2. CASE ~IsContractDeployment(t)
    <3>1. C = Credit(P, t.To, t.Amount) /\ ~Overflows(P, t.To, t.Amount)
      BY <2>2 DEF Provided, Fits
    <3> HIDE DEF C
    <3>2. Sound(C, K) /\ Supply(C) = Supply(P) + t.Amount
      BY <1>1, <3>1, CreditGrows DEF Grows
    <3>3. \A j : NotPoorer(j, P, C) /\ NoNewCode(j, P, C)
      BY <1>1, <3>1, CreditOthers
    <3>4. Supply(C) \in Nat
      BY <3>2, SupplyType DEF Sound
    <3>5. Supply(C) <= Supply(P) + t.Amount
      BY <3>2, <3>4, SMT
    <3> QED BY <3>2, <3>3, <3>5 DEF Unharmed
  <2> QED BY <2>1, <2>2
<1> HIDE DEF C
<1>3. NotPoorer(t.From, P, C)
  BY <1>1, <1>2 DEF Unharmed
<1> QED BY <1>1, <1>2, <1>3 DEF NotPoorer, C

(* The payment concerns the sender only.                                   *)
LEMMA PaymentOthers ==
  ASSUME NEW P, NEW C, NEW f \in DOMAIN C, NEW a, a.code = C[f].code,
         NEW Q, Q = [C EXCEPT ![f] = a], NEW j
  PROVE  /\ j # f /\ NotPoorer(j, P, C) => NotPoorer(j, P, Q)
         /\ NoNewCode(j, P, C) => NoNewCode(j, P, Q)
<1>1. DOMAIN Q = DOMAIN C /\ Q[f] = a /\ \A i \in DOMAIN C : i # f => Q[i] = C[i]
  OBVIOUS
<1> QED BY <1>1 DEF NotPoorer, NoNewCode

(* It takes the amount, the deployment fee and the gas out of the supply.  *)
LEMMA PaymentSupply ==
  ASSUME NEW K, NEW C, Sound(C, K), NEW t, Priced(t), t.From \in DOMAIN C,
         GasOf(t) <= t.GasLimit, NEW a \in Accounts,
         a.Balance = C[t.From].Balance - Cost(t, GasOf(t), Surcharge(t))
  PROVE  /\ Fee(t) \in Nat
         /\ Supply([C EXCEPT ![t.From] = a]) + Fee(t) + t.Amount + Surcharge(t) = Supply(C)
<1>1. /\ GasOf(t) \in Nat /\ Surcharge(t) \in Nat /\ t.Amount \in Nat /\ t.GasLimit \in Nat
      /\ t.GasPrice \in Nat /\ MaxCost(t) = t.Amount + t.GasLimit * t.GasPrice + Surcharge(t)
      /\ MaxCost(t) < Width
  BY DEF Priced
<1>2. /\ Fee(t) \in Nat /\ t.GasLimit * t.GasPrice \in Nat
      /\ Fee(t) <= t.GasLimit * t.GasPrice /\ Width \in Nat \ {0}
  BY <1>1, ProductMonotone, LedgerAssumption DEF Fee
<1>3. Fee(t) % Width = Fee(t)
  <2>1. Fee(t) < Width
    BY <1>1, <1>2, SMT
  <2> QED BY <1>2, <2>1, SMT
<1>4. Cost(t, GasOf(t), Surcharge(t)) = t.Amount + Surcharge(t) + Fee(t)
  BY <1>3 DEF Cost, Fee
<1>5. Supply([C EXCEPT ![t.From] = a]) = Supply(C) - C[t.From].Balance + a.Balance
  BY SupplyUpdate DEF Sound
<1>6. Supply(C) \in Nat /\ C[t.From].Balance \in Nat
  BY SupplyType, BalanceIsNatural DEF Sound
<1> QED BY <1>1, <1>2, <1>4, <1>5, <1>6, SMT

(* What was good on its own has the gas it needs.                          *)
LEMMA GoodIsReady ==
  ASSUME NEW t, NEW P, NEW K, Sound(P, K), Signed(t, K), IsPlain(t, P),
         ValidateTransaction(t, P), ApplyTransaction(t, P).result = "ok"
  PROVE  Ready(t, P, K)
<1> DEFINE C == Provided(t, P)
           o == ApplyTransaction(t, P)
<1>1. ~IsCoinbase(t) /\ t.From \in DOMAIN P /\ IsTransaction(t)
  BY DEF Signed, ValidateTransaction, IsCoinbase
<1>2. Fits(t, P)
  <2>1. CASE IsContractDeployment(t)
    BY <1>1, <2>1 DEF ApplyTransaction, ApplyDeployment, Outcome, Fits
  <2>2. CASE ~IsContractDeployment(t)
    BY <1>1, <2>2 DEF ApplyTransaction, ApplyTransfer, Outcome, Fits, IsPlain, IsTransfer
  <2> QED BY <2>1, <2>2
<1>3. o = Charged(t, C, GasOf(t), Surcharge(t))
  BY <1>2, PlainIsPayment
<1>4. GasOf(t) \in Nat /\ Surcharge(t) \in Nat
  BY ValidIsPriced DEF Priced
<1>5. IsLedger(C) /\ t.From \in DOMAIN C
  BY <1>2, ProvidedOthers DEF Unharmed, Sound
<1> HIDE DEF C
<1>6. ChargedTo(t, C, GasOf(t), Surcharge(t), o)
  BY <1>1, <1>3, <1>4, <1>5, ChargedCases
<1> QED BY <1>6 DEF ChargedTo, Ready

(* It stays ready on a ledger on which its sender is not poorer and its    *)
(* recipient has no code.                                                  *)
LEMMA ReadyStays ==
  ASSUME NEW K, NEW P, NEW Q, Sound(P, K), Sound(Q, K), NEW u, Ready(u, P, K),
         NotPoorer(u.From, P, Q), NoNewCode(u.To, P, Q)
  PROVE  Ready(u, Q, K)
<1>1. /\ Signed(u, K) /\ GasOf(u) <= u.GasLimit
      /\ u.From \in DOMAIN P /\ u.GasLimit # 0 /\ u.GasPrice # 0 /\ MaxCost(u) < Width
      /\ P[u.From].Balance >= MaxCost(u) /\ u.Nonce = P[u.From].Nonce + 1
  BY DEF Ready, Signed, ValidateTransaction, IsCoinbase
<1>2. MaxCost(u) \in Nat
  BY ValidIsPriced DEF Priced, Ready
<1>3. /\ u.From \in DOMAIN Q /\ Q[u.From].Balance >= P[u.From].Balance
      /\ Q[u.From].Nonce = P[u.From].Nonce
  BY <1>1 DEF NotPoorer
<1>4. P[u.From].Balance \in Nat /\ Q[u.From].Balance \in Nat
  BY <1>1, <1>3, BalanceIsNatural
<1>5. Q[u.From].Balance >= MaxCost(u)
  BY <1>1, <1>2, <1>3, <1>4, SMT
<1>6. IsPlain(u, Q)
  BY DEF Ready, IsPlain, IsTransfer, NoNewCode
<1>7. ValidateTransaction(u, Q)
  BY <1>1, <1>3, <1>5 DEF ValidateTransaction
<1> QED BY <1>1, <1>6, <1>7 DEF Ready

(* Transactions of different senders do not concern each other, unless one *)
(* goes to the contract that the other deploys.                            *)
Apart(t, u) == u.From # t.From /\ (IsContractDeployment(t) => u.To # Address(t))

(* What is ready goes through while twice the supply is a word, takes its  *)
(* fee, and leaves the transactions of others ready.                       *)
LEMMA ReadyGoesThrough ==
  ASSUME NEW K, NEW P, Sound(P, K), NEW t, Ready(t, P, K), 2 * Supply(P) < Width
  PROVE  LET o == ApplyTransaction(t, P) IN
         /\ o.result = "ok" /\ o.gas = GasOf(t) /\ Sound(o.states, K)
         /\ Fee(t) \in Nat /\ Supply(o.states) \in Nat
         /\ Supply(o.states) + Fee(t) <= Supply(P)
         /\ \A u : Ready(u, P, K) /\ Apart(t, u) => Ready(u, o.states, K)
<1> DEFINE o == ApplyTransaction(t, P)
           C == Provided(t, P)
<1>1. /\ Signed(t, K) /\ IsPlain(t, P) /\ ValidateTransaction(t, P)
      /\ IsTransaction(t) /\ ~IsCoinbase(t) /\ t.From \in DOMAIN P /\ t.From \in K
      /\ GasOf(t) <= t.GasLimit /\ P[t.From].Balance >= MaxCost(t)
  BY DEF Ready, Signed, ValidateTransaction, IsCoinbase
<1>2. Priced(t)
  BY <1>1, ValidIsPriced
<1>3. /\ GasOf(t) \in Nat /\ Surcharge(t) \in Nat /\ t.Amount \in Nat /\ t.GasLimit \in Nat
      /\ t.Amount <= MaxCost(t) /\ MaxCost(t) \in Nat
  BY <1>2 DEF Priced
<1>4. /\ IsLedger(P) /\ IsFiniteSet(DOMAIN P) /\ Supply(P) \in Nat /\ Width \in Nat
      /\ \A k \in DOMAIN P : P[k].Balance \in Nat /\ P[k].Balance <= Supply(P)
  <2>1. IsLedger(P) /\ IsFiniteSet(DOMAIN P)
    BY DEF Sound
  <2> QED BY <2>1, SupplyType, BalanceInSupply, LedgerAssumption
<1>5. Fits(t, P)
  <2>1. CASE IsContractDeployment(t)
    <3>1. InitGas <= t.GasLimit
      <4>1. GasContractDeploy \in Nat /\ t.DataGas \in Nat /\ InitGas \in Nat
        BY <1>1, LedgerAssumption DEF IsTransaction
      <4>2. GasContractDeploy + t.DataGas + InitGas <= t.GasLimit
        BY <1>1, <2>1 DEF GasOf
      <4> QED BY <1>3, <4>1, <4>2, SMT
    <3> QED BY <2>1, <3>1 DEF Fits, InitSucceeds
  <2>2. CASE ~IsContractDeployment(t)
    <3>1. ASSUME t.To \in DOMAIN P PROVE ~(P[t.To].Balance + t.Amount >= Width)
      <4>1. P[t.To].Balance \in Nat /\ P[t.To].Balance <= Supply(P)
            /\ P[t.From].Balance \in Nat /\ P[t.From].Balance <= Supply(P)
        BY <1>1, <1>4, <3>1
      <4> QED BY <1>1, <1>3, <1>4, <4>1, SMT
    <3> QED BY <2>2, <3>1 DEF Fits, Overflows
  <2> QED BY <2>1, <2>2
<1>6. o = Charged(t, C, GasOf(t), Surcharge(t))
  BY <1>1, <1>5, PlainIsPayment
<1>7. Unharmed(t, P, C, K) /\ t.From \in DOMAIN C /\ C[t.From].Balance >= P[t.From].Balance
  BY <1>1, <1>5, ProvidedOthers
<1> HIDE DEF C
<1>8. Sound(C, K) /\ IsLedger(C) /\ Supply(C) <= Supply(P) + t.Amount
  BY <1>7 DEF Unharmed, Sound
<1>9. o.result # "panic"
  BY <1>1, <1>3, <1>4, <1>6, <1>7, <1>8, ChargedPays DEF Surcharge
<1>10. o.gas = GasOf(t) /\ ChargedTo(t, C, GasOf(t), Surcharge(t), o)
  <2> DEFINE p == Charged(t, C, GasOf(t), Surcharge(t))
  <2>1. p.gas = GasOf(t) /\ ChargedTo(t, C, GasOf(t), Surcharge(t), p)
    BY <1>1, <1>3, <1>7, <1>8, ChargedCases
  <2> QED BY <1>6, <2>1
<1>11. o.result # "error"
  <2>1. ~(GasOf(t) > t.GasLimit)
    BY <1>1, <1>3, SMT
  <2> QED BY <1>6, <1>9, <2>1, SMT DEF Charged, Outcome
<1>12. Sound(o.states, K)
  BY <1>1, ApplyGrows DEF Grows
<1> HIDE DEF o
<1>13. o.result = "ok"
  BY <1>9, <1>10, <1>11 DEF ChargedTo
<1>14. PICK a \in Accounts :
         /\ o.states = [C EXCEPT ![t.From] = a] /\ a.code = C[t.From].code
         /\ a.Balance = C[t.From].Balance - Cost(t, GasOf(t), Surcharge(t))
  BY <1>10, <1>13 DEF ChargedTo
<1>15. Fee(t) \in Nat /\ Supply(o.states) \in Nat /\ Supply(o.states) + Fee(t) <= Supply(P)
  <2>1. Fee(t) \in Nat /\ Supply(o.states) + Fee(t) + t.Amount + Surcharge(t) = Supply(C)
    BY <1>1, <1>2, <1>7, <1>8, <1>14, PaymentSupply
  <2>2. Supply(o.states) \in Nat /\ Supply(C) \in Nat
    BY <1>8, <1>12, SupplyType DEF Sound
  <2> QED BY <1>3, <1>4, <1>8, <2>1, <2>2, SMT
<1>16. ASSUME NEW u, Ready(u, P, K), Apart(t, u)
       PROVE  Ready(u, o.states, K)
  <2>1. u.From # t.From /\ (IsContractDeployment(t) => u.To # Address(t)) /\ u.From # Address(t)
    BY <1>1, <1>16, AddressOf DEF Apart, Ready
  <2>2. NotPoorer(u.From, P, C) /\ NoNewCode(u.To, P, C)
    BY <1>7, <2>1 DEF Unharmed
  <2>3. NotPoorer(u.From, P, o.states) /\ NoNewCode(u.To, P, o.states)
    BY <1>7, <1>8, <1>14, <2>1, <2>2, PaymentOthers
  <2> QED BY <1>12, <1>16, <2>3, ReadyStays
<1> QED BY <1>10, <1>12, <1>13, <1>15, <1>16 DEF o

(* The loop after i transactions, none of which failed: the ledger and the *)
(* fees add up to at most B, and the transactions that follow are ready.   *)
Passing(txs, K, i, acc, B) ==
  /\ acc.result = "ok" /\ acc.fees \in Nat
  /\ Sound(acc.states, K) /\ Supply(acc.states) + acc.fees <= B
  /\ \A j \in i + 1 .. Len(txs) : Ready(txs[j], acc.states, K)

AllApart(txs) == \A i, j \in 1 .. Len(txs) : i # j => Apart(txs[i], txs[j])

(* The state r of the loop after acc and the ith transaction.              *)
Passed(txs, K, i, acc, r, B) ==
  /\ Passing(txs, K, i, r, B)
  /\ r.gas = (acc.gas + GasOf(txs[i])) % Width
  /\ r.fees = acc.fees + Fee(txs[i])

(* Validating and mining then do the same.                                 *)
LEMMA RoundPasses ==
  ASSUME NEW txs, Len(txs) \in Nat, AllApart(txs), NEW K, NEW B \in Nat, 2 * B < Width,
         NEW i \in 1 .. Len(txs), NEW acc, Passing(txs, K, i - 1, acc, B), NEW v
  PROVE  Passed(txs, K, i, acc, Round(v, acc, txs[i]), B)
<1> DEFINE t == txs[i]
           o == ApplyTransaction(t, acc.states)
           r == Round(v, acc, t)
<1>1. /\ acc.result = "ok" /\ acc.fees \in Nat /\ Sound(acc.states, K)
      /\ Supply(acc.states) + acc.fees <= B
      /\ \A j \in i .. Len(txs) : Ready(txs[j], acc.states, K)
  BY SMT DEF Passing
<1>2. Supply(acc.states) \in Nat /\ Width \in Nat \ {0}
  BY <1>1, SupplyType, LedgerAssumption DEF Sound
<1>3. Ready(t, acc.states, K) /\ 2 * Supply(acc.states) < Width
  BY <1>1, <1>2, SMT
<1>4. /\ o.result = "ok" /\ o.gas = GasOf(t) /\ Sound(o.states, K)
      /\ Fee(t) \in Nat /\ Supply(o.states) \in Nat
      /\ Supply(o.states) + Fee(t) <= Supply(acc.states)
      /\ \A u : Ready(u, acc.states, K) /\ Apart(t, u) => Ready(u, o.states, K)
  <2> HIDE DEF t
  <2> QED BY <1>1, <1>3, ReadyGoesThrough
<1>5. ValidateTransaction(t, acc.states)
  BY <1>3 DEF Ready
<1> HIDE DEF t
<1>6. o.gas * t.GasPrice = Fee(t)
  BY <1>4 DEF Fee
<1>7. acc.fees + Fee(t) \in Nat /\ acc.fees + Fee(t) < Width
  BY <1>1, <1>2, <1>4, SMT
<1>8. ~(acc.fees + o.gas * t.GasPrice >= Width)
  BY <1>2, <1>6, <1>7, SMT
<1>9. r = Count(acc, o, t)
  <2>1. ValidateStep(acc, t) = Count(acc, o, t)
    BY <1>1, <1>4, <1>5 DEF ValidateStep
  <2>2. MiningStep(acc, t) = Count(acc, o, t)
    BY <1>1, <1>4, <1>8 DEF MiningStep
  <2> HIDE DEF o
  <2> QED BY <2>1, <2>2 DEF Round
<1> HIDE DEF o, r
<1>10. /\ r.result = "ok" /\ r.gas = (acc.gas + GasOf(t)) % Width
       /\ r.fees = (acc.fees + Fee(t)) % Width /\ r.states = o.states
  BY <1>4, <1>6, <1>9 DEF Count
<1>11. r.fees = acc.fees + Fee(t)
  BY <1>2, <1>7, <1>10, SMT
<1>12. ASSUME NEW j \in i + 1 .. Len(txs)
       PROVE  Ready(txs[j], r.states, K)
  <2>1. j \in i .. Len(txs) /\ j \in 1 .. Len(txs) /\ j # i
    BY SMT
  <2>2. Apart(t, txs[j])
    BY <2>1 DEF AllApart, t
  <2> QED BY <1>1, <1>4, <1>10, <2>1, <2>2
<1>13. Supply(r.states) + r.fees <= B
  BY <1>1, <1>2, <1>4, <1>10, <1>11, SMT
<1>14. Passing(txs, K, i, r, B)
  BY <1>4, <1>7, <1>10, <1>11, <1>12, <1>13 DEF Passing
<1> QED BY <1>10, <1>11, <1>14 DEF Passed, r, t

(* Two runs over the same transactions count the same.                     *)
Alike(p, q) == p.gas = q.gas /\ p.fees = q.fees
Rounds(v, txs, p) == \A i \in 1 .. Len(txs) : p[i] = Round(v, p[i - 1], txs[i])

(* By induction over the transactions.                                     *)
LEMMA RunsAlike ==
  ASSUME NEW txs, Len(txs) \in Nat, AllApart(txs), NEW K,
         NEW p, NEW v, Rounds(v, txs, p), NEW B \in Nat, 2 * B < Width, Passing(txs, K, 0, p[0], B),
         NEW q, NEW w, Rounds(w, txs, q), NEW C \in Nat, 2 * C < Width, Passing(txs, K, 0, q[0], C),
         Alike(p[0], q[0])
  PROVE  LET n == Len(txs) IN
         Passing(txs, K, n, p[n], B) /\ Passing(txs, K, n, q[n], C) /\ Alike(p[n], q[n])
<1> DEFINE n == Len(txs)
           Holds(i) == Passing(txs, K, i, p[i], B) /\ Passing(txs, K, i, q[i], C) /\ Alike(p[i], q[i])
           N == {i \in Nat : i <= n => Holds(i)}
<1>1. ASSUME NEW i \in 1 .. n, Holds(i - 1)
      PROVE  Holds(i)
  <2>0. Passing(txs, K, i - 1, p[i - 1], B) /\ Passing(txs, K, i - 1, q[i - 1], C)
    BY <1>1
  <2>1. Passed(txs, K, i, p[i - 1], Round(v, p[i - 1], txs[i]), B)
    BY <2>0, RoundPasses
  <2>2. Passed(txs, K, i, q[i - 1], Round(w, q[i - 1], txs[i]), C)
    BY <2>0, RoundPasses
  <2>3. p[i] = Round(v, p[i - 1], txs[i]) /\ q[i] = Round(w, q[i - 1], txs[i])
    BY DEF Rounds
  <2>4. p[i - 1].gas = q[i - 1].gas /\ p[i - 1].fees = q[i - 1].fees
    BY <1>1 DEF Alike
  <2>5. Passed(txs, K, i, p[i - 1], p[i], B) /\ Passed(txs, K, i, q[i - 1], q[i], C)
    BY <2>1, <2>2, <2>3
  <2> QED BY <2>4, <2>5 DEF Passed, Alike
<1>2. ASSUME NEW i \in Nat, \A m \in Nat : m < i => m \in N
      PROVE  i \in N
  <2>1. CASE i = 0
    BY <2>1
  <2>2. CASE i # 0 /\ i <= n
    <3>1. i \in 1 .. n /\ i - 1 \in Nat /\ i - 1 < i /\ i - 1 <= n
      BY <2>2, SMT
    <3> HIDE DEF Holds
    <3>2. Holds(i - 1)
      BY <1>2, <3>1
    <3>3. Holds(i)
      BY <1>1, <3>1, <3>2
    <3> QED BY <3>3
  <2>3. CASE ~(i <= n)
    BY <2>3
  <2> QED BY <2>1, <2>2, <2>3
<1>3. \A i \in Nat : i \in N
  <2> HIDE DEF N
  <2> QED BY <1>2, StrongInduction
<1>4. n \in N /\ n <= n
  BY <1>3, SMT
<1> HIDE DEF Holds
<1>5. Holds(n)
  BY <1>4
<1> QED BY <1>5 DEF Holds

(* The room that a supply s, a reward r and fees f need.                   *)
HasRoom(s, r, f, w) ==
  /\ s + (r + f) \in Nat /\ 2 * (s + (r + f)) < w
  /\ \A x \in Nat : x <= s => ~(x + (r + f) >= w)
  /\ r + f = (f + r) % w

(* The bound on the supply provides it.                                    *)
LEMMA Room ==
  ASSUME NEW s \in Nat, NEW r \in Nat, NEW f \in Nat, NEW w \in Nat,
         2 * (2 * s + r) < w, f <= s
  PROVE  HasRoom(s, r, f, w)
BY SMT DEF HasRoom

(* Every transaction is ready, on its own, on the ledger S.                *)
AllReady(txs, S, K) == \A j \in 1 .. Len(txs) : Ready(txs[j], S, K)

(* NewBlock's loop passes all of them.                                     *)
LEMMA MiningPasses ==
  ASSUME NEW txs, Len(txs) \in Nat, AllApart(txs), NEW K, NEW S, Sound(S, K),
         AllReady(txs, S, K), 2 * Supply(S) < Width, NEW M, M = MiningLoop(txs, S)
  PROVE  /\ M[0] = Tally(S) /\ Rounds(FALSE, txs, M)
         /\ Passing(txs, K, 0, M[0], Supply(S))
         /\ Passing(txs, K, Len(txs), M[Len(txs)], Supply(S))
<1>1. M[0] = Tally(S) /\ \A i \in 1 .. Len(txs) : M[i] = MiningStep(M[i - 1], txs[i])
  BY MiningLoopEquation
<1>2. Rounds(FALSE, txs, M)
  BY <1>1 DEF Rounds, Round
<1>3. Supply(S) \in Nat /\ Supply(S) + 0 <= Supply(S) /\ 0 + 1 = 1
  BY SupplyType, SMT DEF Sound
<1>4. Tally(S).result = "ok" /\ Tally(S).fees = 0 /\ Tally(S).states = S
  BY DEF Tally
<1>5. Passing(txs, K, 0, M[0], Supply(S))
  BY <1>1, <1>3, <1>4, SMT DEF Passing, AllReady
<1>6. Alike(M[0], M[0])
  BY DEF Alike
<1>7. Passing(txs, K, Len(txs), M[Len(txs)], Supply(S))
  BY <1>2, <1>3, <1>5, <1>6, RunsAlike
<1> QED BY <1>1, <1>2, <1>5, <1>7

(* The first round of ValidateBlock's loop executes the coinbase.          *)
LEMMA CoinbaseRound ==
  ASSUME NEW S, NEW c, c = Coinbase(c.To, c.Amount), ~Overflows(S, c.To, c.Amount),
         NEW r, r = ValidateStep(Tally(S), c)
  PROVE  r.result = "ok" /\ r.gas = 0 /\ r.fees = 0 /\ r.states = Credit(S, c.To, c.Amount)
<1> DEFINE o == ApplyTransaction(c, S)
<1>1. IsCoinbase(c) /\ c.GasPrice = 0
  BY SMT DEF Coinbase, IsCoinbase
<1>2. o = Outcome("ok", 0, Credit(S, c.To, c.Amount))
  BY <1>1 DEF ApplyTransaction
<1> HIDE DEF o
<1>3. o.result = "ok" /\ o.gas = 0 /\ o.states = Credit(S, c.To, c.Amount)
  BY <1>2 DEF Outcome
<1>4. Tally(S).result = "ok" /\ Tally(S).fees = 0 /\ Tally(S).gas = 0 /\ Tally(S).states = S
  BY DEF Tally
<1>5. ValidateTransaction(c, S)
  BY <1>1 DEF ValidateTransaction
<1>6. r = Count(Tally(S), o, c)
  BY <1>3, <1>4, <1>5 DEF ValidateStep, o
<1>7. Width \in Nat \ {0}
  BY LedgerAssumption
<1> QED BY <1>1, <1>3, <1>4, <1>6, <1>7, SMT DEF Count

(* The coinbase makes nobody poorer, so all of them remain ready.          *)
LEMMA CoinbasePasses ==
  ASSUME NEW txs, NEW K, NEW S, Sound(S, K), AllReady(txs, S, K),
         NEW c, c = Coinbase(c.To, c.Amount), c.Amount \in Words, ~Overflows(S, c.To, c.Amount),
         NEW r, r = ValidateStep(Tally(S), c)
  PROVE  Passing(txs, K, 0, r, Supply(S) + c.Amount)
<1> DEFINE C == Credit(S, c.To, c.Amount)
<1>1. r.result = "ok" /\ r.fees = 0 /\ r.states = C
  BY CoinbaseRound
<1>2. Supply(C) = Supply(S) + c.Amount /\ Sound(C, K)
  BY CreditGrows DEF Grows
<1>3. \A j : NotPoorer(j, S, C) /\ NoNewCode(j, S, C)
  BY CreditOthers
<1> HIDE DEF C
<1>4. ASSUME NEW u, Ready(u, S, K)
      PROVE  Ready(u, C, K)
  BY <1>2, <1>3, <1>4, ReadyStays
<1>5. Supply(C) \in Nat
  BY <1>2, SupplyType DEF Sound
<1> QED BY <1>1, <1>2, <1>4, <1>5, SMT DEF Passing, AllReady

(* The other rounds of that loop are a run over the transactions.          *)
LEMMA AfterCoinbase ==
  ASSUME NEW X, NEW txs \in Seq(X), NEW c, NEW S
  PROVE  \E q : /\ q[0] = ValidateStep(Tally(S), c)
                /\ q[Len(txs)] = ValidateLoop(<<c>> \o txs, S)[Len(txs) + 1]
                /\ Rounds(TRUE, txs, q)
<1> DEFINE n == Len(txs)
           T == <<c>> \o txs
           V == ValidateLoop(T, S)
           q == [i \in 0 .. n |-> V[i + 1]]
<1>1. /\ n \in Nat /\ Len(T) = n + 1 /\ T[1] = c /\ \A i \in 1 .. n : T[i + 1] = txs[i]
  BY SMT
<1> HIDE DEF T, n
<1>2. Len(T) \in Nat
  BY <1>1, SMT
<1>3. V[0] = Tally(S) /\ \A i \in 1 .. Len(T) : V[i] = ValidateStep(V[i - 1], T[i])
  BY <1>2, ValidateLoopEquation
<1> HIDE DEF V
<1>4. 1 \in 1 .. Len(T) /\ 1 - 1 = 0 /\ 0 + 1 = 1 /\ 0 \in 0 .. n /\ n \in 0 .. n
  BY <1>1, SMT
<1>5. q[0] = ValidateStep(Tally(S), c) /\ q[n] = V[n + 1]
  BY <1>1, <1>3, <1>4
<1>6. ASSUME NEW i \in 1 .. n
      PROVE  q[i] = ValidateStep(q[i - 1], txs[i])
  <2>1. i + 1 \in 1 .. Len(T) /\ (i + 1) - 1 = i
        /\ i \in 0 .. n /\ i - 1 \in 0 .. n /\ (i - 1) + 1 = i
    BY <1>1, SMT
  <2>2. q[i] = V[i + 1] /\ q[i - 1] = V[i] /\ T[i + 1] = txs[i]
    BY <1>1, <2>1
  <2> HIDE DEF q
  <2> QED BY <1>3, <2>1, <2>2
<1> HIDE DEF q
<1>7. Rounds(TRUE, txs, q)
  BY <1>6 DEF Rounds, Round, n
<1> QED BY <1>5, <1>7 DEF n, V, T

(* NewBlock and ValidateBlock agree: a block that NewBlock makes of good   *)
(* transfers to keys and deployments, one of each sender and none of them  *)
(* to a contract that the block deploys, is accepted on the ledger that it *)
(* was made on, although only ValidateBlock executes the coinbase.  The    *)
(* bound makes room for the coinbase, and for a sender who pays itself.    *)
THEOREM NewBlockPasses ==
  ASSUME NEW K, NEW S, Sound(S, K), NEW h, NEW c, NEW X, NEW txs \in Seq(X),
         c = Coinbase(c.To, c.Amount), c.Amount \in Words,
         \A i \in 1 .. Len(txs) :
           /\ Signed(txs[i], K) /\ IsPlain(txs[i], S) /\ ValidateTransaction(txs[i], S)
           /\ ApplyTransaction(txs[i], S).result = "ok",
         AllApart(txs), 2 * (2 * Supply(S) + BlockReward) < Width,
         NewBlock(h, c, txs, S).result # "error"
  PROVE  ValidateBlock(NewBlock(h, c, txs, S).block, S).result = "ok"
<1> DEFINE n == Len(txs)
           M == MiningLoop(txs, S)
           V == ValidateLoop(<<c>> \o txs, S)[n + 1]
           A == c.Amount
           F == M[n].fees
           B == NewBlock(h, c, txs, S)
<1>1. n \in Nat /\ Len(<<c>> \o txs) = n + 1 /\ (<<c>> \o txs)[1] = c
  BY SMT
<1>2. /\ Width \in Nat \ {0} /\ BlockReward \in Nat /\ Supply(S) \in Nat
      /\ IsLedger(S) /\ IsFiniteSet(DOMAIN S)
  BY SupplyType, LedgerAssumption DEF Sound
<1>3. AllReady(txs, S, K) /\ 2 * Supply(S) < Width
  <2>1. AllReady(txs, S, K)
    BY GoodIsReady DEF AllReady
  <2> QED BY <1>2, <2>1, SMT
<1>4. /\ M[0] = Tally(S) /\ Rounds(FALSE, txs, M) /\ Passing(txs, K, 0, M[0], Supply(S))
      /\ Passing(txs, K, n, M[n], Supply(S))
  BY <1>1, <1>3, MiningPasses
<1>5. M[n].result = "ok"
  BY <1>4 DEF Passing
<1>6. /\ A = BlockReward + F /\ M[n].gas <= BlockGasLimit
      /\ B.block.Transactions = <<c>> \o txs /\ B.block.GasUsed = M[n].gas
  BY <1>5 DEF NewBlock
<1> DEFINE b == B.block
<1> HIDE DEF M, B
<1>7. F \in Nat /\ F <= Supply(S)
  <2>1. F \in Nat /\ Supply(M[n].states) + F <= Supply(S) /\ Supply(M[n].states) \in Nat
    BY <1>4, SupplyType DEF Passing, Sound
  <2> HIDE DEF F
  <2> QED BY <1>2, <2>1, SMT
<1> HIDE DEF F
<1>8. HasRoom(Supply(S), BlockReward, F, Width)
  BY <1>2, <1>7, Room
<1> DEFINE D == Supply(S) + A
<1>9. /\ D \in Nat /\ 2 * D < Width /\ A = (F + BlockReward) % Width
      /\ \A x \in Nat : x <= Supply(S) => ~(x + A >= Width)
  BY <1>6, <1>8 DEF HasRoom
<1>10. ~Overflows(S, c.To, A)
  <2>1. c.To \in DOMAIN S => S[c.To].Balance \in Nat /\ S[c.To].Balance <= Supply(S)
    BY <1>2, BalanceInSupply
  <2> QED BY <1>9, <2>1 DEF Overflows
<1>11. PICK q : q[0] = ValidateStep(Tally(S), c) /\ q[n] = V /\ Rounds(TRUE, txs, q)
  BY AfterCoinbase
<1>12. q[0].gas = 0 /\ q[0].fees = 0
  <2>1. \A r : r = ValidateStep(Tally(S), c) => r.gas = 0 /\ r.fees = 0
    BY <1>10, CoinbaseRound
  <2> QED BY <1>11, <2>1
<1>13. Passing(txs, K, 0, q[0], D)
  BY <1>3, <1>10, <1>11, CoinbasePasses
<1>14. Alike(M[0], q[0])
  BY <1>4, <1>12, SMT DEF Alike, Tally
<1> HIDE DEF D, V
<1>15. Passing(txs, K, n, q[n], D) /\ Alike(M[n], q[n])
  BY <1>1, <1>2, <1>3, <1>4, <1>9, <1>11, <1>13, <1>14, RunsAlike
<1>16. V.result = "ok" /\ V.gas = M[n].gas /\ V.fees = F
  BY <1>11, <1>15 DEF Passing, Alike, F
<1>17. V = ValidateLoop(b.Transactions, S)[Len(b.Transactions)] /\ b.Transactions[1].Amount = A
  BY <1>1, <1>6 DEF V
<1>18. ValidateBlock(b, S) = V
  BY <1>6, <1>9, <1>16, <1>17 DEF ValidateBlock
<1> QED BY <1>16, <1>18 DEF B

-----------------------------------------------------------------------------
(* GET /mempool returns a sequence of transactions, however many are asked *)
(* for.                                                                    *)
LEMMA ServedIsSeq ==
  ASSUME NEW at \in AllTimes
  PROVE  \A n \in Nat : \A s, q \in Seq(Txs) : PopLoop(at)[<<s, q, n>>] \in Seq(Txs)
<1> DEFINE N == {n \in Nat : \A s, q \in Seq(Txs) : PopLoop(at)[<<s, q, n>>] \in Seq(Txs)}
<1>0. \A x \in Seq(Txs), y \in Seq(Txs), m \in Nat :
        PopLoop(at)[<<x, y, m>>] =
          IF m = 0 \/ y = <<>> THEN x
          ELSE PopLoop(at)[<<Append(x, y[1]), HeapPop(at, y), m - 1>>]
  BY PopEquation
<1>1. ASSUME NEW n \in Nat, \A m \in Nat : m < n => m \in N
      PROVE  n \in N
  <2>1. ASSUME NEW s \in Seq(Txs), NEW q \in Seq(Txs)
        PROVE  PopLoop(at)[<<s, q, n>>] \in Seq(Txs)
    <3>0. PopLoop(at)[<<s, q, n>>] =
            IF n = 0 \/ q = <<>> THEN s
            ELSE PopLoop(at)[<<Append(s, q[1]), HeapPop(at, q), n - 1>>]
      BY <1>0
    <3>1. CASE n = 0 \/ q = <<>>
      <4>1. PopLoop(at)[<<s, q, n>>] = s
        BY <3>0, <3>1
      <4> QED BY <4>1
    <3>2. CASE ~(n = 0 \/ q = <<>>)
      <4>1. PopLoop(at)[<<s, q, n>>] = PopLoop(at)[<<Append(s, q[1]), HeapPop(at, q), n - 1>>]
        BY <3>0, <3>2
      <4>2. n - 1 \in Nat /\ n - 1 < n
        BY <3>2, SMT
      <4>3. HeapPop(at, q) \in Seq(Txs)
        BY <3>2, PopShortens
      <4>4. q[1] \in Txs
        BY <3>2, EmptySlice, SMT
      <4>5. Append(s, q[1]) \in Seq(Txs)
        BY <4>4, SMT
      <4>6. n - 1 \in N
        BY <1>1, <4>2
      <4> QED BY <4>1, <4>3, <4>5, <4>6
    <3> QED BY <3>1, <3>2
  <2> QED BY <2>1
<1>2. \A n \in Nat : n \in N
  <2> HIDE DEF N
  <2> QED BY <1>1, StrongInduction
<1> QED BY <1>2

-----------------------------------------------------------------------------
(* The transactions of a block that was mined: a coinbase, then signed     *)
(* ones.                                                                   *)
LEMMA MinedBody ==
  ASSUME NEW b, IsMined(b)
  PROVE  /\ Body(b.Transactions, Senders)
         /\ DOMAIN b.Transactions = 1 .. Len(b.Transactions)
         /\ \A j \in 2 .. Len(b.Transactions) : b.Transactions[j] \in Txs
         /\ IsCoinbase(b.Transactions[1])
<1> DEFINE T == b.Transactions
           c == T[1]
           txs == Tail(T)
<1>1. /\ T = <<c>> \o txs /\ txs \in Seq(Txs)
      /\ c = Coinbase(c.To, c.Amount) /\ c.Amount \in Words
  BY DEF IsMined
<1> HIDE DEF T, c, txs
<1>2. Len(txs) \in Nat /\ Len(<<c>>) = 1
  BY <1>1, SMT
<1>3. /\ DOMAIN T = 1 .. Len(T) /\ Len(T) = Len(txs) + 1
      /\ \A j \in 2 .. Len(T) : T[j] = txs[j - 1]
  BY <1>1, <1>2, SMT
<1>4. \A j \in 2 .. Len(T) : T[j] \in Txs
  <2> SUFFICES ASSUME NEW j \in 2 .. Len(T) PROVE T[j] \in Txs
    OBVIOUS
  <2>1. j - 1 \in 1 .. Len(txs)
    BY <1>2, <1>3, SMT
  <2> QED BY <1>1, <1>3, <2>1, SMT
<1>5. \A t \in Txs : Signed(t, Senders)
  BY MinerAssumption DEF Signed, Senders
<1>6. IsCoinbase(c)
  BY <1>1, SMT DEF Coinbase, IsCoinbase
<1>7. Len(T) \in Nat \ {0}
  BY <1>2, <1>3, SMT
<1>8. Body(T, Senders)
  BY <1>1, <1>4, <1>5, <1>7 DEF Body, c
<1> QED BY <1>3, <1>4, <1>6, <1>8 DEF T, c

(* The fees that the miner finds for its coinbase are a number.            *)
LEMMA FeesType ==
  ASSUME NEW S, Sound(S, Senders), NEW txs \in Seq(Txs)
  PROVE  SimulatedFees(txs, S) \in Nat
<1> DEFINE fee == [i \in DOMAIN txs |-> LET o == ApplyTransaction(txs[i], S) IN
                     IF o.result = "ok" THEN o.gas * txs[i].GasPrice ELSE 0]
<1>1. Width \in Nat \ {0} /\ DOMAIN txs = 1 .. Len(txs) /\ Len(txs) \in Nat
  BY LedgerAssumption, SMT
<1>2. \A i \in DOMAIN txs : fee[i] \in Int
  <2> SUFFICES ASSUME NEW i \in DOMAIN txs PROVE fee[i] \in Int
    OBVIOUS
  <2>1. txs[i] \in Txs
    BY <1>1, SMT
  <2>2. IsTransaction(txs[i]) /\ txs[i].From \in Senders
    BY <2>1, MinerAssumption DEF Senders
  <2>3. ApplyTransaction(txs[i], S).gas \in Nat /\ txs[i].GasPrice \in Nat
    BY <2>2, ApplyGrows DEF IsTransaction
  <2> QED BY <2>3, SMT
<1>3. IsFiniteSet(DOMAIN txs)
  BY <1>1, FS_Interval, SMT
<1>4. SumFunction(fee) \in Int
  <2>1. fee \in [DOMAIN txs -> Int]
    BY <1>2
  <2> HIDE DEF fee
  <2> QED BY <1>3, <2>1, SumType
<1> QED BY <1>1, <1>4, SMT DEF SimulatedFees

(* What NewBlock makes of the miner's transactions is such a block.        *)
LEMMA MinedIsMined ==
  ASSUME miner.txs \in Seq(Txs), Sound(miner.states, Senders)
  PROVE  IsMined(Mined.block)
<1> DEFINE A == (BlockReward + SimulatedFees(miner.txs, miner.states)) % Width
           c == Coinbase(MinerKey, A)
           T == <<c>> \o miner.txs
<1>1. Mined.block.Transactions = T
  BY DEF Mined, NewBlock
<1>2. A \in Words
  BY FeesType, LedgerAssumption, SMT DEF Words
<1>3. c.To = MinerKey /\ c.Amount = A
  BY DEF Coinbase
<1> HIDE DEF A, c
<1>4. T[1] = c /\ Tail(T) = miner.txs
  BY SMT
<1>5. c = Coinbase(c.To, c.Amount)
  BY <1>3 DEF c
<1> HIDE DEF T
<1>6. T = <<T[1]>> \o Tail(T)
  BY <1>4 DEF T
<1> QED BY <1>1, <1>2, <1>3, <1>4, <1>5, <1>6 DEF IsMined

(* NewBlock would make it of its own parts again.                          *)
LEMMA MinedIsNew ==
  ASSUME miner.txs \in Seq(Txs), Mined.result # "error"
  PROVE  IsNew(Mined.block, miner.states)
<1> DEFINE A == (BlockReward + SimulatedFees(miner.txs, miner.states)) % Width
           c == Coinbase(MinerKey, A)
           T == <<c>> \o miner.txs
<1> HIDE DEF c
<1>1. Mined = NewBlock(miner.parent, c, miner.txs, miner.states)
  BY DEF Mined, c
<1>2. Mined.block.parent = miner.parent /\ Mined.block.Transactions = T
  BY <1>1 DEF NewBlock
<1>3. T[1] = c /\ Tail(T) = miner.txs
  BY SMT
<1> HIDE DEF T
<1> QED BY <1>1, <1>2, <1>3 DEF IsNew

(* What a peer mines, a coinbase alone, is such a block as well.           *)
LEMMA PeerIsMined ==
  ASSUME NEW h
  PROVE  IsMined([parent |-> h, GasUsed |-> 0, Transactions |-> <<Coinbase(PeerKey, BlockReward)>>])
<1> DEFINE c == Coinbase(PeerKey, BlockReward)
<1>1. c.To = PeerKey /\ c.Amount = BlockReward /\ BlockReward \in Words
  BY MinerAssumption DEF Coinbase
<1>2. c = Coinbase(c.To, c.Amount)
  BY <1>1
<1> HIDE DEF c
<1>3. <<c>>[1] = c /\ Tail(<<c>>) = <<>> /\ <<c>> = <<c>> \o <<>> /\ <<>> \in Seq(Txs)
  BY SMT
<1> QED BY <1>1, <1>2, <1>3 DEF IsMined, c

-----------------------------------------------------------------------------
(* A transaction of the chain is a coinbase or comes from a wallet.        *)
LEMMA AppliedTxs ==
  ASSUME MinerInv, NEW t \in Applied, ~IsCoinbase(t)
  PROVE  t \in Txs
<1>1. PICK i \in DOMAIN chain : t \in Range(chain[i].Transactions)
  BY DEF Applied
<1>2. IsMined(chain[i])
  BY <1>1 DEF MinerInv, Range
<1> DEFINE T == chain[i].Transactions
<1>3. PICK j \in DOMAIN T : t = T[j]
  BY <1>1 DEF Range
<1>4. DOMAIN T = 1 .. Len(T) /\ IsCoinbase(T[1]) /\ \A k \in 2 .. Len(T) : T[k] \in Txs
  BY <1>2, MinedBody
<1>5. Len(T) \in Nat
  BY <1>2, MinedBody DEF Body
<1> HIDE DEF T
<1>6. j # 1
  BY <1>3, <1>4
<1>7. j \in 2 .. Len(T)
  BY <1>4, <1>5, <1>6, SMT
<1> QED BY <1>3, <1>4, <1>7

(* ApplyBlock on the head.                                                 *)
LEMMA ExtendKeeps ==
  ASSUME MinerInv, NEW b, IsMined(b), Extend(b)
  PROVE  /\ Sound(states', Senders) /\ chain' \in Seq(Range(chain'))
         /\ \A c \in Range(chain') : IsMined(c)
         /\ \A t \in Applied' : Moves(t) => Spent(t)'
<1> DEFINE T == b.Transactions
<1>1. Sound(states, Senders) /\ chain \in Seq(Range(chain)) /\ \A c \in Range(chain) : IsMined(c)
  BY DEF MinerInv
<1>2. /\ ValidateBlock(b, states).result = "ok" /\ states' = ValidateBlock(b, states).states
      /\ chain' = Append(chain, b)
  BY DEF Extend
<1>3. /\ Body(T, Senders) /\ DOMAIN T = 1 .. Len(T) /\ IsCoinbase(T[1])
      /\ \A j \in 2 .. Len(T) : T[j] \in Txs
  BY MinedBody
<1>4. /\ Grows(states, states', Senders)
      /\ \A j \in 2 .. Len(T) : T[j].To # NoKey \/ T[j].Instructions =>
           T[j].From \in DOMAIN states' /\ T[j].Nonce <= states'[T[j].From].Nonce
  BY <1>1, <1>2, <1>3, BlockSpends
<1>5. Sound(states', Senders)
  BY <1>4 DEF Grows
<1>6. /\ Len(chain) \in Nat /\ DOMAIN chain = 1 .. Len(chain) /\ DOMAIN chain' = 1 .. Len(chain) + 1
      /\ chain'[Len(chain) + 1] = b /\ \A i \in DOMAIN chain : chain'[i] = chain[i]
  BY <1>1, <1>2, SMT
<1>7. Range(chain') = Range(chain) \cup {b}
  BY <1>6, SMT DEF Range
<1>8. chain' \in Seq(Range(chain'))
  <2>1. chain \in Seq(Range(chain) \cup {b}) /\ b \in Range(chain) \cup {b}
    BY <1>1, SMT
  <2> QED BY <1>2, <1>7, <2>1, SMT
<1>9. \A c \in Range(chain') : IsMined(c)
  BY <1>1, <1>7
<1>10. ASSUME NEW t \in Applied', Moves(t)
       PROVE  Spent(t)'
  <2>1. PICK i \in DOMAIN chain' : t \in Range(chain'[i].Transactions)
    BY <1>10 DEF Applied
  <2>2. ~IsCoinbase(t) /\ (t.To # NoKey \/ t.Instructions)
    BY <1>10 DEF Moves
  <2>3. CASE i \in DOMAIN chain
    <3>1. t \in Applied
      BY <1>6, <2>1, <2>3 DEF Applied
    <3>2. Spent(t)
      BY <1>10, <3>1 DEF MinerInv
    <3>3. t \in Txs
      BY <2>2, <3>1, AppliedTxs
    <3>4. t.From \notin Senders \X Nat /\ t.Nonce \in Nat
      BY <3>3, MinerAssumption DEF IsTransaction
    <3>5. t.From \in DOMAIN states /\ t.Nonce <= states[t.From].Nonce
      BY <3>2 DEF Spent
    <3>6. t.From \in DOMAIN states' /\ states'[t.From].Nonce >= states[t.From].Nonce
      BY <1>4, <3>4, <3>5 DEF Grows
    <3>7. states[t.From].Nonce \in Nat /\ states'[t.From].Nonce \in Nat
      BY <1>1, <1>5, <3>5, <3>6 DEF Sound, IsLedger, Accounts
    <3> QED BY <3>4, <3>5, <3>6, <3>7, SMT DEF Spent
  <2>4. CASE i = Len(chain) + 1
    <3>1. PICK j \in DOMAIN T : t = T[j]
      BY <1>6, <2>1, <2>4 DEF Range
    <3>2. Len(T) \in Nat
      BY <1>3 DEF Body
    <3>3. j # 1
      BY <1>3, <2>2, <3>1
    <3>4. j \in 2 .. Len(T)
      BY <1>3, <3>2, <3>3, SMT
    <3> QED BY <1>4, <2>2, <3>1, <3>4 DEF Spent
  <2> QED BY <1>6, <2>1, <2>3, <2>4, SMT
<1> QED BY <1>5, <1>8, <1>9, <1>10

(* What speaks of the chain only.                                          *)
LEMMA ChainStays ==
  ASSUME MinerInv, UNCHANGED <<chain, states>>
  PROVE  /\ Sound(states', Senders) /\ chain' \in Seq(Range(chain'))
         /\ \A c \in Range(chain') : IsMined(c)
         /\ \A t \in Applied' : Moves(t) => Spent(t)'
<1>1. Applied' = Applied /\ \A t : Spent(t)' <=> Spent(t)
  BY DEF Applied, Spent
<1> QED BY <1>1 DEF MinerInv

(* What speaks of the pool only.                                           *)
LEMMA PoolStays ==
  ASSUME PoolInv, UNCHANGED mempoolVars
  PROVE  PoolInv'
BY DEF mempoolVars, poolVars, PoolInv, PoolTypeOK

(* What the miner holds.                                                   *)
MinerHolds ==
  /\ miner.pc \in {"state", "mine"} => miner.txs \in Seq(Txs)
  /\ miner.pc = "mine" => Sound(miner.states, Senders)
  /\ miner.pc = "submit" => IsMined(miner.block) /\ IsNew(miner.block, miner.states)

(* Neither the states of a chain without accounts nor those of a failed    *)
(* request hold anything.                                                  *)
LEMMA EmptyIsSound == Sound(<<>>, Senders)
<1>1. DOMAIN <<>> = {} /\ <<>> \in [{} -> Accounts]
  BY SMT
<1>2. IsFiniteSet({})
  BY FS_EmptySet
<1> QED BY <1>1, <1>2 DEF Sound, IsLedger

(* The invariant from its parts.                                           *)
LEMMA Parts ==
  ASSUME PoolInv', Sound(states', Senders), chain' \in Seq(Range(chain')),
         \A c \in Range(chain') : IsMined(c), \A t \in Applied' : Moves(t) => Spent(t)',
         MinerHolds', \A c \in submitted' : IsMined(c)
  PROVE  MinerInv'
BY DEF MinerInv, MinerHolds

(* The miner's steps.  Each keeps what it holds in order; only the last    *)
(* passes something on.                                                    *)
LEMMA StartMiningKeeps ==
  ASSUME MinerInv, StartMining
  PROVE  MinerInv'
<1>1. /\ PoolInv /\ Sound(states, Senders) /\ MinerHolds
      /\ \A c \in submitted : IsMined(c)
  BY DEF MinerInv, MinerHolds
<1>2. CASE getChainInfo
  <2>1. PoolInv'
    BY <1>1, <1>2, PoolStays DEF getChainInfo
  <2>2. MinerHolds' /\ UNCHANGED <<chain, states>> /\ submitted' = submitted
    BY <1>2 DEF getChainInfo, MinerHolds
  <2> QED BY <1>1, <2>1, <2>2, ChainStays, Parts
<1>3. CASE getMempoolTransactions
  <2>1. /\ miner'.pc = "state" /\ PoolInv' /\ miner'.txs \in Seq(Txs)
        /\ UNCHANGED <<chain, states, submitted>>
    <3>1. CASE handleGetMempool /\ miner' = [pc |-> "state", parent |-> miner.parent,
                                             txs |-> GetTransactions(queue', PoolLimit)]
      <4>1. PoolInv'
        BY <1>1, <3>1, CleanKeeps DEF handleGetMempool
      <4>2. addedAt \in AllTimes /\ queue' \in Seq(Txs) /\ <<>> \in Seq(Txs) /\ PoolLimit \in Nat
        BY <1>1, <4>1, PoolFacts, MinerAssumption, SMT DEF PoolInv, PoolTypeOK
      <4>3. GetTransactions(queue', PoolLimit) \in Seq(Txs)
        BY <4>2, ServedIsSeq DEF GetTransactions
      <4> QED BY <1>3, <3>1, <4>1, <4>3 DEF getMempoolTransactions
    <3>2. CASE UNCHANGED mempoolVars /\ miner' = [pc |-> "state", parent |-> miner.parent, txs |-> <<>>]
      BY <1>1, <1>3, <3>2, PoolStays, SMT DEF getMempoolTransactions
    <3> QED BY <1>3, <3>1, <3>2 DEF getMempoolTransactions
  <2>2. MinerHolds'
    BY <2>1 DEF MinerHolds
  <2> QED BY <1>1, <2>1, <2>2, ChainStays, Parts
<1>4. CASE getChainState
  <2>1. PoolInv'
    BY <1>1, <1>4, PoolStays DEF getChainState
  <2>2. PICK S : (S = states \/ S = <<>>) /\ miner' = [pc |-> "mine", parent |-> miner.parent,
                                                      txs |-> miner.txs, states |-> S]
    BY <1>4 DEF getChainState, handleChainState, GetChain
  <2>3. Sound(S, Senders)
    BY <1>1, <2>2, EmptyIsSound
  <2>4. MinerHolds'
    BY <1>1, <1>4, <2>2, <2>3 DEF MinerHolds, getChainState
  <2>5. UNCHANGED <<chain, states>> /\ submitted' = submitted
    BY <1>4 DEF getChainState
  <2> QED BY <1>1, <2>1, <2>4, <2>5, ChainStays, Parts
<1>5. CASE createAndMineBlock
  <2>1. PoolInv'
    BY <1>1, <1>5, PoolStays DEF createAndMineBlock
  <2>2. IsMined(Mined.block)
    BY <1>1, <1>5, MinedIsMined DEF createAndMineBlock, MinerHolds
  <2>3. \/ miner' = [pc |-> "dead"] \/ miner' = Idle
        \/ /\ miner' = [pc |-> "submit", block |-> Mined.block, states |-> miner.states]
           /\ Mined.result # "error"
    BY <1>5 DEF createAndMineBlock
  <2>4. MinerHolds'
    <3>1. CASE miner' = [pc |-> "dead"] \/ miner' = Idle
      BY <3>1, SMT DEF MinerHolds, Idle
    <3>2. CASE /\ miner' = [pc |-> "submit", block |-> Mined.block, states |-> miner.states]
               /\ Mined.result # "error"
      <4>1. IsNew(Mined.block, miner.states)
        BY <1>1, <1>5, <3>2, MinedIsNew DEF createAndMineBlock, MinerHolds
      <4>2. miner'.pc = "submit" /\ miner'.block = Mined.block /\ miner'.states = miner.states
        BY <3>2
      <4>3. IsMined(miner'.block) /\ IsNew(miner'.block, miner'.states)
        BY <2>2, <4>1, <4>2
      <4> QED BY <4>2, <4>3 DEF MinerHolds
    <3> QED BY <2>3, <3>1, <3>2
  <2>5. UNCHANGED <<chain, states>> /\ submitted' = submitted
    BY <1>5 DEF createAndMineBlock
  <2> QED BY <1>1, <2>1, <2>4, <2>5, ChainStays, Parts
<1>6. CASE submitBlock
  <2>1. PoolInv'
    BY <1>1, <1>6, PoolStays DEF submitBlock
  <2>2. IsMined(miner.block) /\ submitted' \subseteq submitted \cup {miner.block}
    BY <1>1, <1>6 DEF submitBlock, MinerHolds
  <2>3. \A c \in submitted' : IsMined(c)
    BY <1>1, <2>2
  <2>4. MinerHolds' /\ UNCHANGED <<chain, states>>
    BY <1>6 DEF submitBlock, MinerHolds, Idle
  <2> QED BY <2>1, <2>3, <2>4, ChainStays, Parts
<1> QED BY <1>2, <1>3, <1>4, <1>5, <1>6 DEF StartMining

(* Every step.                                                             *)
LEMMA NextKeeps ==
  ASSUME MinerInv, [Next]_minerVars
  PROVE  MinerInv'
<1>1. PoolInv /\ MinerHolds /\ \A c \in submitted : IsMined(c)
  BY DEF MinerInv, MinerHolds
<1>2. ASSUME NEW t \in Txs, handleSubmitTransaction(t)
      PROVE  MinerInv'
  <2>1. PoolInv'
    BY <1>1, <1>2, AddKeeps DEF handleSubmitTransaction, ProcessTransaction
  <2>2. MinerHolds' /\ UNCHANGED <<chain, states>> /\ submitted' = submitted
    BY <1>1, <1>2 DEF handleSubmitTransaction, MinerHolds
  <2> QED BY <1>1, <2>1, <2>2, ChainStays, Parts
<1>3. ASSUME NEW b \in submitted, ProcessBlock(b)
      PROVE  MinerInv'
  <2>1. PoolInv' /\ MinerHolds' /\ submitted' = submitted \ {b} /\ IsMined(b)
    BY <1>1, <1>3, PoolStays DEF ProcessBlock, MinerHolds
  <2>2. CASE Extend(b)
    BY <1>1, <2>1, <2>2, ExtendKeeps, Parts
  <2>3. CASE UNCHANGED <<chain, states>>
    BY <1>1, <2>1, <2>3, ChainStays, Parts
  <2> QED BY <1>3, <2>2, <2>3 DEF ProcessBlock
<1>4. CASE PeerBlock
  <2> DEFINE b == [parent |-> Len(chain), GasUsed |-> 0,
                   Transactions |-> <<Coinbase(PeerKey, BlockReward)>>]
  <2>1. Extend(b) /\ IsMined(b)
    BY <1>4, PeerIsMined DEF PeerBlock
  <2>2. PoolInv' /\ MinerHolds' /\ submitted' = submitted
    BY <1>1, <1>4, PoolStays DEF PeerBlock, MinerHolds
  <2> HIDE DEF b
  <2> QED BY <1>1, <2>1, <2>2, ExtendKeeps, Parts
<1>5. CASE StartMining
  BY <1>5, StartMiningKeeps
<1>6. CASE Tick /\ UNCHANGED <<chain, states, miner, submitted>>
  <2>1. PoolInv'
    <3>1. now' \in 0 .. MaxTime
      BY <1>1, <1>6, PoolFacts, SMT DEF Tick
    <3> QED BY <1>1, <1>6, <3>1 DEF Tick, poolVars, PoolInv, PoolTypeOK
  <2>2. MinerHolds'
    BY <1>1, <1>6 DEF MinerHolds
  <2> QED BY <1>1, <1>6, <2>1, <2>2, ChainStays, Parts
<1>7. CASE UNCHANGED minerVars
  <2>1. PoolInv' /\ MinerHolds' /\ UNCHANGED <<chain, states>> /\ submitted' = submitted
    BY <1>1, <1>7, PoolStays DEF minerVars, MinerHolds
  <2> QED BY <1>1, <2>1, ChainStays, Parts
<1> QED BY <1>2, <1>3, <1>4, <1>5, <1>6, <1>7 DEF Next

-----------------------------------------------------------------------------
(* The pool keeps its order, the ledger of the chain is sound, blocks hold *)
(* a coinbase and transactions of wallets, and the sender's nonce has      *)
(* reached that of every transaction of the chain that moved something.    *)
THEOREM MinerInvariance == Spec => []MinerInv
<1>1. Init => MinerInv
  <2> SUFFICES ASSUME Init PROVE MinerInv
    OBVIOUS
  <2>1. PoolInv
    BY PoolInitially DEF Init
  <2>2. /\ chain = <<>> /\ states = <<>> /\ miner = Idle /\ submitted = {}
    BY DEF Init
  <2>3. DOMAIN chain = {} /\ Range(chain) = {} /\ chain \in Seq(Range(chain)) /\ Applied = {}
    BY <2>2, SMT DEF Range, Applied
  <2>4. Sound(states, Senders)
    BY <2>2, EmptyIsSound
  <2> QED BY <2>1, <2>2, <2>3, <2>4 DEF MinerInv, Idle
<1>2. MinerInv /\ [Next]_minerVars => MinerInv'
  BY NextKeeps
<1> QED BY <1>1, <1>2, PTL DEF Spec

(* Every account of the chain holds a word, and code is only at addresses  *)
(* that ApplyTransaction made for a contract.                              *)
THEOREM LedgerTypeCorrect == Spec => []LedgerTypeOK
<1>1. MinerInv => LedgerTypeOK
  BY DEF MinerInv, LedgerTypeOK, Sound, IsLedger, Accounts, Words
<1> QED BY <1>1, MinerInvariance, PTL

(* ValidateTransaction's nonce check prevents the double spend: what the   *)
(* chain has applied it never accepts again.                               *)
THEOREM NothingReplayed == Spec => []NoReplay
<1>1. MinerInv => NoReplay
  <2> SUFFICES ASSUME MinerInv, NEW t \in Applied, Moves(t), ValidateTransaction(t, states)
               PROVE  FALSE
    BY DEF NoReplay
  <2>1. ~IsCoinbase(t) /\ Spent(t) /\ Sound(states, Senders)
    BY DEF MinerInv, Moves
  <2>2. t \in Txs
    BY <2>1, AppliedTxs
  <2>3. t.Nonce = states[t.From].Nonce + 1 /\ t.From \in DOMAIN states
    BY <2>1 DEF ValidateTransaction
  <2>4. states[t.From].Nonce \in Nat
    BY <2>1, <2>3 DEF Sound, IsLedger, Accounts
  <2> QED BY <2>1, <2>3, <2>4, SMT DEF Spent
<1> QED BY <1>1, MinerInvariance, PTL

(* What ValidateTransaction accepts does not make ApplyTransaction panic   *)
(* on any ledger of the chain, as long as twice the supply is a word: the  *)
(* recipient is credited before the sender pays, and may be the sender.    *)
THEOREM NoPanicBelowHalf ==
  Spec => [](2 * Supply(states) < Width => ValidatedNeverPanics)
<1>1. MinerInv => (2 * Supply(states) < Width => ValidatedNeverPanics)
  <2> SUFFICES ASSUME MinerInv, 2 * Supply(states) < Width,
                      NEW t \in Txs, ValidateTransaction(t, states)
               PROVE  ApplyTransaction(t, states).result # "panic"
    BY DEF ValidatedNeverPanics
  <2>1. IsLedger(states) /\ IsFiniteSet(DOMAIN states) /\ Sound(states, Senders)
    BY DEF MinerInv, Sound
  <2>2. IsTransaction(t) /\ t.From # NoKey /\ t.From \notin Senders \X Nat /\ t.From \in Senders
    BY MinerAssumption DEF Senders
  <2>3. t.From \in DOMAIN states /\ states[t.From].Balance >= MaxCost(t)
    BY <2>2 DEF ValidateTransaction, IsCoinbase
  <2>4. states[t.From].Nonce \in Nat
    BY <2>1, <2>3 DEF IsLedger, Accounts
  <2>5. SentByKey(t, states)
    <3>1. ~states[t.From].code
      BY <2>1, <2>2, <2>3 DEF Sound
    <3>2. ContractAddress(t, states) \in Senders \X Nat
      BY <2>2, <2>4 DEF ContractAddress
    <3> QED BY <2>2, <3>1, <3>2 DEF SentByKey
  <2>6. MaxCost(t) \in Nat /\ t.Amount \in Nat /\ t.Amount <= MaxCost(t)
    <3> DEFINE p == t.GasLimit * t.GasPrice
    <3>1. p \in Nat /\ t.Amount \in Nat /\ ContractDeploymentFee \in Nat
      BY <2>2, LedgerAssumption, SMT DEF IsTransaction, Words
    <3> HIDE DEF p
    <3> QED BY <3>1, SMT DEF MaxCost, p
  <2>7. Supply(states) \in Nat /\ \A k \in DOMAIN states :
          states[k].Balance \in Nat /\ states[k].Balance <= Supply(states)
    BY <2>1, <2>3, BalanceInSupply
  <2>8. ~Overflows(states, t.To, t.Amount)
    <3> SUFFICES ASSUME t.To \in DOMAIN states PROVE states[t.To].Balance + t.Amount < Width
      BY <2>6, <2>7, LedgerAssumption, SMT DEF Overflows
    <3> QED BY <2>3, <2>6, <2>7, LedgerAssumption, SMT
  <2> QED BY <2>1, <2>2, <2>5, <2>8, ValidatedDoesNotPanic
<1> QED BY <1>1, MinerInvariance, PTL

(* What the miner mined are transfers to keys and deployments, and none of *)
(* them goes to a contract that the block deploys.                         *)
MinedPlain ==
  /\ \A i \in DOMAIN MinedTxs : IsPlain(MinedTxs[i], states)
  /\ \A i, j \in DOMAIN MinedTxs :
       IsContractDeployment(MinedTxs[i]) => MinedTxs[j].To # Address(MinedTxs[i])

(* A block that the miner made of such transactions, all good and one of   *)
(* each sender, on the head and its ledger is accepted, while the supply   *)
(* leaves room for its coinbase.                                           *)
THEOREM MinedBlockPasses ==
  Spec => [](2 * (2 * Supply(states) + BlockReward) < Width /\ MinedPlain => GoodBlockAccepted)
<1>1. MinerInv => (2 * (2 * Supply(states) + BlockReward) < Width /\ MinedPlain
                     => GoodBlockAccepted)
  <2> SUFFICES ASSUME MinerInv, 2 * (2 * Supply(states) + BlockReward) < Width, MinedPlain,
                      OnHead, OneEach, AllGood
               PROVE  ValidateBlock(miner.block, states).result = "ok"
    BY DEF GoodBlockAccepted
  <2> DEFINE b == miner.block
             c == b.Transactions[1]
             txs == Tail(b.Transactions)
  <2>1. /\ Sound(states, Senders) /\ IsMined(b) /\ IsNew(b, states)
    BY DEF MinerInv, OnHead
  <2>2. txs \in Seq(Txs) /\ c = Coinbase(c.To, c.Amount) /\ c.Amount \in Words
    BY <2>1 DEF IsMined
  <2>3. /\ NewBlock(b.parent, c, txs, states).block = b
        /\ NewBlock(b.parent, c, txs, states).result # "error"
    BY <2>1 DEF IsNew
  <2>4. MinedTxs = txs
    BY DEF MinedTxs
  <2> HIDE DEF txs, c, b
  <2>5. DOMAIN txs = 1 .. Len(txs) /\ \A i \in 1 .. Len(txs) : txs[i] \in Txs
    BY <2>2, SMT
  <2>6. \A t \in Txs : Signed(t, Senders)
    BY MinerAssumption DEF Signed, Senders
  <2>7. \A i \in 1 .. Len(txs) :
          /\ Signed(txs[i], Senders) /\ IsPlain(txs[i], states)
          /\ ValidateTransaction(txs[i], states)
          /\ ApplyTransaction(txs[i], states).result = "ok"
    BY <2>4, <2>5, <2>6 DEF AllGood, MinedPlain
  <2>8. AllApart(txs)
    BY <2>4, <2>5 DEF OneEach, AllApart, Apart, MinedPlain
  <2>9. ValidateBlock(NewBlock(b.parent, c, txs, states).block, states).result = "ok"
    BY <2>1, <2>2, <2>3, <2>7, <2>8, NewBlockPasses
  <2> QED BY <2>3, <2>9 DEF b
<1> QED BY <1>1, MinerInvariance, PTL

(* Every step that extends the chain by a block of transfers adds the      *)
(* block reward to the supply and nothing else, as ValidateBlock demands   *)
(* of the coinbase.                                                        *)
THEOREM SupplyConserved == Spec => TransfersConserve
<1> DEFINE Conserves ==
             chain' # chain /\ Supply(states) + BlockReward < Width
               /\ (\A t \in Range(chain'[Len(chain')].Transactions) : IsTransfer(t, states'))
               => Supply(states') = Supply(states) + BlockReward
<1>1. ASSUME MinerInv, NEW b, IsMined(b), Extend(b)
      PROVE  Conserves
  <2> SUFFICES ASSUME Supply(states) + BlockReward < Width,
                      \A t \in Range(chain'[Len(chain')].Transactions) : IsTransfer(t, states')
               PROVE  Supply(states') = Supply(states) + BlockReward
    OBVIOUS
  <2>1. Sound(states, Senders) /\ chain \in Seq(Range(chain))
    BY <1>1 DEF MinerInv
  <2>2. /\ ValidateBlock(b, states).result = "ok" /\ states' = ValidateBlock(b, states).states
        /\ chain' = Append(chain, b)
    BY <1>1 DEF Extend
  <2>3. chain'[Len(chain')] = b
    BY <2>1, <2>2, SMT
  <2>4. Body(b.Transactions, Senders) /\ DOMAIN b.Transactions = 1 .. Len(b.Transactions)
    BY <1>1, MinedBody
  <2>5. \A j \in 2 .. Len(b.Transactions) : b.Transactions[j] \in Range(b.Transactions)
    BY <2>4, SMT DEF Range
  <2>6. \A j \in 2 .. Len(b.Transactions) : IsTransfer(b.Transactions[j], states')
    BY <2>3, <2>5
  <2> QED BY <2>1, <2>2, <2>4, <2>6, BlockConserves
<1>2. MinerInv /\ [Next]_minerVars => [Conserves]_minerVars
  <2> SUFFICES ASSUME MinerInv, Next, chain' # chain PROVE Conserves
    OBVIOUS
  <2>1. ASSUME NEW b \in submitted, ProcessBlock(b) PROVE Conserves
    <3>1. IsMined(b) /\ Extend(b)
      BY <2>1 DEF MinerInv, ProcessBlock
    <3> HIDE DEF Conserves
    <3> QED BY <1>1, <3>1
  <2>2. CASE PeerBlock
    <3> DEFINE b == [parent |-> Len(chain), GasUsed |-> 0,
                     Transactions |-> <<Coinbase(PeerKey, BlockReward)>>]
    <3>1. IsMined(b) /\ Extend(b)
      BY <2>2, PeerIsMined DEF PeerBlock
    <3> HIDE DEF Conserves, b
    <3> QED BY <1>1, <3>1
  <2>3. \/ \E b \in submitted : ProcessBlock(b)
        \/ PeerBlock
    BY DEF Next, handleSubmitTransaction, StartMining, getChainInfo, getMempoolTransactions,
           getChainState, createAndMineBlock, submitBlock
  <2> HIDE DEF Conserves
  <2> QED BY <2>1, <2>2, <2>3
<1> QED BY <1>2, MinerInvariance, PTL DEF Spec, TransfersConserve
=============================================================================

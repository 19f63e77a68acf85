---------------------------- MODULE LedgerProofs ----------------------------
(***************************************************************************)
(* What a transaction and a block do to a ledger, for words, prices and    *)
(* gas of any size and any number of transactions.                         *)
(***************************************************************************)
EXTENDS Ledger, LoopTheorems

(* A leaf is proved by Zenon, unless it names SMT for its arithmetic, its  *)
(* sequences or its records, or PTL.                                       *)
USE Zenon

(* A sender has a key: it is no contract and not the address of one that   *)
(* it deploys.                                                             *)
SentByKey(t, S) ==
  /\ t.From # NoKey
  /\ t.From \in DOMAIN S => ~S[t.From].code /\ t.From # ContractAddress(t, S)

(* A ledger on which the sender can still pay as much as on S, and nonces  *)
(* are what they were.                                                     *)
Prepared(t, S, P) ==
  /\ IsLedger(P) /\ DOMAIN S \subseteq DOMAIN P
  /\ P[t.From].Balance >= S[t.From].Balance
  /\ \A k \in DOMAIN S \ {ContractAddress(t, S)} : P[k].Nonce = S[k].Nonce

(* The outcome of a transaction that was applied to S: no panic, its       *)
(* sender's nonce advances if it succeeds, no nonce falls.                 *)
Paid(t, S, o) ==
  /\ IsLedger(o.states) /\ DOMAIN S \subseteq DOMAIN o.states
  /\ o.result # "panic"
  /\ o.result = "ok" => o.states[t.From].Nonce = S[t.From].Nonce + 1
  /\ \A k \in DOMAIN S \ {ContractAddress(t, S)} : o.states[k].Nonce >= S[k].Nonce

(* What Charged does to S: the sender's nonce advances, or nothing         *)
(* happens.                                                                *)
PaidFrom(t, S, o) ==
  /\ IsLedger(o.states) /\ DOMAIN o.states = DOMAIN S
  /\ \A k \in DOMAIN S : k # t.From => o.states[k] = S[k]
  /\ o.result = "ok" => o.states[t.From].Nonce = S[t.From].Nonce + 1
  /\ o.result # "ok" => o.states = S

-----------------------------------------------------------------------------
(* The supply of a ledger, and what a changed or a new account does to it. *)
LEMMA SupplyType ==
  ASSUME NEW S, IsLedger(S), IsFiniteSet(DOMAIN S)
  PROVE  Supply(S) \in Nat
<1>1. [k \in DOMAIN S |-> S[k].Balance] \in [DOMAIN S -> Nat]
  BY LedgerAssumption, SMT DEF IsLedger, Accounts, Words
<1> QED
  BY <1>1, SumNatural DEF Supply

(* One account of the ledger is replaced.                                  *)
LEMMA SupplyUpdate ==
  ASSUME NEW S, IsLedger(S), IsFiniteSet(DOMAIN S), NEW k \in DOMAIN S, NEW a \in Accounts
  PROVE  Supply([S EXCEPT ![k] = a]) = Supply(S) - S[k].Balance + a.Balance
<1> DEFINE P == [S EXCEPT ![k] = a]
           I == DOMAIN S
           f == [j \in I |-> S[j].Balance]
           g == [j \in I |-> P[j].Balance]
<1>1. P \in [I -> Accounts] /\ DOMAIN P = I /\ P[k] = a /\ \A j \in I \ {k} : P[j] = S[j]
  BY DEF IsLedger
<1>2. \A x \in Accounts : x.Balance \in Int
  BY LedgerAssumption, SMT DEF Accounts, Words
<1> HIDE DEF P
<1>3. f \in [I -> Int] /\ g \in [I -> Int]
  BY <1>1, <1>2 DEF IsLedger
<1>4. f[k] = S[k].Balance /\ g[k] = a.Balance /\ \A j \in I \ {k} : g[j] = f[j]
  BY <1>1
<1>5. Supply(S) = SumFunction(f) /\ Supply(P) = SumFunction(g)
  BY <1>1 DEF Supply
<1> HIDE DEF I, f, g
<1>6. SumFunction(g) = SumFunction(f) - f[k] + g[k]
  BY <1>3, <1>4, SumUpdate, SMT DEF I
<1> QED
  BY <1>4, <1>5, <1>6 DEF P

(* Nobody holds more than the supply.                                      *)
LEMMA BalanceInSupply ==
  ASSUME NEW S, IsLedger(S), IsFiniteSet(DOMAIN S), NEW k \in DOMAIN S
  PROVE  /\ Supply(S) \in Nat /\ S[k].Balance \in Nat
         /\ S[k].Balance <= Supply(S)
<1> DEFINE a == [S[k] EXCEPT !.Balance = 0]
           P == [S EXCEPT ![k] = a]
<1>1. S[k] \in Accounts /\ a \in Accounts /\ a.Balance = 0 /\ S[k].Balance \in Nat
  BY LedgerAssumption, SMT DEF IsLedger, Accounts, Words
<1>2. IsLedger(P) /\ DOMAIN P = DOMAIN S
  BY <1>1 DEF IsLedger
<1> HIDE DEF a
<1>3. Supply(P) = Supply(S) - S[k].Balance + a.Balance
  BY <1>1, SupplyUpdate
<1> HIDE DEF P
<1>4. Supply(P) \in Nat /\ Supply(S) \in Nat
  BY <1>2, SupplyType
<1> QED
  BY <1>1, <1>3, <1>4, SMT

(* One account is added.                                                   *)
LEMMA SupplyPut ==
  ASSUME NEW S, IsLedger(S), IsFiniteSet(DOMAIN S), NEW k, k \notin DOMAIN S, NEW a \in Accounts
  PROVE  Supply(Put(S, k, a)) = Supply(S) + a.Balance
<1> DEFINE P == Put(S, k, a)
           J == DOMAIN S \cup {k}
           f == [j \in DOMAIN S |-> S[j].Balance]
           g == [j \in J |-> P[j].Balance]
<1>1. /\ P \in [J -> Accounts] /\ DOMAIN P = J
      /\ P[k] = a /\ \A j \in DOMAIN S : P[j] = S[j]
  BY DEF IsLedger, Put
<1>2. \A x \in Accounts : x.Balance \in Int
  BY LedgerAssumption, SMT DEF Accounts, Words
<1> HIDE DEF P
<1>3. J \ {k} = DOMAIN S /\ k \in J /\ IsFiniteSet(J)
  BY FS_AddElement
<1>4. f \in [J \ {k} -> Int] /\ g \in [J -> Int]
  BY <1>1, <1>2, <1>3 DEF IsLedger
<1>5. g[k] = a.Balance /\ \A j \in J \ {k} : g[j] = f[j]
  BY <1>1
<1>6. Supply(S) = SumFunction(f) /\ Supply(P) = SumFunction(g)
  BY <1>1 DEF Supply
<1> HIDE DEF J, f, g
<1>7. SumFunction(g) = SumFunction(f) + g[k]
  BY <1>3, <1>4, <1>5, SumExtend, SMT
<1> QED
  BY <1>5, <1>6, <1>7 DEF P

-----------------------------------------------------------------------------
(* Gas that was used costs no more than the gas that was allowed.          *)
LEMMA ProductMonotone ==
  ASSUME NEW a \in Nat, NEW b \in Nat, NEW c \in Nat, a <= b
  PROVE  a * c \in Nat /\ b * c \in Nat /\ a * c <= b * c
<1> DEFINE d == b - a
<1>1. d \in Nat /\ b = a + d
  BY SMT
<1>2. a * c \in Nat /\ d * c \in Nat
  BY <1>1, SMT
<1>3. b * c = a * c + d * c
  BY <1>1, SMT
<1> HIDE DEF d
<1> QED BY <1>2, <1>3, SMT

(* A transaction that ValidateTransaction has accepted can pay for what    *)
(* Charged takes, on any ledger on which its sender has not become poorer. *)
LEMMA ChargedPays ==
  ASSUME NEW t, NEW S, NEW P, NEW gas \in Nat,
         IsLedger(S), IsLedger(P), IsTransaction(t), ~IsCoinbase(t),
         ValidateTransaction(t, S),
         t.From \in DOMAIN P, P[t.From].Balance >= S[t.From].Balance
  PROVE  LET fee == IF IsContractDeployment(t) THEN ContractDeploymentFee ELSE 0
         IN  Charged(t, P, gas, fee).result # "panic"
<1> DEFINE fee == IF IsContractDeployment(t) THEN ContractDeploymentFee ELSE 0
           cost == t.Amount + fee + ((gas * t.GasPrice) % Width)
<1>1. CASE gas > t.GasLimit
  BY <1>1 DEF Charged, Outcome
<1>2. CASE ~(gas > t.GasLimit)
  <2>1. /\ t.Amount \in Nat /\ fee \in Nat /\ Width \in Nat \ {0}
        /\ t.GasLimit \in Nat /\ t.GasPrice \in Nat
    BY LedgerAssumption, SMT DEF IsTransaction, Words
  <2>2. /\ gas * t.GasPrice \in Nat /\ t.GasLimit * t.GasPrice \in Nat
        /\ gas * t.GasPrice <= t.GasLimit * t.GasPrice
    BY <1>2, <2>1, ProductMonotone, SMT
  <2>3. /\ t.From \in DOMAIN S
        /\ MaxCost(t) = t.Amount + t.GasLimit * t.GasPrice + fee
        /\ MaxCost(t) < Width /\ S[t.From].Balance >= MaxCost(t)
    BY DEF ValidateTransaction, MaxCost
  <2>4. S[t.From].Balance \in Int /\ P[t.From].Balance \in Int
    BY <2>3, LedgerAssumption, SMT DEF IsLedger, Accounts, Words
  <2> HIDE DEF fee
  <2>5. gas * t.GasPrice < Width
    BY <2>1, <2>2, <2>3, SMT
  <2>6. (gas * t.GasPrice) % Width = gas * t.GasPrice
    BY <2>1, <2>2, <2>5, SMT
  <2>7. ~(cost >= Width \/ P[t.From].Balance < cost)
    BY <2>1, <2>2, <2>3, <2>4, <2>6, SMT
  <2> HIDE DEF cost
  <2>8. Charged(t, P, gas, fee).result = "ok"
    BY <1>2, <2>7 DEF Charged, Outcome, cost
  <2> QED BY <2>8 DEF fee
<1> QED BY <1>1, <1>2

(* The steps that come before the payment keep the sender's balance and    *)
(* nonce, unless the sender pays itself, and the types.                    *)
LEMMA CreditKeeps ==
  ASSUME NEW t, NEW S, IsLedger(S), IsTransaction(t), SentByKey(t, S),
         t.From \in DOMAIN S, ~Overflows(S, t.To, t.Amount)
  PROVE  LET P == Credit(S, t.To, t.Amount) IN
         /\ Prepared(t, S, P)
         /\ t.To \in DOMAIN P
         /\ P[t.From].Nonce = S[t.From].Nonce
<1> DEFINE P == Credit(S, t.To, t.Amount)
<1>0. \A k \in DOMAIN S : S[k] \in Accounts
  BY DEF IsLedger
<1>1. CASE t.To \in DOMAIN S
  <2> DEFINE to == [S[t.To] EXCEPT !.Balance = @ + t.Amount]
  <2>1. P = [S EXCEPT ![t.To] = to]
    BY <1>1 DEF Credit
  <2>2. S[t.To].Balance + t.Amount \in Words /\ S[t.To].Balance + t.Amount >= S[t.To].Balance
    BY <1>0, <1>1, LedgerAssumption, SMT DEF Overflows, Accounts, Words, IsTransaction
  <2>3. /\ to \in Accounts /\ to.Nonce = S[t.To].Nonce
        /\ to.Balance >= S[t.To].Balance
    BY <1>0, <1>1, <2>2 DEF Accounts
  <2> HIDE DEF P, to
  <2>4. IsLedger(P) /\ DOMAIN P = DOMAIN S \cup {t.To}
    BY <1>1, <2>1, <2>3 DEF IsLedger
  <2>5. \A k \in DOMAIN S : P[k] = IF k = t.To THEN to ELSE S[k]
    BY <2>1 DEF IsLedger
  <2>6. P[t.From].Balance >= S[t.From].Balance
    BY <1>0, <2>3, <2>5, LedgerAssumption, SMT DEF Accounts, Words
  <2>7. \A k \in DOMAIN S : P[k].Nonce = S[k].Nonce
    BY <2>3, <2>5
  <2> QED BY <2>4, <2>6, <2>7 DEF P, Prepared
<1>2. CASE t.To \notin DOMAIN S
  <2>1. P = [j \in DOMAIN S \cup {t.To} |-> IF j = t.To THEN Account(t.Amount, FALSE) ELSE S[j]]
    BY <1>2 DEF Credit, Put
  <2>2. Account(t.Amount, FALSE) \in Accounts
    BY LedgerAssumption DEF Account, Accounts, IsTransaction
  <2> HIDE DEF P
  <2>3. IsLedger(P) /\ DOMAIN P = DOMAIN S \cup {t.To}
    BY <1>0, <2>1, <2>2 DEF IsLedger
  <2>4. \A k \in DOMAIN S : P[k] = S[k]
    BY <1>2, <2>1
  <2>5. S[t.From].Balance >= S[t.From].Balance
    BY <1>0, LedgerAssumption, SMT DEF Accounts, Words
  <2> QED BY <2>3, <2>4, <2>5 DEF P, Prepared
<1> QED BY <1>1, <1>2

(* The executor's deployment adds a contract and leaves every other        *)
(* account alone.                                                          *)
LEMMA DeployedKeeps ==
  ASSUME NEW t, NEW S, IsLedger(S), IsTransaction(t)
  PROVE  LET P == Deployed(t, S) IN
         /\ IsLedger(P) /\ DOMAIN S \subseteq DOMAIN P
         /\ \A k \in DOMAIN S : k # ContractAddress(t, S) => P[k] = S[k]
<1>1. Account(t.Amount, TRUE) \in Accounts
  BY LedgerAssumption DEF Account, Accounts, IsTransaction
<1> QED BY <1>1 DEF Deployed, Put, IsLedger

(* A call changes the balance and the storage of the contract only, and    *)
(* costs a natural amount of gas.                                          *)
LEMMA CalledKeeps ==
  ASSUME NEW t, NEW S, IsLedger(S), IsTransaction(t), t.To \in DOMAIN S
  PROVE  LET P == Called(t, S) IN
         /\ IsLedger(P) /\ DOMAIN P = DOMAIN S
         /\ \A k \in DOMAIN S : P[k].Nonce = S[k].Nonce
         /\ \A k \in DOMAIN S : k # t.To => P[k] = S[k]
         /\ CallGas(t, S) \in Nat
         /\ \E a \in Accounts :
              P = [S EXCEPT ![t.To] = a] /\ a.Nonce = S[t.To].Nonce /\ a.code = S[t.To].code
<1> DEFINE r == CallRun[S[t.To].store]
<1>1. S[t.To] \in Accounts
  BY DEF IsLedger
<1>2. r.gas \in Nat /\ r.store \in DOMAIN CallRun /\ S[t.To].store \in DOMAIN CallRun
  BY <1>1, LedgerAssumption DEF Accounts
<1>3. CallGas(t, S) \in Nat
  BY <1>2 DEF CallGas, IsTransaction
<1>4. (S[t.To].Balance + t.Amount) % Width \in Words
  <2>1. S[t.To].Balance + t.Amount \in Nat /\ Width \in Nat \ {0}
    BY <1>1, LedgerAssumption, SMT DEF Accounts, Words, IsTransaction
  <2> QED BY <2>1, SMT DEF Words
<1> DEFINE store == IF r.ok /\ r.gas <= t.GasLimit THEN r.store ELSE S[t.To].store
           to == [S[t.To] EXCEPT !.Balance = (@ + t.Amount) % Width, !.store = store]
<1>5. to \in Accounts
  BY <1>1, <1>2, <1>4 DEF Accounts
<1>6. Called(t, S) = [S EXCEPT ![t.To] = to]
  BY <1>1 DEF Called, IsLedger, Accounts
<1>7. to.Nonce = S[t.To].Nonce /\ to.code = S[t.To].code
  BY <1>1 DEF Accounts
<1> HIDE DEF to
<1>8. \A k \in DOMAIN S : Called(t, S)[k] = IF k = t.To THEN to ELSE S[k]
  BY <1>6 DEF IsLedger
<1>9. IsLedger(Called(t, S)) /\ DOMAIN Called(t, S) = DOMAIN S
  BY <1>5, <1>6 DEF IsLedger
<1> QED BY <1>3, <1>5, <1>6, <1>7, <1>8, <1>9

(* The account of a sender that has paid, and the cost of a transaction.   *)
Paying(a, b, n) == [a EXCEPT !.Balance = b, !.Nonce = n]
Cost(t, gas, fee) == t.Amount + fee + ((gas * t.GasPrice) % Width)

(* Paying leaves an account, with its code.                                *)
LEMMA PayingKeeps ==
  ASSUME NEW a \in Accounts, NEW b \in Words, NEW n \in Nat
  PROVE  LET r == Paying(a, b, n) IN
         r \in Accounts /\ r.Balance = b /\ r.Nonce = n /\ r.code = a.code
BY DEF Accounts, Paying

(* A cost is a natural number.                                             *)
LEMMA CostType ==
  ASSUME NEW t, IsTransaction(t), NEW gas \in Nat, NEW fee \in Nat
  PROVE  Cost(t, gas, fee) \in Nat
<1>1. gas * t.GasPrice \in Nat /\ Width \in Nat \ {0} /\ t.Amount \in Nat
  BY LedgerAssumption, ProductMonotone, SMT DEF IsTransaction, Words
<1> QED BY <1>1, SMT DEF Cost

(* The two outcomes of Charged: nothing happens, or the sender pays and    *)
(* its nonce advances.                                                     *)
ChargedTo(t, S, gas, fee, o) ==
  \/ o.result \in {"error", "panic"} /\ o.states = S
  \/ /\ o.result = "ok" /\ gas <= t.GasLimit
     /\ \E a \in Accounts :
          /\ o.states = [S EXCEPT ![t.From] = a]
          /\ a.Balance = S[t.From].Balance - Cost(t, gas, fee)
          /\ a.Nonce = S[t.From].Nonce + 1 /\ a.code = S[t.From].code

(* Charged has one of these outcomes, and reports the gas that it was      *)
(* given.                                                                  *)
LEMMA ChargedCases ==
  ASSUME NEW t, NEW S, NEW gas \in Nat, NEW fee \in Nat,
         IsLedger(S), IsTransaction(t), t.From \in DOMAIN S
  PROVE  LET o == Charged(t, S, gas, fee) IN o.gas = gas /\ ChargedTo(t, S, gas, fee, o)
<1> DEFINE cost == Cost(t, gas, fee)
           b == S[t.From].Balance - cost
           n == S[t.From].Nonce + 1
           from == Paying(S[t.From], b, n)
           o == Charged(t, S, gas, fee)
<1>1. S[t.From] \in Accounts /\ t.GasLimit \in Nat
  BY DEF IsLedger, IsTransaction
<1>2. CASE gas > t.GasLimit \/ cost >= Width \/ S[t.From].Balance < cost
  <2>1. o.states = S /\ o.result \in {"error", "panic"} /\ o.gas = gas
    BY <1>2 DEF Charged, Outcome, Cost
  <2> HIDE DEF o
  <2> QED BY <2>1 DEF o, ChargedTo
<1>3. CASE ~(gas > t.GasLimit \/ cost >= Width \/ S[t.From].Balance < cost)
  <2>1. cost \in Nat
    BY CostType
  <2> DEFINE paid == [S EXCEPT ![t.From].Balance = @ - cost, ![t.From].Nonce = @ + 1]
  <2>2. o.result = "ok" /\ o.gas = gas /\ o.states = [S EXCEPT ![t.From] = from]
    <3>1. o = Outcome("ok", gas, paid)
      BY <1>3 DEF Charged, Cost
    <3> HIDE DEF cost
    <3>2. paid = [S EXCEPT ![t.From] = from]
      BY <1>1 DEF IsLedger, Accounts, Paying
    <3> HIDE DEF o, paid, from
    <3> QED BY <3>1, <3>2 DEF Outcome
  <2> HIDE DEF o, cost
  <2>3. b \in Words /\ n \in Nat
    BY <1>1, <1>3, <2>1, LedgerAssumption, SMT DEF Accounts, Words
  <2>4. from \in Accounts /\ from.Balance = b /\ from.Nonce = n /\ from.code = S[t.From].code
    <3> HIDE DEF b, n
    <3> QED BY <1>1, <2>3, PayingKeeps, SMT
  <2>5. gas <= t.GasLimit
    BY <1>1, <1>3, SMT
  <2> HIDE DEF from
  <2> QED BY <2>2, <2>4, <2>5 DEF o, ChargedTo, cost
<1> QED BY <1>2, <1>3

(* Charged changes the sender only.                                        *)
LEMMA ChargedKeeps ==
  ASSUME NEW t, NEW S, NEW gas \in Nat, NEW fee \in Nat,
         IsLedger(S), IsTransaction(t), t.From \in DOMAIN S
  PROVE  PaidFrom(t, S, Charged(t, S, gas, fee))
<1> DEFINE o == Charged(t, S, gas, fee)
<1>1. ChargedTo(t, S, gas, fee, o)
  BY ChargedCases
<1> HIDE DEF o
<1>2. CASE o.result # "ok"
  BY <1>1, <1>2 DEF ChargedTo, PaidFrom, o
<1>3. CASE o.result = "ok"
  <2>1. PICK a \in Accounts : o.states = [S EXCEPT ![t.From] = a] /\ a.Nonce = S[t.From].Nonce + 1
    BY <1>1, <1>3 DEF ChargedTo
  <2>2. /\ DOMAIN o.states = DOMAIN S /\ o.states[t.From] = a
        /\ \A k \in DOMAIN S : k # t.From => o.states[k] = S[k]
    BY <2>1 DEF IsLedger
  <2>3. IsLedger(o.states)
    BY <2>1 DEF IsLedger
  <2> QED BY <1>3, <2>1, <2>2, <2>3 DEF o, PaidFrom
<1> QED BY <1>2, <1>3

(* What the two kinds of transactions do before the payment.               *)
LEMMA DeploymentPays ==
  ASSUME NEW t, NEW S, IsLedger(S), IsTransaction(t), SentByKey(t, S),
         IsContractDeployment(t), ValidateTransaction(t, S)
  PROVE  Paid(t, S, ApplyDeployment(t, S))
<1> DEFINE o == ApplyDeployment(t, S)
           P == Deployed(t, S)
           gas == GasContractDeploy + t.DataGas + InitGas
           c == Charged(t, P, gas, ContractDeploymentFee)
<1>1. \A k \in DOMAIN S : S[k].Nonce \in Nat /\ S[k].Balance \in Nat
  BY LedgerAssumption, SMT DEF IsLedger, Accounts, Words
<1>2. t.From \in DOMAIN S /\ MaxCost(t) < Width /\ ~IsCoinbase(t) /\ t.From # ContractAddress(t, S)
  BY DEF ValidateTransaction, SentByKey, IsCoinbase
<1>3. gas \in Nat /\ ContractDeploymentFee \in Nat
  BY LedgerAssumption, SMT DEF IsTransaction
<1>4. ~(t.Amount + ContractDeploymentFee >= Width)
  <2>1. t.GasLimit * t.GasPrice \in Nat
    BY ProductMonotone, SMT DEF IsTransaction
  <2> QED BY <1>2, <1>3, <2>1, LedgerAssumption, SMT DEF MaxCost, IsTransaction, Words
<1>5. IsLedger(P) /\ DOMAIN S \subseteq DOMAIN P /\ \A k \in DOMAIN S \ {ContractAddress(t, S)} : P[k] = S[k]
  BY DeployedKeeps
<1>6. CASE ~InitSucceeds(t)
  <2>1. o.states = S /\ o.result = "error"
    BY <1>4, <1>6 DEF ApplyDeployment, Outcome
  <2> HIDE DEF o
  <2> QED BY <1>1, <2>1, SMT DEF o, Paid
<1>7. CASE InitSucceeds(t)
  <2>1. o = c
    BY <1>4, <1>7 DEF ApplyDeployment
  <2> HIDE DEF o, gas, P
  <2>2. c.result # "panic"
    <3>1. P[t.From].Balance >= S[t.From].Balance /\ t.From \in DOMAIN P
      BY <1>1, <1>2, <1>5, SMT
    <3> QED BY <1>2, <1>3, <1>5, <3>1, ChargedPays
  <2>3. PaidFrom(t, P, c)
    BY <1>2, <1>3, <1>5, ChargedKeeps
  <2> HIDE DEF c
  <2>4. \A k \in DOMAIN S \ {ContractAddress(t, S)} : c.states[k].Nonce >= S[k].Nonce
    BY <1>1, <1>2, <1>5, <2>3, SMT DEF PaidFrom
  <2> QED BY <1>2, <1>5, <2>1, <2>2, <2>3, <2>4 DEF o, Paid, PaidFrom
<1> QED BY <1>6, <1>7

(* A transfer pays on whatever ledger P its recipient's program leaves.    *)
LEMMA PaymentAfter ==
  ASSUME NEW t, NEW S, NEW P, NEW gas \in Nat,
         IsLedger(S), IsTransaction(t), SentByKey(t, S),
         t.To # NoKey, ValidateTransaction(t, S), Prepared(t, S, P)
  PROVE  Paid(t, S, Charged(t, P, gas, 0))
<1> DEFINE o == Charged(t, P, gas, 0)
<1>1. /\ t.From \in DOMAIN S /\ t.From \in DOMAIN P /\ IsLedger(P)
      /\ P[t.From].Balance >= S[t.From].Balance
      /\ ~IsCoinbase(t) /\ t.From # ContractAddress(t, S)
  BY DEF ValidateTransaction, SentByKey, IsCoinbase, Prepared
<1>2. o.result # "panic"
  BY <1>1, ChargedPays DEF IsContractDeployment
<1>3. PaidFrom(t, P, o)
  BY <1>1, ChargedKeeps
<1> HIDE DEF o
<1>4. \A k \in DOMAIN S : S[k].Nonce \in Nat
  BY DEF IsLedger, Accounts
<1>5. \A k \in DOMAIN S \ {ContractAddress(t, S)} : o.states[k].Nonce >= S[k].Nonce
  BY <1>1, <1>3, <1>4, SMT DEF Prepared, PaidFrom
<1>6. o.result = "ok" => o.states[t.From].Nonce = S[t.From].Nonce + 1
  BY <1>1, <1>3 DEF Prepared, PaidFrom
<1>7. IsLedger(o.states) /\ DOMAIN S \subseteq DOMAIN o.states
  BY <1>3 DEF Prepared, PaidFrom
<1> QED BY <1>2, <1>5, <1>6, <1>7 DEF o, Paid

(* A valid transfer, whatever runs on its arrival, is paid for.            *)
LEMMA TransferPays ==
  ASSUME NEW t, NEW S, IsLedger(S), IsTransaction(t), SentByKey(t, S),
         t.To # NoKey, ValidateTransaction(t, S), ~Overflows(S, t.To, t.Amount)
  PROVE  Paid(t, S, ApplyTransfer(t, S))
<1> DEFINE paid == Credit(S, t.To, t.Amount)
           base == GasTransfer + t.DataGas
           runs == t.To \in DOMAIN S /\ S[t.To].code
<1>1. /\ t.From \in DOMAIN S /\ t.From # ContractAddress(t, S) /\ ~S[t.From].code
  BY DEF ValidateTransaction, SentByKey, IsCoinbase
<1>2. /\ Prepared(t, S, paid) /\ t.To \in DOMAIN paid
      /\ paid[t.From].Nonce = S[t.From].Nonce
  BY <1>1, CreditKeeps
<1>2a. IsLedger(paid)
  BY <1>2 DEF Prepared
<1>3. base \in Nat /\ base + InitGas \in Nat
  BY LedgerAssumption, SMT DEF IsTransaction
<1>4. CASE runs /\ t.Instructions /\ InitSucceeds(t)
  <2> DEFINE P == Deployed(t, paid)
  <2>1. ApplyTransfer(t, S) = Charged(t, P, base + InitGas, 0)
    BY <1>4 DEF ApplyTransfer
  <2>2. ContractAddress(t, paid) = ContractAddress(t, S)
    BY <1>1, <1>2 DEF ContractAddress
  <2> HIDE DEF paid, base
  <2>3. /\ IsLedger(P) /\ DOMAIN paid \subseteq DOMAIN P
        /\ \A k \in DOMAIN paid : k # ContractAddress(t, S) => P[k] = paid[k]
    BY <1>2a, <2>2, DeployedKeeps
  <2> HIDE DEF P
  <2>4. Prepared(t, S, P)
    BY <1>1, <1>2, <2>3 DEF Prepared
  <2> QED BY <1>3, <2>1, <2>4, PaymentAfter
<1>5. CASE runs /\ ~t.Instructions
  <2> DEFINE P == Called(t, paid)
             gas == base + CallGas(t, paid)
  <2>1. ApplyTransfer(t, S) = Charged(t, P, gas, 0)
    BY <1>5 DEF ApplyTransfer
  <2>2. t.To # t.From
    BY <1>1, <1>5
  <2> HIDE DEF paid, base
  <2>3. /\ IsLedger(P) /\ DOMAIN P = DOMAIN paid
        /\ \A k \in DOMAIN paid : P[k].Nonce = paid[k].Nonce
        /\ \A k \in DOMAIN paid : k # t.To => P[k] = paid[k]
        /\ CallGas(t, paid) \in Nat
    BY <1>2, <1>2a, CalledKeeps, SMT
  <2>4. gas \in Nat
    BY <1>3, <2>3, SMT
  <2> HIDE DEF P, gas
  <2>5. Prepared(t, S, P)
    BY <1>1, <1>2, <2>2, <2>3 DEF Prepared
  <2> QED BY <2>1, <2>4, <2>5, PaymentAfter
<1>6. CASE ~(runs /\ t.Instructions /\ InitSucceeds(t)) /\ ~(runs /\ ~t.Instructions)
  <2>1. ApplyTransfer(t, S) = Charged(t, paid, base, 0)
    BY <1>6 DEF ApplyTransfer
  <2> HIDE DEF paid, base
  <2> QED BY <1>2, <1>3, <2>1, PaymentAfter
<1> QED BY <1>4, <1>5, <1>6

-----------------------------------------------------------------------------
(* ApplyTransaction "assumes already validated" and panics where the       *)
(* sender cannot pay: whatever ValidateTransaction accepts from a key does *)
(* not make it panic, as long as the recipient's balance has room, and it  *)
(* leaves a ledger of the same types.                                      *)
THEOREM ValidatedDoesNotPanic ==
  ASSUME NEW t, NEW S, IsLedger(S), IsTransaction(t), SentByKey(t, S),
         ValidateTransaction(t, S), ~Overflows(S, t.To, t.Amount)
  PROVE  ApplyTransaction(t, S).result # "panic" /\ IsLedger(ApplyTransaction(t, S).states)
<1>1. t.From \in DOMAIN S /\ ~IsCoinbase(t)
  BY DEF ValidateTransaction, SentByKey, IsCoinbase
<1>2. CASE IsContractDeployment(t)
  BY <1>1, <1>2, DeploymentPays DEF ApplyTransaction, Paid
<1>3. CASE ~IsContractDeployment(t) /\ t.To # NoKey
  BY <1>1, <1>3, TransferPays DEF ApplyTransaction, Paid
<1>4. CASE ~IsContractDeployment(t) /\ t.To = NoKey
  BY <1>1, <1>4 DEF ApplyTransaction, Outcome
<1> QED BY <1>2, <1>3, <1>4

(* The nonce check "prevents double-spend": once a transaction that moves  *)
(* coins or deploys has been applied, it is not valid, and no other        *)
(* accepted transaction, applied or failed, lowers the nonce of an account *)
(* other than the contract it deploys.                                     *)
THEOREM AppliedOnce ==
  ASSUME NEW t, NEW S, IsLedger(S), IsTransaction(t), SentByKey(t, S),
         ValidateTransaction(t, S), ~Overflows(S, t.To, t.Amount)
  PROVE  LET o == ApplyTransaction(t, S) IN
         /\ o.result = "ok" /\ (t.To # NoKey \/ t.Instructions) => ~ValidateTransaction(t, o.states)
         /\ DOMAIN S \subseteq DOMAIN o.states
         /\ \A k \in DOMAIN S \ {ContractAddress(t, S)} : o.states[k].Nonce >= S[k].Nonce
<1> DEFINE o == ApplyTransaction(t, S)
<1>1. t.From \in DOMAIN S /\ ~IsCoinbase(t) /\ t.Nonce = S[t.From].Nonce + 1
  BY DEF ValidateTransaction, SentByKey, IsCoinbase
<1>2. \A k \in DOMAIN S : S[k].Nonce \in Nat
  BY DEF IsLedger, Accounts
<1>3. CASE t.To # NoKey \/ t.Instructions
  <2>1. Paid(t, S, o)
    <3>1. CASE IsContractDeployment(t)
      BY <1>1, <3>1, DeploymentPays DEF ApplyTransaction
    <3>2. CASE ~IsContractDeployment(t)
      <4>1. t.To # NoKey
        BY <1>3, <3>2 DEF IsContractDeployment
      <4> QED BY <1>1, <3>2, <4>1, TransferPays DEF ApplyTransaction
    <3> QED BY <3>1, <3>2
  <2> HIDE DEF o
  <2>2. o.result = "ok" => t.Nonce # o.states[t.From].Nonce + 1
    BY <1>1, <1>2, <2>1, SMT DEF Paid
  <2>3. o.result = "ok" => ~ValidateTransaction(t, o.states)
    BY <1>1, <2>2 DEF ValidateTransaction
  <2> QED BY <2>1, <2>3 DEF o, Paid
<1>4. CASE ~(t.To # NoKey \/ t.Instructions)
  <2>1. o.states = S
    BY <1>1, <1>4 DEF ApplyTransaction, Outcome, IsContractDeployment
  <2> HIDE DEF o
  <2> QED BY <1>2, <1>4, <2>1, SMT DEF o
<1> QED BY <1>3, <1>4

-----------------------------------------------------------------------------
(* P may come after S: no account is gone, code stays, and the nonces of   *)
(* keys do not fall.                                                       *)
Grows(S, P, K) ==
  /\ Sound(P, K) /\ DOMAIN S \subseteq DOMAIN P
  /\ \A k \in DOMAIN S : S[k].code => P[k].code
  /\ \A k \in DOMAIN S : k \notin K \X Nat => P[k].Nonce >= S[k].Nonce

(* Ledgers grow step by step.                                              *)
LEMMA GrowsTransitive ==
  ASSUME NEW K, NEW S, NEW P, NEW Q, Sound(S, K), Grows(S, P, K), Grows(P, Q, K)
  PROVE  Grows(S, Q, K)
<1>1. /\ \A k \in DOMAIN S : S[k].Nonce \in Nat
      /\ \A k \in DOMAIN P : P[k].Nonce \in Nat
      /\ \A k \in DOMAIN Q : Q[k].Nonce \in Nat
  BY DEF Sound, Grows, IsLedger, Accounts
<1>2. DOMAIN S \subseteq DOMAIN P /\ DOMAIN P \subseteq DOMAIN Q
  BY DEF Grows
<1>3. \A k \in DOMAIN S : k \notin K \X Nat => Q[k].Nonce >= S[k].Nonce
  BY <1>1, <1>2, SMT DEF Grows
<1>4. \A k \in DOMAIN S : S[k].code => Q[k].code
  BY <1>2 DEF Grows
<1> QED
  BY <1>2, <1>3, <1>4 DEF Grows

(* A ledger that stays the same counts as grown.                           *)
LEMMA GrowsReflexive ==
  ASSUME NEW K, NEW S, Sound(S, K)
  PROVE  Grows(S, S, K)
<1>1. \A k \in DOMAIN S : S[k].Nonce \in Nat
  BY DEF Sound, IsLedger, Accounts
<1> QED
  BY <1>1, SMT DEF Grows

(* An account is replaced by one of the same nonce or a later one and of   *)
(* the same code.                                                          *)
LEMMA UpdateGrows ==
  ASSUME NEW K, NEW S, Sound(S, K), NEW k \in DOMAIN S, NEW a \in Accounts,
         a.Nonce >= S[k].Nonce, a.code = S[k].code
  PROVE  Grows(S, [S EXCEPT ![k] = a], K)
<1> DEFINE P == [S EXCEPT ![k] = a]
<1>1. DOMAIN P = DOMAIN S /\ \A j \in DOMAIN S : P[j] = IF j = k THEN a ELSE S[j]
  BY DEF Sound, IsLedger
<1>2. IsLedger(P)
  BY DEF Sound, IsLedger
<1>3. \A j \in DOMAIN S : S[j].Nonce \in Nat
  BY DEF Sound, IsLedger, Accounts
<1> HIDE DEF P
<1>4. \A j \in DOMAIN S : (P[j].code <=> S[j].code) /\ P[j].Nonce >= S[j].Nonce
  BY <1>1, <1>3, SMT
<1>5. Sound(P, K)
  BY <1>1, <1>2, <1>4 DEF Sound
<1> QED
  BY <1>1, <1>4, <1>5 DEF Grows, P

(* A new account has no code or the address of a contract; at such an      *)
(* address an account may be replaced.                                     *)
LEMMA PutGrows ==
  ASSUME NEW K, NEW S, Sound(S, K), NEW k, NEW a \in Accounts,
         a.code => k \in K \X Nat, k \in DOMAIN S => a.code
  PROVE  Grows(S, Put(S, k, a), K)
<1> DEFINE P == Put(S, k, a)
<1>1. /\ DOMAIN P = DOMAIN S \cup {k} /\ P[k] = a
      /\ \A j \in DOMAIN S : j # k => P[j] = S[j]
  BY DEF Put
<1>2. IsLedger(P)
  BY DEF Sound, IsLedger, Put
<1>3. \A j \in DOMAIN S : S[j].Nonce \in Nat
  BY DEF Sound, IsLedger, Accounts
<1>4. IsFiniteSet(DOMAIN P)
  BY <1>1, FS_AddElement, SMT DEF Sound
<1> HIDE DEF P
<1>5. Sound(P, K)
  BY <1>1, <1>2, <1>4 DEF Sound
<1>6. \A j \in DOMAIN S : S[j].code => P[j].code
  BY <1>1
<1>7. \A j \in DOMAIN S : j \notin K \X Nat => P[j].Nonce >= S[j].Nonce
  BY <1>1, <1>3, SMT
<1> QED
  BY <1>1, <1>5, <1>6, <1>7 DEF Grows, P

(* The parts of a transaction.                                             *)
LEMMA CreditGrows ==
  ASSUME NEW K, NEW S, Sound(S, K), NEW k, NEW amount \in Words, ~Overflows(S, k, amount)
  PROVE  LET P == Credit(S, k, amount) IN
         Grows(S, P, K) /\ k \in DOMAIN P /\ Supply(P) = Supply(S) + amount
<1> DEFINE P == Credit(S, k, amount)
<1>0. IsLedger(S) /\ IsFiniteSet(DOMAIN S) /\ Width \in Nat \ {0} /\ amount \in Nat /\ amount < Width
  BY LedgerAssumption, SMT DEF Sound, Words
<1>1. CASE k \in DOMAIN S
  <2> DEFINE b == S[k].Balance + amount
             a == [S[k] EXCEPT !.Balance = b]
  <2>1. S[k] \in Accounts
    BY <1>0, <1>1 DEF IsLedger
  <2>2. S[k].Balance \in Nat /\ S[k].Nonce \in Nat /\ b \in Words
    BY <1>0, <1>1, <2>1, SMT DEF Accounts, Words, Overflows
  <2>3. P = [S EXCEPT ![k] = a]
    BY <1>1 DEF Credit
  <2> HIDE DEF b
  <2>4. a \in Accounts /\ a.Balance = b /\ a.Nonce = S[k].Nonce /\ a.code = S[k].code
    BY <2>1, <2>2 DEF Accounts
  <2> HIDE DEF a, P
  <2>5. Grows(S, P, K)
    <3>1. a.Nonce >= S[k].Nonce
      BY <2>2, <2>4, SMT
    <3>2. Grows(S, [S EXCEPT ![k] = a], K)
      BY <1>1, <2>4, <3>1, UpdateGrows
    <3> QED BY <2>3, <3>2
  <2>6. Supply(P) = Supply(S) - S[k].Balance + a.Balance /\ Supply(S) \in Nat
    BY <1>0, <1>1, <2>3, <2>4, SupplyUpdate, SupplyType
  <2> QED BY <1>0, <1>1, <2>2, <2>4, <2>5, <2>6, SMT DEF b, P, Grows
<1>2. CASE k \notin DOMAIN S
  <2> DEFINE a == Account(amount, FALSE)
  <2>1. a \in Accounts /\ a.Balance = amount /\ a.code = FALSE
    BY <1>0, LedgerAssumption DEF Account, Accounts
  <2>2. P = Put(S, k, a)
    BY <1>2 DEF Credit
  <2> HIDE DEF a, P
  <2>3. Grows(S, P, K)
    BY <1>2, <2>1, <2>2, PutGrows
  <2>4. Supply(P) = Supply(S) + amount
    BY <1>0, <1>2, <2>1, <2>2, SupplyPut
  <2>5. k \in DOMAIN P
    BY <2>2 DEF Put
  <2> QED BY <2>3, <2>4, <2>5 DEF P
<1> QED BY <1>1, <1>2

(* A deployment adds an account, or replaces one, at the address of a      *)
(* contract.                                                               *)
LEMMA DeployedGrows ==
  ASSUME NEW K, NEW S, Sound(S, K), NEW t, IsTransaction(t), t.From \in K, t.From \in DOMAIN S
  PROVE  Grows(S, Deployed(t, S), K)
<1> DEFINE a == Account(t.Amount, TRUE)
<1>1. a \in Accounts /\ a.code = TRUE
  BY LedgerAssumption DEF Account, Accounts, IsTransaction
<1>2. ContractAddress(t, S) \in K \X Nat
  BY DEF ContractAddress, Sound, IsLedger, Accounts
<1> HIDE DEF a
<1>3. Grows(S, Put(S, ContractAddress(t, S), a), K)
  BY <1>1, <1>2, PutGrows
<1> QED BY <1>3 DEF Deployed, a

(* A call replaces the account of the contract.                            *)
LEMMA CalledGrows ==
  ASSUME NEW K, NEW S, Sound(S, K), NEW t, IsTransaction(t), t.To \in DOMAIN S
  PROVE  Grows(S, Called(t, S), K)
<1>1. IsLedger(S) /\ S[t.To].Nonce \in Nat
  BY DEF Sound, IsLedger, Accounts
<1>2. PICK a \in Accounts :
        Called(t, S) = [S EXCEPT ![t.To] = a] /\ a.Nonce = S[t.To].Nonce /\ a.code = S[t.To].code
  BY <1>1, CalledKeeps
<1>3. a.Nonce >= S[t.To].Nonce
  BY <1>1, <1>2, SMT
<1>4. Grows(S, [S EXCEPT ![t.To] = a], K)
  BY <1>2, <1>3, UpdateGrows
<1> QED BY <1>2, <1>4

(* The payment replaces the account of the sender.                         *)
LEMMA ChargedGrows ==
  ASSUME NEW K, NEW S, Sound(S, K), NEW t, IsTransaction(t), t.From \in DOMAIN S,
         NEW gas \in Nat, NEW fee \in Nat
  PROVE  LET o == Charged(t, S, gas, fee) IN Grows(S, o.states, K) /\ o.gas = gas
<1> DEFINE o == Charged(t, S, gas, fee)
<1>1. IsLedger(S) /\ S[t.From].Nonce \in Nat
  BY DEF Sound, IsLedger, Accounts
<1>2. o.gas = gas /\ ChargedTo(t, S, gas, fee, o)
  BY <1>1, ChargedCases
<1> HIDE DEF o
<1>3. CASE o.states = S
  BY <1>2, <1>3, GrowsReflexive DEF o
<1>4. CASE o.states # S
  <2>1. PICK a \in Accounts : /\ o.states = [S EXCEPT ![t.From] = a]
                              /\ a.Nonce = S[t.From].Nonce + 1 /\ a.code = S[t.From].code
    BY <1>2, <1>4 DEF ChargedTo
  <2> QED BY <1>1, <1>2, <2>1, UpdateGrows, SMT DEF o
<1> QED BY <1>3, <1>4

(* Whatever its outcome is, a transaction leaves a ledger that may come    *)
(* after the one that it found.                                            *)
LEMMA DeploymentGrows ==
  ASSUME NEW K, NEW S, Sound(S, K), NEW t, IsTransaction(t), t.From \in K, t.From \in DOMAIN S
  PROVE  LET o == ApplyDeployment(t, S) IN Grows(S, o.states, K) /\ o.gas \in Nat
<1> DEFINE o == ApplyDeployment(t, S)
           base == GasContractDeploy + t.DataGas
           P == Deployed(t, S)
           c == Charged(t, P, base + InitGas, ContractDeploymentFee)
<1>1. base \in Nat /\ base + InitGas \in Nat /\ ContractDeploymentFee \in Nat
  BY LedgerAssumption, SMT DEF IsTransaction
<1>2. o = c \/ (o.states = S /\ o.gas = base)
  BY DEF ApplyDeployment, Outcome
<1> HIDE DEF o, base
<1>3. Grows(S, P, K)
  BY DeployedGrows
<1> HIDE DEF P
<1>4. Sound(P, K) /\ t.From \in DOMAIN P
  BY <1>3 DEF Grows
<1>5. Grows(P, c.states, K) /\ c.gas \in Nat
  BY <1>1, <1>4, ChargedGrows, SMT
<1> HIDE DEF c
<1>6. Grows(S, c.states, K)
  BY <1>3, <1>5, GrowsTransitive
<1>7. Grows(S, S, K)
  BY GrowsReflexive
<1> QED BY <1>1, <1>2, <1>5, <1>6, <1>7 DEF o

(* A transfer, with what runs on its arrival.                              *)
LEMMA TransferGrows ==
  ASSUME NEW K, NEW S, Sound(S, K), NEW t, IsTransaction(t), t.From \in K, t.From \in DOMAIN S
  PROVE  LET o == ApplyTransfer(t, S) IN Grows(S, o.states, K) /\ o.gas \in Nat
<1> DEFINE o == ApplyTransfer(t, S)
           base == GasTransfer + t.DataGas
           paid == Credit(S, t.To, t.Amount)
           D == Deployed(t, paid)
           C == Called(t, paid)
<1>1. base \in Nat /\ base + InitGas \in Nat /\ 0 \in Nat
  BY LedgerAssumption, SMT DEF IsTransaction
<1>2. CASE Overflows(S, t.To, t.Amount)
  <2>1. o.states = S /\ o.gas = base
    BY <1>2 DEF ApplyTransfer, Outcome
  <2> HIDE DEF o
  <2> QED BY <1>1, <2>1, GrowsReflexive DEF o
<1>3. CASE ~Overflows(S, t.To, t.Amount)
  <2>1. \/ o = Charged(t, D, base + InitGas, 0)
        \/ o = Charged(t, C, base + CallGas(t, paid), 0)
        \/ o = Charged(t, paid, base, 0)
    BY <1>3 DEF ApplyTransfer
  <2>2. Grows(S, paid, K) /\ t.To \in DOMAIN paid
    BY <1>3, CreditGrows DEF IsTransaction
  <2> HIDE DEF o, base, paid
  <2>3. Sound(paid, K) /\ IsLedger(paid) /\ t.From \in DOMAIN paid
    BY <2>2 DEF Grows, Sound
  <2>4. Grows(paid, D, K) /\ Grows(paid, C, K) /\ CallGas(t, paid) \in Nat
    BY <2>2, <2>3, DeployedGrows, CalledGrows, CalledKeeps
  <2> HIDE DEF D, C
  <2>5. ASSUME NEW P, Grows(S, P, K), NEW gas \in Nat
        PROVE  LET c == Charged(t, P, gas, 0) IN Grows(S, c.states, K) /\ c.gas \in Nat
    <3>1. Sound(P, K) /\ t.From \in DOMAIN P
      BY <2>5 DEF Grows
    <3> DEFINE c == Charged(t, P, gas, 0)
    <3>2. Grows(P, c.states, K) /\ c.gas = gas
      BY <1>1, <3>1, ChargedGrows, SMT
    <3> HIDE DEF c
    <3> QED BY <2>5, <3>2, GrowsTransitive DEF c
  <2>6. Grows(S, D, K) /\ Grows(S, C, K)
    BY <2>2, <2>4, GrowsTransitive
  <2>7. base + CallGas(t, paid) \in Nat
    BY <1>1, <2>4, SMT
  <2>8. CASE o = Charged(t, D, base + InitGas, 0)
    BY <1>1, <2>5, <2>6, <2>8 DEF o
  <2>9. CASE o = Charged(t, C, base + CallGas(t, paid), 0)
    BY <2>5, <2>6, <2>7, <2>9 DEF o
  <2>10. CASE o = Charged(t, paid, base, 0)
    BY <1>1, <2>2, <2>5, <2>10 DEF o
  <2> QED BY <2>1, <2>8, <2>9, <2>10
<1> QED BY <1>2, <1>3

(* Any transaction, the coinbase included.                                 *)
LEMMA ApplyGrows ==
  ASSUME NEW K, NEW S, Sound(S, K), NEW t, IsTransaction(t), IsCoinbase(t) \/ t.From \in K
  PROVE  LET o == ApplyTransaction(t, S) IN Grows(S, o.states, K) /\ o.gas \in Nat
<1> DEFINE o == ApplyTransaction(t, S)
<1>1. GasTransfer \in Nat /\ 0 \in Nat
  BY LedgerAssumption
<1>2. Grows(S, S, K)
  BY GrowsReflexive
<1>3. CASE IsCoinbase(t) /\ ~Overflows(S, t.To, t.Amount)
  <2>1. o.states = Credit(S, t.To, t.Amount) /\ o.gas = 0
    BY <1>3 DEF ApplyTransaction, Outcome
  <2>2. Grows(S, Credit(S, t.To, t.Amount), K)
    BY <1>3, CreditGrows DEF IsTransaction
  <2> HIDE DEF o
  <2> QED BY <1>1, <2>1, <2>2 DEF o
<1>4. CASE ~IsCoinbase(t) /\ t.From \in DOMAIN S /\ IsContractDeployment(t)
  BY <1>4, DeploymentGrows DEF ApplyTransaction
<1>5. CASE ~IsCoinbase(t) /\ t.From \in DOMAIN S /\ ~IsContractDeployment(t) /\ t.To # NoKey
  BY <1>5, TransferGrows DEF ApplyTransaction
<1>6. CASE \/ IsCoinbase(t) /\ Overflows(S, t.To, t.Amount)
           \/ ~IsCoinbase(t) /\ t.From \notin DOMAIN S
           \/ ~IsCoinbase(t) /\ ~IsContractDeployment(t) /\ t.To = NoKey
  <2>1. o.states = S /\ o.gas \in {0, GasTransfer}
    BY <1>6 DEF ApplyTransaction, Outcome
  <2> HIDE DEF o
  <2> QED BY <1>1, <1>2, <2>1 DEF o
<1> QED BY <1>3, <1>4, <1>5, <1>6

-----------------------------------------------------------------------------
(* A transaction that is valid and applied takes its nonce.                *)
LEMMA ApplySpends ==
  ASSUME NEW K, NEW S, Sound(S, K), NEW t, IsTransaction(t), t.From # NoKey,
         t.From \notin K \X Nat, t.From \in K, t.To # NoKey \/ t.Instructions,
         ValidateTransaction(t, S), ApplyTransaction(t, S).result = "ok"
  PROVE  LET P == ApplyTransaction(t, S).states IN
         t.From \in DOMAIN P /\ P[t.From].Nonce = t.Nonce
<1> DEFINE o == ApplyTransaction(t, S)
<1>1. IsLedger(S) /\ t.From \in DOMAIN S /\ ~IsCoinbase(t) /\ t.Nonce = S[t.From].Nonce + 1
  BY DEF Sound, ValidateTransaction, IsCoinbase
<1>2. SentByKey(t, S)
  <2>1. ContractAddress(t, S) \in K \X Nat
    BY <1>1 DEF ContractAddress, IsLedger, Accounts
  <2>2. ~S[t.From].code
    BY <1>1 DEF Sound
  <2> QED BY <2>1, <2>2 DEF SentByKey
<1>3. Paid(t, S, o)
  <2>1. CASE IsContractDeployment(t)
    BY <1>1, <1>2, <2>1, DeploymentPays DEF ApplyTransaction
  <2>2. CASE ~IsContractDeployment(t)
    <3>1. t.To # NoKey
      BY <2>2 DEF IsContractDeployment
    <3>2. o = ApplyTransfer(t, S)
      BY <1>1, <2>2, <3>1 DEF ApplyTransaction
    <3>3. ~Overflows(S, t.To, t.Amount)
      BY <3>2, SMT DEF ApplyTransfer, Outcome
    <3> QED BY <1>1, <1>2, <3>1, <3>2, <3>3, TransferPays
  <2> QED BY <2>1, <2>2
<1>4. o.result = "ok"
  OBVIOUS
<1> HIDE DEF o
<1> QED BY <1>1, <1>3, <1>4 DEF Paid, o

(* What its sender pays for a transfer to a key is what its recipient and  *)
(* the miner get.                                                          *)
LEMMA TransferSupply ==
  ASSUME NEW K, NEW S, Sound(S, K), NEW t, IsTransaction(t), t.From # NoKey,
         t.To # NoKey, t.To \in DOMAIN S => ~S[t.To].code,
         ValidateTransaction(t, S), ApplyTransaction(t, S).result = "ok"
  PROVE  LET o == ApplyTransaction(t, S) IN
         /\ o.gas * t.GasPrice \in Nat
         /\ Supply(o.states) \in Nat /\ Supply(S) \in Nat
         /\ Supply(o.states) + o.gas * t.GasPrice = Supply(S)
<1> DEFINE o == ApplyTransaction(t, S)
           base == GasTransfer + t.DataGas
           paid == Credit(S, t.To, t.Amount)
           fee == base * t.GasPrice
<1>1. /\ IsLedger(S) /\ IsFiniteSet(DOMAIN S) /\ t.From \in DOMAIN S /\ ~IsCoinbase(t)
      /\ ~IsContractDeployment(t) /\ MaxCost(t) < Width
  BY DEF Sound, ValidateTransaction, IsCoinbase, IsContractDeployment
<1>2. base \in Nat /\ t.GasPrice \in Nat /\ t.GasLimit \in Nat /\ t.Amount \in Nat /\ Width \in Nat \ {0}
  BY LedgerAssumption, SMT DEF IsTransaction, Words
<1>3. ~Overflows(S, t.To, t.Amount) /\ o = Charged(t, paid, base, 0)
  BY <1>1 DEF ApplyTransaction, ApplyTransfer, Outcome
<1>4. o.result = "ok"
  OBVIOUS
<1>5. Grows(S, paid, K) /\ Supply(paid) = Supply(S) + t.Amount
  BY <1>3, CreditGrows DEF IsTransaction
<1> HIDE DEF o, base, paid
<1>6. IsLedger(paid) /\ IsFiniteSet(DOMAIN paid) /\ t.From \in DOMAIN paid
  BY <1>1, <1>5 DEF Grows, Sound
<1>7. o.gas = base /\ ChargedTo(t, paid, base, 0, o)
  BY <1>2, <1>3, <1>6, ChargedCases, SMT
<1>8. PICK a \in Accounts :
        o.states = [paid EXCEPT ![t.From] = a] /\ a.Balance = paid[t.From].Balance - Cost(t, base, 0)
  BY <1>4, <1>7 DEF ChargedTo
<1>9. base <= t.GasLimit
  BY <1>4, <1>7 DEF ChargedTo
<1>10. fee \in Nat /\ t.GasLimit * t.GasPrice \in Nat /\ fee <= t.GasLimit * t.GasPrice
  BY <1>2, <1>9, ProductMonotone
<1>11. MaxCost(t) = t.Amount + t.GasLimit * t.GasPrice
  BY <1>1, <1>2, <1>10, SMT DEF MaxCost
<1>12. Cost(t, base, 0) = t.Amount + fee
  <2> HIDE DEF fee
  <2>1. fee < Width
    BY <1>1, <1>2, <1>10, <1>11, SMT
  <2>2. fee % Width = fee
    BY <1>2, <1>10, <2>1, SMT
  <2> QED BY <1>2, <1>10, <2>2, SMT DEF Cost, fee
<1>13. /\ Supply(S) \in Nat /\ Supply(paid) \in Nat
       /\ Supply(o.states) = Supply(paid) - paid[t.From].Balance + a.Balance
  BY <1>1, <1>6, <1>8, SupplyType, SupplyUpdate, SMT
<1>14. IsLedger(o.states) /\ DOMAIN o.states = DOMAIN paid
  BY <1>6, <1>8 DEF IsLedger
<1>15. Supply(o.states) \in Nat
  BY <1>6, <1>14, SupplyType
<1>16. paid[t.From].Balance \in Nat
  BY <1>6, LedgerAssumption, SMT DEF IsLedger, Accounts, Words
<1>17. o.gas * t.GasPrice = fee
  BY <1>7
<1> HIDE DEF fee
<1>18. Supply(o.states) + fee = Supply(S)
  BY <1>2, <1>5, <1>8, <1>10, <1>12, <1>13, <1>15, <1>16, SMT
<1> QED BY <1>10, <1>13, <1>15, <1>17, <1>18 DEF o

-----------------------------------------------------------------------------
(* One round of the loop of ValidateBlock, or of that of NewBlock.         *)
Round(validates, acc, t) == IF validates THEN ValidateStep(acc, t) ELSE MiningStep(acc, t)
IsRun(f, v, txs, S) ==
  f = [i \in 0 .. Len(txs) |-> IF i = 0 THEN Tally(S) ELSE Round(v, f[i - 1], txs[i])]

(* Both loops do one transaction after the other.                          *)
LEMMA RoundsExist ==
  ASSUME NEW txs, Len(txs) \in Nat, NEW S, NEW v
  PROVE  \E f : IsRun(f, v, txs, S)
<1> DEFINE n == Len(txs)
           Runs(g, m) == g[0] = Tally(S) /\ \A i \in 1 .. m : g[i] = Round(v, g[i - 1], txs[i])
           N == {m \in Nat : \E g : Runs(g, m)}
<1>1. ASSUME NEW m \in Nat, \A k \in Nat : k < m => k \in N
      PROVE  m \in N
  <2>1. CASE m = 0
    <3>1. Runs([i \in {0} |-> Tally(S)], m)
      BY <2>1, SMT
    <3> QED BY <3>1
  <2>2. CASE m > 0
    <3>1. m - 1 \in Nat /\ m - 1 < m
      BY <2>2, SMT
    <3>2. PICK g : Runs(g, m - 1)
      <4> HIDE DEF Runs
      <4> QED BY <1>1, <3>1
    <3> DEFINE h == [i \in 0 .. m |-> IF i < m THEN g[i] ELSE Round(v, g[m - 1], txs[m])]
    <3>3. h[0] = Tally(S)
      BY <2>2, <3>2, SMT
    <3>4. ASSUME NEW i \in 1 .. m
          PROVE  h[i] = Round(v, h[i - 1], txs[i])
      <4>1. h[i - 1] = g[i - 1]
        BY SMT
      <4>2. CASE i < m
        BY <3>2, <4>1, <4>2, SMT
      <4>3. CASE i = m
        BY <4>1, <4>3, SMT
      <4> QED BY <4>2, <4>3, SMT
    <3> HIDE DEF h
    <3>5. Runs(h, m)
      BY <3>3, <3>4
    <3> QED BY <3>5
  <2> QED BY <2>1, <2>2, SMT
<1>2. \A m \in Nat : m \in N
  <2> HIDE DEF N
  <2> QED BY <1>1, StrongInduction
<1>3. PICK g : Runs(g, n)
  <2> HIDE DEF Runs
  <2> QED BY <1>2
<1> DEFINE f == [i \in 0 .. n |-> g[i]]
<1>4. IsRun(f, v, txs, S)
  BY <1>3, SMT DEF IsRun
<1> HIDE DEF f
<1> QED BY <1>4

(* The loop of ValidateBlock.                                              *)
LEMMA ValidateLoopEquation ==
  ASSUME NEW txs, Len(txs) \in Nat, NEW S
  PROVE  LET run == ValidateLoop(txs, S) IN
         /\ run[0] = Tally(S)
         /\ \A i \in 1 .. Len(txs) : run[i] = ValidateStep(run[i - 1], txs[i])
<1> DEFINE n == Len(txs)
           Is(g) == g = [i \in 0 .. n |-> IF i = 0 THEN Tally(S) ELSE ValidateStep(g[i - 1], txs[i])]
           run == ValidateLoop(txs, S)
<1>1. PICK f : IsRun(f, TRUE, txs, S)
  BY RoundsExist
<1>2. Is(f)
  BY <1>1 DEF IsRun, Round
<1>3. Is(run)
  BY <1>2 DEF ValidateLoop
<1> HIDE DEF run
<1>4. run[0] = Tally(S) /\ \A i \in 1 .. n : run[i] = ValidateStep(run[i - 1], txs[i])
  BY <1>3, SMT
<1> QED BY <1>4 DEF run

(* The loop of NewBlock.                                                   *)
LEMMA MiningLoopEquation ==
  ASSUME NEW txs, Len(txs) \in Nat, NEW S
  PROVE  LET run == MiningLoop(txs, S) IN
         /\ run[0] = Tally(S)
         /\ \A i \in 1 .. Len(txs) : run[i] = MiningStep(run[i - 1], txs[i])
<1> DEFINE n == Len(txs)
           Is(g) == g = [i \in 0 .. n |-> IF i = 0 THEN Tally(S) ELSE MiningStep(g[i - 1], txs[i])]
           run == MiningLoop(txs, S)
<1>1. PICK f : IsRun(f, FALSE, txs, S)
  BY RoundsExist
<1>2. Is(f)
  BY <1>1 DEF IsRun, Round
<1>3. Is(run)
  BY <1>2 DEF MiningLoop
<1> HIDE DEF run
<1>4. run[0] = Tally(S) /\ \A i \in 1 .. n : run[i] = MiningStep(run[i - 1], txs[i])
  BY <1>3, SMT
<1> QED BY <1>4 DEF run

(* What the loop carries is a record, and it goes on only while all of the *)
(* transactions so far were valid and applied.                             *)
IsTally(acc) ==
  acc = [result |-> acc.result, gas |-> acc.gas, fees |-> acc.fees, states |-> acc.states]

(* One round of the loop.                                                  *)
LEMMA ValidateStepCases ==
  ASSUME NEW acc, IsTally(acc), NEW t
  PROVE  LET r == ValidateStep(acc, t)
             o == ApplyTransaction(t, acc.states) IN
         /\ IsTally(r)
         /\ r.result = "ok" => /\ acc.result = "ok" /\ ValidateTransaction(t, acc.states)
                               /\ o.result = "ok" /\ r = Count(acc, o, t)
<1> DEFINE o == ApplyTransaction(t, acc.states)
           r == ValidateStep(acc, t)
<1>1. CASE acc.result # "ok"
  BY <1>1 DEF ValidateStep
<1>2. CASE acc.result = "ok" /\ ~ValidateTransaction(t, acc.states)
  <2>1. r = [acc EXCEPT !.result = "error"]
    BY <1>2 DEF ValidateStep
  <2> QED BY <1>2, <2>1 DEF IsTally
<1>3. CASE acc.result = "ok" /\ ValidateTransaction(t, acc.states) /\ o.result # "ok"
  <2>1. r = [acc EXCEPT !.result = o.result]
    BY <1>3 DEF ValidateStep
  <2> HIDE DEF o
  <2> QED BY <1>3, <2>1 DEF IsTally, o
<1>4. CASE acc.result = "ok" /\ ValidateTransaction(t, acc.states) /\ o.result = "ok"
  <2>1. r = Count(acc, o, t)
    BY <1>4 DEF ValidateStep
  <2> HIDE DEF o
  <2>2. IsTally(Count(acc, o, t))
    BY DEF IsTally, Count
  <2> HIDE DEF r
  <2>3. IsTally(r)
    BY <2>1, <2>2
  <2> QED BY <1>4, <2>1, <2>3 DEF o, r
<1> QED BY <1>1, <1>2, <1>3, <1>4

(* A transaction signed with a key of K, and the transactions of a block,  *)
(* whose first is a coinbase.                                              *)
Signed(t, K) == IsTransaction(t) /\ t.From # NoKey /\ t.From \in K /\ t.From \notin K \X Nat

Body(txs, K) ==
  /\ Len(txs) \in Nat \ {0}
  /\ txs[1] = Coinbase(txs[1].To, txs[1].Amount) /\ txs[1].Amount \in Words
  /\ \A i \in 2 .. Len(txs) : Signed(txs[i], K)

(* The state of the loop after i transactions without an error: the ledger *)
(* has grown, and what moved coins or code is spent.                       *)
Reached(txs, S, K, i, acc) ==
  /\ IsTally(acc)
  /\ acc.result = "ok" =>
       /\ Grows(S, acc.states, K)
       /\ \A j \in 2 .. i : txs[j].To # NoKey \/ txs[j].Instructions =>
            txs[j].From \in DOMAIN acc.states /\ txs[j].Nonce <= acc.states[txs[j].From].Nonce

(* A coinbase is a transaction.                                            *)
LEMMA CoinbaseIsTransaction ==
  ASSUME NEW k, NEW amount \in Words
  PROVE  IsTransaction(Coinbase(k, amount)) /\ IsCoinbase(Coinbase(k, amount))
BY LedgerAssumption DEF IsTransaction, Coinbase, IsCoinbase, Words

(* The loop reaches such states only, by induction over the transactions.  *)
LEMMA ValidateReaches ==
  ASSUME NEW K, NEW S, Sound(S, K), NEW txs, Body(txs, K)
  PROVE  \A i \in 0 .. Len(txs) : Reached(txs, S, K, i, ValidateLoop(txs, S)[i])
<1> DEFINE run == ValidateLoop(txs, S)
           n == Len(txs)
           N == {i \in Nat : i <= n => Reached(txs, S, K, i, run[i])}
<1>1. n \in Nat \ {0}
  BY DEF Body
<1>2. run[0] = Tally(S) /\ \A i \in 1 .. n : run[i] = ValidateStep(run[i - 1], txs[i])
  BY <1>1, ValidateLoopEquation
<1> HIDE DEF run, n
<1>3. Reached(txs, S, K, 0, run[0])
  <2>1. IsTally(run[0]) /\ run[0].states = S
    BY <1>2, SMT DEF Tally, IsTally
  <2>2. Grows(S, S, K)
    BY GrowsReflexive
  <2> QED BY <2>1, <2>2, SMT DEF Reached
<1>4. ASSUME NEW i \in 1 .. n, Reached(txs, S, K, i - 1, run[i - 1])
      PROVE  Reached(txs, S, K, i, run[i])
  <2> DEFINE acc == run[i - 1]
             t == txs[i]
             o == ApplyTransaction(t, acc.states)
             r == run[i]
  <2>1. /\ IsTally(r)
        /\ r.result = "ok" => /\ acc.result = "ok" /\ ValidateTransaction(t, acc.states)
                              /\ o.result = "ok" /\ r = Count(acc, o, t)
    BY <1>2, <1>4, ValidateStepCases DEF Reached
  <2> SUFFICES ASSUME r.result = "ok"
               PROVE  /\ Grows(S, r.states, K)
                      /\ \A j \in 2 .. i : txs[j].To # NoKey \/ txs[j].Instructions =>
                           txs[j].From \in DOMAIN r.states /\ txs[j].Nonce <= r.states[txs[j].From].Nonce
    BY <2>1 DEF Reached
  <2>2. r.states = o.states
    BY <2>1, SMT DEF Count
  <2>3. Grows(S, acc.states, K) /\ Sound(acc.states, K)
    BY <1>4, <2>1 DEF Reached, Grows
  <2>4. IsTransaction(t) /\ (IsCoinbase(t) \/ t.From \in K)
    <3>1. CASE i = 1
      BY <3>1, CoinbaseIsTransaction DEF Body
    <3>2. CASE i # 1
      <4>1. i \in 2 .. n
        BY <1>1, <3>2, SMT
      <4> QED BY <4>1 DEF Body, Signed, n
    <3> QED BY <3>1, <3>2
  <2>5. Grows(acc.states, r.states, K)
    BY <2>2, <2>3, <2>4, ApplyGrows
  <2>6. Grows(S, r.states, K)
    BY <2>3, <2>5, GrowsTransitive
  <2>7. ASSUME NEW j \in 2 .. i, txs[j].To # NoKey \/ txs[j].Instructions
        PROVE  txs[j].From \in DOMAIN r.states /\ txs[j].Nonce <= r.states[txs[j].From].Nonce
    <3>1. Signed(txs[j], K)
      <4>1. j \in 2 .. n
        BY <1>1, SMT
      <4> QED BY <4>1 DEF Body, n
    <3>2. CASE j = i
      <4>1. t.From \in DOMAIN o.states /\ o.states[t.From].Nonce = t.Nonce
        <5>1. /\ IsTransaction(t) /\ t.From # NoKey /\ t.From \notin K \X Nat /\ t.From \in K
              /\ t.To # NoKey \/ t.Instructions
          BY <2>7, <3>1, <3>2 DEF Signed
        <5>2. ValidateTransaction(t, acc.states) /\ ApplyTransaction(t, acc.states).result = "ok"
          BY <2>1
        <5> HIDE DEF acc, t
        <5> QED BY <2>3, <5>1, <5>2, ApplySpends, SMT
      <4> HIDE DEF o
      <4>2. t.Nonce \in Nat
        BY <2>4 DEF IsTransaction
      <4> QED BY <2>2, <3>2, <4>1, <4>2, SMT
    <3>3. CASE j # i
      <4>1. j \in 2 .. (i - 1)
        BY <3>3, SMT
      <4> DEFINE k == txs[j].From
      <4>2. k \in DOMAIN acc.states /\ txs[j].Nonce <= acc.states[k].Nonce
        BY <1>4, <2>1, <2>7, <4>1 DEF Reached
      <4> HIDE DEF acc, r, o
      <4>3. k \in DOMAIN r.states /\ r.states[k].Nonce >= acc.states[k].Nonce
        BY <2>5, <3>1, <4>2 DEF Grows, Signed
      <4>4. acc.states[k].Nonce \in Nat /\ r.states[k].Nonce \in Nat /\ txs[j].Nonce \in Nat
        BY <2>3, <2>5, <3>1, <4>2, <4>3 DEF Grows, Sound, IsLedger, Accounts, Signed, IsTransaction
      <4> QED BY <4>2, <4>3, <4>4, SMT
    <3> QED BY <3>2, <3>3
  <2> QED BY <2>6, <2>7
<1>5. ASSUME NEW i \in Nat, \A m \in Nat : m < i => m \in N
      PROVE  i \in N
  <2>1. CASE i = 0
    BY <1>3, <2>1
  <2>2. CASE i # 0 /\ i <= n
    <3>1. i \in 1 .. n /\ i - 1 \in Nat /\ i - 1 < i /\ i - 1 <= n
      BY <1>1, <2>2, SMT
    <3>2. Reached(txs, S, K, i - 1, run[i - 1])
      BY <1>5, <3>1
    <3>3. Reached(txs, S, K, i, run[i])
      BY <1>4, <3>1, <3>2
    <3> QED BY <3>3
  <2>3. CASE ~(i <= n)
    BY <2>3
  <2> QED BY <2>1, <2>2, <2>3
<1>6. \A i \in Nat : i \in N
  <2> HIDE DEF N
  <2> QED BY <1>5, StrongInduction
<1> QED BY <1>1, <1>6, SMT DEF run, n

-----------------------------------------------------------------------------
(* The fees so far are a word; what they stand for is what the transfers   *)
(* have taken out of the ledger, up to the coinbase that came first.       *)
Collected(txs, S, i, acc) ==
  acc.result = "ok" /\ (\A j \in 2 .. i : IsTransfer(txs[j], acc.states)) =>
    \E F \in Nat : acc.fees = F % Width /\ Supply(acc.states) + F = Supply(S) + txs[1].Amount

(* The fees are so after every transaction, by induction over them.        *)
LEMMA ValidateCollects ==
  ASSUME NEW K, NEW S, Sound(S, K), NEW txs, Body(txs, K)
  PROVE  \A i \in 1 .. Len(txs) : Collected(txs, S, i, ValidateLoop(txs, S)[i])
<1> DEFINE run == ValidateLoop(txs, S)
           n == Len(txs)
           A == txs[1].Amount
           N == {i \in Nat : i \in 1 .. n => Collected(txs, S, i, run[i])}
<1>1. n \in Nat \ {0} /\ Width \in Nat \ {0} /\ A \in Words
  BY LedgerAssumption DEF Body
<1>2. run[0] = Tally(S) /\ \A i \in 1 .. n : run[i] = ValidateStep(run[i - 1], txs[i])
  BY <1>1, ValidateLoopEquation
<1>3. \A i \in 0 .. n : Reached(txs, S, K, i, run[i])
  BY ValidateReaches
<1> HIDE DEF run, n
<1>4. ASSUME NEW i \in 1 .. n
      PROVE  LET acc == run[i - 1]
                 o == ApplyTransaction(txs[i], acc.states) IN
             run[i].result = "ok" => /\ acc.result = "ok" /\ ValidateTransaction(txs[i], acc.states)
                                     /\ o.result = "ok" /\ run[i] = Count(acc, o, txs[i])
                                     /\ Sound(acc.states, K)
  <2>1. i - 1 \in 0 .. n
    BY <1>1, SMT
  <2>2. Reached(txs, S, K, i - 1, run[i - 1])
    BY <1>3, <2>1
  <2>3. IsTally(run[i - 1]) /\ (run[i - 1].result = "ok" => Sound(run[i - 1].states, K))
    BY <2>2 DEF Reached, Grows
  <2> QED BY <1>2, <2>3, ValidateStepCases
<1>5. Collected(txs, S, 1, run[1])
  <2> DEFINE c == txs[1]
             o == ApplyTransaction(c, S)
  <2>1. 1 \in 1 .. n /\ 1 - 1 = 0 /\ run[0].states = S /\ run[0].fees = 0
    BY <1>1, <1>2, SMT DEF Tally
  <2> SUFFICES ASSUME run[1].result = "ok"
               PROVE  run[1].fees = 0 % Width /\ Supply(run[1].states) + 0 = Supply(S) + A
    BY <1>1 DEF Collected
  <2>2. o.result = "ok" /\ run[1] = Count(run[0], o, c)
    BY <1>4, <2>1
  <2>3. c = Coinbase(c.To, A) /\ IsCoinbase(c) /\ c.GasPrice = 0
    BY <1>1, CoinbaseIsTransaction, SMT DEF Body, Coinbase
  <2>4. ~Overflows(S, c.To, A) /\ o = Outcome("ok", 0, Credit(S, c.To, A))
    BY <2>2, <2>3 DEF ApplyTransaction, Outcome
  <2>5. Supply(o.states) = Supply(S) + A
    <3>1. Supply(Credit(S, c.To, A)) = Supply(S) + A
      <4> HIDE DEF c, o
      <4> QED BY <1>1, <2>4, CreditGrows
    <3>2. o.states = Credit(S, c.To, A)
      <4> HIDE DEF c, o
      <4> QED BY <2>4 DEF Outcome
    <3> QED BY <3>1, <3>2
  <2>6. o.gas * c.GasPrice = 0
    <3> HIDE DEF o, c
    <3>1. o.gas = 0
      BY <2>4 DEF Outcome
    <3> QED BY <2>3, <3>1, SMT
  <2>7. Supply(S) \in Nat /\ A \in Nat
    BY <1>1, SupplyType, SMT DEF Sound, Words
  <2> HIDE DEF o
  <2> QED BY <2>1, <2>2, <2>5, <2>6, <2>7, SMT DEF Count
<1>6. ASSUME NEW i \in 2 .. n, Collected(txs, S, i - 1, run[i - 1])
      PROVE  Collected(txs, S, i, run[i])
  <2> DEFINE acc == run[i - 1]
             t == txs[i]
             o == ApplyTransaction(t, acc.states)
             r == run[i]
             fee == o.gas * t.GasPrice
  <2> SUFFICES ASSUME r.result = "ok", \A j \in 2 .. i : IsTransfer(txs[j], r.states)
               PROVE  \E F \in Nat : r.fees = F % Width /\ Supply(r.states) + F = Supply(S) + A
    BY DEF Collected
  <2>1. i \in 1 .. n /\ Signed(t, K)
    BY SMT DEF Body, n
  <2>2. /\ acc.result = "ok" /\ ValidateTransaction(t, acc.states)
        /\ o.result = "ok" /\ r = Count(acc, o, t) /\ Sound(acc.states, K)
    BY <1>4, <2>1
  <2>3. r.states = o.states /\ r.fees = (acc.fees + fee) % Width
    BY <2>2, SMT DEF Count
  <2>4. Grows(acc.states, r.states, K)
    BY <2>1, <2>2, <2>3, ApplyGrows DEF Signed
  <2>5. \A j \in 2 .. i : IsTransfer(txs[j], acc.states)
    BY <2>4 DEF Grows, IsTransfer
  <2>6. PICK F \in Nat : acc.fees = F % Width /\ Supply(acc.states) + F = Supply(S) + A
    <3>1. \A j \in 2 .. (i - 1) : IsTransfer(txs[j], acc.states)
      BY <2>5, SMT
    <3> QED BY <1>6, <2>2, <3>1 DEF Collected
  <2>7. fee \in Nat /\ Supply(o.states) \in Nat /\ Supply(acc.states) \in Nat
        /\ Supply(o.states) + fee = Supply(acc.states)
    <3>1. /\ IsTransaction(t) /\ t.From # NoKey
          /\ t.To # NoKey /\ (t.To \in DOMAIN acc.states => ~acc.states[t.To].code)
      <4>1. Signed(t, K) /\ IsTransfer(t, acc.states)
        BY <2>1, <2>5, SMT
      <4> HIDE DEF t, acc
      <4> QED BY <4>1 DEF Signed, IsTransfer
    <3>2. ApplyTransaction(t, acc.states).result = "ok"
      BY <2>2
    <3> HIDE DEF t, acc
    <3> QED BY <2>2, <3>1, <3>2, TransferSupply
  <2>8. Supply(S) \in Nat /\ A \in Nat
    BY <1>1, SupplyType, SMT DEF Sound, Words
  <2> HIDE DEF acc, fee, r, o
  <2>9. F + fee \in Nat /\ r.fees = (F + fee) % Width
    BY <1>1, <2>3, <2>6, <2>7, ModAdd, SMT
  <2>10. Supply(r.states) + (F + fee) = Supply(S) + A
    BY <2>3, <2>6, <2>7, <2>8, SMT
  <2> QED BY <2>9, <2>10
<1>7. ASSUME NEW i \in Nat, \A m \in Nat : m < i => m \in N
      PROVE  i \in N
  <2>1. CASE i = 1
    BY <1>5, <2>1
  <2>2. CASE i \in 2 .. n
    <3>1. i - 1 \in Nat /\ i - 1 < i /\ i - 1 \in 1 .. n
      BY <1>1, <2>2, SMT
    <3>2. Collected(txs, S, i - 1, run[i - 1])
      BY <1>7, <3>1
    <3>3. Collected(txs, S, i, run[i])
      BY <1>6, <2>2, <3>2
    <3> QED BY <3>3
  <2>3. CASE i \notin 1 .. n
    BY <2>3
  <2> QED BY <1>1, <2>1, <2>2, <2>3, SMT
<1>8. \A i \in Nat : i \in N
  <2> HIDE DEF N
  <2> QED BY <1>7, StrongInduction
<1> QED BY <1>1, <1>8, SMT DEF run, n

(* What ValidateBlock accepts: the ledger has grown, and every transaction *)
(* of the block that moved coins or code is spent.                         *)
LEMMA BlockSpends ==
  ASSUME NEW K, NEW S, Sound(S, K), NEW b, Body(b.Transactions, K),
         ValidateBlock(b, S).result = "ok"
  PROVE  LET txs == b.Transactions
             P == ValidateBlock(b, S).states IN
         /\ Grows(S, P, K)
         /\ \A j \in 2 .. Len(txs) : txs[j].To # NoKey \/ txs[j].Instructions =>
              txs[j].From \in DOMAIN P /\ txs[j].Nonce <= P[txs[j].From].Nonce
<1> DEFINE txs == b.Transactions
           run == ValidateLoop(txs, S)[Len(txs)]
<1>1. Len(txs) \in Nat \ {0} /\ Reached(txs, S, K, Len(txs), run)
  BY ValidateReaches, SMT DEF Body
<1> HIDE DEF run
<1>2. ValidateBlock(b, S) = run /\ run.result = "ok"
  BY <1>1 DEF ValidateBlock, run, Reached, IsTally
<1> QED BY <1>1, <1>2 DEF Reached

(* A block of transfers to keys adds the block reward to the supply, as    *)
(* long as the new supply is a word.                                       *)
THEOREM BlockConserves ==
  ASSUME NEW K, NEW S, Sound(S, K), NEW b, Body(b.Transactions, K),
         ValidateBlock(b, S).result = "ok", Supply(S) + BlockReward < Width,
         \A j \in 2 .. Len(b.Transactions) :
           IsTransfer(b.Transactions[j], ValidateBlock(b, S).states)
  PROVE  Supply(ValidateBlock(b, S).states) = Supply(S) + BlockReward
<1> DEFINE txs == b.Transactions
           run == ValidateLoop(txs, S)[Len(txs)]
           A == txs[1].Amount
<1>1. /\ Len(txs) \in Nat \ {0} /\ Reached(txs, S, K, Len(txs), run)
      /\ Collected(txs, S, Len(txs), run)
  BY ValidateReaches, ValidateCollects, SMT DEF Body
<1>2. A \in Nat /\ A < Width /\ Width \in Nat \ {0} /\ BlockReward \in Nat
  BY LedgerAssumption, SMT DEF Body, Words
<1> HIDE DEF run
<1>3. ValidateBlock(b, S) = run /\ run.result = "ok" /\ A = (run.fees + BlockReward) % Width
  BY <1>1 DEF ValidateBlock, run, Reached, IsTally
<1>4. PICK F \in Nat : run.fees = F % Width /\ Supply(run.states) + F = Supply(S) + A
  BY <1>1, <1>3 DEF Collected
<1>5. Supply(S) \in Nat /\ Supply(run.states) \in Nat
  BY <1>1, <1>3, SupplyType DEF Reached, Grows, Sound
<1> HIDE DEF A
<1>6. A = (F + BlockReward) % Width
  BY <1>2, <1>3, <1>4, ModAdd, SMT
<1> DEFINE G == F + BlockReward
<1>7. G \in Nat /\ G < Width + A
  BY <1>2, <1>4, <1>5, SMT
<1>8. G < Width + (G % Width)
  BY <1>6, <1>7
<1>9. A = G
  <2> HIDE DEF G
  <2>1. G % Width = G
    <3>1. G \in Nat /\ Width \in Nat \ {0}
      BY <1>2, <1>7
    <3> QED BY <1>8, <3>1, ModExact
  <2> QED BY <1>6, <2>1 DEF G
<1>10. Supply(run.states) = Supply(S) + BlockReward
  <2> DEFINE x == Supply(run.states)
             y == Supply(S)
  <2>1. x \in Nat /\ y \in Nat /\ BlockReward \in Nat /\ x + F = y + (F + BlockReward)
    BY <1>2, <1>4, <1>5, <1>9
  <2> HIDE DEF x, y
  <2>2. x = y + BlockReward
    BY <2>1, SMT
  <2> QED BY <2>2 DEF x, y
<1> QED BY <1>3, <1>10
=============================================================================

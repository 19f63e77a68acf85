SPECIFICATION Spec
CONSTANTS
  m = m
  alice = alice
  none = none
  NoKey = none
  MinerKey = m
  PeerKey = alice
  Width = 256
  BlockReward = 20
  ContractDeploymentFee = 3
  GasTransfer = 1
  GasContractDeploy = 1
  BlockGasLimit = 8
  InitGas = 2
  CallRun <- MCCallRun
  Txs <- MCTxs
  GasPrice <- MCGasPrice
  MaxSize = 2
  MaxExpiry = 0
  MaxTime = 1
  Removals = {}
  PoolLimit = 2
  HttpFails = TRUE
  MaxBlocks = 3
  MaxSubmitted = 1
CHECK_DEADLOCK FALSE
INVARIANT LedgerTypeOK
INVARIANT MinerInv
INVARIANT NoReplay
 
INVARIANT GoodBlockAccepted
 

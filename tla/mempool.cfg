SPECIFICATION PoolSpec
CONSTANTS
  t1 = t1
  t2 = t2
  t3 = t3
  t4 = t4
  t5 = t5
  t6 = t6
  t7 = t7
  Removals <- MCRemovals
  Txs <- MCTxs
  GasPrice <- MCGasPrice
  MaxSize = 6
  MaxExpiry = 0
  MaxTime = 1
INVARIANT PoolTypeOK
INVARIANT PoolInv
INVARIANT QueueMatchesMap
INVARIANT ServedInOrder
INVARIANT PoolBounded
PROPERTY EvictsCheaper

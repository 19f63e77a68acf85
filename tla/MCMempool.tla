------------------------------ MODULE MCMempool ------------------------------
(***************************************************************************)
(* A pool of six, the first size at which an element that takes the place  *)
(* of an evicted one may have to move up, and seven transactions.          *)
(***************************************************************************)
EXTENDS Mempool, TLC

CONSTANTS t1, t2, t3, t4, t5, t6, t7

MCTxs == {t1, t2, t3, t4, t5, t6, t7}
MCGasPrice ==
  t1 :> 1 @@ t2 :> 1 @@ t3 :> 2 @@ t4 :> 3 @@ t5 :> 4 @@ t6 :> 5 @@ t7 :> 6
MCRemovals == {{t1, t2, t5}}
==============================================================================

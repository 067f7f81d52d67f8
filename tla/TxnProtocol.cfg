CONSTANTS
  t1 = t1
  t2 = t2
  t3 = t3
  Txs = {t1, t2, t3}
  WalTxs = {t1, t2}
  Keys = {1}
  NumSlots = 2
  NumArenas = 2
  MaxWrites = 1
  MaxTS = 5
  Ops = {"Insert"}
  PoolMayReuse = TRUE
SPECIFICATION Spec
INVARIANTS TypeOK SlotsPartitioned ArenasExclusive  RealTimeOrder
PROPERTIES StampedOnce 
SYMMETRY TxSymmetry
CHECK_DEADLOCK FALSE

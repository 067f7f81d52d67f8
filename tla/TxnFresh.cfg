CONSTANTS
  t1 = t1
  t2 = t2
  Txs = {t1, t2}
  WalTxs = {t1}
  Keys = {1, 2}
  NumSlots = 2
  NumArenas = 2
  MaxWrites = 2
  MaxTS = 4
  Ops = {"Insert"}
  PoolMayReuse = FALSE
SPECIFICATION FairSpec
INVARIANTS ChainsWellFormed ReadYourWrites StampedByOwner
PROPERTIES CommitReturns
CHECK_DEADLOCK FALSE

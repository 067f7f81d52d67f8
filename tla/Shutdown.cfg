CONSTANTS
  Sessions = {s1, s2}
  Closers = {c1, c2}
  MaxTxs = 2
  MaxWrites = 2
  MaxFaults = 1
SPECIFICATION FairSpec
INVARIANTS   DrainedMeansEnded
PROPERTIES CloseReturns
CHECK_DEADLOCK FALSE

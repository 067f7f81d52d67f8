CONSTANTS
  SegCap = 4
  Chunk = 2
  MaxSeg = 1
  BufCap = 2
  Lens = {1, 2}
  CpLens = {1}
  MaxRecs = 3
  MaxLives = 2
  MaxFaults = 1
  MaxAsync = 1
SPECIFICATION FairSpec
INVARIANTS    ReplayOrdered
PROPERTIES ReplayComplete CloseReturns

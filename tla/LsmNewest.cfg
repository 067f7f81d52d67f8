CONSTANTS
  Clients = {c1}
  Keys = {1, 2}
  MemCap = 9
  QueueCap = 1
  MaxWrites = 3
  MaxSyncs = 2
  MaxLives = 1
  MaxFaults = 0
SPECIFICATION Spec
INVARIANTS ReadsNewest
CHECK_DEADLOCK FALSE

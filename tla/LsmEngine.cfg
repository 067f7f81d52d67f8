CONSTANTS
  Clients = {c1, c2}
  Keys = {1, 2}
  MemCap = 2
  QueueCap = 1
  MaxWrites = 3
  MaxSyncs = 1
  MaxLives = 2
  MaxFaults = 1
SPECIFICATION FairSpec
INVARIANTS EngineWellFormed SyncPersists AckedReadable
PROPERTIES CallsReturn
CHECK_DEADLOCK FALSE

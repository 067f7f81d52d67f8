CONSTANTS
  s1 = s1
  s2 = s2
  Sessions = {s1, s2}
  Statements <- SomeWrites
  OldRows <- TwoRows
  N = 2
  MaxStmts = 2
  MaxFaults = 0
  MaxRestarts = 0
  Null = Null
  All = All
  NoNode = NoNode
  Tomb = Tomb
  None = None
SPECIFICATION Spec
PROPERTIES RollbackRestores
CHECK_DEADLOCK FALSE

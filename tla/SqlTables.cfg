CONSTANTS
  s1 = s1
  s2 = s2
  Sessions = {s1, s2}
  Statements <- SomeStatements
  OldRows <- TwoRows
  N = 2
  MaxStmts = 3
  MaxFaults = 1
  MaxRestarts = 1
  Null = Null
  All = All
  NoNode = NoNode
  Tomb = Tomb
  None = None
SPECIFICATION FairSpec
INVARIANTS NoGhostRows CatalogAgrees StatementEffect
PROPERTIES RowidsFresh StatementsEnd
CHECK_DEADLOCK FALSE

CONSTANTS
  MaxInt = 31
  MantLimit = 16
  Cap = 1
  MaxStreams = 2
  MaxRuns = 1
  MaxWork = 4
  MaxWrites = 2
  Statements <- MCStatements
  Tables <- MCTables
  AValues <- MCAValues
SPECIFICATION Spec
INVARIANT StreamWhole
PROPERTY StreamEnds
CHECK_DEADLOCK FALSE

CONSTANTS
  MaxInt = 31
  MantLimit = 16
  Cap = 1
  MaxStreams = 2
  MaxRuns = 1
  MaxWork = 4
  MaxWrites = 0
  Statements <- ReuseStatements
  Tables <- ReuseTables
  AValues <- MCAValues
SPECIFICATION Spec
PROPERTY StreamAnswers
CHECK_DEADLOCK FALSE

CONSTANTS
  MaxInt = 31
  MantLimit = 16
  WrapBound = 3
  SyntaxNodes = 6
  TextNodes = 5
  LogicNodes = 6
  NotChain = 4
  Numbers <- MCNumbers
  Patterns <- MCPatterns
  Texts <- MCTexts
  Days <- MCDays
  Secs <- MCSecs
  Amounts <- MCAmounts
SPECIFICATION Inputs
INVARIANTS
  FiltersAgree
  FunctionsAgree
  ArithmeticExact
  LikeAgrees
  
PROPERTIES
  ParseInverts
  TextRoundTrips
  
CHECK_DEADLOCK FALSE

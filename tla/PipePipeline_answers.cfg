SPECIFICATION FairSpec
CONSTANTS
  Exprs <- TwoExpressions
  Garbage <- StackLines
  Capacity = 2
  MaxFaults = 1
INVARIANTS
  TypeOK
PROPERTIES
  ImplementsCalculator
  OrphansEnd
  QuestionSettles
CHECK_DEADLOCK FALSE

SPECIFICATION FairSpec
CONSTANTS
  Numbers = {1}
  First = 2
  Operators = {"-", "<", "&&"}
  Terms = 3
  Exprs <- Expressions
  MaxFaults = 2
INVARIANTS
  TypeOK
  RemovesUnused
PROPERTIES
  NoMessageOverwritten
  ImplementsCalculator
CHECK_DEADLOCK FALSE

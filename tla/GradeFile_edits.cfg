SPECIFICATION FairSpec
CONSTANTS
  Names = {1, 2}
  Today = 2
  Typed = {300, 496, 940}
  MaxLines = 3
  MaxCrashes = 1
INVARIANTS
  TypeOK
  NothingLost
  SortedAtMenu
  PrintsAll
  AverageCountsPassed
PROPERTIES
  OperationEnds

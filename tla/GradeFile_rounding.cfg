SPECIFICATION Spec
CONSTANTS
  Names = {1}
  Today = 2
  Typed = {300, 496}
  MaxLines = 3
  MaxCrashes = 0
INVARIANTS
  AverageTakesGreatest

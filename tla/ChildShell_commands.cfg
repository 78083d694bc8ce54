SPECIFICATION FairSpec
CONSTANTS
  p1 = p1
  p2 = p2
  p3 = p3
  Pids = {p1, p2}
  Tries = 2
  MaxExternal = 1
INVARIANTS
  TypeOK
  StatusTracksState
  NoChildForgotten
  SignalsOwnChildren
PROPERTIES
  EveryCommandEnds
  ExitLeavesNobody
CHECK_DEADLOCK FALSE

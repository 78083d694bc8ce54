SPECIFICATION Spec
CONSTANTS
  p1 = p1
  p2 = p2
  p3 = p3
  Pids = {p1, p2}
  Tries = 2
  MaxExternal = 0
INVARIANTS
  NoDeadAfterRefresh
CHECK_DEADLOCK FALSE

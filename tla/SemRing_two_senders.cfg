SPECIFICATION Spec
CONSTANTS
  s1 = s1
  s2 = s2
  r1 = r1
  r2 = r2
  a = a
  b = b
  Nul = Nul
  Producers = {s1, s2}
  Consumers = {r1}
  Data = {a, b}
  Size = 2
  SemFlags <- Blocking
  MaxPuts = 4
INVARIANTS
  SlotsHold
CHECK_DEADLOCK FALSE

SPECIFICATION FairSpec
CONSTANTS
  s1 = s1
  s2 = s2
  r1 = r1
  r2 = r2
  a = a
  b = b
  Nul = Nul
  Producers = {s1}
  Consumers = {r1, r2}
  Data = {a, b}
  Size = 2
  SemFlags <- AnyFlags
  MaxPuts = 4
INVARIANTS
  TypeOK
  NoUnitLost
  MutualExclusion
  SemaphoresCountSlots
  RingInv
PROPERTIES
  ImplementsFifo
  EveryCharDelivered
CHECK_DEADLOCK FALSE

SPECIFICATION FairRingSpec
CONSTANTS
  a = a
  b = b
  Empty = Empty
  Data = {a, b}
  Size = 3
  MaxPuts = 5
INVARIANTS
  RingInv
PROPERTIES
  ImplementsFifo
  EveryCharDelivered
CHECK_DEADLOCK FALSE

SPECIFICATION FairSpec
CONSTANTS
  Senders = {s1}
  Receivers = {r1}
  Letters = {a, b}
  Quit = q
  Nul = nul
  Room = 2
  MaxTyped = 5
  MaxCrashes = 1
  s1 = s1
  r1 = r1
  a = a
  b = b
INVARIANTS
  TypeOK
  AllDelivered
  FaultsExplained
PROPERTIES
  RunsTheRing
  SessionEnds
CHECK_DEADLOCK FALSE

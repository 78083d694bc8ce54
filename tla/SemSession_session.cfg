SPECIFICATION FairSpec
CONSTANTS
  Senders = {s1}
  Receivers = {r1}
  Letters = {a}
  Quit = q
  Nul = nul
  Size = 2
  MaxTyped = 4
  MaxCrashes = 1
  SemFlags <- MayNotWait
  s1 = s1
  r1 = r1
  a = a
INVARIANTS
  TypeOK
  AllDelivered
  SemaphoresOutliveUsers
  NoFault
PROPERTIES
  SessionEnds
CHECK_DEADLOCK FALSE

SPECIFICATION Spec
CONSTANTS
  Senders = {s1}
  Receivers = {r1}
  Letters = {a}
  Quit = q
  Nul = nul
  Size = 2
  MaxTyped = 2
  MaxCrashes = 0
  SemFlags <- Blocking
  s1 = s1
  r1 = r1
  a = a
INVARIANTS
  LastRemovesSemaphores
CHECK_DEADLOCK FALSE

CONSTANTS
  NoRow = NoRow
  Stub = Stub
  User = {u1}
  Team = {t1, t2}
  Name = {n1, n2}
  MaxAtWork = 1
  HookMayOverlap = TRUE
  MaxRequests = 2
  MaxFaults = 0
SPECIFICATION Spec
INVARIANTS CopiesAgree
CHECK_DEADLOCK FALSE

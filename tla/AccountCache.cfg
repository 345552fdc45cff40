CONSTANTS
  NoRow = NoRow
  Stub = Stub
  User = {u1}
  Team = {t1, t2}
  Name = {n1, n2}
  MaxAtWork = 2
  HookMayOverlap = TRUE
  MaxRequests = 3
  MaxFaults = 2
SPECIFICATION Spec
INVARIANTS TypeOK RankedSomewhere CountsKept
PROPERTIES MembersServed
CHECK_DEADLOCK FALSE

CONSTANTS
  NoTeam = NoTeam
  NoRow = NoRow
  u1 = u1
  t1 = t1
  t2 = t2
  g1 = g1
  g2 = g2
  r1 = r1
  r2 = r2
  User <- MCUser
  Team = {t1, t2}
  Year = {2024}
  Game = {g1, g2}
  Home <- MCHome
  Away <- MCAway
  YearOf <- MCYearOf
  Statuses = {"ended"}
  Req = {r1, r2}
  MayOverlap = {"request", "hook", "sync"}
  MaxRequests = 2
  MaxFaults = 0
SPECIFICATION SeededSpec
INVARIANTS TypeOK ResultMatchesTeam
PROPERTIES RequestsEnd
CHECK_DEADLOCK FALSE

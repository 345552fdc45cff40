CONSTANTS
  NoTeam = NoTeam
  NoRow = NoRow
  u1 = u1
  t1 = t1
  t2 = t2
  g1 = g1
  g2 = g2
  r1 = r1
  r2 = r2
  User <- MCUser
  Team = {t1, t2}
  Year = {2024, 2025}
  Game = {g1, g2}
  Home <- MCHome
  Away <- MCAway
  YearOf <- MCYearOf
  Statuses = {"ended", "live", "cancelled"}
  Req = {r1}
  MayOverlap = {}
  MaxRequests = 3
  MaxFaults = 1
SPECIFICATION Spec
INVARIANTS LedgerExact CacheCaughtUp PagesAgree
PROPERTIES BookSpec RefusesOnlyPending
CHECK_DEADLOCK FALSE

CONSTANTS
  NoTeam = NoTeam
  Null = Null
  Home = home
  Away = away
  Fan = {f1}
  Tick = {k1}
  LastOfMonth = FALSE
  MaxRestarts = 0
SPECIFICATION Spec
PROPERTIES PendingSettles
CHECK_DEADLOCK FALSE

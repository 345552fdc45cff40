CONSTANTS
  NoTeam = NoTeam
  Null = Null
  Home = home
  Away = away
  Fan = {f1}
  Tick = {k1}
  LastOfMonth = FALSE
  MaxRestarts = 1
SPECIFICATION Spec
INVARIANTS TypeOK DecisiveResultsRight StoppedMeansOver
PROPERTIES ResultStays ScoreSettles
CHECK_DEADLOCK FALSE

CONSTANTS
  None = None
  User = {u1, u2}
  Walker = u1
  TwoTabs = {u2}
  Songs = 3
  Matching = {1, 2, 3}
  Team = {1, 2, 3}
  OfType = {1, 3}
  Takes = {1, 2}
  Req = {1, 2}
  MaxRequests = 5
SPECIFICATION Spec
INVARIANTS TypeOK CountsLikers WalkTrue

CONSTANTS
  None = None
  Client = {c1, c2}
  Email = {e1}
  Code = {1, 2}
  Limit = 1
  Req = {1, 2}
  MaxRequests = 5
  MaxFaults = 1
SPECIFICATION Spec
INVARIANTS TypeOK NewestAccepted AcceptedOnce
PROPERTIES AskedAgain
CHECK_DEADLOCK FALSE

SPECIFICATION Spec

CONSTANTS
  Email = {"e1"}
  Password = {"p1", "p2"}
  Term = {"t1", "t2"}
  None = None
  Req = {1, 2}
  MaxRequests = 5

INVARIANTS
  TypeOK
  LoginWorks
  OffersAccepted

PROPERTIES
  AgreementsStay

CHECK_DEADLOCK FALSE

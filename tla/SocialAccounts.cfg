CONSTANTS
  k1 = k1
  k2 = k2
  g1 = g1
  kakao = kakao
  google = google
  e1 = e1
  e2 = e2
  NoUser = NoUser
  Social = {k1, k2, g1}
  Provider = {kakao, google}
  ProviderOf <- MCProviderOf
  Email = {e1, e2}
  MailOf <- MCMailOf
  Req = {1, 2}
  MaxRequests = 4
SPECIFICATION Spec
INVARIANTS TypeOK EveryoneCanSignIn OneOwner
PROPERTIES FlowsEnd
CHECK_DEADLOCK FALSE

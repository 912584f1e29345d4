SPECIFICATION FairSpec
CONSTANTS
  Requests = {r1, r2}
  MaxRow = 2
  MaxLogin = 3
  Env = {"loginFails", "startFails", "queryFails"}
CHECK_DEADLOCK FALSE
INVARIANTS
  SessionInv
  DownloadKeepsSession
  NoSessionLeak
PROPERTIES
  SessionsEnd
  ImplementsDownloadSession

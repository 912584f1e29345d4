SPECIFICATION FairSpec
CONSTANTS
  N = 2
  M = 2
  Clients = {c1, c2}
  NoClient = NoClient
  SpuriousWakeups = FALSE
  CopyMayFail = FALSE
  AllowShutdown = TRUE
CHECK_DEADLOCK FALSE
INVARIANTS
  PoolInv
  WorkerProtocol
  NobodyForgotten
PROPERTIES
  SearchReturns
  ShutdownCompletes
  ImplementsService

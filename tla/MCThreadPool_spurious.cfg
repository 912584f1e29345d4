SPECIFICATION Spec
CONSTANTS
  N = 2
  M = 2
  Clients = {c1, c2}
  NoClient = NoClient
  SpuriousWakeups = TRUE
  CopyMayFail = TRUE
  AllowShutdown = TRUE
CHECK_DEADLOCK FALSE
INVARIANTS
  SlotOwnership
  NoUseAfterFree
  NoLostWakeup
  ShutdownInOrder
PROPERTY
  ImplementsSafeService

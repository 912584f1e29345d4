SPECIFICATION HangingSpec
CONSTANTS
  N = 2
  M = 3
  Clients = {c1, c2, c3}
  NoClient = NoClient
  SpuriousWakeups = FALSE
  CopyMayFail = FALSE
  AllowShutdown = FALSE
PROPERTY
  FullPoolReported

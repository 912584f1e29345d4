SPECIFICATION Spec
CONSTANTS
  Requests = {r1}
  Nobody = Nobody
  MaxRow = 2
  MaxHandle = 2
  IntRange = 2
  MaxThread = 2
  MaxRestart = 0
  Limit = 2
  Env = {"concurrent", "loginFails", "startFails", "earlyEnd", "slowThreads",
         "recordFails", "mp4Fails", "pingFails"}
CHECK_DEADLOCK FALSE
INVARIANTS
  PipelineInv
  PlayPortExclusive

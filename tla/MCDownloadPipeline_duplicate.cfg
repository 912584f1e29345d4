SPECIFICATION Spec
CONSTANTS
  Requests = {r1}
  Nobody = Nobody
  MaxRow = 1
  MaxHandle = 1
  IntRange = 100
  MaxThread = 2
  MaxRestart = 0
  Limit = 1
  Env = {"slowThreads"}
CHECK_DEADLOCK FALSE
INVARIANT
  ConvertedOnce

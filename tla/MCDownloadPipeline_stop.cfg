SPECIFICATION Spec
CONSTANTS
  Requests = {r1}
  Nobody = Nobody
  MaxRow = 2
  MaxHandle = 2
  IntRange = 100
  MaxThread = 2
  MaxRestart = 0
  Limit = 2
  Env = {"overlap", "concurrent"}
CHECK_DEADLOCK FALSE
PROPERTY
  StopsOnlyFinished

SPECIFICATION CSpec
CONSTANTS
  Requests = {r1, r2}
  Nobody = Nobody
  MaxRow = 3
  MaxHandle = 3
  IntRange = 2
  MaxThread = 1
  MaxRestart = 0
  Limit = 1
  Env = {"overlap", "concurrent"}
CHECK_DEADLOCK FALSE
SYMMETRY RequestSymmetry
INVARIANTS
  BoundedOvershoot
  UndisturbedRequest
  
PROPERTIES
  StopsOnlyStale

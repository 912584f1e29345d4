SPECIFICATION Spec
CONSTANTS
  Requests = {r1, r2}
  Nobody = Nobody
  MaxRow = 3
  MaxHandle = 3
  IntRange = 2
  MaxThread = 3
  MaxRestart = 1
  Limit = 1
  Env = {"loginFails", "startFails", "earlyEnd", "recordFails", "handleReuse"}
CHECK_DEADLOCK FALSE
SYMMETRY RequestSymmetry
INVARIANTS
  ConvertedOnce
  RawKeptUntilConverted
  ConversionInv
PROPERTIES
  StopsOnlyFinished

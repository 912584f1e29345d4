SPECIFICATION FairSpec
CONSTANTS
  Requests = {r1, r2}
  Nobody = Nobody
  MaxRow = 3
  MaxHandle = 3
  IntRange = 100
  MaxThread = 3
  MaxRestart = 0
  Limit = 1
  Env = {"loginFails", "startFails"}
CHECK_DEADLOCK FALSE
INVARIANTS
  CountIsDownloading
  ConversionInv
  NobodyStuck
PROPERTIES
  EveryRecordingSettles
  ImplementsRecording

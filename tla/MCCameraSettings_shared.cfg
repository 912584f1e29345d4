SPECIFICATION Spec
CONSTANTS
  Requests = {r1, r2}
  Cameras = {front, back}
  Channels <- TwoChannels
  Settings <- TwoSettings
  Nothing = Nothing
  MaxRow = 2
  Env = {"databaseFails", "queryFails"}
SYMMETRY CameraSymmetry
INVARIANTS
  CameraInv
  ReadsWhatWasSet
  SuccessMeansSet
PROPERTIES
  OnlyOwnChannel

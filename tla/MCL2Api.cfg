SPECIFICATION Spec
CONSTANTS
  Revisions = {"ABAB", "ACAB"}
  Sizes = {102, 128, 300, 25601}
  Chunkings <- FileChunks
  RspLens = {0, 4, 20, 48, 52, 128, 253}
  MaxFaults = 2
  MaxCalls = 1
INVARIANTS
  SuccessMeansUpdated
  FramesExact
PROPERTY
  Recovers

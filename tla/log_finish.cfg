SPECIFICATION Spec
CONSTANTS
  MaxAttempts = 1
  MaxEvents = 2
  MaxChunk = 2
  Capacity = 1
  MaxBatch = 2
  PageSize = 2
  Ends = {"completed"}
  Disturbances = {"cut", "cancel", "disconnect", "shutdown"}
  MaxNoise = 1
  MaxFaults = 0
INVARIANTS StatusIsInLog
PROPERTIES FlushReturns ReaderFinishes

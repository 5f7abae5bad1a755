SPECIFICATION Spec
CONSTANTS
  MaxAttempts = 2
  MaxEvents = 2
  MaxChunk = 1
  Capacity = 1
  MaxBatch = 2
  PageSize = 2
  Ends = {"completed"}
  Disturbances = {"error"}
  MaxNoise = 0
  MaxFaults = 1
PROPERTIES LogIsStable

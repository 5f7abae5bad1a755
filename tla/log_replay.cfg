SPECIFICATION Spec
CONSTANTS
  MaxAttempts = 1
  MaxEvents = 4
  MaxChunk = 2
  Capacity = 1
  MaxBatch = 2
  PageSize = 2
  Ends = {"completed", "failed"}
  Disturbances = {}
  MaxNoise = 1
  MaxFaults = 0
INVARIANTS TypeOK TerminalClosesReplay ReaderMissesNothing ProviderStatusRecorded

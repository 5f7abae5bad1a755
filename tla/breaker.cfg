SPECIFICATION Spec
CONSTANTS
  r1 = r1
  r2 = r2
  Requests = {r1, r2}
  Checkers = {r2}
  InferenceMode = TRUE
  FailureThreshold = 2
  SuccessThreshold = 2
  BaseTimeout = 1
  MaxTimeout = 2
  Multiplier = 3
  MaxRetries = 1
  MaxCasRetries = 2
  MaxOpens = 2
  MaxFaults = 1
INVARIANTS TypeOK OpenCoolsDown
PROPERTIES Recovers KeepsTripping

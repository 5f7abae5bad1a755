SPECIFICATION Spec
CONSTANTS
  a = a
  b = b
  Flusher = flusher
  Worker = worker
  Admin = admin
  Letters = {a, b}
  MaxPending = 1
  MaxBatch = 1
  QueueSize = 1
  MaxDeliveries = 1
  Attempts = 2
  MaxFiles = 1
  BatchSize = 2
  MaxRetries = 1
  MaxTroubles = 1
INVARIANTS TypeOK NothingVanishes ListedIsDurable ShutdownFlushes
PROPERTIES PushEvicts LettersSettle

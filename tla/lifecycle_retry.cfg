SPECIFICATION SpecBodiesEnd
CONSTANTS
  p1 = p1
  p2 = p2
  r1 = r1
  NoReplica = NoReplica
  Replicas = {p1, p2}
  Responses = {r1}
  MaxAttempts = 2
  Concurrency = 1
  Kinds = {"background"}
  CreateAt = {p1}
  CancelAt = {}
  DeleteAt = {}
  MaxCrashes = 1
  MaxFaults = 1
INVARIANTS TypeOK WorkerDoneMeansSettled
PROPERTIES SingleExecutor BackgroundSettles

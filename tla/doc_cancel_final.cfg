SPECIFICATION Spec
CONSTANTS
  p1 = p1
  r1 = r1
  NoReplica = NoReplica
  Replicas = {p1}
  Responses = {r1}
  MaxAttempts = 2
  Concurrency = 1
  Kinds = {"background"}
  CreateAt = {p1}
  CancelAt = {p1}
  DeleteAt = {}
  MaxCrashes = 0
  MaxFaults = 0
PROPERTIES CancelledStaysCancelled

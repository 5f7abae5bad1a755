SPECIFICATION Spec
CONSTANTS
  p1 = p1
  p2 = p2
  r1 = r1
  NoReplica = NoReplica
  Replicas = {p1, p2}
  Responses = {r1}
  MaxAttempts = 1
  Concurrency = 1
  Kinds = {"background", "streaming", "unary"}
  CreateAt = {p1}
  CancelAt = {p1}
  DeleteAt = {p2}
  MaxCrashes = 1
  MaxFaults = 1
INVARIANTS CancelAnswersTerminal CancelledOnlyIfAsked
PROPERTIES KeepsContract CancelReachesOtherReplica

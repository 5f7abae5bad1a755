SPECIFICATION Spec
CONSTANTS
  r1 = r1
  r2 = r2
  u = u
  p1 = p1
  p2 = p2
  Requests = {r1, r2}
  Replicas = {p1, p2}
  Makers = {r1}
  Roaming = {r2}
  Front = p1
  Staged = {r2}
  Upload = u
  MaxCommands = 1
  MaxTroubles = 1
INVARIANTS
  TypeOK
  OneSession
  SessionKeepsFiles
PROPERTIES
  TerminalIsFinal
  IdleExpires
  SessionsFreed
CHECK_DEADLOCK FALSE

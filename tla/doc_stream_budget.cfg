SPECIFICATION Spec
CONSTANTS
  r1 = r1
  r2 = r2
  Requests = {r1, r2}
  Streamed = {r1, r2}
  Expires = TRUE
  Estimate = 2
  Costs = {3}
  EstTokens = 1
  TokenCounts = {2}
  Budget = 3
  TokensPerMinute = 1
  TokensPerDay = 1
  RequestsPerMinute = 1
  RequestsPerDay = 1
  Optional = {"spend", "tpd"}
  MaxPeriods = 1
  MaxRotations = 0
  MaxFaults = 0
CHECK_DEADLOCK FALSE
INVARIANTS BudgetHolds

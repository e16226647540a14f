CONSTANTS
  MaxRuns = 1
  Requests = {q1}
  NoRequest = NoRequest
  MaxAttempts = 2
  Mode = "job"
  Apis = {a1, a2}
  Workers = {w1, w2}
  Home <- OneHome
  Replayers = {a1}
  DryRuns <- NoRuns
  MaxDepth = 2
  Reclaims = FALSE
  MaxCrashes = 1
SPECIFICATION Spec
INVARIANTS SingleExecutor  ReadingsHold
CHECK_DEADLOCK FALSE

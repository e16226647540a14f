CONSTANTS
  MaxRuns = 2
  Requests = {q1}
  NoRequest = NoRequest
  MaxAttempts = 2
  Mode = "external"
  Apis = {a1, a2}
  Workers = {w1, w2}
  Home <- OneHome
  Replayers = {a1}
  DryRuns <- NoRuns
  MaxDepth = 2
  Reclaims = FALSE
  MaxCrashes = 0
SPECIFICATION Spec
INVARIANT RetryBudget
PROPERTY ImplementsLifecycle
CHECK_DEADLOCK FALSE

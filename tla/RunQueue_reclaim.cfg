CONSTANTS
  MaxRuns = 1
  Requests = {}
  NoRequest = NoRequest
  MaxAttempts = 3
  Mode = "external"
  Apis = {a1}
  Workers = {w1, w2}
  Home <- OneHome
  Replayers = {a1}
  DryRuns <- FirstRun
  MaxDepth = 2
  Reclaims = TRUE
  MaxCrashes = 1
SPECIFICATION Spec
INVARIANT AttemptsLeft
PROPERTIES SuccessLostOnlyToStaleReaders DrainMissesOnlyRetries
CHECK_DEADLOCK FALSE

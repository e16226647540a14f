CONSTANTS
  MaxRuns = 2
  Requests = {}
  NoRequest = NoRequest
  MaxAttempts = 2
  Mode = "inline"
  Apis = {a1}
  Workers = {w1, w2}
  Home <- OneHome
  Replayers = {a1}
  DryRuns <- NoRuns
  MaxDepth = 2
  Reclaims = FALSE
  MaxCrashes = 0
SPECIFICATION FairSpec
PROPERTY EveryRunSettles
CHECK_DEADLOCK FALSE

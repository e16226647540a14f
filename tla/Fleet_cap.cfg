SPECIFICATION Spec
CONSTANTS
  r1 = r1
  r2 = r2
  Repos = {r1, r2}
  MaxPins = 1
  BlueprintOf <- EveryPin
  MaxConcurrent = 1
  StopAfter = 1
  GitHubApp = TRUE
  Lagging = {r2}
  MaxFaults = 1
INVARIANTS OneOpenPerVersion
 
CHECK_DEADLOCK FALSE

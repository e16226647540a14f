SPECIFICATION FairSpec
CONSTANTS
  Repos = {r1}
  MaxPins = 2
  BlueprintOf <- EveryPin
  MaxConcurrent = 1
  StopAfter = 1
  GitHubApp = FALSE
  Lagging = {r1}
  MaxFaults = 0
INVARIANTS TrackedExists
PROPERTIES RecordedPRKept 
CHECK_DEADLOCK FALSE

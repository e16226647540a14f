SPECIFICATION FairSpec
CONSTANTS
  MaxRuns = 1
  Requests <- NoRequests
  NoRequest = NoRequest
  MaxAttempts = 2
  Workers = {w1, w2}
  Contents = {c1, c2}
  Streams = {s1}
  Cap = 4
  MaxCrashes = 1
  Teams = {"core", "app"}
  NoTeam = NoTeam
  People = {"ann", "bob", "eve"}
  MaxListed = 2
  SomeWorlds <- ReachableWorlds
  SomeForms <- EveryForm
  SomeFailures <- OneFails
INVARIANTS ReportedIsPushed ProvisionedAsReported
PROPERTIES StreamsEnd 
CHECK_DEADLOCK FALSE

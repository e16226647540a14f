SPECIFICATION Spec
CONSTANTS
  Jobs <- MCJobs
  Configs <- MCConfigs
  WaiverFiles <- MCWaiverFiles
  Malformed = Malformed
  NoSelection = NoSelection
  NoEntity = NoEntity
  Checks <- MCChecks
  OpaRules <- MCOpaRules
  Required <- MCRequired
  RulesFor <- MCRulesFor
  BlueprintGates <- MCBlueprintGates
  WarnDays = 1
  MaxTime = 3
  MaxEdits = 2
INVARIANTS PreviewHolds RegenerationHolds
PROPERTIES NoFailureShips MandatoryPolicyHolds MergedIsGreen

SPECIFICATION FairSpec
CONSTANTS
  Users = {u1, u2}
  Repos = {1, 2, 3}
  Importable = {2}
  Pins = {1}
  ImportPin = 1
  NameOf <- Spellings
  Foreign = {"b"}
  None = None
  MaxWrites = 2
  MaxFaults = 1
  FileCount = 3
  PathCount = 7
  Contents = {x, y, z}
  QuarantineOf <- Quarantine
  Groups <- OneGroup
  NoFile = NoFile
  Scaffolded = Scaffolded
  Unmapped = Unmapped
  Refused = Refused
  Signals <- ShippedSignals
  RulesOf <- ShippedRules
  Family <- ShippedFamilies
  Catalog <- ShippedCatalog
  Reference <- ShippedReference
  PageSize = 2
  MaxPages = 3
  Nothing = Nothing
  SomePaths <- ManyPaths
  SomeEstates <- Estates
  SomeOrders <- Orders
  SomeChoices <- ShippedChoices
  SomeTotals = {0,1,2,3,4,5,6,7,8}
  SomeLimits = {0,1,2,3,4,5,6,7}
INVARIANTS MirrorAgrees  
PROPERTIES ReviewedCommitsStay OnlyLateImports SyncSettles
CHECK_DEADLOCK FALSE

CONSTANTS
  Stacks = {1, 2}
  KindOf <- Components
  NameOf <- SameName
  ClassOf <- OneOfEach
  AutoClasses <- Buckets
  ReviewClasses <- NoClasses
  Vendors = {v1, v2}
  Passes = {p1}
  MaxVends = 2
  MaxCrashes = 1
SPECIFICATION FairSpec
INVARIANTS OneOpenPerBranch ExpiredNamesItsReview
PROPERTIES RenewedLostOnlyToStalePasses ReviewedBeforeDropped ExpiredSettles
CHECK_DEADLOCK FALSE

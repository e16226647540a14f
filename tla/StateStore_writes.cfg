CONSTANTS
  MaxStates = 2
  MaxSerial = 2
  l1 = l1
  l2 = l2
  c1 = c1
  c2 = c2
  Lineages = {l1, l2}
  NoLineage = NoLineage
  Contents = {c1, c2}
  LockIds = {k1, k2}
  NoLock = NoLock
  Txs = {}
  NoTx = NoTx
  Addresses = {}
  Gates = {}
  Required = {}
  Replicas = {a1, a2}
  Free = Free
  Documents <- ManyDocuments
  Unparsable = Unparsable
  Reports <- Passed
  OneRequestPerTx = TRUE
  MaxTraversalDepth = 3
  Indexes = {"[0]", "[1]"}
  Modules = {"app"}
  Scopes = {"var", "each", "self"}
  Suspicious = {"password"}
  Unkeyed = Unkeyed
  Redacted = Redacted
  SomeDocuments <- FewEstates
  SomeCaches <- FewCaches
  SomeConfigs <- FewConfigs
  SomeEdges <- FewEdges
  SomeBreakdowns <- FewBreakdowns
SYMMETRY SameReplicas
SPECIFICATION Spec
PROPERTY LockRespected
PROPERTY ImplementsHistory
CHECK_DEADLOCK FALSE

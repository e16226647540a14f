CONSTANTS
  MaxStates = 2
  MaxSerial = 1
  l1 = l1
  l2 = l2
  c1 = c1
  c2 = c2
  Lineages = {l1, l2}
  NoLineage = NoLineage
  Contents = {c1, c2}
  LockIds = {}
  NoLock = NoLock
  Txs = {t1, t2}
  NoTx = NoTx
  Addresses = {x}
  Gates = {g1}
  Required = {g1}
  Replicas = {a1, a2}
  Free = Free
  Documents <- FewDocuments
  Unparsable = Unparsable
  Reports <- PassedOrNot
  OneRequestPerTx = TRUE
  MaxTraversalDepth = 3
  Indexes = {"[0]", "[1]"}
  Modules = {"app"}
  Scopes = {"var", "each", "self"}
  Suspicious = {"password"}
  Unkeyed = Unkeyed
  Redacted = Redacted
  SomeDocuments <- FewEstates
  SomeCaches <- FewCaches
  SomeConfigs <- FewConfigs
  SomeEdges <- FewEdges
  SomeBreakdowns <- FewBreakdowns
SYMMETRY SameClients
SPECIFICATION Spec
INVARIANT CommitsAreStored
 
 
INVARIANT IndexAnswers
CHECK_DEADLOCK FALSE

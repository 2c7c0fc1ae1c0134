SPECIFICATION FairSpec
CONSTANTS
  n1 = n1
  n2 = n2
  i1 = i1
  i2 = i2
  Instances = {i1}
  Nodes = {n1}
  NodeOf <- OwnNode
  MaxVersions <- Limit1
  ChangeType = "INSTANCE"
  UINT64_MAX = 99
  LastCommitCount = 3
  LastVersion = 4
  UseMulticast = FALSE
  UseCache = TRUE
  Large = FALSE
  Requests <- SomeRequests
  MapFuture = FALSE
  MayFail = {n1}
  AutoObsolete = {1}
INVARIANTS
  TypeOK
  CheckConsistency
  SlaveContent
PROPERTIES
  ImplementsObject
  ImplementsMaster
  RetainsYoung
  MapUnmapReturn
  CommitCompletes
  CatchesUp
CHECK_DEADLOCK FALSE

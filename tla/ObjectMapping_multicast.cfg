SPECIFICATION Spec
CONSTANTS
  n1 = n1
  n2 = n2
  i1 = i1
  i2 = i2
  Instances = {i1}
  Nodes = {n1}
  NodeOf <- OwnNode
  MaxVersions <- Limit1
  ChangeType = "DELTA"
  UINT64_MAX = 99
  LastCommitCount = 3
  LastVersion = 3
  UseMulticast = TRUE
  UseCache = FALSE
  Large = FALSE
  Requests <- Oldest
  MapFuture = FALSE
  MayFail = {}
  AutoObsolete = {2}
INVARIANTS
  QueueConsecutive
CHECK_DEADLOCK FALSE

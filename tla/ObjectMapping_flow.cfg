SPECIFICATION Spec
CONSTANTS
  n1 = n1
  n2 = n2
  i1 = i1
  i2 = i2
  Instances = {i1, i2}
  Nodes = {n1}
  NodeOf <- SameNode
  MaxVersions <- Limit12
  ChangeType = "UNBUFFERED"
  UINT64_MAX = 99
  LastCommitCount = 0
  LastVersion = 4
  UseMulticast = FALSE
  UseCache = TRUE
  Large = TRUE
  Requests <- Oldest
  MapFuture = FALSE
  MayFail = {}
  AutoObsolete = {2}
INVARIANTS
  FlowControl
  PinsBalanced
  AnnouncedStaysCached
  SlaveContent
  SlowestSlaveLimits
CHECK_DEADLOCK FALSE

SPECIFICATION Spec
CONSTANTS
  Clients = {c1, c2}
  Timeout = TRUE
  LastRequest = 2
INVARIANT SingularToken
CHECK_DEADLOCK FALSE

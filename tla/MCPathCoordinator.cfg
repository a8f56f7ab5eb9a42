SPECIFICATION FairSpec
CONSTANTS
  Owners = {o1, o2, o3}
  NoOwner = NoOwner
  Paths <- MCPaths
  Targets <- MCTargets
  Requests <- MCRequests
INVARIANTS
  Serialized
  NoCircle
PROPERTY EventuallyReturns
CHECK_DEADLOCK FALSE

SPECIFICATION ConnectionFairSpec
CONSTANTS
  Calls = {u1}
  NoCall = NoCall
  Editors = {e1}
  MaxConnections = 1
  MaxRevision = 2
  MaxPools = 2
PROPERTY InvalidatedControlCloses
CHECK_DEADLOCK FALSE

SPECIFICATION FairSpec
CONSTANTS
  Names = {n1, n2}
  Sockets = {k1, k2}
  NoSocket = NoSocket
  MaxRequests = 2
INVARIANTS
  OneLiveSocket
  OneWayOn
PROPERTIES
  EndIsFinal
  EventuallySettles
CHECK_DEADLOCK FALSE

SPECIFICATION SessionsSpec
CONSTANTS
  Requests = {r1, r2}
  n1 = n1
  n2 = n2
  Names = {n1, n2}
  Generated <- Candidates
  MaxClients = 2
  MaxEdits = 0
INVARIANT NamelessNeverCollides
SYMMETRY Symmetry
CHECK_DEADLOCK FALSE

SPECIFICATION BothSpec
CONSTANTS
  Hosts = {web}
  Sessions = {dev}
  Handlers = {r1, r2}
  Tickets = {t1}
  Editors = {e1, e2}
  MaxRevision = 3
  Requests = {r1, r2}
  n1 = n1
  n2 = n2
  Names = {n1, n2}
  Generated <- Candidates
  MaxClients = 2
  MaxEdits = 1
INVARIANTS
  NoStaleAttachment
  TicketKeepsItsHost
  SingleUse
  NoOrphanProcess
  AnswersAreTrue
  AbandonedIsFree
PROPERTY OthersConnectionKept
SYMMETRY BothSymmetry
CHECK_DEADLOCK FALSE

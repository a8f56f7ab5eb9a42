SPECIFICATION BothSpec
CONSTANTS
  Ops = {u1, u2}
  Names = {f, g}
  Initial = Initial
  None = None
  Unchecked = Unchecked
  Second <- TwoSeconds
  Outside = Outside
  MaxRecords = 1
  MaxEdits = 1
  MaxCrashes = 1
  Calls = {u1, u2}
  NoCall = NoCall
  Editors = {e1}
  MaxConnections = 2
  MaxRevision = 2
  MaxPools = 3
INVARIANTS
  LiveStageKept
  WriteFailureHasNoEffect
  LeftoverIsRecorded
  NothingUntracked
  StaleLeaseNeverConnects
  PermitsComeBack
PROPERTIES
  SaveReplacesWhatItFound
SYMMETRY Symmetry
CHECK_DEADLOCK FALSE

SPECIFICATION Spec
CONSTANTS
  Ops = {o1, o2}
  Names = {f}
  Initial = Initial
  None = None
  Unchecked = Unchecked
  Second <- OneSecond
  Outside = Outside
  MaxRecords = 2
  MaxEdits = 0
  MaxCrashes = 0
PROPERTY SaveReplacesWhatItsCallerSaw
CHECK_DEADLOCK FALSE

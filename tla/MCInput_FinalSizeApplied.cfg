SPECIFICATION InputSpec
CONSTANTS
  MaxDimension = 3
  Sizes = {0, 1, 2, 3, 4}
  Pieces = 2
  MaxMessages = 3
INVARIANT FinalSizeApplied
CHECK_DEADLOCK FALSE

SPECIFICATION BothSpec
CONSTANTS
  Chunks = 3
  Ends <- MCEnds
  InputChunkSize = 2
  HighWater = 3
  LowWater = 2
  StageCap = 2
  Callers = {"shutdown"}
  MaxDimension = 3
  Sizes = {0, 1, 2, 3, 4}
  Pieces = 2
  MaxMessages = 3
INVARIANTS
  QueueBounded
  NothingLeftBehind
  InputInOrder
  SettlesOnAskedSize
PROPERTIES
  ImplementsStream
  EventuallyReturns
  EventuallyDelivered
CHECK_DEADLOCK FALSE

SPECIFICATION Spec
CONSTANTS
  None = None
  N = 5
  Chunk = 1
  Threshold = 2
  MaxThreads = 6
INVARIANT ThreadsAreOwned
CHECK_DEADLOCK FALSE

SPECIFICATION FairProgramsSpec
CONSTANTS
  None = None
  N = 7
  Chunk = 1
  Threshold = 2
  MaxThreads = 9
  Chain = 4
  Iterators = {"it1", "it2"}
  TheList = "list"
INVARIANTS
  ProgramTypesOK
  StealingIsSafe
  SharingIsSafe
  ChainsAreDismantled
  BenchmarksAreSound
PROPERTIES
  AlgorithmsAgree
  ProgramsEnd
CHECK_DEADLOCK FALSE

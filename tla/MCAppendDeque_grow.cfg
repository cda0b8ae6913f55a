SPECIFICATION ReaderSpec
CONSTANTS
  w1 = w1
  w2 = w2
  r1 = r1
  NoThread = NoThread
  Zero = Zero
  Raw = Raw
  NoAddress = NoAddress
  Writers <- TwoWriters
  Readers <- OneReader
  BlockSize = 2
  ResizeTo = {1, 3}
  ReserveFor = {5}
  MaxSize = 3
INVARIANTS
  TypeOK
  MemoryIsSafe
  CacheIsCurrent
PROPERTIES
  ImplementsAppendLog
  ReadersAreWaitFree

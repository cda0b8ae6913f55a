SPECIFICATION FairSpec
CONSTANTS
  t1 = t1
  t2 = t2
  k1 = k1
  k2 = k2
  NoThread = NoThread
  None = None
  Threads <- TwoThreads
  Keys <- OneKey
  Hash <- Hashes1
  InitialSize = 4
  MaxSize = 16
  MaxNodes = 4
INVARIANTS
  TypeOK
  KeyAuthority
PROPERTIES
  LinksAreFinal
  ImplementsSet
  CallsReturn

SPECIFICATION FairSpec
CONSTANTS
  t1 = t1
  t2 = t2
  n1 = n1
  n2 = n2
  n3 = n3
  Dummy = Dummy
  Null = Null
  None = None
  Threads <- TwoThreads
  Nodes <- ThreeNodes
INVARIANTS
  TypeOK
PROPERTIES
  IteratorsReachTheRest
  ImplementsList
  CallsReturn

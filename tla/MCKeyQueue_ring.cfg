SPECIFICATION FairSpec
CONSTANTS
  p1 = p1
  p2 = p2
  c1 = c1
  c2 = c2
  k1 = k1
  NoThread = NoThread
  NoKey = NoKey
  Producers <- TwoProducers
  Consumers <- TwoConsumers
  Keys <- OneKey
  Capacity = 8
  NTRY = 2
  MaxPush = 10
INVARIANT TypeOK
PROPERTIES
  Linearizable
  NothingStranded

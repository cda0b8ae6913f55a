SPECIFICATION Spec
CONSTANTS
  p1 = p1
  p2 = p2
  c1 = c1
  c2 = c2
  NoThread = NoThread
  NoKey = NoKey
  NoValue = NoValue
  Producers <- TwoProducers
  Consumers <- OneConsumer
  KeyOf <- DistinctKey
  Preloaded = 0
  MaxPush = 9
  Credits = 10
  Capacity = 8
  NTRY = 1
INVARIANT CheckMeansStable

SPECIFICATION HSpec
CONSTANTS
  p1 = p1
  p2 = p2
  c1 = c1
  NoThread = NoThread
  NoKey = NoKey
  NoValue = NoValue
  Producers <- TwoProducers
  Consumers <- OneConsumer
  KeyOf <- DistinctKey
  Preloaded = 0
  MaxPush = 2
  Credits = 10
  Capacity = 8
  NTRY = 1
INVARIANT EmptyIsLinearizable

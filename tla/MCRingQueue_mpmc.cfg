SPECIFICATION Spec
CONSTANTS
  p1 = p1
  p2 = p2
  c1 = c1
  c2 = c2
  NoThread = NoThread
  NoKey = NoKey
  NoValue = NoValue
  Producers <- TwoProducers
  Consumers <- TwoConsumers
  KeyOf <- DistinctKey
  Preloaded = 7
  MaxPush = 9
  Credits = 8
  Capacity = 8
  NTRY = 1
SYMMETRY ThreadSymmetry
INVARIANTS
  TypeOK
  SlotsAreExclusive
  PairsStayTogether
  DestructorIsSafe
PROPERTIES
  EmptyIsJustified
  FullIsJustified

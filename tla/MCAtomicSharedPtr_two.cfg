SPECIFICATION Spec
CONSTANTS
  t1 = t1
  t2 = t2
  o1 = o1
  o2 = o2
  NoObject = NoObject
  Threads <- TwoThreads
  Objects <- TwoObjects
INVARIANTS
  TypeOK
  CountsAreExact
PROPERTY CasSwapsExpected

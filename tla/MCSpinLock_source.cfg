SPECIFICATION ScheduledSpec
CONSTANTS
  t1 = t1
  t2 = t2
  Threads <- TwoThreads
  Burst = 8
  ShortRounds = 8
INVARIANTS
  TypeOK
  MutualExclusion
  BackoffBudgets
PROPERTIES
  ImplementsLock
  WaitingEnds

CONSTANTS
  c1 = c1
  c2 = c2
  w1 = w1
  w2 = w2
  None = None
  Coroutines <- MCCoroutines
  Workers <- MCWorkers
  MaxWorkers = 2
  MinWorkers = 1
  MaxTasks = 2
SPECIFICATION FairSpec
INVARIANTS
  InBooks
  WakesItsOwnWait
  NothingFreedUsed
PROPERTIES
  TakenIfAnyStays
CHECK_DEADLOCK FALSE

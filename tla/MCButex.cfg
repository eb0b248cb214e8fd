\* A thread and a coroutine wait, two wakers, two words in one bucket.
CONSTANTS
  t1 = t1
  c1 = c1
  h1 = h1
  h2 = h2
  k1 = k1
  k2 = k2
  Threads <- MCThreads
  Coroutines <- MCCoroutines
  Wakers <- MCWakers
  Singles <- MCSingles
  Keys <- MCKeys
  MaxChanges = 1
  MaxWaits = 2
SPECIFICATION FairSpec
INVARIANTS
  RefsExact
  BucketUntold
PROPERTIES
  UnlinkedReturns
  ImplementsFutex
CHECK_DEADLOCK FALSE

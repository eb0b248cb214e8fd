\* One worker at first and one the pool may grow by, two coroutines, any stop and shrink.
CONSTANTS
  w1 = w1
  w2 = w2
  x1 = x1
  x2 = x2
  x3 = x3
  p1 = p1
  p2 = p2
  None = None
  Pool = Pool
  Tasks <- MCTasks
  Workers <- MCWorkers
  Started <- OneWorker
  Posters <- OnePoster
  MaxCalls = 2
  MaxSlices = 1
  Batch = 2
  Slots = 2
SPECIFICATION FairSpec
INVARIANT NoStrandedPost
PROPERTY PostedRuns
CHECK_DEADLOCK FALSE

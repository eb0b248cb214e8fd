\* One worker, to which coroutines go through the global queue.
CONSTANTS
  w1 = w1
  w2 = w2
  x1 = x1
  x2 = x2
  x3 = x3
  p1 = p1
  p2 = p2
  None = None
  Pool = Pool
  Tasks <- MCTasks
  Workers <- OneWorker
  Started <- OneWorker
  Posters <- MCPosters
  MaxCalls = 2
  MaxSlices = 1
  Batch = 2
  Slots = 3
SPECIFICATION Spec
INVARIANT NoStrandedGlobal
CHECK_DEADLOCK FALSE

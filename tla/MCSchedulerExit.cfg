\* A pool that shrinks while a coroutine is posted to the worker it gives up.
CONSTANTS
  w1 = w1
  w2 = w2
  x1 = x1
  x2 = x2
  x3 = x3
  p1 = p1
  p2 = p2
  None = None
  Pool = Pool
  Tasks <- MCTasks
  Workers <- MCWorkers
  Started <- MCWorkers
  Posters <- MCPosters
  MaxCalls = 2
  MaxSlices = 1
  Batch = 2
  Slots = 3
SPECIFICATION Spec
INVARIANT ExitDrained
CHECK_DEADLOCK FALSE

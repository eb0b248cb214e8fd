\* Two workers and a batch of two from a queue of three.
CONSTANTS
  w1 = w1
  w2 = w2
  x1 = x1
  x2 = x2
  x3 = x3
  p1 = p1
  p2 = p2
  None = None
  Pool = Pool
  Tasks <- ThreeTasks
  Workers <- MCWorkers
  Started <- MCWorkers
  Posters <- OnePoster
  MaxCalls = 3
  MaxSlices = 0
  Batch = 2
  Slots = 3
SPECIFICATION Spec
INVARIANT OneRunner
SYMMETRY AnyTask
CHECK_DEADLOCK FALSE

\* The waker is quicker than the waiter's yield, and the waiter goes on to migrate.
CONSTANTS
  io = io
  w1 = w1
  w2 = w2
  IO = io
  Workers <- OneWorker
  None = None
  Programs <- WaitAndCompute
  MaxOps = 3
  MaxSwaps = 0
SPECIFICATION Spec
INVARIANT OneUser
CHECK_DEADLOCK FALSE

\* Programs that keep to one way of being queued while they are suspended.
CONSTANTS
  io = io
  w1 = w1
  w2 = w2
  IO = io
  Workers <- MCWorkers
  None = None
  Programs <- SafePrograms
  MaxOps = 3
  MaxSwaps = 2
SPECIFICATION FairSpec
INVARIANTS
  OneUser
  BufferOwned
  InOneQueue
  ResultReady
  NotForgotten
PROPERTY WokenRuns
CHECK_DEADLOCK FALSE

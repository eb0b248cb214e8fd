\* A resume between its look at swap_state and its CAS while the reaper takes the stack.
CONSTANTS
  io = io
  w1 = w1
  w2 = w2
  IO = io
  Workers <- OneWorker
  None = None
  Programs <- Native
  MaxOps = 3
  MaxSwaps = 1
SPECIFICATION Spec
INVARIANT FramesHere
CHECK_DEADLOCK FALSE

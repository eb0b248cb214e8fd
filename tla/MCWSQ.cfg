\* 5 tasks through 4 slots: batches of 2, a full queue, and indices that wrap.
CONSTANTS
  h1 = h1
  h2 = h2
  NoTask = NoTask
  Tasks <- MCTasks
  Thieves <- MCThieves
  Capacity = 4
  MaxBatch = 2
  MaxOut = 256
  Tries = 2
SPECIFICATION Spec
INVARIANTS
  TopTakesOnce
  OwnerGivesOnce
  FirstIsFree
  LostForAnother
CONSTRAINT InOrder
SYMMETRY Symmetry

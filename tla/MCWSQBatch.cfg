\* A batch that the owner pops from before the thief's CAS.
CONSTANTS
  h1 = h1
  h2 = h2
  NoTask = NoTask
  Tasks <- MCTasks
  Thieves <- MCThieves
  Capacity = 4
  MaxBatch = 2
  MaxOut = 256
  Tries = 2
SPECIFICATION Spec
INVARIANT NoDuplicate
CONSTRAINT InOrder
SYMMETRY Symmetry

SPECIFICATION Spec
CONSTANTS
  t1 = t1
  t2 = t2
  a = a
  b = b
  Nil = Nil
  Threads <- MCThreads
  Objs <- MCObjs
  PromoteAge = 2
  Cycles = 3
SYMMETRY MCSymmetry
INVARIANT KeepsReachable
PROPERTY GarbageGoes

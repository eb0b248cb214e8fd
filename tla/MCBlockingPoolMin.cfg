\* One coroutine whose third call meets two threads that both go home.
CONSTANTS
  c1 = c1
  c2 = c2
  w1 = w1
  w2 = w2
  None = None
  Coroutines <- MCOne
  Workers <- MCWorkers
  MaxWorkers = 2
  MinWorkers = 1
  MaxTasks = 3
SPECIFICATION Spec
INVARIANT OneStays
CHECK_DEADLOCK FALSE

CONSTANTS
  c1 = c1
  c2 = c2
  None = None
  Coroutines <- MCCoroutines
  Fds <- OneFd
  Capacity = 2
  Budget = 1
  MaxWaits = 2
  MaxCalls = 1
SPECIFICATION FairSpec
INVARIANTS
  EndedWaitWakes
  NoDanglingRegistration
  FreedOnce
PROPERTIES
  RegistrationKept
  NeverSleepsOnWork
CHECK_DEADLOCK FALSE

\* Three agents: a holder, and two that wait and may both be asleep.
CONSTANTS
  a1 = a1
  a2 = a2
  a3 = a3
  Agents <- MCAgents
  Workers <- MCWorkers
  Initial = 1
  MaxPermits = 2
  Writer = 4
SPECIFICATION FairSpec
INVARIANTS
  NobodyInsideWrongly
  NoStrandedSleeper
PROPERTIES
  WaitersGetOn
  ImplementsMutex

\* A client and the callbacks, two adds, two slots.
CONSTANTS
  s1 = s1
  s2 = s2
  c1 = c1
  thread1 = thread1
  Slots <- MCSlots
  Clients <- OneClient
  Thread = thread1
  NumBuckets = 2
  BucketOf <- MCBucketOf
  Never = 3
  MaxTime = 2
  MaxAdds = 2
SPECIFICATION FairTimerSystem
INVARIANTS
  OnePlace
  SleepsToHeard
PROPERTIES
  ImplementsTimerSpec
  HeardTimersFire
  StopEnds
CHECK_DEADLOCK FALSE

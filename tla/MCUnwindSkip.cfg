SPECIFICATION Spec
CONSTANTS
  Programs <- MCAll
  Rounds = 2
INVARIANT FinallyRuns
CHECK_DEADLOCK FALSE

SPECIFICATION Spec
CONSTANTS
  Programs <- MCPrograms
  Rounds = 2
INVARIANTS
  RunsAsWritten
  HandlersAlive
CHECK_DEADLOCK FALSE

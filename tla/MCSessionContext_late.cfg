SPECIFICATION Spec
CONSTANTS
  MaxTurns = 4
  MaxCheckpoints = 1
  LateExecutions = TRUE
CHECK_DEADLOCK FALSE
INVARIANT
  CheckpointsAreClean

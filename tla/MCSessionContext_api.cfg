SPECIFICATION Spec
CONSTANTS
  MaxTurns = 5
  MaxCheckpoints = 1
  LateExecutions = FALSE
CHECK_DEADLOCK FALSE
INVARIANT
  ApiResultsAreRead

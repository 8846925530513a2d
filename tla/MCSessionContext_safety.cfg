SPECIFICATION Spec
CONSTANTS
  MaxTurns = 5
  MaxCheckpoints = 2
  LateExecutions = FALSE
CHECK_DEADLOCK FALSE
INVARIANTS
  KnowsTheConversation
  QuarantinedStaysOut

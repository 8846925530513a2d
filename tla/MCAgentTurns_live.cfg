SPECIFICATION VisitedSpec
CONSTANTS
  Requests = {r1, r2}
  NoRequest = NoRequest
  MaxTurns = 2
CHECK_DEADLOCK FALSE
PROPERTY
  EventuallyEnds

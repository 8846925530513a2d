SPECIFICATION LiveSpec
CONSTANTS
  Posts = {p1}
  Workers = {w1, w2}
  NoWorker = NoWorker
  Values = {u, v}
  NoValue = NoValue
  MaxAttempts = 2
  MaxMemoryAttempts = 2
INVARIANTS
  MarksAreTrue
  AskedAtMostMax
PROPERTIES
  NothingIsRevised
  StaleChangesNothing
  EventuallyMeasured
  EventuallyRemembered
CHECK_DEADLOCK FALSE

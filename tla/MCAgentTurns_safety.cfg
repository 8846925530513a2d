SPECIFICATION Spec
CONSTANTS
  Requests = {r1, r2}
  NoRequest = NoRequest
  MaxTurns = 3
SYMMETRY Symmetry
CHECK_DEADLOCK FALSE
INVARIANTS
  EndsWhole
  ToldIsStored
PROPERTIES
  NothingAfterTheEnd
  KeepsPromise

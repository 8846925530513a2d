SPECIFICATION Spec
CONSTANTS
  Readers = {r1, r2}
  Rows = {1, 2, 3}
  Start <- Keys
  Orders = {"newest", "least_seen"}
  Limits = {1, 2}
  Ttl = 1
  CleanupLimit = 1
  MaxKey = 2
  MaxChanges = 1
  MaxLists = 3
  MaxClock = 1
SYMMETRY Symmetry
CHECK_DEADLOCK FALSE
INVARIANTS FrozenWalkIsWhole LiveWalkIsSteady LiveWalkDescends

SPECIFICATION Spec
CONSTANTS
  a1 = a1
  n1 = n1
  n2 = n2
  d1 = d1
  overwrite = overwrite
  insert = insert
  edit = edit
  x = x
  y = y
  Runs = {a1, n1, n2, d1}
  NoRun = NoRun
  Requests = {overwrite, insert, edit}
  RequestOf <- MCRequestOf
  Approved = {overwrite, insert}
  TargetOf <- MCTargetOf
  ContentOf <- MCContentOf
  Contents = {x, y}
  Initial = 1
  MaxCampaigns = 3
  BatchSize = 2
SYMMETRY MCSymmetry
CHECK_DEADLOCK FALSE
INVARIANTS
  EmbeddingFollowsContent
  NoLostUpdate
  AppliedAsTold
  ScannedIsCurrent

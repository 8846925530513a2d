SPECIFICATION Spec
CONSTANTS
  c1 = c1
  c2 = c2
  c3 = c3
  p = p
  q = q
  Calls = {c1, c2, c3}
  NoCall = NoCall
  AgentOf <- MCAgentOf
  Proposals = {p, q}
  MaxSubagents = 2
SYMMETRY MCSymmetry
CHECK_DEADLOCK FALSE
INVARIANTS
  ProposalIsAudited
  WithinLimit
  NoOrphan
PROPERTY
  LateParentDoesNothing

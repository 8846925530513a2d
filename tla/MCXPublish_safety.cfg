SPECIFICATION Spec
CONSTANTS
  k1 = k1
  k2 = k2
  s1 = s1
  s2 = s2
  c1 = c1
  c2 = c2
  w1 = w1
  w2 = w2
  w3 = w3
  Keys = {k1, k2}
  Sessions = {s1, s2}
  Archivable = {}
  Contents = {c1}
  Calls <- SameContent
  Workers = {w1, w2}
  NoWorker = NoWorker
  NoCall = NoCall
  DbSaveMaxAttempts = 2
SYMMETRY WorkerSymmetry
INVARIANTS
  TypeOK
  AtMostOneTweet
  OneUnresolvedPerContent
  StatusMatchesEffect
  AnswersHold
  TurnFollowsRequest
PROPERTIES
  Implements
  FencedOut

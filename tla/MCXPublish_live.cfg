SPECIFICATION LiveSpec
CONSTANTS
  k1 = k1
  k2 = k2
  s1 = s1
  s2 = s2
  c1 = c1
  c2 = c2
  w1 = w1
  w2 = w2
  w3 = w3
  Keys = {k1}
  Sessions = {s1, s2}
  Archivable = {s1}
  Contents = {c1, c2}
  Calls <- OneKey
  Workers = {w1, w2}
  NoWorker = NoWorker
  NoCall = NoCall
  DbSaveMaxAttempts = 2
PROPERTIES
  KeyBelongsToFirst
  EventuallySettled

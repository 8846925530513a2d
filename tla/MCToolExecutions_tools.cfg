SPECIFICATION Spec
CONSTANTS
  c1 = c1
  c2 = c2
  c3 = c3
  c4 = c4
  k1 = k1
  x = x
  y = y
  Callers = {c1, c2, c3, c4}
  Keys = {k1}
  KeyOf <- MCKeyOf
  InputOf <- MCInputOf
  Inputs = {x, y}
  NoInput = NoInput
  MaxAttempts = 2
SYMMETRY MCSymmetry
CHECK_DEADLOCK FALSE
INVARIANTS
  CarriedOutOnce
  AnswersAreStored
  ResultsMatchExecutions
  ResultsTellEffects
PROPERTIES
  EndedIsFinal
  ImplementsToolContract

\* Two identities for each of two kinds, two possible contents, one death.
SPECIFICATION Spec
CONSTANTS
  p1 = p1
  p2 = p2
  e1 = e1
  e2 = e2
  x = x
  y = y
  Runners = {"runner"}
  Publishers = {p1, p2}
  Kinds = {"core", "plugin"}
  References = {e1, e2}
  Contents = {x, y}
  MaxTries = 4
  MaxCrashes = 1
SYMMETRY Interchangeable
INVARIANT AnswersHold
INVARIANT IndexHolds
CHECK_DEADLOCK FALSE

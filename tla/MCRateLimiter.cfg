SPECIFICATION Spec
CHECK_DEADLOCK FALSE
CONSTANTS
  Keys = {k1, k2}
  Attempts = {a1, a2, a3, a4}
  Limit = 2
  Window = 2
  Capacity = 1
  MaxTime = 4
  None = None
SYMMETRY Symmetry
INVARIANTS
  WindowsAreExact
PROPERTIES
  RunningWindowsSurvive
  RetryAfterSuffices

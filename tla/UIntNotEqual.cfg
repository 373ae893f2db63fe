SPECIFICATION Spec
CONSTANTS
  P = 5
  N = 3
INVARIANT NotEqualIsOfTheWhole
CHECK_DEADLOCK FALSE

SPECIFICATION BitSpec
CONSTANTS
  P = 5
  N = 3
  MaxOperands = 4
  MaxElement = 31
INVARIANT SliceGeIsLexicographic
CHECK_DEADLOCK FALSE

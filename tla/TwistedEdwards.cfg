SPECIFICATION CurveSpec
CONSTANTS
  P = 13
  A = 4
  D = 2
  MaxBits = 3
  Curves <- MCCurves
  Tables <- MCTables
INVARIANTS
  AccIsPoint
  NoDivisionByZero
  MontgomeryIsExact
  RegularMulIsExact
  WitnessRoundTrips
  CofactorClears
  PrimeOrderEnforced
CHECK_DEADLOCK FALSE

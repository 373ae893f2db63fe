SPECIFICATION CurvesSpec
CONSTANTS
  Order = 13
  OrderBits = 4
  MaxLen = 6
  P = 13
  CurveCoeffs <- MCCoeffs
INVARIANTS
  NeverExceptional
  ResultIsProduct
  CoordinatesAreMeant
  EqualityIsOfPoints
  AffineFormulaeAreExact
PROPERTIES ImplementsScalarMul

SPECIFICATION Spec
CONSTANTS
  P = 13
  Domains <- MCDomains
  Others <- MCOthers
  Coeffs <- MCCoeffs
  MaxOps = 2
INVARIANTS InterpolationIsExact CacheIsFresh QueriesSelectFibres
CHECK_DEADLOCK FALSE

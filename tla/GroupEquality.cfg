SPECIFICATION Spec
CONSTANTS
  MBS = 16
  Q = 65521
  Surfeit = 1
  Bits = 6
  Shift = 5
  Len = 3
  LeftLimbs = {0, 1, 15, 32, 127}
  RightLimbs = {0, 1, 64, 95, 96}
  LeftMax = 127
  RightMax = 96
INVARIANTS CarriesAreExact PassesOnlyIfEqual EqualPasses IntegersAreWhole

SPECIFICATION Spec
CONSTANTS
  BaseSizes = {21, 22, 31, 32, 33, 48, 64, 128, 253, 254, 255}
  TargetSizes = {1, 2, 6, 8, 31, 64, 127, 253, 254, 255, 381}
  Counters = {0, 1, 2, 7, 40}
INVARIANTS ScanFindsFirstMinimum LimbsCoverTarget TwoWitnessesMultiply
PROPERTIES ReductionShrinks Terminates

SPECIFICATION Spec
CONSTANTS
  MBS = 16
  Q = 65521
  TBits = 8
  P = 251
  NumLimbs = 2
  BitsPerLimb = 4
  Slots = {s1}
  ProdSlots = {p1}
  MaxProdSums = 3
  MaxSize = 64
  MaxBeside = 8
CONSTRAINT SmallBesideProducts
INVARIANTS
  CounterBoundsLimbs LazyReductionHasRoom NormalFormIsInRange
  NoPanic NoWrapAround HonestProverSucceeds

SPECIFICATION Spec
CONSTANTS
  NaN = NaN
  PosInf = PosInf
  NegInf = NegInf
  B0 = 1
  A1 <- MinusNine
  A2 = 5
  Denominator = 8
  Sampling = 30
  Cutoffs <- SomeCutoffs
  Depth = 1
  Signals <- SomeSignals
  MaxMessages = 4
\* The process ends.
CHECK_DEADLOCK FALSE
INVARIANTS
  SolvesEquation
  ConstantPasses
  PoisonedForEver

SPECIFICATION Spec
CONSTANTS
  NaN = NaN
  PosInf = PosInf
  NegInf = NegInf
  Off = Off
  B0 = 234
  A1 <- Minus3965
  A2 = 1432
  Denominator = 3469
  Sampling = 30
  Cutoffs = {3}
  Center <- DefaultCenter
  Low <- DefaultLow
  High <- DefaultHigh
  Gain <- DefaultGain
  Deadzone = 2000
  Actuation = 18000000
  Depth = 2
  Signals <- SomeSignals
  MaxMessages = 8
  MaxLooks = 3
  MaxLost = 1
  MaxMishaps = 1
  Settling = 6
\* The processes end.
CHECK_DEADLOCK FALSE
INVARIANTS
  NewestCommands
  PoisonHoldsServo
  RestartCures
PROPERTIES
  NoiseMovesNothing
  NoTurningBack
  SpeedLimited
  RestsAtCentre

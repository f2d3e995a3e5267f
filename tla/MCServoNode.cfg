SPECIFICATION FairSpec
CONSTANTS
  NaN = NaN
  PosInf = PosInf
  NegInf = NegInf
  Off = Off
  Center <- DefaultCenter
  Low <- DefaultLow
  High <- WideHigh
  Gain <- DefaultGain
  Deadzone = 2
  Actuation = 6
  Depth = 1
  Errors <- SomeErrors
  MaxInterrupts = 2
\* The process ends.
CHECK_DEADLOCK FALSE
INVARIANTS
  ServoWithinLimits
  BeliefMatchesServos
  CleanShutdown
  LockBalanced
PROPERTIES
  BoundedStep
  ShutdownEnds

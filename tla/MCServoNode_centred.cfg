SPECIFICATION FairSpec
CONSTANTS
  NaN = NaN
  PosInf = PosInf
  NegInf = NegInf
  Off = Off
  Center <- DefaultCenter
  Low <- DefaultLow
  High <- DefaultHigh
  Gain <- DefaultGain
  Deadzone = 2
  Actuation = 6
  Depth = 1
  Errors <- SomeErrors
  MaxInterrupts = 0
\* The process ends.
CHECK_DEADLOCK FALSE
INVARIANTS
  EndsCentred

SPECIFICATION FairSpec
CONSTANTS
  video0 = video0
  video14 = video14
  video15 = video15
  VideoDevices <- ThreeDevices
  NoDevice = NoDevice
\* main ends.
CHECK_DEADLOCK FALSE
INVARIANTS
  LeftoversAreDying
  ReturnsAfterFrame
PROPERTIES
  FallbackEnds

SPECIFICATION FairSpec
CONSTANTS
  Requests = {r1, r2}
  FrameBytes = 3
  PipeSize = 3
  MaxFrames = 2
\* All requests end.
CHECK_DEADLOCK FALSE
INVARIANTS
  WholeFrames
  EndsWithProcess
  NoOrphan
PROPERTIES
  CameraReleased
  GoneViewerFreesCamera

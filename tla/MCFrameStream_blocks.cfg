SPECIFICATION FairSpec
CONSTANTS
  Capacity = 2
  PipeFrames = 1
  NoOne = NoOne
  Worker = Worker
  Viewers = {v1, v2}
  MaxFrame = 3
PROPERTIES
  PutLatestFrameReturns

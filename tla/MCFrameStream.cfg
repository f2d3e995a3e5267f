SPECIFICATION FairSpec
CONSTANTS
  Capacity = 2
  PipeFrames = 0
  NoOne = NoOne
  Worker = Worker
  Viewers = {v1, v2}
  MaxFrame = 5
INVARIANTS
  TypeOK
  LockDiscipline
  SlotsConserved
  CleanExit
  ReaderIsServed
  FreshInFlight
PROPERTIES
  ImplementsLatestFrames
  InOrder
  ReadersReturn
  ViewerFreesWorker

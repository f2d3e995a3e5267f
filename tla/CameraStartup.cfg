SPECIFICATION FairSpec
\* Both processes end.
CHECK_DEADLOCK FALSE
INVARIANTS
  VerdictIsTrue
PROPERTIES
  FailureStopsStartup
  WorkerEndsWithMain

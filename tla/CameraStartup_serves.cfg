SPECIFICATION FairSpec
\* Both processes end.
CHECK_DEADLOCK FALSE
PROPERTIES
  ServesStartedCamera

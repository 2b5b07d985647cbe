CONSTANTS
  MaxChunks = 2
  IdleLimit = 1
SPECIFICATION FairSpec
INVARIANTS Forwards
PROPERTIES StopHasCause StopEnds
CHECK_DEADLOCK FALSE

CONSTANTS
  NodeLists <- Lists
  Results = {"ok", "failed"}
  Permits = 1
  MaxRuns = 2
SPECIFICATION HealthSpec
INVARIANTS NoneLeftChecking
PROPERTIES RunEnds
CHECK_DEADLOCK FALSE

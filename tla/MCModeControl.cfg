CONSTANTS
  Tasks = {t1, t2}
  Attempts = 2
  MaxEvents = 6
  MaxBindFails = 1
  MaxSysFails = 1
SPECIFICATION FairSpec
INVARIANTS ModeShown NoDeadProxy TunOwned
PROPERTIES BusyClears
CHECK_DEADLOCK FALSE

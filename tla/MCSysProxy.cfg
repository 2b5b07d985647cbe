CONSTANTS
  Main = main
  Tasks = {task}
  Keep = keep
  Foreign = {f1}
  Ours = ours
  Empty = empty
  Nobody = nobody
  NoFile = nofile
  MaxCalls = 2
  MaxSteals = 1
  MaxFaults = 1
  MaxCrashes = 2
SPECIFICATION Spec
INVARIANTS UndoWhileOurs ExitRestores
PROPERTIES RecoverClears

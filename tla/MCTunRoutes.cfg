CONSTANTS
  Nodes = {n1, n2}
  NoNode = nonode
  NoFile = nofile
  MaxFaults = 3
  MaxCrashes = 2
  MaxCalls = 3
SPECIFICATION Spec
INVARIANTS NodeRouted UndoCovers IdleClean

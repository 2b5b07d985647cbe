CONSTANTS
  a = a
  b = b
  NodeLists <- TwoLists
  NoNode = nonode
  InConns = {i1}
  TunConns = {u1}
  Slots = 1
  Tasks = {t1, t2}
  MaxChanges = 2
SPECIFICATION FairSpec
INVARIANTS TunnelsFollowNode OneGeneration ChangeAgrees
PROPERTIES CutEnds

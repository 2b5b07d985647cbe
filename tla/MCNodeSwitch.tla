---------------------------- MODULE MCNodeSwitch ----------------------------
(* Three profiles: two that share a node and an empty one.                 *)
EXTENDS NodeSwitch
CONSTANTS a, b
TwoLists == {<<a, b>>, <<b>>, <<>>}
===============================================================================

---------------------------- MODULE TunRoutesProofs ----------------------------
(***************************************************************************)
(* What enhance mode changes in Windows is undone: the host route of the   *)
(* node is there while traffic is led into the TUN, the undo file covers   *)
(* what a crash would leave behind, and when enhance mode is off again     *)
(* nothing is left.  For every set of nodes and any number of starts,      *)
(* switches, failing commands and crashes.                                 *)
(***************************************************************************)
EXTENDS TunRoutes, TLAPS

SetRoute == {"add", "del", "add2", "delOld", "undo"}
Finish   == {"ipv6", "ipv6undo", "stack", "splitLow", "splitHigh", "dns", "publish"}
Recovery == {"rDns", "rIpv6", "rRoute", "rRemove", "rLow", "rHigh", "rNics", "rFire"}

\* set_node_host_route for a switch of the installed node; and a start that has
\* not installed anything but the node's route yet.
Switching == caller = "switch" /\ pc \in SetRoute
Starting  == pc \in {"idle", "create"} \/ (caller = "start" /\ pc \in SetRoute)

Os == [routes : SUBSET Nodes, split : SUBSET Halves, dns : {"static", "dhcp", "fake"},
       ipv6 : BOOLEAN, firewall : BOOLEAN]
Undo     == [node : Nodes, ipv6 : BOOLEAN]
Counters == [faults : Nat, crashes : Nat, calls : Nat]

TypeOK ==
  /\ os \in Os
  /\ undo \in Undo \cup {NoFile}
  /\ node \in Nodes \cup {NoNode} /\ want \in Nodes \cup {NoNode}
  /\ told \in Nodes \cup {NoNode}
  /\ ipv6Off \in BOOLEAN /\ gap \in BOOLEAN /\ lost \in BOOLEAN
  /\ caller \in {"start", "switch"}
  /\ pc \in {"down", "idle", "create", "up", "fFire"} \cup SetRoute \cup Finish \cup Uninstall \cup Recovery
  /\ used \in Counters

\* Which node the routes object holds, and who runs.
NodeKnown ==
  /\ pc \in {"create"} \cup SetRoute \cup Finish => want \in Nodes
  /\ pc \in {"create"} \cup Finish => caller = "start"
  /\ caller = "start" /\ pc \in SetRoute \ {"undo"} => node = NoNode
  /\ pc \in {"undo"} \cup Finish => node = want
  /\ Switching \/ pc \in {"up", "uLow", "uHigh", "uNode"} => node \in Nodes
  /\ pc \in {"rDns", "rIpv6", "rRoute", "rRemove"} => undo # NoFile

\* However many commands have failed: what ToldHasRoute needs of the steps of
\* a switch and of a start.
RouteBeforeUse ==
  /\ pc \in {"delOld", "undo"} => want \in os.routes
  /\ pc \in Finish => told = want /\ told \in os.routes
  /\ caller = "switch" /\ pc \in {"add", "del"} /\ ~lost => told \in os.routes
  /\ caller = "switch" /\ pc = "add2" /\ ~lost /\ want # told => told \in os.routes

\* As long as no command has failed: what is changed at each step of a start, a
\* stop and a recovery.
InOrder ==
  Quiet =>
    /\ pc # "fFire"
    /\ Starting \/ pc \in {"ipv6", "ipv6undo", "stack", "splitLow", "uNode", "uDns", "uIpv6", "uRemove",
                           "uFire", "rNics", "rFire"} => os.split = {}
    /\ pc = "splitHigh" => os.split = {"low"}
    /\ pc \in {"uHigh", "rHigh"} => os.split \subseteq {"high"}
    /\ Starting \/ pc \in {"ipv6", "ipv6undo", "stack", "splitLow", "splitHigh", "dns",
                           "uIpv6", "uRemove", "uFire", "rFire"} => os.dns # "fake"
    /\ Starting \/ pc \in {"ipv6", "ipv6undo", "stack"} => ~os.firewall
    /\ Starting \/ pc \in {"uFire", "rLow", "rHigh", "rNics", "rFire"} => undo = NoFile
    /\ pc \in {"up", "undo", "uLow", "uHigh", "uNode"} \cup Finish => node \in os.routes
    /\ caller = "switch" /\ pc \in {"add", "del", "delOld"} => node \in os.routes
    /\ caller = "switch" /\ pc = "add2" /\ want # node => node \in os.routes
    /\ pc = "add2" => want \notin os.routes

\* And as long as no process has died between a change and its write_undo: which
\* host routes there are, whether IPv6 is off, and what the file says of it.
InFile ==
  Quiet /\ ~gap =>
    /\ pc \in {"idle", "create", "uDns", "uIpv6", "uRemove", "uFire", "add2",
               "rRemove", "rLow", "rHigh", "rNics", "rFire"} => os.routes = {}
    /\ caller = "start" /\ pc \in SetRoute => pc \notin {"del", "add2"} /\ (pc = "add" => os.routes = {})
    /\ pc \in {"del", "add2"} => want = node
    /\ pc = "delOld" => os.routes = {want, node} \ {NoNode}
    /\ pc = "undo" => os.routes = {want}
    /\ Switching \/ pc \in {"up", "uLow", "uHigh", "uNode", "uDns", "uIpv6", "uRemove"} \cup Finish
         => undo # NoFile
    /\ (caller = "switch" /\ pc \in {"add", "del"}) \/ pc \in {"up", "uLow", "uHigh", "uNode"} \cup Finish
         => os.routes = {node}
    /\ (caller = "switch" /\ pc = "add") \/ pc \in {"up", "uLow", "uHigh", "uNode"} \cup Finish
         => undo.node = node
    /\ pc \in {"down", "rDns", "rIpv6", "rRoute"} /\ os.routes # {}
         => undo # NoFile /\ os.routes = {undo.node}
    /\ Starting \/ pc \in {"ipv6", "uRemove", "uFire"} \cup (Recovery \ {"rDns", "rIpv6"}) => os.ipv6
    /\ pc = "ipv6undo" => ipv6Off
    /\ Switching \/ pc \in {"up", "uLow", "uHigh", "uNode", "uDns", "uIpv6"} \cup (Finish \ {"ipv6", "ipv6undo"})
         => ipv6Off /\ undo.ipv6
    /\ pc \in {"down", "rDns", "rIpv6"} /\ ~os.ipv6 => undo # NoFile /\ undo.ipv6

RoutesInv == TypeOK /\ NodeKnown /\ ToldHasRoute /\ RouteBeforeUse /\ InOrder /\ InFile

\* What the commands make of the system and the counters of the bounds.
LEMMA OsUpdates ==
  ASSUME os \in Os
  PROVE  /\ \A n \in Nodes : WithRoute(n) \in Os
         /\ \A n : WithoutRoute(n) \in Os
         /\ \A h \in Halves : WithSplit(h) \in Os /\ WithoutSplit(h) \in Os
         /\ \A d \in {"static", "dhcp", "fake"} : [os EXCEPT !.dns = d] \in Os
         /\ \A b \in BOOLEAN : [os EXCEPT !.ipv6 = b] \in Os /\ [os EXCEPT !.firewall = b] \in Os
  BY DEF Os, WithRoute, WithoutRoute, WithSplit, WithoutSplit

\* A command that failed is counted.
LEMMA CounterUpdates ==
  ASSUME used \in Counters
  PROVE  /\ [used EXCEPT !.faults = @ + 1] \in Counters
         /\ [used EXCEPT !.crashes = @ + 1] \in Counters
         /\ [used EXCEPT !.calls = @ + 1] \in Counters
         /\ Fault => used' \in Counters /\ used'.faults # 0
  BY DEF Counters, Fault

\* Every step keeps the state well typed.
LEMMA TypeStep ==
  ASSUME TypeOK, NodeKnown, Next
  PROVE  TypeOK'
<1> USE OsUpdates, CounterUpdates
    DEF TypeOK, SetRoute, Finish, Uninstall, Recovery
<1>1. ASSUME Boot PROVE TypeOK'
  BY <1>1 DEF Boot, Recover
<1>2. ASSUME Create PROVE TypeOK'
  BY <1>2 DEF Create, Must
<1>3. ASSUME AddRoute PROVE TypeOK'
  <2>1. pc \in SetRoute => want \in Nodes
    BY DEF NodeKnown
  <2>2. os' \in Os /\ used' \in Counters
    BY <1>3, <2>1 DEF AddRoute, Must, Try
  <2> QED
    BY <1>3, <2>2 DEF AddRoute, Must, Try, OnError
<1>4. ASSUME DeleteOld PROVE TypeOK'
  BY <1>4 DEF DeleteOld, Try
<1>5. ASSUME WriteUndo PROVE TypeOK'
  <2>1. pc = "undo" => node \in Nodes
    BY DEF NodeKnown
  <2>2. undo' \in Undo \cup {NoFile}
    BY <1>5, <2>1 DEF WriteUndo, Undo
  <2> QED
    BY <1>5, <2>2 DEF WriteUndo, OnError
<1>6. ASSUME DisableIpv6 PROVE TypeOK'
  <2>1. pc = "ipv6undo" => node \in Nodes
    BY DEF NodeKnown
  <2>2. undo' \in Undo \cup {NoFile}
    BY <1>6, <2>1 DEF DisableIpv6, Undo
  <2>3. os' \in Os
    BY <1>6 DEF DisableIpv6
  <2> QED
    BY <1>6, <2>2, <2>3, ZenonT(60) DEF DisableIpv6
<1>7. ASSUME StartStack PROVE TypeOK'
  BY <1>7, ZenonT(60) DEF StartStack
<1>8. ASSUME Hijack PROVE TypeOK'
  <2>1. os' \in Os /\ used' \in Counters
    BY <1>8 DEF Hijack, Must, Halves
  <2> QED
    BY <1>8, <2>1 DEF Hijack, Must
<1>9. ASSUME Stop PROVE TypeOK'
  BY <1>9 DEF Stop
<1>10. ASSUME UninstallStep PROVE TypeOK'
  <2>0. [os EXCEPT !.ipv6 = @ \/ ipv6Off] \in Os
    BY DEF Os
  <2>1. os' \in Os /\ used' \in Counters
    BY <1>10, <2>0 DEF UninstallStep, Try, Halves
  <2> QED
    BY <1>10, <2>1 DEF UninstallStep, Try
<1>11. ASSUME FailedStart PROVE TypeOK'
  BY <1>11, ZenonT(60) DEF FailedStart, Try, Recover
<1>12. ASSUME RecoverStep PROVE TypeOK'
  <2>0. /\ [os EXCEPT !.ipv6 = @ \/ undo.ipv6] \in Os
        /\ [os EXCEPT !.dns = IF @ = "fake" THEN "dhcp" ELSE @] \in Os
    BY DEF Os
  <2>1. os' \in Os /\ used' \in Counters
    BY <1>12, <2>0 DEF RecoverStep, Try, Halves
  <2> QED
    BY <1>12, <2>1 DEF RecoverStep, Try
<1>13. ASSUME Exit PROVE TypeOK'
  BY <1>13 DEF Exit
<1>14. ASSUME Crash PROVE TypeOK'
  BY <1>14 DEF Crash
<1>15. ASSUME NEW n \in Nodes, Start(n) PROVE TypeOK'
  BY <1>15 DEF Start
<1>16. ASSUME NEW n \in Nodes, Switch(n) PROVE TypeOK'
  BY <1>16 DEF Switch
<1> QED
  BY <1>1, <1>2, <1>3, <1>4, <1>5, <1>6, <1>7, <1>8, <1>9, <1>10, <1>11, <1>12, <1>13, <1>14, <1>15, <1>16 DEF Next

\* set_node_host_route is called with a node, and self.node is set before write_undo
\* (routes.rs:70-105).
LEMMA NodeStep ==
  ASSUME TypeOK, NodeKnown, Next
  PROVE  NodeKnown'
<1> USE RoutesAssumption DEF TypeOK, Os, Undo, Counters, NodeKnown, Switching, Must, Try, Fault, OnError, Recover, WithRoute, WithoutRoute, WithSplit, WithoutSplit, SetRoute, Finish, Uninstall, Recovery, Halves
<1>1. ASSUME Boot PROVE NodeKnown'
  BY <1>1 DEF Boot
<1>2. ASSUME Create PROVE NodeKnown'
  BY <1>2 DEF Create
<1>3. ASSUME AddRoute PROVE NodeKnown'
  BY <1>3 DEF AddRoute
<1>4. ASSUME DeleteOld PROVE NodeKnown'
  BY <1>4 DEF DeleteOld
<1>5. ASSUME WriteUndo PROVE NodeKnown'
  BY <1>5 DEF WriteUndo
<1>6. ASSUME DisableIpv6 PROVE NodeKnown'
  BY <1>6 DEF DisableIpv6
<1>7. ASSUME StartStack PROVE NodeKnown'
  BY <1>7 DEF StartStack
<1>8. ASSUME Hijack PROVE NodeKnown'
  BY <1>8 DEF Hijack
<1>9. ASSUME Stop PROVE NodeKnown'
  BY <1>9 DEF Stop
<1>10. ASSUME UninstallStep PROVE NodeKnown'
  BY <1>10 DEF UninstallStep
<1>11. ASSUME FailedStart PROVE NodeKnown'
  BY <1>11 DEF FailedStart
<1>12. ASSUME RecoverStep PROVE NodeKnown'
  BY <1>12 DEF RecoverStep
<1>13. ASSUME Exit PROVE NodeKnown'
  BY <1>13 DEF Exit
<1>14. ASSUME Crash PROVE NodeKnown'
  BY <1>14 DEF Crash
<1>15. ASSUME NEW n \in Nodes, Start(n) PROVE NodeKnown'
  BY <1>15 DEF Start
<1>16. ASSUME NEW n \in Nodes, Switch(n) PROVE NodeKnown'
  BY <1>16 DEF Switch
<1> QED
  BY <1>1, <1>2, <1>3, <1>4, <1>5, <1>6, <1>7, <1>8, <1>9, <1>10, <1>11, <1>12, <1>13, <1>14, <1>15, <1>16 DEF Next

\* Whatever fails, the route of the node in use goes only when the one of the next
\* node is there (routes.rs:70-105).
LEMMA CurrentStep ==
  ASSUME TypeOK, NodeKnown, ToldHasRoute, RouteBeforeUse, Next
  PROVE  (ToldHasRoute /\ RouteBeforeUse)'
<1> USE RoutesAssumption DEF TypeOK, Os, Undo, Counters, NodeKnown, Switching, ToldHasRoute, RouteBeforeUse, Must, Try, Fault, OnError, Recover, WithRoute, WithoutRoute, WithSplit, WithoutSplit, SetRoute, Finish, Uninstall, Recovery, Halves
<1>1. ASSUME Boot PROVE (ToldHasRoute /\ RouteBeforeUse)'
  BY <1>1 DEF Boot
<1>2. ASSUME Create PROVE (ToldHasRoute /\ RouteBeforeUse)'
  BY <1>2 DEF Create
<1>3. ASSUME AddRoute PROVE (ToldHasRoute /\ RouteBeforeUse)'
  <2> DEFINE Rest == /\ lost' = (lost \/ (pc = "add2" /\ pc' = "up" /\ want = told))
                     /\ UNCHANGED <<undo, node, ipv6Off, want, caller, told, gap>>
  <2>0. Rest
    BY <1>3 DEF AddRoute
  <2>1. CASE want \notin os.routes /\ Must("add", WithRoute(want), "delOld", "del")
    BY <2>0, <2>1
  <2>2. CASE pc = "add" /\ want \in os.routes /\ pc' = "del" /\ UNCHANGED <<os, used>>
    BY <2>0, <2>2
  <2>3. CASE Try("del", WithoutRoute(want), "add2")
    BY <2>0, <2>3
  <2>4. CASE want \notin os.routes /\ Must("add2", WithRoute(want), "delOld", OnError)
    <3>1. CASE os' = WithRoute(want) /\ pc' = "delOld"
      BY <2>0, <2>4, <3>1
    <3>2. CASE os' = os /\ pc' = OnError
      BY <2>0, <2>4, <3>2
    <3> QED
      BY <2>4, <3>1, <3>2
  <2>5. CASE pc = "add2" /\ want \in os.routes /\ pc' = OnError /\ UNCHANGED <<os, used>>
    BY <2>0, <2>5
  <2> QED
    BY <1>3, <2>1, <2>2, <2>3, <2>4, <2>5 DEF AddRoute
<1>4. ASSUME DeleteOld PROVE (ToldHasRoute /\ RouteBeforeUse)'
  BY <1>4 DEF DeleteOld
<1>5. ASSUME WriteUndo PROVE (ToldHasRoute /\ RouteBeforeUse)'
  <2>0. pc = "undo" /\ UNCHANGED <<os, node, ipv6Off, want, caller, gap>>
    BY <1>5 DEF WriteUndo
  <2>1. CASE pc' = (IF caller = "start" THEN "ipv6" ELSE "up") /\ told' = want
    BY <2>0, <2>1
  <2>2. CASE pc' = OnError /\ lost' = (lost \/ want # told) /\ UNCHANGED told
    BY <2>0, <2>2
  <2> QED
    BY <1>5, <2>1, <2>2 DEF WriteUndo
<1>6. ASSUME DisableIpv6 PROVE (ToldHasRoute /\ RouteBeforeUse)'
  BY <1>6 DEF DisableIpv6
<1>7. ASSUME StartStack PROVE (ToldHasRoute /\ RouteBeforeUse)'
  BY <1>7 DEF StartStack
<1>8. ASSUME Hijack PROVE (ToldHasRoute /\ RouteBeforeUse)'
  BY <1>8 DEF Hijack
<1>9. ASSUME Stop PROVE (ToldHasRoute /\ RouteBeforeUse)'
  BY <1>9 DEF Stop
<1>10. ASSUME UninstallStep PROVE (ToldHasRoute /\ RouteBeforeUse)'
  BY <1>10 DEF UninstallStep
<1>11. ASSUME FailedStart PROVE (ToldHasRoute /\ RouteBeforeUse)'
  BY <1>11 DEF FailedStart
<1>12. ASSUME RecoverStep PROVE (ToldHasRoute /\ RouteBeforeUse)'
  BY <1>12 DEF RecoverStep
<1>13. ASSUME Exit PROVE (ToldHasRoute /\ RouteBeforeUse)'
  BY <1>13 DEF Exit
<1>14. ASSUME Crash PROVE (ToldHasRoute /\ RouteBeforeUse)'
  BY <1>14 DEF Crash
<1>15. ASSUME NEW n \in Nodes, Start(n) PROVE (ToldHasRoute /\ RouteBeforeUse)'
  BY <1>15 DEF Start
<1>16. ASSUME NEW n \in Nodes, Switch(n) PROVE (ToldHasRoute /\ RouteBeforeUse)'
  BY <1>16 DEF Switch
<1> QED
  BY <1>1, <1>2, <1>3, <1>4, <1>5, <1>6, <1>7, <1>8, <1>9, <1>10, <1>11, <1>12, <1>13, <1>14, <1>15, <1>16 DEF Next

\* The order of the commands of start, uninstall and recover (win.rs, routes.rs).
LEMMA OrderStep ==
  ASSUME TypeOK, NodeKnown, RouteBeforeUse, InOrder, Next
  PROVE  InOrder'
<1> USE RoutesAssumption DEF TypeOK, Os, Undo, Counters, NodeKnown, RouteBeforeUse, InOrder, Quiet, Switching, Starting, Must, Try, Fault, OnError, Recover, WithRoute, WithoutRoute, WithSplit, WithoutSplit, SetRoute, Finish, Uninstall, Recovery, Halves
<1>1. ASSUME Boot PROVE InOrder'
  BY <1>1 DEF Boot
<1>2. ASSUME Create PROVE InOrder'
  BY <1>2 DEF Create
<1>3. ASSUME AddRoute PROVE InOrder'
  <2> DEFINE Rest == /\ lost' = (lost \/ (pc = "add2" /\ pc' = "up" /\ want = told))
                     /\ UNCHANGED <<undo, node, ipv6Off, want, caller, told, gap>>
  <2>0. Rest
    BY <1>3 DEF AddRoute
  <2>1. CASE want \notin os.routes /\ Must("add", WithRoute(want), "delOld", "del")
    BY <2>0, <2>1
  <2>2. CASE pc = "add" /\ want \in os.routes /\ pc' = "del" /\ UNCHANGED <<os, used>>
    BY <2>0, <2>2
  <2>3. CASE Try("del", WithoutRoute(want), "add2")
    BY <2>0, <2>3
  <2>4. CASE want \notin os.routes /\ Must("add2", WithRoute(want), "delOld", OnError)
    BY <2>0, <2>4
  <2>5. CASE pc = "add2" /\ want \in os.routes /\ pc' = OnError /\ UNCHANGED <<os, used>>
    BY <2>0, <2>5
  <2> QED
    BY <1>3, <2>1, <2>2, <2>3, <2>4, <2>5 DEF AddRoute
<1>4. ASSUME DeleteOld PROVE InOrder'
  <2>0. node' = want /\ UNCHANGED <<undo, ipv6Off, want, caller, told, lost, gap>>
    BY <1>4 DEF DeleteOld
  <2>1. CASE node \in Nodes \ {want} /\ Try("delOld", WithoutRoute(node), "undo")
    BY <2>0, <2>1
  <2>2. CASE node \notin Nodes \ {want} /\ pc = "delOld" /\ pc' = "undo" /\ UNCHANGED <<os, used>>
    BY <2>0, <2>2
  <2> QED
    BY <1>4, <2>1, <2>2 DEF DeleteOld
<1>5. ASSUME WriteUndo PROVE InOrder'
  BY <1>5 DEF WriteUndo
<1>6. ASSUME DisableIpv6 PROVE InOrder'
  BY <1>6 DEF DisableIpv6
<1>7. ASSUME StartStack PROVE InOrder'
  BY <1>7 DEF StartStack
<1>8. ASSUME Hijack PROVE InOrder'
  BY <1>8 DEF Hijack
<1>9. ASSUME Stop PROVE InOrder'
  BY <1>9 DEF Stop
<1>10. ASSUME UninstallStep PROVE InOrder'
  BY <1>10 DEF UninstallStep
<1>11. ASSUME FailedStart PROVE InOrder'
  BY <1>11 DEF FailedStart
<1>12. ASSUME RecoverStep PROVE InOrder'
  BY <1>12 DEF RecoverStep
<1>13. ASSUME Exit PROVE InOrder'
  BY <1>13 DEF Exit
<1>14. ASSUME Crash PROVE InOrder'
  BY <1>14 DEF Crash
<1>15. ASSUME NEW n \in Nodes, Start(n) PROVE InOrder'
  BY <1>15 DEF Start
<1>16. ASSUME NEW n \in Nodes, Switch(n) PROVE InOrder'
  BY <1>16 DEF Switch
<1> QED
  BY <1>1, <1>2, <1>3, <1>4, <1>5, <1>6, <1>7, <1>8, <1>9, <1>10, <1>11, <1>12, <1>13, <1>14, <1>15, <1>16 DEF Next

\* The file keeps up with the host route and IPv6 (write_undo, routes.rs).
LEMMA FileStep ==
  ASSUME TypeOK, NodeKnown, InOrder, InFile, Next
  PROVE  InFile'
<1> USE RoutesAssumption DEF TypeOK, Os, Undo, Counters, NodeKnown, InOrder, InFile, Quiet, Switching, Starting, Must, Try, Fault, OnError, Recover, WithRoute, WithoutRoute, WithSplit, WithoutSplit, SetRoute, Finish, Uninstall, Recovery, Halves
<1>1. ASSUME Boot PROVE InFile'
  BY <1>1 DEF Boot
<1>2. ASSUME Create PROVE InFile'
  BY <1>2 DEF Create
<1>3. ASSUME AddRoute PROVE InFile'
  BY <1>3 DEF AddRoute
<1>4. ASSUME DeleteOld PROVE InFile'
  BY <1>4 DEF DeleteOld
<1>5. ASSUME WriteUndo PROVE InFile'
  BY <1>5 DEF WriteUndo
<1>6. ASSUME DisableIpv6 PROVE InFile'
  BY <1>6 DEF DisableIpv6
<1>7. ASSUME StartStack PROVE InFile'
  BY <1>7 DEF StartStack
<1>8. ASSUME Hijack PROVE InFile'
  BY <1>8 DEF Hijack
<1>9. ASSUME Stop PROVE InFile'
  BY <1>9 DEF Stop
<1>10. ASSUME UninstallStep PROVE InFile'
  BY <1>10 DEF UninstallStep
<1>11. ASSUME FailedStart PROVE InFile'
  BY <1>11 DEF FailedStart
<1>12. ASSUME RecoverStep PROVE InFile'
  BY <1>12 DEF RecoverStep
<1>13. ASSUME Exit PROVE InFile'
  BY <1>13 DEF Exit
<1>14. ASSUME Crash PROVE InFile'
  BY <1>14 DEF Crash
<1>15. ASSUME NEW n \in Nodes, Start(n) PROVE InFile'
  BY <1>15 DEF Start
<1>16. ASSUME NEW n \in Nodes, Switch(n) PROVE InFile'
  BY <1>16 DEF Switch
<1> QED
  BY <1>1, <1>2, <1>3, <1>4, <1>5, <1>6, <1>7, <1>8, <1>9, <1>10, <1>11, <1>12, <1>13, <1>14, <1>15, <1>16 DEF Next

LEMMA RoutesStep ==
  ASSUME RoutesInv, [Next]_vars
  PROVE  RoutesInv'
<1>1. CASE Next
  BY <1>1, TypeStep, NodeStep, CurrentStep, OrderStep, FileStep DEF RoutesInv
<1>2. CASE UNCHANGED vars
  BY <1>2 DEF vars, RoutesInv, TypeOK, NodeKnown, ToldHasRoute, RouteBeforeUse, InOrder, InFile,
              Switching, Starting, Quiet
<1> QED
  BY <1>1, <1>2

\* The inductive invariant holds in every reachable state.
THEOREM RoutesInvariant == Spec => []RoutesInv
<1>1. Init => RoutesInv
  <2> SUFFICES ASSUME Init PROVE RoutesInv
    OBVIOUS
  <2>1. TypeOK
    BY DEF Init, TypeOK, Os, Counters
  <2>2. pc = "down" /\ os.routes = {} /\ os.ipv6
    BY DEF Init
  <2> QED
    BY <2>1, <2>2 DEF RoutesInv, NodeKnown, ToldHasRoute, RouteBeforeUse, InOrder, InFile,
                      Switching, Starting, SetRoute, Finish, Recovery
<1> QED
  BY <1>1, RoutesStep, PTL DEF Spec

\* The host route is where TunRoutes and its callers take it to be: during every
\* start, switch and stop for the node the operation works for, and between
\* operations, whichever commands have failed, for the node of the last start or
\* switch that reported success (routes.rs:70-140, win.rs:80).
THEOREM RoutesNodeRouted == Spec => []NodeRouted
<1>1. RoutesInv => NodeRouted
  BY DEF RoutesInv, NodeRouted, NodeHasRoute, NodeKnown, InOrder, Switching, Starting, SetRoute, Finish,
         Install, Uninstall, TypeOK
<1> QED
  BY <1>1, RoutesInvariant, PTL

\* What a crash would leave behind is in the undo file (write_undo, routes.rs).
THEOREM RoutesUndoCovers == Spec => []UndoCovers
<1>1. RoutesInv => UndoCovers
  <2> SUFFICES ASSUME RoutesInv PROVE UndoCovers
    OBVIOUS
  <2> USE DEF RoutesInv, TypeOK, InOrder, InFile, Switching, Starting, SetRoute, Finish, Uninstall, Recovery
  <2>1. Quiet /\ ~gap /\ pc \notin {"del", "add2", "delOld", "undo"} /\ os.routes # {}
          => undo # NoFile /\ os.routes = {undo.node}
    OBVIOUS
  <2>2. Quiet /\ ~gap /\ pc # "ipv6undo" /\ ~os.ipv6 => undo # NoFile /\ undo.ipv6
    OBVIOUS
  <2> QED
    BY <2>1, <2>2 DEF UndoCovers
<1> QED
  BY <1>1, RoutesInvariant, PTL

\* Enhance mode off leaves nothing behind, however it was turned off (README.md:20).
THEOREM RoutesIdleClean == Spec => []IdleClean
<1>1. RoutesInv => IdleClean
  BY DEF RoutesInv, IdleClean, InOrder, InFile, Starting
<1> QED
  BY <1>1, RoutesInvariant, PTL

================================================================================

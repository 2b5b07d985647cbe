------------------------------- MODULE TunRoutes -------------------------------
(***************************************************************************)
(* What enhance mode changes in Windows and how it is undone               *)
(* (crates/clash-tun/src/routes.rs, and the parts of win.rs that call it): *)
(* the host route of the node (which keeps our own traffic out of the      *)
(* TUN), the two halves of the default route, the DNS server and IPv6 of   *)
(* the physical interface, and the firewall rule.  They outlive the        *)
(* process, and so does the undo file.                                     *)
(*                                                                         *)
(* A step is one route or netsh command or one file operation: each may    *)
(* fail, and the process may die between any two.  At most one of start,   *)
(* stop and on_node_changed is at work (ModeControl has their overlap).    *)
(* Commands are external: `route add` fails when the route exists.         *)
(*                                                                         *)
(* The node the dialer uses is not part of this module: its callers change *)
(* it before, after or without on_node_changed (select_node in a UI        *)
(* callback that runs after the old route is gone, update_profile before   *)
(* it knows whether the route can be had, switch_profile, delete_profile   *)
(* and confirm_dialog without it).  NodeSwitch says when it agrees with    *)
(* TunRoutes.node; `told` here is what a call has reported.                *)
(***************************************************************************)
EXTENDS Naturals

CONSTANTS
  Nodes,       \* IPv4 addresses of proxy nodes
  NoNode,      \* None
  NoFile,      \* there is no undo file
  MaxFaults,   \* bound: commands that fail
  MaxCrashes,  \* bound: crashes of the process
  MaxCalls     \* bound: starts and node switches

ASSUME RoutesAssumption ==
  /\ NoNode \notin Nodes
  /\ NoFile \notin [node : Nodes, ipv6 : BOOLEAN]
  /\ MaxFaults \in Nat /\ MaxCrashes \in Nat /\ MaxCalls \in Nat

Halves == {"low", "high"}

VARIABLES
  os,      \* host routes, split default route, DNS, IPv6, firewall rule
  undo,    \* the undo file
  node,    \* TunRoutes.node
  ipv6Off, \* TunRoutes.ipv6_disabled is Some
  want,    \* the address set_node_host_route is called with
  caller,  \* who runs: start, switch
  pc,
  told,    \* ghost: the node of the start, or of the last switch that reported success
  lost,    \* ghost: a switch failed in its write_undo, or in selecting `told` again
  gap,     \* ghost: the process died between a change and its write_undo
  used     \* how much of each bound is used up

vars == <<os, undo, node, ipv6Off, want, caller, pc, told, lost, gap, used>>

Install   == {"create", "add", "del", "add2", "delOld", "undo", "ipv6", "ipv6undo", "stack",
              "splitLow", "splitHigh", "dns", "publish"}
Uninstall == {"uLow", "uHigh", "uNode", "uDns", "uIpv6", "uRemove", "uFire"}

Quiet == used.faults = 0

-------------------------------------------------------------------------------
Fault == used.faults < MaxFaults /\ used' = [used EXCEPT !.faults = @ + 1]

\* A command whose result is ignored: whether or not it works, q is next.
Try(p, new, q) ==
  /\ pc = p /\ pc' = q
  /\ \/ os' = new /\ UNCHANGED used
     \/ os' = os /\ Fault

\* A command with `?`: q is next when it works, err when it fails.
Must(p, new, q, err) ==
  /\ pc = p
  /\ \/ os' = new /\ pc' = q /\ UNCHANGED used
     \/ os' = os /\ pc' = err /\ Fault

WithRoute(n)    == [os EXCEPT !.routes = @ \cup {n}]
WithoutRoute(n) == [os EXCEPT !.routes = @ \ {n}]
WithSplit(h)    == [os EXCEPT !.split = @ \cup {h}]
WithoutSplit(h) == [os EXCEPT !.split = @ \ {h}]

\* Where a failed start_inner goes (stop, then recover); a failed
\* on_node_changed just returns.
OnError == IF caller = "start" THEN "fFire" ELSE "up"

\* recover() reads the undo file first.
Recover == IF undo = NoFile THEN "rLow" ELSE "rDns"

-------------------------------------------------------------------------------
\* Enhance mode has never been on.
Init ==
  /\ os \in [routes : {{}}, split : {{}}, dns : {"static", "dhcp"}, ipv6 : {TRUE},
             firewall : {FALSE}]
  /\ undo = NoFile
  /\ node = NoNode /\ ipv6Off = FALSE /\ want = NoNode /\ caller = "start"
  /\ pc = "down"
  /\ told = NoNode /\ lost = FALSE /\ gap = FALSE
  /\ used = [faults |-> 0, crashes |-> 0, calls |-> 0]

\* A process starts and runs recover_orphaned_os_state.
Boot ==
  /\ pc = "down" /\ pc' = Recover
  /\ UNCHANGED <<os, undo, node, ipv6Off, want, caller, told, lost, gap, used>>

\* win::start with the resolved address n of the node.
Start(n) ==
  /\ pc = "idle" /\ used.calls < MaxCalls
  /\ used' = [used EXCEPT !.calls = @ + 1]
  /\ pc' = "create" /\ caller' = "start" /\ want' = n
  /\ told' = n /\ lost' = FALSE
  /\ UNCHANGED <<os, undo, node, ipv6Off, gap>>

\* WintunDevice::create and configure_interface: a fresh TunRoutes.
Create ==
  /\ Must("create", os, "add", "fFire")
  /\ node' = NoNode /\ ipv6Off' = FALSE
  /\ UNCHANGED <<undo, want, caller, told, lost, gap>>

\* on_node_changed with the resolved address n: set_node_host_route on the installed
\* routes.  Whoever calls it, its result is whether that worked.
Switch(n) ==
  /\ pc = "up" /\ used.calls < MaxCalls
  /\ used' = [used EXCEPT !.calls = @ + 1]
  /\ pc' = "add" /\ caller' = "switch" /\ want' = n
  /\ UNCHANGED <<os, undo, node, ipv6Off, told, lost, gap>>

\* Mutant: the route of the old node is deleted before the second attempt.
AddRouteAfterDelete ==
  /\ \/ want \notin os.routes /\ Must("add", WithRoute(want), "delOld", "del")
     \/ pc = "add" /\ want \in os.routes /\ pc' = "del" /\ UNCHANGED <<os, used>>
     \/ Try("del", WithoutRoute(want), "add2")
     \/ /\ pc = "add2" /\ pc' = OnError /\ UNCHANGED used
        /\ os' = [os EXCEPT !.routes = @ \ {node}]
  /\ lost' = (lost \/ (pc = "add2" /\ pc' = "up" /\ want = told))
  /\ UNCHANGED <<undo, node, ipv6Off, want, caller, told, gap>>

\* set_node_host_route: `route add`, which fails when there is such a route;
\* then `route delete` and once more `route add`.
AddRoute ==
  /\ \/ want \notin os.routes /\ Must("add", WithRoute(want), "delOld", "del")
     \/ pc = "add" /\ want \in os.routes /\ pc' = "del" /\ UNCHANGED <<os, used>>
     \/ Try("del", WithoutRoute(want), "add2")
     \/ want \notin os.routes /\ Must("add2", WithRoute(want), "delOld", OnError)
     \/ pc = "add2" /\ want \in os.routes /\ pc' = OnError /\ UNCHANGED <<os, used>>
  /\ lost' = (lost \/ (pc = "add2" /\ pc' = "up" /\ want = told))
  /\ UNCHANGED <<undo, node, ipv6Off, want, caller, told, gap>>

\* self.node = Some(node), and the previous node's route is deleted.
DeleteOld ==
  /\ \/ node \in Nodes \ {want} /\ Try("delOld", WithoutRoute(node), "undo")
     \/ node \notin Nodes \ {want} /\ pc = "delOld" /\ pc' = "undo" /\ UNCHANGED <<os, used>>
  /\ node' = want
  /\ UNCHANGED <<undo, ipv6Off, want, caller, told, lost, gap>>

\* Mutant: the node is missing from the undo file.
WriteUndoNoNode ==
  /\ pc = "undo" /\ undo' = [node |-> NoNode, ipv6 |-> ipv6Off]
  /\ pc' = (IF caller = "start" THEN "ipv6" ELSE "up")
  /\ UNCHANGED <<os, node, ipv6Off, want, caller, told, lost, gap, used>>

\* write_undo; its failure fails set_node_host_route.  A switch returns true here.
WriteUndo ==
  /\ pc = "undo"
  /\ \/ /\ undo' = [node |-> node, ipv6 |-> ipv6Off]
        /\ pc' = (IF caller = "start" THEN "ipv6" ELSE "up")
        /\ told' = want /\ lost' = FALSE
        /\ UNCHANGED used
     \/ /\ Fault /\ pc' = OnError
        /\ lost' = (lost \/ want # told)
        /\ UNCHANGED <<undo, told>>
  /\ UNCHANGED <<os, node, ipv6Off, want, caller, gap>>

\* disable_ipv6: the command, then write_undo; neither failure matters.
DisableIpv6 ==
  /\ \/ /\ pc = "ipv6" /\ pc' = "ipv6undo"
        /\ \/ os' = [os EXCEPT !.ipv6 = FALSE] /\ ipv6Off' = TRUE /\ UNCHANGED used
           \/ Fault /\ UNCHANGED <<os, ipv6Off>>
        /\ UNCHANGED undo
     \/ /\ pc = "ipv6undo" /\ pc' = "stack"
        /\ \/ undo' = [node |-> node, ipv6 |-> ipv6Off] /\ UNCHANGED used
           \/ Fault /\ UNCHANGED undo
        /\ UNCHANGED <<os, ipv6Off>>
  /\ UNCHANGED <<node, want, caller, told, lost, gap>>

\* SystemTcpStack::start: allow_firewall, then the listener.
StartStack ==
  /\ pc = "stack" /\ os' = [os EXCEPT !.firewall = TRUE]
  /\ \/ pc' = "splitLow" /\ UNCHANGED used
     \/ pc' = "fFire" /\ Fault
  /\ UNCHANGED <<undo, node, ipv6Off, want, caller, told, lost, gap>>

\* install_split_default and configure_dns_hijack, then the runtime is stored.
Hijack ==
  /\ \/ "low" \notin os.split /\ Must("splitLow", WithSplit("low"), "splitHigh", "fFire")
     \/ "high" \notin os.split /\ Must("splitHigh", WithSplit("high"), "dns", "fFire")
     \/ /\ \/ pc = "splitLow" /\ "low" \in os.split
           \/ pc = "splitHigh" /\ "high" \in os.split
        /\ pc' = "fFire" /\ UNCHANGED <<os, used>>
     \/ Must("dns", [os EXCEPT !.dns = "fake"], "publish", "fFire")
     \/ pc = "publish" /\ pc' = "up" /\ UNCHANGED <<os, used>>
  /\ UNCHANGED <<undo, node, ipv6Off, want, caller, told, lost, gap>>

-------------------------------------------------------------------------------
\* win::stop of a runtime.
Stop ==
  /\ pc = "up" /\ pc' = "uLow"
  /\ UNCHANGED <<os, undo, node, ipv6Off, want, caller, told, lost, gap, used>>

\* TunRoutes::uninstall, every command best effort, then remove_firewall.
UninstallStep ==
  /\ \/ Try("uLow", WithoutSplit("low"), "uHigh")
     \/ Try("uHigh", WithoutSplit("high"), "uNode")
     \/ Try("uNode", WithoutRoute(node), "uDns")
     \/ Try("uDns", [os EXCEPT !.dns = "dhcp"], "uIpv6")
     \/ Try("uIpv6", [os EXCEPT !.ipv6 = @ \/ ipv6Off], "uRemove")
     \/ pc = "uRemove" /\ pc' = "uFire" /\ UNCHANGED <<os, used>>
     \/ Try("uFire", [os EXCEPT !.firewall = FALSE], "idle")
  /\ undo' = IF pc = "uRemove" THEN NoFile ELSE undo
  /\ node' = IF pc = "uNode" THEN NoNode ELSE node
  /\ ipv6Off' = (ipv6Off /\ pc # "uIpv6")
  /\ UNCHANGED <<want, caller, told, lost, gap>>

\* A failed start_inner: stop finds no runtime and removes the firewall rule,
\* then recover() runs.
FailedStart ==
  /\ Try("fFire", [os EXCEPT !.firewall = FALSE], Recover)
  /\ UNCHANGED <<undo, node, ipv6Off, want, caller, told, lost, gap>>

\* Mutant: the file is removed before what it says is undone.
RecoverStepRemoveFirst ==
  /\ \/ pc = "rDns" /\ pc' = "rLow" /\ UNCHANGED <<os, used>>
     \/ Try("rLow", WithoutSplit("low"), "rHigh")
     \/ Try("rHigh", WithoutSplit("high"), "rNics")
     \/ Try("rNics", [os EXCEPT !.dns = IF @ = "fake" THEN "dhcp" ELSE @], "rFire")
     \/ Try("rFire", [os EXCEPT !.firewall = FALSE], "idle")
  /\ undo' = IF pc = "rDns" THEN NoFile ELSE undo
  /\ UNCHANGED <<node, ipv6Off, want, caller, told, lost, gap>>

\* recover(): what the undo file says, then the file; the split default route;
\* every interface whose DNS server is ours; the firewall rule.  All best effort.
RecoverStep ==
  /\ \/ Try("rDns", [os EXCEPT !.dns = "dhcp"], "rIpv6")
     \/ pc = "rIpv6" /\ Try("rIpv6", [os EXCEPT !.ipv6 = @ \/ undo.ipv6], "rRoute")
     \/ pc = "rRoute" /\ Try("rRoute", WithoutRoute(undo.node), "rRemove")
     \/ pc = "rRemove" /\ pc' = "rLow" /\ UNCHANGED <<os, used>>
     \/ Try("rLow", WithoutSplit("low"), "rHigh")
     \/ Try("rHigh", WithoutSplit("high"), "rNics")
     \/ Try("rNics", [os EXCEPT !.dns = IF @ = "fake" THEN "dhcp" ELSE @], "rFire")
     \/ Try("rFire", [os EXCEPT !.firewall = FALSE], "idle")
  /\ undo' = IF pc = "rRemove" THEN NoFile ELSE undo
  /\ UNCHANGED <<node, ipv6Off, want, caller, told, lost, gap>>

\* The process ends with enhance mode off (main stops the TUN first).
Exit ==
  /\ pc = "idle" /\ pc' = "down"
  /\ UNCHANGED <<os, undo, node, ipv6Off, want, caller, told, lost, gap, used>>

\* The process dies; the routes object dies with it.
Crash ==
  /\ pc # "down" /\ used.crashes < MaxCrashes
  /\ pc' = "down" /\ node' = NoNode /\ ipv6Off' = FALSE
  /\ gap' = (gap \/ pc \in {"del", "add2", "delOld", "undo", "ipv6undo"})
  /\ used' = [used EXCEPT !.crashes = @ + 1]
  /\ UNCHANGED <<os, undo, want, caller, told, lost>>

Next ==
  \/ Boot \/ Create \/ AddRoute \/ DeleteOld \/ WriteUndo \/ DisableIpv6 \/ StartStack
  \/ Hijack \/ Stop \/ UninstallStep \/ FailedStart \/ RecoverStep \/ Exit \/ Crash
  \/ \E n \in Nodes : Start(n) \/ Switch(n)

Spec == Init /\ [][Next]_vars

-------------------------------------------------------------------------------
\* While any half of the default route leads into the TUN, TunRoutes.node has its
\* host route, so that traffic to it does not come back into the TUN: installed
\* before (win.rs:80), deleted after (routes.rs:134), and in a switch the new route
\* is there before the old one goes.  But for the moment in which a node selected
\* again has its route replaced.
NodeHasRoute ==
  Quiet /\ os.split # {} /\ pc \in {"up"} \cup Install \cup Uninstall /\ pc # "add2"
    => node \in os.routes

\* The undo file always covers what is changed: as long as no command failed and no
\* process died between a change and its write_undo, every host route and a disabled
\* IPv6 that a crash would leave behind are in the file.
UndoCovers ==
  Quiet /\ ~gap =>
    /\ pc \notin {"del", "add2", "delOld", "undo"} /\ os.routes # {}
         => undo # NoFile /\ os.routes = {undo.node}
    /\ pc # "ipv6undo" /\ ~os.ipv6 => undo # NoFile /\ undo.ipv6

\* README.md:20: once enhance mode is off again, by a stop, a failed start or the
\* recovery after a crash, everything is restored that a command can restore (a
\* static DNS server becomes DHCP), unless a command failed or the crash hit between
\* a change and its write_undo.
IdleClean ==
  pc = "idle" /\ Quiet =>
    /\ os.split = {} /\ os.dns # "fake" /\ ~os.firewall /\ undo = NoFile
    /\ ~gap => os.routes = {} /\ os.ipv6

\* What a start or a switch has reported stays true: between operations the node of
\* the last one that succeeded has its host route, however many switches and commands
\* have failed since, because a switch deletes the old route only once the new one is
\* there.  Two failures cost it the route: that of write_undo, which comes after the
\* deletion (routes.rs:103), and that of replacing the route of a node that is
\* selected again (routes.rs:79).
ToldHasRoute == pc = "up" /\ ~lost => told \in os.routes

\* The host route is where the routes object and its callers take it to be: during
\* each operation for the node it works for, and between operations, whatever has
\* failed, for the node that was reported.
NodeRouted == NodeHasRoute /\ ToldHasRoute

===============================================================================

------------------------------ MODULE NodeSwitch ------------------------------
(***************************************************************************)
(* Changing the node while connections are open: select_node,              *)
(* update_profile, switch_profile, delete_profile and confirm_dialog of    *)
(* MainView (crates/rust-clash/src/main.rs), OutboundDialer.current        *)
(* (outbound.rs), TunService::on_node_changed (clash-tun win.rs) with      *)
(* bump_generation (stack.rs), and the connections of the two inbounds:    *)
(* the HTTP listener (inbound.rs) and the TUN's accept loop (stack.rs).    *)
(*                                                                         *)
(* A connection reads `current` when it dials and keeps that node; it is   *)
(* cut by the cancellation token it took when it was accepted.  UI         *)
(* handlers run on one thread but interleave with the tokio threads where  *)
(* they touch shared state: set_current and abort_active are two steps.    *)
(* Tokens are numbered: a token is cancelled once a later one has been put *)
(* in its place and the replaced one cancelled.                            *)
(***************************************************************************)
EXTENDS Naturals, Sequences, FiniteSets

CONSTANTS
  NodeLists,   \* contents of profiles: sequences of usable nodes
  NoNode,      \* None
  InConns, TunConns,  \* bound: connections alive at a time, of each inbound
  Slots,       \* permits of the HTTP listener, 256 in the code
  Tasks,       \* bound: node changes in flight
  MaxChanges   \* bound: changes the user makes

Conns   == InConns \cup TunConns
NodesIn(l) == {l[i] : i \in 1..Len(l)}
Nodes   == UNION {NodesIn(l) : l \in NodeLists}

ASSUME SwitchAssumption ==
  /\ InConns \cap TunConns = {}
  /\ Slots \in Nat \ {0} /\ MaxChanges \in Nat
  /\ \A l \in NodeLists : l \in Seq(NodesIn(l))

VARIABLES
  tunOn,      \* enhance mode is on, the TUN runs
  list,       \* MainView.nodes
  selected,   \* MainView.selected
  current,    \* OutboundDialer.current
  route,      \* the node that has the host route
  ui,         \* what the running UI callback has left to do
  task,       \* spawned on_node_changed calls
  generation, relayToken, relayCut,  \* SystemTcpStack; tokens below relayCut are cancelled
  connToken,  \* ProxyService.conn; all tokens below it are cancelled
  conn,       \* connections
  skipped,    \* ghost: current changed without abort_active since the last one
  overlap,    \* ghost: node changes have overlapped, failed or left out the route
  used        \* changes made

shared == <<list, selected, current, route, ui, task, generation, relayToken, relayCut, connToken>>
vars   == <<tunOn, shared, conn, skipped, overlap, used>>

NoTask == [pc |-> "none", node |-> NoNode, select |-> FALSE, ok |-> FALSE]
NoConn == [pc |-> "closed", gen |-> 0, token |-> 0, node |-> NoNode]

Quiet == ui = "idle" /\ \A t \in Tasks : task[t].pc = "none"
Live(c) == conn[c].pc # "closed"
Cancelled(c) ==
  /\ conn[c].pc \notin {"closed", "accepted"}
  /\ conn[c].token < (IF c \in InConns THEN connToken ELSE relayCut)

-------------------------------------------------------------------------------
\* The node reload_nodes selects in list l: the one selected before, else the first.
Reselected(l) ==
  IF selected \in NodesIn(l) THEN selected ELSE IF l = <<>> THEN NoNode ELSE l[1]

Init ==
  /\ tunOn \in BOOLEAN
  /\ list \in NodeLists \ {<<>>}
  /\ selected \in NodesIn(list) /\ current = selected /\ route = selected
  /\ ui = "idle"
  /\ task = [t \in Tasks |-> NoTask]
  /\ generation = 0 /\ relayToken = 0 /\ relayCut = 0 /\ connToken = 0
  /\ conn = [c \in Conns |-> NoConn]
  /\ skipped = FALSE /\ overlap = FALSE
  /\ used = 0

UserActs == ui = "idle" /\ used < MaxChanges /\ used' = used + 1

\* tun.on_node_changed, spawned by select_node or by update_profile.
Spawn(n, select) ==
  \E t \in Tasks :
    /\ task[t].pc = "none"
    /\ task' = [task EXCEPT ![t] = [pc |-> "changed", node |-> n, select |-> select, ok |-> FALSE]]

\* select_node: the list shows it at once, the dialer uses it later.
SelectNode(n) ==
  /\ UserActs /\ n \in NodesIn(list)
  /\ selected' = n
  /\ Spawn(n, TRUE)
  /\ overlap' = (overlap \/ ~Quiet)
  /\ UNCHANGED <<tunOn, list, current, route, ui, generation, relayToken, relayCut, connToken,
                 conn, skipped>>

\* reload_nodes with the nodes of another list.
Reload(l) ==
  /\ list' = l /\ selected' = Reselected(l) /\ current' = Reselected(l)
  /\ UNCHANGED <<tunOn, route, generation, relayToken, relayCut, connToken, conn>>

\* switch_profile and delete_profile: reload_nodes, then abort_active.
SwitchProfile(l) ==
  /\ UserActs /\ Reload(l)
  /\ ui' = "abort" /\ overlap' = (overlap \/ ~Quiet \/ tunOn)
  /\ UNCHANGED <<task, skipped>>

\* Mutant: the route is left as it is.
UpdateProfileNoRoute(l) ==
  /\ UserActs /\ Reload(l)
  /\ ui' = "abort"
  /\ overlap' = (overlap \/ ~Quiet \/ (tunOn /\ Reselected(l) = NoNode))
  /\ UNCHANGED <<task, skipped>>

\* update_profile, once the subscription is there: reload_nodes, abort_active,
\* and in enhance mode on_node_changed.
UpdateProfile(l) ==
  /\ UserActs /\ Reload(l)
  /\ ui' = (IF tunOn /\ Reselected(l) # NoNode THEN "abortThenRoute" ELSE "abort")
  /\ overlap' = (overlap \/ ~Quiet \/ (tunOn /\ Reselected(l) = NoNode))
  /\ UNCHANGED <<task, skipped>>

\* confirm_dialog: the new profile becomes the active one; no abort_active.
AddProfile(l) ==
  /\ UserActs /\ Reload(l)
  /\ skipped' = (skipped \/ Reselected(l) # current)
  /\ overlap' = (overlap \/ ~Quiet \/ tunOn)
  /\ UNCHANGED <<ui, task>>

\* abort_active, and what update_profile does after it.
AbortActive ==
  /\ ui \in {"abort", "abortThenRoute"} /\ ui' = "idle"
  /\ connToken' = connToken + 1
  /\ skipped' = FALSE
  /\ IF ui = "abort" THEN UNCHANGED task ELSE Spawn(selected, FALSE)
  /\ UNCHANGED <<tunOn, list, selected, current, route, generation, relayToken, relayCut,
                 conn, overlap, used>>

-------------------------------------------------------------------------------
Goto(t, p)    == task' = [task EXCEPT ![t].pc = p]
Result(t, ok) == task' = [task EXCEPT ![t].pc = "ui", ![t].ok = ok]

\* on_node_changed without a TUN; resolve_node_ipv4, which may fail; then, under
\* the runtime mutex, set_node_host_route, which may fail too, with the new route
\* in place or not.
NodeChanged(t) ==
  /\ \/ task[t].pc = "changed" /\ ~tunOn /\ Result(t, TRUE) /\ UNCHANGED <<route, overlap>>
     \/ task[t].pc = "changed" /\ tunOn /\ Goto(t, "route") /\ UNCHANGED <<route, overlap>>
     \/ /\ task[t].pc \in {"changed", "route"} /\ tunOn
        /\ route' \in {route} \cup (IF task[t].pc = "route" THEN {task[t].node} ELSE {})
        /\ Result(t, FALSE) /\ overlap' = TRUE
     \/ /\ task[t].pc = "route"
        /\ \A u \in Tasks : task[u].pc \notin {"generation", "swap", "cancel"}
        /\ route' = task[t].node
        /\ Goto(t, "generation") /\ UNCHANGED overlap
  /\ UNCHANGED <<tunOn, list, selected, current, ui, generation, relayToken, relayCut, connToken,
                 conn, skipped, used>>

\* bump_generation: the counter, the token, and the cancel of the old token.
BumpGeneration(t) ==
  /\ \/ /\ task[t].pc = "generation" /\ generation' = generation + 1
        /\ Goto(t, "swap") /\ UNCHANGED <<relayToken, relayCut>>
     \/ /\ task[t].pc = "swap" /\ relayToken' = relayToken + 1
        /\ Goto(t, "cancel") /\ UNCHANGED <<generation, relayCut>>
     \/ /\ task[t].pc = "cancel" /\ relayCut' = relayToken
        /\ Result(t, TRUE) /\ UNCHANGED <<generation, relayToken>>
  /\ UNCHANGED <<tunOn, list, selected, current, route, ui, connToken, conn, skipped, overlap, used>>

\* Mutant: the callback forgets abort_active.
NodeSelectedNoAbort(t) ==
  /\ task[t].pc = "ui" /\ ui = "idle"
  /\ IF task[t].select /\ task[t].ok THEN current' = task[t].node ELSE UNCHANGED current
  /\ task' = [task EXCEPT ![t] = NoTask]
  /\ UNCHANGED <<tunOn, list, selected, route, ui, generation, relayToken, relayCut, connToken,
                 conn, skipped, overlap, used>>

\* The UI callback: set_current, then abort_active; an error text otherwise.
NodeSelected(t) ==
  /\ task[t].pc = "ui" /\ ui = "idle"
  /\ \/ task[t].select /\ task[t].ok /\ current' = task[t].node /\ ui' = "abort"
     \/ ~(task[t].select /\ task[t].ok) /\ UNCHANGED <<current, ui>>
  /\ task' = [task EXCEPT ![t] = NoTask]
  /\ UNCHANGED <<tunOn, list, selected, route, generation, relayToken, relayCut, connToken,
                 conn, skipped, overlap, used>>

-------------------------------------------------------------------------------
Set(c, r) == conn' = [conn EXCEPT ![c] = r]
Close(c)  == Set(c, NoConn)
Others    == <<tunOn, shared, skipped, overlap, used>>

\* The HTTP listener: a permit, the token, and the connection reads its request; a
\* client that finds no permit free gets a 503.
Accept(c) ==
  /\ c \in InConns /\ ~Live(c)
  /\ Cardinality({d \in InConns : Live(d)}) < Slots
  /\ Set(c, [pc |-> "open", gen |-> 0, token |-> connToken, node |-> NoNode])
  /\ UNCHANGED Others

\* The TUN's accept loop, one connection at a time: it loads the generation.
TunAccept(c) ==
  /\ c \in TunConns /\ tunOn /\ ~Live(c)
  /\ \A d \in TunConns : conn[d].pc # "accepted"
  /\ Set(c, [NoConn EXCEPT !.pc = "accepted", !.gen = generation])
  /\ UNCHANGED Others

\* It then clones the token and spawns handle_accepted.
TunSpawn(c) ==
  /\ conn[c].pc = "accepted"
  /\ Set(c, [conn[c] EXCEPT !.pc = "check", !.token = relayToken])
  /\ UNCHANGED Others

\* Mutant: handle_accepted looks at the token only.
TunCheckTokenOnly(c) ==
  /\ conn[c].pc = "check"
  /\ IF Cancelled(c) THEN Close(c) ELSE Set(c, [conn[c] EXCEPT !.pc = "open"])
  /\ UNCHANGED Others

\* handle_accepted: gone if the generation or the token has changed.
TunCheck(c) ==
  /\ conn[c].pc = "check"
  /\ IF conn[c].gen # generation \/ Cancelled(c)
     THEN Close(c) ELSE Set(c, [conn[c] EXCEPT !.pc = "open"])
  /\ UNCHANGED Others

\* dial_async reads `current`; without a node it fails.
Dial(c) ==
  /\ conn[c].pc = "open"
  /\ IF current = NoNode THEN Close(c)
     ELSE Set(c, [conn[c] EXCEPT !.pc = "dial", !.node = current])
  /\ UNCHANGED Others

\* The node is connected.  An HTTP tunnel first forwards what the client has sent:
\* flush_first_record, or the rewritten request; outside any select!.
Connected(c) ==
  /\ conn[c].pc = "dial"
  /\ Set(c, [conn[c] EXCEPT !.pc = IF c \in InConns THEN "first" ELSE "relay"])
  /\ UNCHANGED Others

\* The first bytes are through.
Flushed(c) ==
  /\ conn[c].pc = "first"
  /\ Set(c, [conn[c] EXCEPT !.pc = "relay"])
  /\ UNCHANGED Others

\* Mutant: the dial does not watch the token.
SeeCancelRelayOnly(c) ==
  /\ conn[c].pc = "relay" /\ Cancelled(c)
  /\ Close(c)
  /\ UNCHANGED Others

\* The select! around the dial and the one around the relay.
SeeCancel(c) ==
  /\ conn[c].pc \in {"dial", "relay"} /\ Cancelled(c)
  /\ Close(c)
  /\ UNCHANGED Others

\* A bad request, a rule that rejects or goes direct (no node), a failed dial, or
\* the end of the relay.
End(c) ==
  /\ conn[c].pc \in {"open", "dial", "first", "relay"}
  /\ Close(c)
  /\ UNCHANGED Others

TaskStep(t) == NodeChanged(t) \/ BumpGeneration(t) \/ NodeSelected(t)

Next ==
  \/ \E n \in Nodes : SelectNode(n)
  \/ \E l \in NodeLists : SwitchProfile(l) \/ UpdateProfile(l) \/ AddProfile(l)
  \/ AbortActive
  \/ \E t \in Tasks : TaskStep(t)
  \/ \E c \in Conns : \/ Accept(c) \/ TunAccept(c) \/ TunSpawn(c) \/ TunCheck(c)
                     \/ Dial(c) \/ Connected(c) \/ Flushed(c) \/ SeeCancel(c) \/ End(c)

Spec == Init /\ [][Next]_vars

\* tokio polls what is ready: the accept loop and handle_accepted go on, a request
\* that is complete (or 10 s late) is dialled or refused, a cancelled token is seen
\* where a select! watches it.  Not fair: the server may never answer the dial, and
\* never take the first bytes.
FairSpec ==
  /\ Spec
  /\ \A c \in Conns : /\ WF_vars(TunSpawn(c)) /\ WF_vars(TunCheck(c))
                      /\ WF_vars(Dial(c)) /\ WF_vars(SeeCancel(c))

-------------------------------------------------------------------------------
\* No tunnel of the HTTP listener stays on another node than the current one: one
\* that does has its token cancelled, whatever was accepted, read or dialled while
\* the change was made (set_current before abort_active, main.rs:747), but for
\* confirm_dialog, which makes a new profile current and aborts nothing.
TunnelsFollowNode ==
  ui = "idle" /\ ~skipped =>
    \A c \in InConns :
      conn[c].pc \in {"dial", "first", "relay"} /\ ~Cancelled(c) => conn[c].node = current

\* Once bump_generation is through, every TUN connection of an earlier generation
\* is dropped by the check or cancelled, also one that was accepted while the
\* counter and the token were being replaced (stack.rs:110, 286, 306).
OneGeneration ==
  (\A t \in Tasks : task[t].pc \notin {"swap", "cancel"}) =>
    \A c \in TunConns :
      conn[c].pc \in {"open", "dial", "relay"} /\ ~Cancelled(c) => conn[c].gen = generation

\* One node change at a time that did not fail ends with the list, the dialer and
\* the host route in agreement.  Profile changes in enhance mode other than
\* update_profile never touch the route (main.rs:674, 1101, 1237).
ChangeAgrees ==
  Quiet /\ ~overlap => selected = current /\ (tunOn => route = current)

\* A connection whose token was cancelled ends, whatever it was doing, unless it is
\* handing the first bytes to the node, which no select! covers (inbound.rs:315).
CutEnds == \A c \in Conns : Cancelled(c) ~> (~Live(c) \/ conn[c].pc = "first")

===============================================================================

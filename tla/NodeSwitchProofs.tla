--------------------------- MODULE NodeSwitchProofs ---------------------------
(***************************************************************************)
(* Changing the node while connections are open: no tunnel stays on        *)
(* another node than the current one, no TUN connection of an earlier      *)
(* generation survives, and a change that nothing disturbs leaves list,    *)
(* dialer and host route in agreement.  For any number of connections,     *)
(* node changes in flight, profiles and changes.                           *)
(***************************************************************************)
EXTENDS NodeSwitch, TLAPS

Task == [pc : {"none", "changed", "route", "generation", "swap", "cancel", "ui"},
         node : Nodes \cup {NoNode}, select : BOOLEAN, ok : BOOLEAN]
Conn == [pc : {"closed", "accepted", "check", "open", "dial", "first", "relay"},
         gen : Nat, token : Nat, node : Nodes \cup {NoNode}]

TypeOK ==
  /\ tunOn \in BOOLEAN /\ list \in NodeLists
  /\ selected \in Nodes \cup {NoNode} /\ current \in Nodes \cup {NoNode} /\ route \in Nodes \cup {NoNode}
  /\ ui \in {"idle", "abort", "abortThenRoute"}
  /\ task \in [Tasks -> Task]
  /\ generation \in Nat /\ relayToken \in Nat /\ relayCut \in Nat /\ connToken \in Nat
  /\ conn \in [Conns -> Conn]
  /\ skipped \in BOOLEAN /\ overlap \in BOOLEAN /\ used \in Nat

\* bump_generation runs under the runtime mutex: one call at a time, and its three
\* steps keep the counter, the token and the cancelled tokens one apart at most.
Bumping == {"generation", "swap", "cancel"}

OneBump == \A t, u \in Tasks : task[t].pc \in Bumping /\ task[u].pc \in Bumping => t = u

InStep ==
  /\ \A t \in Tasks : task[t].pc = "swap" => generation = relayToken + 1
  /\ (\A t \in Tasks : task[t].pc # "swap") => generation = relayToken
  /\ relayCut <= relayToken
  /\ (\A t \in Tasks : task[t].pc # "cancel") => relayCut = relayToken

\* A connection holds a token that existed, and a TUN connection that has passed
\* the check holds one that is no younger than its generation.
TokensTaken ==
  \A c \in Conns :
    /\ conn[c].pc \in {"accepted", "check"} => c \in TunConns
    /\ c \in InConns => conn[c].token <= connToken
    /\ c \in TunConns => conn[c].gen <= generation /\ conn[c].token <= relayToken
    /\ c \in TunConns /\ conn[c].pc \in {"open", "dial", "first", "relay"} => conn[c].token <= conn[c].gen

\* Where a change stands that nothing has disturbed: the UI callback or one task is
\* at it, and what is left to do brings the node to where it is missing.
Busy(t) == task[t].pc # "none"

Undisturbed ==
  ~overlap =>
    /\ \A t, u \in Tasks : Busy(t) /\ Busy(u) => t = u
    /\ ui # "idle" => \A t \in Tasks : ~Busy(t)
    /\ ui = "abort" => selected = current /\ (tunOn => route = current)
    /\ ui = "abortThenRoute" => selected = current
    /\ \A t \in Tasks :
         Busy(t) =>
           /\ task[t].node = selected
           /\ ~task[t].select => selected = current
           /\ task[t].pc \in Bumping => route = selected
           /\ task[t].pc = "ui" => task[t].ok /\ (tunOn => route = selected)

SwitchInv ==
  /\ TypeOK /\ OneBump /\ InStep /\ TokensTaken
  /\ TunnelsFollowNode
  /\ Undisturbed /\ ChangeAgrees

-------------------------------------------------------------------------------
(* What the steps make of a task, a connection and the selection.              *)

TaskPcs == {"none", "changed", "route", "generation", "swap", "cancel", "ui"}

\* A step of a task touches this task's program counter.
LEMMA GotoEffect ==
  ASSUME task \in [Tasks -> Task], NEW t \in Tasks, NEW p \in TaskPcs, Goto(t, p)
  PROVE  /\ task' \in [Tasks -> Task]
         /\ task'[t].pc = p /\ task'[t].node = task[t].node
         /\ task'[t].select = task[t].select /\ task'[t].ok = task[t].ok
         /\ \A u \in Tasks : u # t => task'[u] = task[u]
<1>1. [task[t] EXCEPT !.pc = p] \in Task
  BY DEF Task, TaskPcs
<1>2. task' = [task EXCEPT ![t] = [task[t] EXCEPT !.pc = p]]
  BY DEF Goto
<1> QED
  BY <1>1, <1>2 DEF Task

\* on_node_changed returns to the UI.
LEMMA ResultEffect ==
  ASSUME task \in [Tasks -> Task], NEW t \in Tasks, NEW ok \in BOOLEAN, Result(t, ok)
  PROVE  /\ task' \in [Tasks -> Task]
         /\ task'[t].pc = "ui" /\ task'[t].node = task[t].node
         /\ task'[t].select = task[t].select /\ task'[t].ok = ok
         /\ \A u \in Tasks : u # t => task'[u] = task[u]
<1>1. [task[t] EXCEPT !.pc = "ui", !.ok = ok] \in Task
  BY DEF Task
<1>2. task' = [task EXCEPT ![t] = [task[t] EXCEPT !.pc = "ui", !.ok = ok]]
  BY DEF Result
<1> QED
  BY <1>1, <1>2 DEF Task

\* A spawned task starts from nothing.
LEMMA SpawnEffect ==
  ASSUME task \in [Tasks -> Task], NEW n \in Nodes \cup {NoNode}, NEW s \in BOOLEAN, Spawn(n, s)
  PROVE  \E t \in Tasks :
           /\ task[t].pc = "none"
           /\ task' \in [Tasks -> Task]
           /\ task'[t].pc = "changed" /\ task'[t].node = n /\ task'[t].select = s
           /\ \A u \in Tasks : u # t => task'[u] = task[u]
<1>1. [pc |-> "changed", node |-> n, select |-> s, ok |-> FALSE] \in Task
  BY DEF Task
<1>2. PICK t \in Tasks :
        /\ task[t].pc = "none"
        /\ task' = [task EXCEPT ![t] = [pc |-> "changed", node |-> n, select |-> s, ok |-> FALSE]]
  BY DEF Spawn
<1> QED
  BY <1>1, <1>2

\* reload_nodes selects a node or none.
LEMMA ReselectedType ==
  ASSUME TypeOK, NEW l \in NodeLists
  PROVE  Reselected(l) \in Nodes \cup {NoNode}
<1>1. l \in Seq(NodesIn(l))
  BY SwitchAssumption
<1>2. l # <<>> => l[1] \in NodesIn(l)
  BY <1>1
<1>3. NodesIn(l) \subseteq Nodes
  BY DEF Nodes
<1> QED
  BY <1>2, <1>3 DEF Reselected, TypeOK

-------------------------------------------------------------------------------
(* The connections.                                                            *)

\* What a connection may become while a change is made.
Admissible(c, r) ==
  /\ r \in Conn
  /\ r.pc \in {"accepted", "check"} => c \in TunConns
  /\ c \in InConns => r.token <= connToken
  /\ c \in TunConns => r.gen <= generation /\ r.token <= relayToken
  /\ c \in TunConns /\ r.pc \in {"open", "dial", "first", "relay"} => r.token <= r.gen
  /\ c \in InConns /\ ui = "idle" /\ ~skipped /\ r.pc \in {"dial", "first", "relay"}
       => r.token < connToken \/ r.node = current

LEMMA ConnStep ==
  ASSUME SwitchInv, NEW c \in Conns, NEW r, Admissible(c, r), Set(c, r), UNCHANGED Others
  PROVE  SwitchInv'
<1> USE DEF SwitchInv, Others, shared
<1>1. TypeOK'
  BY DEF TypeOK, Admissible, Set
<1>2. conn'[c] = r /\ \A d \in Conns : d # c => conn'[d] = conn[d]
  BY DEF TypeOK, Set
<1>3. OneBump' /\ InStep' /\ Undisturbed' /\ ChangeAgrees'
  BY DEF OneBump, InStep, Undisturbed, Busy, ChangeAgrees, Quiet
<1>4. TokensTaken'
  BY <1>2 DEF TokensTaken, Admissible
<1>5. TunnelsFollowNode'
  BY <1>2 DEF TunnelsFollowNode, Cancelled, Admissible, Conns
<1> QED
  BY <1>1, <1>3, <1>4, <1>5

\* Accept loops, dials, relays and their ends: whatever a connection does while a
\* change is made, it takes its token before it reads `current` and its generation
\* before its token (inbound.rs, stack.rs:280-330).
LEMMA ConnsStep ==
  ASSUME SwitchInv, NEW c \in Conns,
         \/ Accept(c) \/ TunAccept(c) \/ TunSpawn(c) \/ TunCheck(c)
         \/ Dial(c) \/ Connected(c) \/ Flushed(c) \/ SeeCancel(c) \/ End(c)
  PROVE  SwitchInv'
<1> USE SwitchAssumption
<1>0. TypeOK /\ TokensTaken /\ TunnelsFollowNode /\ relayToken <= generation /\ conn[c] \in Conn
  BY DEF SwitchInv, InStep, TypeOK
<1>1. Admissible(c, NoConn)
  BY <1>0 DEF Admissible, NoConn, Conn, TypeOK
<1>2. ASSUME Close(c), UNCHANGED Others PROVE SwitchInv'
  BY <1>1, <1>2, ConnStep DEF Close
<1>3. CASE Accept(c)
  <2> DEFINE r == [pc |-> "open", gen |-> 0, token |-> connToken, node |-> NoNode]
  <2>1. Admissible(c, r)
    BY <1>0, <1>3 DEF Admissible, Accept, Conn, TypeOK
  <2> QED
    BY <1>3, <2>1, ConnStep DEF Accept
<1>4. CASE TunAccept(c)
  <2> DEFINE r == [NoConn EXCEPT !.pc = "accepted", !.gen = generation]
  <2>1. r \in Conn /\ r.pc = "accepted" /\ r.gen = generation /\ r.token = 0
    BY <1>0 DEF NoConn, Conn, TypeOK
  <2>2. c \in TunConns /\ c \notin InConns /\ Set(c, r) /\ UNCHANGED Others
    BY <1>4 DEF TunAccept
  <2> HIDE DEF r
  <2>3. Admissible(c, r)
    BY <1>0, <2>1, <2>2 DEF Admissible, TypeOK
  <2> QED
    BY <2>2, <2>3, ConnStep
<1>5. CASE TunSpawn(c)
  <2> DEFINE r == [conn[c] EXCEPT !.pc = "check", !.token = relayToken]
  <2>1. r \in Conn /\ r.pc = "check" /\ r.gen = conn[c].gen /\ r.token = relayToken
    BY <1>0 DEF Conn, TypeOK
  <2>2. c \in TunConns /\ c \notin InConns /\ Set(c, r) /\ UNCHANGED Others
    BY <1>0, <1>5 DEF TunSpawn, TokensTaken
  <2> HIDE DEF r
  <2>3. Admissible(c, r)
    BY <1>0, <2>1, <2>2 DEF Admissible, TypeOK, TokensTaken
  <2> QED
    BY <2>2, <2>3, ConnStep
<1>6. CASE TunCheck(c)
  <2> DEFINE r == [conn[c] EXCEPT !.pc = "open"]
  <2>1. CASE conn[c].gen # generation \/ Cancelled(c)
    BY <1>2, <1>6, <2>1 DEF TunCheck
  <2>2. CASE ~(conn[c].gen # generation \/ Cancelled(c))
    <3>1. r \in Conn /\ r.pc = "open" /\ r.gen = generation /\ r.token = conn[c].token
      BY <1>0, <2>2 DEF Conn, TypeOK
    <3>2. c \in TunConns /\ c \notin InConns /\ Set(c, r) /\ UNCHANGED Others
      BY <1>0, <1>6, <2>2 DEF TunCheck, TokensTaken
    <3> HIDE DEF r
    <3>3. conn[c].token <= relayToken /\ conn[c].token \in Nat
      BY <1>0, <3>2 DEF TokensTaken, Conn
    <3>4. Admissible(c, r)
      BY <1>0, <3>1, <3>2, <3>3 DEF Admissible, TypeOK
    <3> QED
      BY <3>2, <3>4, ConnStep
  <2> QED
    BY <2>1, <2>2
<1>7. CASE Dial(c)
  <2> DEFINE r == [conn[c] EXCEPT !.pc = "dial", !.node = current]
  <2>1. CASE current = NoNode
    BY <1>2, <1>7, <2>1 DEF Dial
  <2>2. CASE current # NoNode
    <3>1. Admissible(c, r)
      BY <1>0, <1>7, <2>2 DEF Admissible, Dial, Conn, TypeOK, TokensTaken
    <3> QED
      BY <1>7, <2>2, <3>1, ConnStep DEF Dial
  <2> QED
    BY <2>1, <2>2
<1>8. ASSUME NEW p \in {"first", "relay"}, conn[c].pc \in {"dial", "first"},
             Set(c, [conn[c] EXCEPT !.pc = p]), UNCHANGED Others
      PROVE  SwitchInv'
  <2> DEFINE r == [conn[c] EXCEPT !.pc = p]
  <2>1. Admissible(c, r)
    BY <1>0, <1>8 DEF Admissible, Conn, TypeOK, TokensTaken, TunnelsFollowNode, Cancelled
  <2> QED
    BY <1>8, <2>1, ConnStep
<1>9. CASE Connected(c)
  BY <1>8, <1>9 DEF Connected
<1>10. CASE Flushed(c)
  BY <1>8, <1>10 DEF Flushed
<1>11. CASE SeeCancel(c) \/ End(c)
  BY <1>2, <1>11 DEF SeeCancel, End
<1> QED
  BY <1>3, <1>4, <1>5, <1>6, <1>7, <1>9, <1>10, <1>11

-------------------------------------------------------------------------------
(* The user's changes and the tasks they spawn.                                *)

\* Nothing a change does to the tokens or the generation takes a connection's own
\* away from it.
LEMMA TokensGrow ==
  ASSUME TypeOK, TokensTaken, UNCHANGED conn,
         connToken' \in Nat, connToken <= connToken',
         generation' \in Nat, generation <= generation',
         relayToken' \in Nat, relayToken <= relayToken'
  PROVE  TokensTaken'
  BY DEF TypeOK, TokensTaken, Conn

\* A change of the user's that finds another one in flight is an overlap; one that
\* finds none starts from agreement.
LEMMA UserStep ==
  ASSUME SwitchInv,
         \/ \E n \in Nodes : SelectNode(n)
         \/ \E l \in NodeLists : SwitchProfile(l) \/ UpdateProfile(l) \/ AddProfile(l)
  PROVE  SwitchInv'
<1> USE DEF SwitchInv
<1>1. ASSUME NEW n \in Nodes, SelectNode(n) PROVE SwitchInv'
  <2>1. /\ ui = "idle" /\ selected' = n /\ overlap' = (overlap \/ ~Quiet) /\ used' = used + 1
        /\ UNCHANGED <<tunOn, list, current, route, ui, generation, relayToken, relayCut, connToken,
                       conn, skipped>>
    BY <1>1 DEF SelectNode, UserActs
  <2>2. PICK t \in Tasks :
           /\ task[t].pc = "none"
           /\ task' \in [Tasks -> Task]
           /\ task'[t].pc = "changed" /\ task'[t].node = n /\ task'[t].select = TRUE
           /\ \A u \in Tasks : u # t => task'[u] = task[u]
    BY <1>1, SpawnEffect DEF SelectNode, TypeOK
  <2>3. TypeOK'
    BY <2>1, <2>2 DEF TypeOK
  <2>4. OneBump' /\ InStep'
    BY <2>1, <2>2 DEF OneBump, InStep, Bumping
  <2>5. TokensTaken' /\ TunnelsFollowNode'
    BY <2>1 DEF TokensTaken, TunnelsFollowNode, Cancelled
  <2>6. ~overlap' => ~overlap /\ \A u \in Tasks : task[u].pc = "none"
    BY <2>1 DEF Quiet
  <2>7. ChangeAgrees'
    BY <2>2 DEF ChangeAgrees, Quiet
  <2>8. Undisturbed'
    BY <2>1, <2>2, <2>6 DEF Undisturbed, Busy, Bumping
  <2> QED
    BY <2>3, <2>4, <2>5, <2>7, <2>8
<1>2. ASSUME NEW l \in NodeLists, Reload(l), ui = "idle", used' = used + 1, UNCHANGED task,
             ui' \in {"idle", "abort", "abortThenRoute"}, skipped' \in BOOLEAN, overlap' \in BOOLEAN
      PROVE  (TypeOK /\ OneBump /\ InStep /\ TokensTaken)'
  BY <1>2, ReselectedType DEF Reload, TypeOK, OneBump, InStep, TokensTaken
<1>3. ASSUME NEW l \in NodeLists, SwitchProfile(l) \/ UpdateProfile(l) PROVE SwitchInv'
  <2>1. /\ Reload(l) /\ ui = "idle" /\ used' = used + 1 /\ UNCHANGED <<task, skipped>>
        /\ ui' \in {"abort", "abortThenRoute"} /\ overlap' \in BOOLEAN
    BY <1>3 DEF SwitchProfile, UpdateProfile, UserActs, TypeOK
  <2>2. (TypeOK /\ OneBump /\ InStep /\ TokensTaken)'
    BY <1>2, <2>1 DEF TypeOK
  <2>3. TunnelsFollowNode' /\ ChangeAgrees'
    BY <2>1 DEF TunnelsFollowNode, ChangeAgrees, Quiet
  <2>4. selected' = current'
    BY <2>1 DEF Reload
  <2>5. ~overlap' => ~overlap /\ Quiet /\ (tunOn => ui' = "abortThenRoute")
    BY <1>3 DEF SwitchProfile, UpdateProfile
  <2>6. Undisturbed'
    BY <2>1, <2>4, <2>5 DEF Undisturbed, Busy, Quiet, Reload
  <2> QED
    BY <2>2, <2>3, <2>6
<1>4. ASSUME NEW l \in NodeLists, AddProfile(l) PROVE SwitchInv'
  <2>1. /\ Reload(l) /\ ui = "idle" /\ used' = used + 1 /\ UNCHANGED <<task, ui>>
        /\ skipped' = (skipped \/ Reselected(l) # current)
        /\ overlap' = (overlap \/ ~Quiet \/ tunOn)
    BY <1>4 DEF AddProfile, UserActs
  <2>2. (TypeOK /\ OneBump /\ InStep /\ TokensTaken)'
    BY <1>2, <2>1 DEF TypeOK
  <2>3. TunnelsFollowNode'
    BY <2>1 DEF TunnelsFollowNode, Cancelled, Reload
  <2>4. Undisturbed' /\ ChangeAgrees'
    BY <2>1 DEF Undisturbed, Busy, ChangeAgrees, Quiet, Reload, TypeOK
  <2> QED
    BY <2>2, <2>3, <2>4
<1> QED
  BY <1>1, <1>3, <1>4

\* abort_active cancels every token there is, so that no tunnel on the node before
\* is left (main.rs:747).
LEMMA AbortStep ==
  ASSUME SwitchInv, AbortActive
  PROVE  SwitchInv'
<1> USE DEF SwitchInv
<1>1. /\ ui \in {"abort", "abortThenRoute"} /\ ui' = "idle" /\ connToken' = connToken + 1
      /\ skipped' = FALSE
      /\ UNCHANGED <<tunOn, list, selected, current, route, generation, relayToken, relayCut, conn,
                     overlap, used>>
  BY DEF AbortActive
<1>2. TokensTaken'
  BY <1>1, TokensGrow DEF TypeOK
<1>0. ASSUME task' \in [Tasks -> Task] PROVE TypeOK'
  <2>1. skipped' \in BOOLEAN
    <3>1. skipped' = FALSE
      BY <1>1
    <3> QED
      BY <3>1
  <2>3. ui' \in {"idle", "abort", "abortThenRoute"} /\ connToken' \in Nat
    BY <1>1 DEF TypeOK
  <2>2. UNCHANGED <<tunOn, list, selected, current, route, generation, relayToken, relayCut, conn,
                    overlap, used>>
    BY <1>1
  <2> QED
    BY <1>0, <2>1, <2>2, <2>3 DEF TypeOK
<1>3. TunnelsFollowNode'
  BY <1>1 DEF TypeOK, TokensTaken, TunnelsFollowNode, Cancelled, Conns, Conn
<1>4. CASE ui = "abort"
  <2>1. UNCHANGED task
    BY <1>4 DEF AbortActive
  <2>2. TypeOK' /\ OneBump' /\ InStep'
    <3>1. TypeOK'
      BY <1>0, <2>1 DEF TypeOK
    <3>2. OneBump' /\ InStep'
      BY <1>1, <2>1 DEF OneBump, InStep
    <3> QED
      BY <3>1, <3>2
  <2>3. Undisturbed' /\ ChangeAgrees'
    BY <1>1, <1>4, <2>1 DEF Undisturbed, Busy, ChangeAgrees, Quiet
  <2> QED
    BY <1>2, <1>3, <2>2, <2>3
<1>5. CASE ui = "abortThenRoute"
  <2>1. Spawn(selected, FALSE)
    BY <1>5 DEF AbortActive
  <2>2. PICK t \in Tasks :
           /\ task[t].pc = "none"
           /\ task' \in [Tasks -> Task]
           /\ task'[t].pc = "changed" /\ task'[t].node = selected /\ task'[t].select = FALSE
           /\ \A u \in Tasks : u # t => task'[u] = task[u]
    BY <2>1, SpawnEffect DEF TypeOK
  <2>3. TypeOK' /\ OneBump' /\ InStep'
    <3>1. TypeOK'
      BY <1>0, <2>2
    <3>2. OneBump' /\ InStep'
      BY <1>1, <2>2 DEF OneBump, InStep, Bumping
    <3> QED
      BY <3>1, <3>2
  <2>4. Undisturbed' /\ ChangeAgrees'
    BY <1>1, <1>5, <2>2 DEF Undisturbed, Busy, ChangeAgrees, Quiet, Bumping
  <2> QED
    BY <1>2, <1>3, <2>3, <2>4
<1> QED
  BY <1>1, <1>4, <1>5

\* on_node_changed up to bump_generation (win.rs).
LEMMA ChangedStep ==
  ASSUME SwitchInv, NEW t \in Tasks, NodeChanged(t)
  PROVE  SwitchInv'
<1> USE DEF SwitchInv
<1>1. UNCHANGED <<tunOn, list, selected, current, ui, generation, relayToken, relayCut, connToken,
                  conn, skipped, used>>
  BY DEF NodeChanged
<1>2. TokensTaken' /\ TunnelsFollowNode'
  BY <1>1 DEF TokensTaken, TunnelsFollowNode, Cancelled
<1>3. CASE task[t].pc = "changed" /\ ~tunOn /\ Result(t, TRUE) /\ UNCHANGED <<route, overlap>>
  <2>1. /\ task' \in [Tasks -> Task]
        /\ task'[t].pc = "ui" /\ task'[t].node = task[t].node
        /\ task'[t].select = task[t].select /\ task'[t].ok = TRUE
        /\ \A u \in Tasks : u # t => task'[u] = task[u]
    BY <1>3, ResultEffect DEF TypeOK
  <2>2. TypeOK' /\ OneBump' /\ InStep'
    BY <1>1, <1>3, <2>1 DEF TypeOK, OneBump, InStep, Bumping
  <2>3. Undisturbed' /\ ChangeAgrees'
    BY <1>1, <1>3, <2>1 DEF Undisturbed, Busy, ChangeAgrees, Quiet, Bumping
  <2> QED
    BY <1>2, <2>2, <2>3
<1>4. CASE task[t].pc = "changed" /\ tunOn /\ Goto(t, "route") /\ UNCHANGED <<route, overlap>>
  <2>1. /\ task' \in [Tasks -> Task]
        /\ task'[t].pc = "route" /\ task'[t].node = task[t].node
        /\ task'[t].select = task[t].select
        /\ \A u \in Tasks : u # t => task'[u] = task[u]
    BY <1>4, GotoEffect DEF TypeOK, TaskPcs
  <2>2. TypeOK' /\ OneBump' /\ InStep'
    BY <1>1, <1>4, <2>1 DEF TypeOK, OneBump, InStep, Bumping
  <2>3. Undisturbed' /\ ChangeAgrees'
    BY <1>1, <1>4, <2>1 DEF Undisturbed, Busy, ChangeAgrees, Quiet, Bumping
  <2> QED
    BY <1>2, <2>2, <2>3
<1>5. CASE /\ task[t].pc \in {"changed", "route"} /\ Result(t, FALSE) /\ overlap' = TRUE
           /\ route' \in {route, task[t].node}
  <2>1. /\ task' \in [Tasks -> Task] /\ task'[t].pc = "ui"
        /\ \A u \in Tasks : u # t => task'[u] = task[u]
    BY <1>5, ResultEffect DEF TypeOK
  <2>2. task[t].node \in Nodes \cup {NoNode}
    BY DEF TypeOK, Task
  <2>3. TypeOK' /\ OneBump' /\ InStep'
    BY <1>1, <1>5, <2>1, <2>2 DEF TypeOK, OneBump, InStep, Bumping
  <2>4. Undisturbed' /\ ChangeAgrees'
    BY <1>5 DEF Undisturbed, ChangeAgrees
  <2> QED
    BY <1>2, <2>3, <2>4
<1>6. CASE /\ task[t].pc = "route" /\ route' = task[t].node /\ Goto(t, "generation") /\ UNCHANGED overlap
           /\ \A u \in Tasks : task[u].pc \notin {"generation", "swap", "cancel"}
  <2>1. /\ task' \in [Tasks -> Task]
        /\ task'[t].pc = "generation" /\ task'[t].node = task[t].node
        /\ task'[t].select = task[t].select
        /\ \A u \in Tasks : u # t => task'[u] = task[u]
    BY <1>6, GotoEffect DEF TypeOK, TaskPcs
  <2>2. task[t].node \in Nodes \cup {NoNode}
    BY DEF TypeOK, Task
  <2>3. TypeOK' /\ OneBump' /\ InStep'
    BY <1>1, <1>6, <2>1, <2>2 DEF TypeOK, OneBump, InStep, Bumping
  <2>4. Undisturbed' /\ ChangeAgrees'
    BY <1>1, <1>6, <2>1 DEF Undisturbed, Busy, ChangeAgrees, Quiet, Bumping
  <2> QED
    BY <1>2, <2>3, <2>4
<1> QED
  BY <1>3, <1>4, <1>5, <1>6 DEF NodeChanged

\* bump_generation: the counter, the token, the cancel (stack.rs:105-115).
LEMMA BumpStep ==
  ASSUME SwitchInv, NEW t \in Tasks, BumpGeneration(t)
  PROVE  SwitchInv'
<1> USE DEF SwitchInv
<1>1. UNCHANGED <<tunOn, list, selected, current, route, ui, connToken, conn, skipped, overlap, used>>
  BY DEF BumpGeneration
<1>2. /\ TunnelsFollowNode'
  BY <1>1, SwitchAssumption DEF TunnelsFollowNode, Cancelled
<1>3. \A u \in Tasks : u # t /\ task[t].pc \in Bumping => task[u].pc \notin Bumping
  BY DEF OneBump
<1>4. CASE /\ task[t].pc = "generation" /\ generation' = generation + 1
           /\ Goto(t, "swap") /\ UNCHANGED <<relayToken, relayCut>>
  <2>1. /\ task' \in [Tasks -> Task]
        /\ task'[t].pc = "swap" /\ task'[t].node = task[t].node
        /\ task'[t].select = task[t].select
        /\ \A u \in Tasks : u # t => task'[u] = task[u]
    BY <1>4, GotoEffect DEF TypeOK, TaskPcs
  <2>2. TypeOK' /\ OneBump' /\ InStep'
    BY <1>1, <1>3, <1>4, <2>1 DEF TypeOK, OneBump, InStep, Bumping
  <2>3. TokensTaken'
    BY <1>1, <1>4, TokensGrow DEF TypeOK
  <2>4. Undisturbed' /\ ChangeAgrees'
    BY <1>1, <1>4, <2>1 DEF Undisturbed, Busy, ChangeAgrees, Quiet, Bumping
  <2> QED
    BY <1>2, <2>2, <2>3, <2>4
<1>5. CASE /\ task[t].pc = "swap" /\ relayToken' = relayToken + 1
           /\ Goto(t, "cancel") /\ UNCHANGED <<generation, relayCut>>
  <2>1. /\ task' \in [Tasks -> Task]
        /\ task'[t].pc = "cancel" /\ task'[t].node = task[t].node
        /\ task'[t].select = task[t].select
        /\ \A u \in Tasks : u # t => task'[u] = task[u]
    BY <1>5, GotoEffect DEF TypeOK, TaskPcs
  <2>2. TypeOK' /\ OneBump' /\ InStep'
    BY <1>1, <1>3, <1>5, <2>1 DEF TypeOK, OneBump, InStep, Bumping
  <2>3. TokensTaken'
    BY <1>1, <1>5, TokensGrow DEF TypeOK
  <2>4. Undisturbed' /\ ChangeAgrees'
    BY <1>1, <1>5, <2>1 DEF Undisturbed, Busy, ChangeAgrees, Quiet, Bumping
  <2> QED
    BY <1>2, <2>2, <2>3, <2>4
<1>6. CASE /\ task[t].pc = "cancel" /\ relayCut' = relayToken
           /\ Result(t, TRUE) /\ UNCHANGED <<generation, relayToken>>
  <2>1. /\ task' \in [Tasks -> Task]
        /\ task'[t].pc = "ui" /\ task'[t].node = task[t].node
        /\ task'[t].select = task[t].select /\ task'[t].ok = TRUE
        /\ \A u \in Tasks : u # t => task'[u] = task[u]
    BY <1>6, ResultEffect DEF TypeOK
  <2>2. TypeOK' /\ OneBump' /\ InStep'
    BY <1>1, <1>3, <1>6, <2>1 DEF TypeOK, OneBump, InStep, Bumping
  <2>3. TokensTaken'
    BY <1>1, <1>6, TokensGrow DEF TypeOK
  <2>4. Undisturbed' /\ ChangeAgrees'
    BY <1>1, <1>6, <2>1 DEF Undisturbed, Busy, ChangeAgrees, Quiet, Bumping
  <2> QED
    BY <1>2, <2>2, <2>3, <2>4
<1> QED
  BY <1>4, <1>5, <1>6 DEF BumpGeneration

\* The callback makes the node current and leaves abort_active to do (main.rs:740).
LEMMA SelectedStep ==
  ASSUME SwitchInv, NEW t \in Tasks, NodeSelected(t)
  PROVE  SwitchInv'
<1> USE DEF SwitchInv
<1>1. /\ task[t].pc = "ui" /\ ui = "idle" /\ task' = [task EXCEPT ![t] = NoTask]
      /\ UNCHANGED <<tunOn, list, selected, route, generation, relayToken, relayCut, connToken,
                     conn, skipped, overlap, used>>
  BY DEF NodeSelected
<1>2. NoTask \in Task /\ NoTask.pc = "none"
  BY DEF NoTask, Task
<1>3. /\ task' \in [Tasks -> Task] /\ task'[t].pc = "none"
      /\ \A u \in Tasks : u # t => task'[u] = task[u]
  BY <1>1, <1>2 DEF TypeOK
<1>4. task[t].node \in Nodes \cup {NoNode}
  BY DEF TypeOK, Task
<1>5. OneBump' /\ InStep' /\ TokensTaken'
  BY <1>1, <1>3 DEF OneBump, InStep, TokensTaken, Bumping
<1>6. CASE task[t].select /\ task[t].ok /\ current' = task[t].node /\ ui' = "abort"
  <2>1. TypeOK'
    BY <1>1, <1>3, <1>4, <1>6 DEF TypeOK
  <2>2. TunnelsFollowNode' /\ ChangeAgrees'
    BY <1>6 DEF TunnelsFollowNode, ChangeAgrees, Quiet
  <2>3. Undisturbed'
    BY <1>1, <1>3, <1>6 DEF Undisturbed, Busy
  <2> QED
    BY <1>5, <2>1, <2>2, <2>3
<1>7. CASE ~(task[t].select /\ task[t].ok) /\ UNCHANGED <<current, ui>>
  <2>1. TypeOK'
    BY <1>1, <1>3, <1>7 DEF TypeOK
  <2>2. TunnelsFollowNode'
    BY <1>1, <1>7 DEF TunnelsFollowNode, Cancelled
  <2>3. Undisturbed' /\ ChangeAgrees'
    BY <1>1, <1>3, <1>7 DEF Undisturbed, Busy, ChangeAgrees, Quiet
  <2> QED
    BY <1>5, <2>1, <2>2, <2>3
<1> QED
  BY <1>6, <1>7 DEF NodeSelected

-------------------------------------------------------------------------------
LEMMA SwitchStep ==
  ASSUME SwitchInv, [Next]_vars
  PROVE  SwitchInv'
<1>1. CASE UNCHANGED vars
  BY <1>1 DEF vars, shared, SwitchInv, TypeOK, OneBump, InStep, TokensTaken, TunnelsFollowNode,
              Cancelled, Undisturbed, Busy, ChangeAgrees, Quiet
<1>2. CASE Next
  BY <1>2, UserStep, AbortStep, ChangedStep, BumpStep, SelectedStep, ConnsStep DEF Next, TaskStep
<1> QED
  BY <1>1, <1>2

\* The inductive invariant holds in every reachable state.
THEOREM SwitchInvariant == Spec => []SwitchInv
<1>1. Init => SwitchInv
  <2> SUFFICES ASSUME Init PROVE SwitchInv
    OBVIOUS
  <2>1. NoTask \in Task /\ NoTask.pc = "none" /\ NoConn \in Conn /\ NoConn.pc = "closed"
        /\ NoConn.token = 0 /\ NoConn.gen = 0
    BY DEF NoTask, Task, NoConn, Conn
  <2>2. /\ \A t \in Tasks : task[t] = NoTask
        /\ \A c \in Conns : conn[c] = NoConn
    BY DEF Init
  <2>3. selected \in Nodes
    BY DEF Init, Nodes
  <2>4. TypeOK
    BY <2>1, <2>3 DEF Init, TypeOK
  <2>5. OneBump /\ InStep
    BY <2>1, <2>2 DEF Init, OneBump, InStep, Bumping
  <2>6. TokensTaken
    BY <2>1, <2>2 DEF Init, TokensTaken
  <2>7. TunnelsFollowNode
    BY <2>1, <2>2 DEF TunnelsFollowNode, Conns
  <2>8. Undisturbed /\ ChangeAgrees
    BY <2>1, <2>2 DEF Init, Undisturbed, Busy, ChangeAgrees
  <2> QED
    BY <2>4, <2>5, <2>6, <2>7, <2>8 DEF SwitchInv
<1> QED
  BY <1>1, SwitchStep, PTL DEF Spec

\* No tunnel of the HTTP listener stays on another node than the current one,
\* however accepts, requests and dials fall between set_current and abort_active
\* (main.rs:747).
THEOREM SwitchTunnelsFollowNode == Spec => []TunnelsFollowNode
<1>1. SwitchInv => TunnelsFollowNode
  BY DEF SwitchInv
<1> QED
  BY <1>1, SwitchInvariant, PTL

\* Once bump_generation is through, no TUN connection of an earlier generation is
\* left that is not cancelled (stack.rs:110, 286, 306).
THEOREM SwitchOneGeneration == Spec => []OneGeneration
<1>1. SwitchInv => OneGeneration
  <2> SUFFICES ASSUME SwitchInv, \A t \in Tasks : task[t].pc \notin {"swap", "cancel"},
                      NEW c \in TunConns, conn[c].pc \in {"open", "dial", "relay"}, ~Cancelled(c)
               PROVE  conn[c].gen = generation
    BY DEF OneGeneration
  <2>1. generation = relayToken /\ relayCut = relayToken
    BY DEF SwitchInv, InStep
  <2>2. c \notin InConns /\ conn[c] \in Conn
    BY SwitchAssumption DEF SwitchInv, TypeOK, Conns
  <2>3. conn[c].token >= relayCut
    BY <2>2 DEF Cancelled, Conn, SwitchInv, TypeOK
  <2>4. conn[c].token <= conn[c].gen /\ conn[c].gen <= generation
    BY DEF SwitchInv, TokensTaken, Conns
  <2> QED
    BY <2>1, <2>2, <2>3, <2>4 DEF Conn, SwitchInv, TypeOK
<1> QED
  BY <1>1, SwitchInvariant, PTL

\* A node change that nothing disturbs ends with list, dialer and host route in
\* agreement (main.rs:674, 740, 1101).
THEOREM SwitchChangeAgrees == Spec => []ChangeAgrees
<1>1. SwitchInv => ChangeAgrees
  BY DEF SwitchInv
<1> QED
  BY <1>1, SwitchInvariant, PTL

===============================================================================

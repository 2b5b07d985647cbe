---------------------------- MODULE HealthCheck ----------------------------
(***************************************************************************)
(* The health check of the UI: toggle_health of main.rs starts a run, whose *)
(* tasks (check_stream of outbound.rs) probe the nodes under a semaphore    *)
(* and whose loop on the UI thread takes the results, writes them into the  *)
(* list and sorts it.  One cancel flag is shared by all runs.               *)
(***************************************************************************)
EXTENDS Naturals, Sequences, FiniteSets, SequencesExt

CONSTANTS NodeLists,  \* lists a profile may hold: sequences of keys [name, server]
          Permits,    \* probes at a time (30 in the code)
          Results,    \* what a probe may say: "ok", "slow", "failed"
          MaxRuns     \* bound: runs started

Keys == UNION {Range(l) : l \in NodeLists}

ASSUME HealthAssumption == NodeLists \subseteq Seq(Keys) /\ "checking" \notin Results

VARIABLES nodes,      \* the list shown: sequence of [key, health]
          selected,   \* index of the selected node, 0 when there is none
          running,    \* health_running
          cancel,     \* health_cancel
          runs        \* the runs started so far

healthVars == <<nodes, selected, running, cancel, runs>>

IsInfo(key) == key.name = "info"

-----------------------------------------------------------------------------
Fresh(l) == [i \in DOMAIN l |-> [key |-> l[i], health |-> "idle"]]

(* Index of the first element that satisfies P, 0 when there is none. *)
First(l, P(_)) ==
    IF \E i \in DOMAIN l : P(l[i]) THEN CHOOSE i \in DOMAIN l : P(l[i]) /\ \A j \in 1 .. i - 1 : ~P(l[j]) ELSE 0

FindSavedNode(l, want) ==
    LET exact == First(l, LAMBDA n : n.key = want)
        byName == First(l, LAMBDA n : n.key.name = want.name /\ ~IsInfo(n.key))
    IN  IF exact # 0 THEN exact ELSE byName

HealthRank(n) ==
    IF IsInfo(n.key)
    THEN 0
    ELSE CASE n.health = "ok" -> 1 [] n.health = "slow" -> 2 [] n.health = "failed" -> 3 [] OTHER -> 4

(* sort_by is stable: p takes a place of the sorted list to its place in l. *)
Sorts(l, p) ==
    \A i, j \in DOMAIN l :
        i < j => \/ HealthRank(l[p[i]]) < HealthRank(l[p[j]])
                 \/ HealthRank(l[p[i]]) = HealthRank(l[p[j]]) /\ p[i] < p[j]

SortHealthPartial(l) ==
    /\ \E p \in Bijection(DOMAIN l, DOMAIN l) :
         /\ Sorts(l, p)
         /\ nodes' = [i \in DOMAIN l |-> l[p[i]]]
    /\ selected' = IF selected = 0 THEN 0 ELSE FindSavedNode(nodes', nodes[selected].key)

(* apply_health_result for every result of a batch: it goes to the first node
   with its key, and the last one stays. *)
ApplyBatch(l, batch) ==
    [i \in DOMAIN l |->
        LET mine == {k \in DOMAIN batch : batch[k].key = l[i].key}
        IN  IF mine = {} \/ \E j \in 1 .. i - 1 : l[j].key = l[i].key
            THEN l[i]
            ELSE [l[i] EXCEPT !.health = batch[Max(mine)].status]]

-----------------------------------------------------------------------------
HealthInit ==
    /\ \E l \in NodeLists : nodes = Fresh(l)
    /\ selected = First(nodes, LAMBDA n : ~IsInfo(n.key))
    /\ running = FALSE /\ cancel = FALSE
    /\ runs = <<>>

ToggleOff ==
    /\ running
    /\ cancel' = TRUE
    /\ running' = FALSE
    /\ UNCHANGED <<nodes, selected, runs>>

(* A new run: every node but the lines of information is shown as being
   checked, and a task is spawned for it. *)
ToggleOn ==
    LET checking == [i \in DOMAIN nodes |-> IF IsInfo(nodes[i].key) THEN nodes[i] ELSE [nodes[i] EXCEPT !.health = "checking"]]
        checked == {i \in DOMAIN nodes : ~IsInfo(nodes[i].key)}
    IN  /\ ~running
        /\ Len(runs) < MaxRuns
        /\ running' = TRUE
        /\ cancel' = FALSE
        /\ SortHealthPartial(checking)
        /\ runs' = Append(runs, [tasks |-> [i \in checked |-> [key |-> nodes[i].key, at |-> "queued"]],
                                 chan |-> <<>>, got |-> 0, loop |-> "live"])

(* The tasks of a run, `pending` of toggle_health. *)
Pending(r) == Cardinality(DOMAIN runs[r].tasks)

Probing(r) == Cardinality({t \in DOMAIN runs[r].tasks : runs[r].tasks[t].at = "probing"})

(* A task gets its permit; it returns without a word when the run is cancelled. *)
Acquire(r, t) ==
    /\ runs[r].tasks[t].at = "queued"
    /\ Probing(r) < Permits
    /\ runs' = [runs EXCEPT ![r].tasks[t].at = IF cancel THEN "silent" ELSE "probing"]
    /\ UNCHANGED <<nodes, selected, running, cancel>>

(* The receiver is gone once the loop has ended. *)
Sent(r, result) == IF runs[r].loop = "live" THEN Append(runs[r].chan, result) ELSE <<>>

(* The probe ends, after 3 s at the latest, and its result is sent. *)
Probed(r, t) ==
    LET task == runs[r].tasks[t] IN
    /\ task.at = "probing"
    /\ \E s \in Results :
         runs' = IF cancel
                 THEN [runs EXCEPT ![r].tasks[t].at = "silent"]
                 ELSE [runs EXCEPT ![r].tasks[t].at = "sent", ![r].chan = Sent(r, [key |-> task.key, status |-> s])]
    /\ UNCHANGED <<nodes, selected, running, cancel>>

(* Mutant of EndLoop: the loop does not look at the flag. *)
EndLoopWhenAll(r) ==
    /\ runs[r].loop = "live"
    /\ runs[r].got = Pending(r)
    /\ runs' = [runs EXCEPT ![r].loop = "ended", ![r].chan = <<>>]
    /\ running' = FALSE
    /\ UNCHANGED <<nodes, selected, cancel>>

(* One turn of the loop on the UI thread, up to its next timer: it ends when all
   results are in or the flag is set, and otherwise applies what has come. *)
EndLoop(r) ==
    /\ runs[r].loop = "live"
    /\ runs[r].got = Pending(r) \/ cancel
    /\ runs' = [runs EXCEPT ![r].loop = "ended", ![r].chan = <<>>]
    /\ running' = FALSE
    /\ UNCHANGED <<nodes, selected, cancel>>

(* Mutant of TakeBatch: only the last result of a batch is applied. *)
TakeBatchLast(r) ==
    LET batch == runs[r].chan
        got == runs[r].got + Len(batch)
        done == got = Pending(r)
    IN  /\ runs[r].loop = "live" /\ ~cancel
        /\ batch # <<>>
        /\ SortHealthPartial(ApplyBatch(nodes, <<Last(batch)>>))
        /\ runs' = [runs EXCEPT ![r].got = got, ![r].chan = <<>>, ![r].loop = IF done THEN "ended" ELSE @]
        /\ running' = (running /\ ~done)
        /\ UNCHANGED <<cancel>>

TakeBatch(r) ==
    LET batch == runs[r].chan
        got == runs[r].got + Len(batch)
        done == got = Pending(r)
    IN  /\ runs[r].loop = "live" /\ ~cancel
        /\ batch # <<>>
        /\ SortHealthPartial(ApplyBatch(nodes, batch))
        /\ runs' = [runs EXCEPT ![r].got = got, ![r].chan = <<>>, ![r].loop = IF done THEN "ended" ELSE @]
        /\ running' = (running /\ ~done)
        /\ UNCHANGED <<cancel>>

-----------------------------------------------------------------------------
(* reload_nodes, when a profile is updated, switched, added or deleted. *)
ReloadNodes ==
    /\ \E l \in NodeLists : nodes' = Fresh(l)
    /\ LET kept == IF selected = 0 THEN 0 ELSE FindSavedNode(nodes', nodes[selected].key)
       IN  selected' = IF kept # 0 THEN kept ELSE First(nodes', LAMBDA n : ~IsInfo(n.key))
    /\ UNCHANGED <<running, cancel, runs>>

(* A click on a node, as far as the list is concerned. *)
SelectNode ==
    /\ \E i \in DOMAIN nodes :
         /\ ~IsInfo(nodes[i].key)
         /\ selected' = i
    /\ UNCHANGED <<nodes, running, cancel, runs>>

HealthNext ==
    \/ ToggleOff \/ ToggleOn \/ ReloadNodes \/ SelectNode
    \/ \E r \in DOMAIN runs :
         \/ EndLoop(r) \/ TakeBatch(r)
         \/ \E t \in DOMAIN runs[r].tasks : Acquire(r, t) \/ Probed(r, t)

(* Timers and the runtimes: a task runs when it has a permit, a probe has a time
   limit, the loop polls every 20 ms.  Clicks are not fair. *)
HealthFairness ==
    \A r \in 1 .. MaxRuns :
        /\ WF_healthVars(r \in DOMAIN runs /\ (EndLoop(r) \/ TakeBatch(r)))
        /\ WF_healthVars(r \in DOMAIN runs /\ \E t \in DOMAIN runs[r].tasks : Acquire(r, t) \/ Probed(r, t))

HealthSpec == HealthInit /\ [][HealthNext]_healthVars /\ HealthFairness

-----------------------------------------------------------------------------
(* When the loop of the last run has ended and the user did not cancel it, no
   node is left shown as being checked, whatever earlier runs were cancelled and
   overtaken, and whenever the list was replaced meanwhile.  (Results are matched
   by name, server and port: of two equal entries the second stays unanswered.) *)
NoneLeftChecking ==
    runs # <<>> /\ Last(runs).loop = "ended" /\ ~cancel =>
        \A i \in DOMAIN nodes : nodes[i].health = "checking" => \E j \in 1 .. i - 1 : nodes[j].key = nodes[i].key

(* A cancelled run that lost a result while the next one reset the flag. *)
Live(r) == r \in DOMAIN runs /\ runs[r].loop = "live"
Overtaken(r) == r \in DOMAIN runs /\ ~cancel /\ \E t \in DOMAIN runs[r].tasks : runs[r].tasks[t].at = "silent"

(* Every run ends: its loop gets all results or sees the flag.  (The exception is
   a cancelled run overtaken by the next one: its loop polls for ever, and if it does
   end it clears health_running under the run that is at work.) *)
RunEnds == \A r \in 1 .. MaxRuns : Live(r) ~> (~Live(r) \/ Overtaken(r))
=============================================================================

--------------------------- MODULE ModeControlProofs ---------------------------
(***************************************************************************)
(* Proxy mode and enhance mode under any number of spawned futures, user   *)
(* actions and failures: the adapter and its routes always have an owner,  *)
(* the mode on disk is the one shown, and a user who waits for each action *)
(* sees flags that tell the truth and no proxy setting that points at a    *)
(* closed port.                                                            *)
(***************************************************************************)
EXTENDS ModeControl, FiniteSetTheorems, TLAPS

Kinds == {"none", "begin", "stop", "proxy", "elevate"}
Pcs == {"none", "unlisten", "start", "await", "inner", "resolve", "publish", "running", "failed",
        "stop", "stopped", "relisten", "restore", "relaunch", "ui"}

Future == [kind : Kinds, pc : Pcs, left : Nat, keep : BOOLEAN, ok : BOOLEAN]
Usage  == [events : Nat, hasty : BOOLEAN, sysFails : Nat, bindFails : Nat]

TypeOK ==
  /\ admin \in BOOLEAN
  /\ proxyOn \in BOOLEAN /\ enhanceOn \in BOOLEAN /\ busy \in BOOLEAN /\ showElevate \in BOOLEAN
  /\ saved \in Modes
  /\ sysFlag \in BOOLEAN /\ osProxy \in BOOLEAN /\ listening \in BOOLEAN /\ serving \in BOOLEAN
  /\ running \in BOOLEAN /\ starting \in BOOLEAN /\ runtime \in BOOLEAN /\ tunUp \in BOOLEAN
  /\ task \in [Tasks -> Future]
  /\ phase \in {"boot", "up", "exiting", "closing", "gone"}
  /\ exitTimer \in BOOLEAN
  /\ used \in Usage

\* Each kind of future goes through its own awaits.
RightPath(f) ==
  /\ f.pc = "unlisten" => f.kind \in {"begin", "elevate"}
  /\ f.pc \in {"start", "await", "inner", "resolve", "publish", "running", "failed"} => f.kind = "begin"
  /\ f.pc \in {"stop", "stopped", "relisten"} => f.kind \in {"stop", "proxy", "elevate"}
  /\ f.pc \in {"restore", "relaunch"} => f.kind = "elevate"
  /\ f.pc = "ui" => f.kind \in {"begin", "stop", "elevate"}

OnPath == \A t \in Tasks : RightPath(task[t])

\* TunService: one start_inner at a time; only between the installation of the
\* adapter and the store of the runtime is the one there without the other.
Starting(t) == task[t].pc \in {"inner", "resolve", "publish", "running"}

StartInv ==
  phase # "gone" =>
    /\ \A t, u \in Tasks : Starting(t) /\ Starting(u) => t = u
    /\ starting <=> \E t \in Tasks : Starting(t)
    /\ \A t \in Tasks : task[t].pc = "resolve" => ~runtime
    /\ \A t \in Tasks : task[t].pc = "publish" => tunUp /\ ~runtime
    /\ (\A t \in Tasks : task[t].pc # "publish") => tunUp = runtime

\* A begin_enhance in flight still has to save the mode.
SavedInv ==
  phase = "up" =>
    \/ saved \in {ModeOf(enhanceOn, proxyOn), "enhance"}
    \/ \E t \in Tasks : Active(t) /\ task[t].kind = "begin"

\* Before restore_mode nothing has happened.
BootInv ==
  /\ showElevate => ~admin
  /\ phase = "boot" =>
       /\ Quiet
       /\ ~proxyOn /\ ~enhanceOn /\ ~busy /\ ~osProxy /\ ~running /\ ~runtime /\ ~used.hasty
       /\ listening = serving /\ (used.bindFails = 0 => serving)

\* A user who waits: one future at a time, and how far it has come says what of the
\* change it makes has been made.
Patient == ~used.hasty /\ phase = "up"
Off     == ~running /\ ~runtime

Underway(f) ==
  /\ f.kind = "begin" =>
       /\ admin /\ ~enhanceOn /\ ~proxyOn
       /\ f.pc # "await"
       /\ f.pc \in {"unlisten", "start", "inner", "resolve", "publish", "failed"} => Off
       /\ f.pc = "running" => runtime /\ ~running
       /\ f.pc = "ui" => IF f.ok THEN running /\ runtime ELSE Off
  /\ f.kind = "stop" => ~busy /\ (f.pc \in {"stopped", "relisten", "ui"} => Off)
  /\ f.kind = "proxy" => ~busy /\ ~enhanceOn /\ (f.pc \in {"stopped", "relisten"} => Off)
  /\ f.kind = "elevate" => ~busy /\ ~enhanceOn /\ ~admin /\ Off

PatientInv ==
  Patient =>
    /\ \A t, u \in Tasks : Active(t) /\ Active(u) => t = u
    /\ ~(proxyOn /\ enhanceOn)
    /\ enhanceOn => admin
    /\ proxyOn /\ admin => osProxy
    /\ Quiet => enhanceOn = running /\ running = runtime /\ ~busy
    /\ \A t \in Tasks : Active(t) => Underway(task[t])

\* The listener of the same user, while nothing has failed.
Spared == Patient /\ used.bindFails = 0 /\ used.sysFails = 0

ListenInv ==
  Spared =>
    /\ listening = serving
    /\ Quiet => IF enhanceOn THEN ~osProxy ELSE serving
    /\ \A t \in Tasks :
         Active(t) =>
           /\ task[t].kind = "begin" => ~osProxy
           /\ task[t].pc = "ui" /\ ~(task[t].kind = "begin" /\ task[t].ok) => serving

ModeInv ==
  TypeOK /\ OnPath /\ StartInv /\ SavedInv /\ BootInv /\ PatientInv /\ ListenInv

-------------------------------------------------------------------------------
(* What the steps make of a future and of the bounds.                          *)

\* A step of a future touches this future; what kind it is stays.
OnlyTask(t) ==
  /\ task' \in [Tasks -> Future]
  /\ \A u \in Tasks : u # t => task'[u] = task[u]

LEMMA GotoEffect ==
  ASSUME task \in [Tasks -> Future], NEW t \in Tasks, NEW p \in Pcs, Goto(t, p)
  PROVE  OnlyTask(t) /\ task'[t].pc = p /\ task'[t].kind = task[t].kind /\ task'[t].ok = task[t].ok
<1>1. [task[t] EXCEPT !.pc = p] \in Future
  BY DEF Future
<1>2. task' = [task EXCEPT ![t] = [task[t] EXCEPT !.pc = p]]
  BY DEF Goto
<1> QED
  BY <1>1, <1>2 DEF Future, OnlyTask

\* TunService::start returns.
LEMMA ResultEffect ==
  ASSUME task \in [Tasks -> Future], NEW t \in Tasks, NEW ok \in BOOLEAN, Result(t, ok)
  PROVE  OnlyTask(t) /\ task'[t].pc = "ui" /\ task'[t].kind = task[t].kind /\ task'[t].ok = ok
<1>1. [task[t] EXCEPT !.pc = "ui", !.ok = ok] \in Future
  BY DEF Future, Pcs
<1>2. task' = [task EXCEPT ![t] = [task[t] EXCEPT !.pc = "ui", !.ok = ok]]
  BY DEF Result
<1> QED
  BY <1>1, <1>2 DEF Future, OnlyTask

\* begin_enhance tries again.
LEMMA RetryEffect ==
  ASSUME task \in [Tasks -> Future], NEW t \in Tasks, task[t].left > 1,
         task' = [task EXCEPT ![t].pc = "unlisten", ![t].left = @ - 1]
  PROVE  OnlyTask(t) /\ task'[t].pc = "unlisten" /\ task'[t].kind = task[t].kind
<1>1. task[t].left - 1 \in Nat
  BY DEF Future
<1>2. [task[t] EXCEPT !.pc = "unlisten", !.left = task[t].left - 1] \in Future
  BY <1>1 DEF Future, Pcs
<1>3. task' = [task EXCEPT ![t] = [task[t] EXCEPT !.pc = "unlisten", !.left = task[t].left - 1]]
  OBVIOUS
<1> QED
  BY <1>2, <1>3 DEF Future, OnlyTask

\* A future ends.
LEMMA FinishEffect ==
  ASSUME task \in [Tasks -> Future], NEW t \in Tasks, Finish(t)
  PROVE  OnlyTask(t) /\ task'[t].pc = "none"
<1>1. NoTask \in Future /\ NoTask.pc = "none"
  BY DEF NoTask, Future, Kinds, Pcs
<1> QED
  BY <1>1 DEF Finish, OnlyTask

\* A future starts from nothing.
LEMMA SpawnEffect ==
  ASSUME task \in [Tasks -> Future], NEW kind \in Kinds, NEW p \in Pcs, NEW left \in Nat,
         NEW keep \in BOOLEAN, Spawn(kind, p, left, keep)
  PROVE  \E t \in Tasks : ~Active(t) /\ OnlyTask(t) /\ task'[t].pc = p /\ task'[t].kind = kind
<1>1. PICK t \in Tasks :
        /\ ~Active(t)
        /\ task' = [task EXCEPT ![t] =
             [kind |-> kind, pc |-> p, left |-> left, keep |-> keep, ok |-> FALSE]]
  BY DEF Spawn
<1>2. [kind |-> kind, pc |-> p, left |-> left, keep |-> keep, ok |-> FALSE] \in Future
  BY DEF Future
<1> QED
  BY <1>1, <1>2 DEF OnlyTask

\* The runtime is dropped, and every future with it.
LEMMA DropEffect ==
  ASSUME task' = [t \in Tasks |-> NoTask]
  PROVE  task' \in [Tasks -> Future] /\ \A t \in Tasks : task'[t].pc = "none"
BY DEF NoTask, Future, Kinds, Pcs

\* A user action is counted, and found hasty when something is in flight.
LEMMA ActedEffect ==
  ASSUME used \in Usage, Acted
  PROVE  /\ used' \in Usage /\ used'.hasty = (used.hasty \/ ~Quiet)
         /\ used'.sysFails = used.sysFails /\ used'.bindFails = used.bindFails
<1>1. PICK e \in Nat : e = used.events + 1
  BY DEF Usage
<1>2. PICK h \in BOOLEAN : h = (used.hasty \/ ~Quiet)
  OBVIOUS
<1>3. used' = [used EXCEPT !.events = e, !.hasty = h]
  BY <1>1, <1>2 DEF Acted
<1>4. used' \in Usage /\ used'.hasty = h /\ used'.sysFails = used.sysFails /\ used'.bindFails = used.bindFails
  BY <1>3 DEF Usage
<1> QED
  BY <1>2, <1>4, Zenon

LEMMA SysFailedEffect ==
  ASSUME used \in Usage, ActedButSysFailed
  PROVE  /\ used' \in Usage /\ used'.hasty = (used.hasty \/ ~Quiet)
         /\ used'.sysFails = used.sysFails + 1 /\ used'.bindFails = used.bindFails
<1>1. PICK e \in Nat : e = used.events + 1
  BY DEF Usage
<1>2. PICK h \in BOOLEAN : h = (used.hasty \/ ~Quiet)
  OBVIOUS
<1>3. PICK f \in Nat : f = used.sysFails + 1
  BY DEF Usage
<1>4. used' = [used EXCEPT !.events = e, !.hasty = h, !.sysFails = f]
  BY <1>1, <1>2, <1>3 DEF ActedButSysFailed
<1>5. used' \in Usage /\ used'.hasty = h /\ used'.sysFails = f /\ used'.bindFails = used.bindFails
  BY <1>4 DEF Usage
<1> QED
  BY <1>2, <1>3, <1>5, Zenon

\* set_system_proxy: on success flag and setting agree, and a failure is counted.
LEMMA SystemProxyEffect ==
  ASSUME TypeOK, NEW on \in BOOLEAN, SystemProxy(on)
  PROVE  /\ sysFlag' \in BOOLEAN /\ osProxy' \in BOOLEAN /\ used' \in Usage
         /\ used'.hasty = (used.hasty \/ ~Quiet) /\ used'.bindFails = used.bindFails
         /\ \/ used'.sysFails = used.sysFails /\ sysFlag' = on /\ osProxy' = on
            \/ used'.sysFails = used.sysFails + 1
<1>1. CASE sysFlag' = on /\ osProxy' = on /\ Acted
  BY <1>1, ActedEffect DEF TypeOK
<1>2. CASE osProxy' \in BOOLEAN /\ UNCHANGED sysFlag /\ ActedButSysFailed
  BY <1>2, SysFailedEffect DEF TypeOK
<1> QED
  BY <1>1, <1>2 DEF SystemProxy

\* set_listening(true): unless the bind fails, and that is counted, the listener is up.
LEMMA ListenEffect ==
  ASSUME TypeOK, SetListeningOn
  PROVE  /\ listening' \in BOOLEAN /\ serving' \in BOOLEAN /\ used' \in Usage
         /\ used'.hasty = used.hasty /\ used'.sysFails = used.sysFails
         /\ \/ used'.bindFails = used.bindFails + 1
            \/ /\ used'.bindFails = used.bindFails
               /\ listening = serving => listening' = serving' /\ serving'
<1>1. CASE listening /\ UNCHANGED <<listening, serving, used>>
  BY <1>1 DEF TypeOK
<1>2. CASE ~listening /\ listening' = TRUE /\ serving' = TRUE /\ UNCHANGED used
  BY <1>2 DEF TypeOK
<1>3. CASE /\ used' = [used EXCEPT !.bindFails = @ + 1]
           /\ UNCHANGED <<listening, serving>>
  BY <1>3 DEF TypeOK, Usage
<1> QED
  BY <1>1, <1>2, <1>3 DEF SetListeningOn

-------------------------------------------------------------------------------
(* Types and paths.                                                            *)

\* RightPath of the stepping future is enough: the others stand still.
LEMMA PathOfOne ==
  ASSUME OnPath, NEW t \in Tasks, OnlyTask(t), RightPath(task'[t])
  PROVE  OnPath'
BY DEF OnPath, OnlyTask, RightPath

LEMMA TaskTypes ==
  ASSUME TypeOK, OnPath, NEW t \in Tasks, TaskStep(t)
  PROVE  OnlyTask(t) /\ RightPath(task'[t])
<1> USE DEF At
<1>0. task \in [Tasks -> Future] /\ RightPath(task[t])
  BY DEF TypeOK, OnPath
<1>1. CASE Unlisten(t)
  BY <1>0, <1>1, GotoEffect DEF Unlisten, RightPath, Pcs
<1>2. CASE TunStart(t)
  BY <1>0, <1>2, GotoEffect, ResultEffect DEF TunStart, RightPath, Pcs
<1>3. CASE TunAwait(t)
  BY <1>0, <1>3, GotoEffect, ResultEffect DEF TunAwait, RightPath, Pcs
<1>4. CASE TunInner(t) \/ TunResolve(t)
  BY <1>0, <1>4, GotoEffect, ResultEffect DEF TunInner, TunResolve, RightPath, Pcs
<1>5. CASE TunPublish(t)
  BY <1>0, <1>5, GotoEffect, ResultEffect DEF TunPublish, RightPath, Pcs
<1>6. CASE BeginFailed(t)
  BY <1>0, <1>6, RetryEffect, ResultEffect DEF BeginFailed, RightPath, Pcs
<1>7. CASE TunStop(t)
  BY <1>0, <1>7, GotoEffect DEF TunStop, RightPath, Pcs
<1>8. CASE Relisten(t)
  BY <1>0, <1>8, GotoEffect, FinishEffect DEF Relisten, RightPath, Pcs
<1>9. CASE ForceRestore(t)
  BY <1>0, <1>9, GotoEffect DEF ForceRestore, RightPath, Pcs
<1>10. CASE Relaunch(t)
  BY <1>0, <1>10, GotoEffect, FinishEffect DEF Relaunch, RightPath, Pcs
<1>11. CASE UiCallback(t)
  BY <1>0, <1>11, FinishEffect DEF UiCallback, RightPath
<1> QED
  BY <1>1, <1>2, <1>3, <1>4, <1>5, <1>6, <1>7, <1>8, <1>9, <1>10, <1>11 DEF TaskStep

\* What a user action spawns.
Spawned(kind, p) ==
  \E t \in Tasks : ~Active(t) /\ OnlyTask(t) /\ task'[t].pc = p /\ task'[t].kind = kind

LEMMA SpawnKinds ==
  ASSUME TypeOK
  PROVE  /\ \A left \in Nat, keep \in BOOLEAN :
              Spawn("begin", "unlisten", left, keep) => Spawned("begin", "unlisten")
         /\ Spawn("proxy", "stop", 0, FALSE) => Spawned("proxy", "stop")
         /\ Spawn("stop", "stop", 0, FALSE) => Spawned("stop", "stop")
         /\ Spawn("elevate", "unlisten", 0, FALSE) => Spawned("elevate", "unlisten")
<1>1. /\ "begin" \in Kinds /\ "proxy" \in Kinds /\ "stop" \in Kinds /\ "elevate" \in Kinds
      /\ "unlisten" \in Pcs /\ "stop" \in Pcs /\ 0 \in Nat
  BY DEF Kinds, Pcs
<1> QED
  BY <1>1, SpawnEffect DEF TypeOK, Spawned

LEMMA UserSpawns ==
  ASSUME TypeOK, RestoreMode \/ User
  PROVE  \/ UNCHANGED task
         \/ Spawned("begin", "unlisten") \/ Spawned("elevate", "unlisten")
         \/ Spawned("stop", "stop") \/ Spawned("proxy", "stop")
<1>1. Attempts \in Nat
  BY ModeAssumption
<1> QED
  BY <1>1, SpawnKinds
  DEF RestoreMode, User, BeginEnhance, ToggleProxy, AskElevate, StartEnhance, StopEnhance,
      Persist, ConfirmElevate, CancelElevate

LEMMA UserTypes ==
  ASSUME TypeOK, OnPath, RestoreMode \/ User
  PROVE  task' \in [Tasks -> Future] /\ OnPath'
<1>1. CASE UNCHANGED task
  BY <1>1 DEF OnPath, RightPath, TypeOK
<1>2. CASE \E t \in Tasks : OnlyTask(t) /\ RightPath(task'[t])
  BY <1>2, PathOfOne DEF OnlyTask
<1> QED
  BY <1>1, <1>2, UserSpawns DEF Spawned, RightPath

LEMMA TypeStart ==
  ASSUME Init
  PROVE  TypeOK /\ OnPath
<1>1. NoTask \in Future /\ NoTask.pc = "none"
  BY DEF NoTask, Future, Kinds, Pcs
<1>2. task \in [Tasks -> Future] /\ OnPath
  BY <1>1 DEF Init, OnPath, RightPath
<1>3. used \in Usage
  BY DEF Init, Usage
<1> QED
  BY <1>2, <1>3 DEF Init, TypeOK, Modes

LEMMA TypeStep ==
  ASSUME TypeOK, OnPath, Next
  PROVE  TypeOK' /\ OnPath'
<1> USE DEF ui, svc, tun, rest
<1>1. ASSUME NEW t \in Tasks, TaskStep(t) PROVE TypeOK' /\ OnPath'
  <2> USE DEF TypeOK
  <2>0. task' \in [Tasks -> Future] /\ OnPath'
    BY <1>1, TaskTypes, PathOfOne DEF OnlyTask
  <2>1. CASE Unlisten(t)
    <3>1. listening' \in BOOLEAN /\ serving' \in BOOLEAN
      BY <2>1 DEF Unlisten, SetListeningOff
    <3> QED
      BY <2>0, <2>1, <3>1 DEF Unlisten
  <2>2. CASE TunStart(t)
    <3>1. starting' \in BOOLEAN
      BY <2>2 DEF TunStart
    <3> QED
      BY <2>0, <2>2, <3>1 DEF TunStart
  <2>3. CASE TunAwait(t)
    BY <2>0, <2>3 DEF TunAwait
  <2>4. CASE TunInner(t) \/ TunResolve(t)
    <3>1. starting' \in BOOLEAN /\ running' \in BOOLEAN /\ runtime' \in BOOLEAN /\ tunUp' \in BOOLEAN
      BY <2>4 DEF TunInner, TunResolve
    <3>2. CASE TunInner(t)
      BY <2>0, <3>1, <3>2 DEF TunInner
    <3>3. CASE TunResolve(t)
      BY <2>0, <3>1, <3>3 DEF TunResolve
    <3> QED
      BY <2>4, <3>2, <3>3
  <2>5. CASE TunPublish(t)
    <3>1. starting' \in BOOLEAN /\ running' \in BOOLEAN /\ runtime' \in BOOLEAN
      BY <2>5 DEF TunPublish
    <3> QED
      BY <2>0, <2>5, <3>1 DEF TunPublish
  <2>6. CASE BeginFailed(t)
    <3>1. listening' \in BOOLEAN /\ serving' \in BOOLEAN /\ used' \in Usage
      BY <2>6, ListenEffect DEF BeginFailed
    <3> QED
      BY <2>0, <2>6, <3>1 DEF BeginFailed
  <2>7. CASE TunStop(t)
    <3>1. running' \in BOOLEAN /\ runtime' \in BOOLEAN /\ tunUp' \in BOOLEAN
      BY <2>7 DEF TunStop
    <3> QED
      BY <2>0, <2>7, <3>1 DEF TunStop
  <2>8. CASE Relisten(t)
    <3>1. listening' \in BOOLEAN /\ serving' \in BOOLEAN /\ used' \in Usage
      BY <2>8, ListenEffect DEF Relisten
    <3> QED
      BY <2>0, <2>8, <3>1 DEF Relisten
  <2>9. CASE ForceRestore(t)
    <3>1. osProxy' \in BOOLEAN
      BY <2>9 DEF ForceRestore
    <3> QED
      BY <2>0, <2>9, <3>1 DEF ForceRestore
  <2>10. CASE Relaunch(t)
    <3>1. exitTimer' \in BOOLEAN /\ phase' \in {"boot", "up", "exiting", "closing", "gone"}
      BY <2>10 DEF Relaunch
    <3> QED
      BY <2>0, <2>10, <3>1 DEF Relaunch
  <2>11. CASE UiCallback(t)
    <3>1. enhanceOn' \in BOOLEAN /\ busy' \in BOOLEAN /\ saved' \in Modes
      BY <2>11 DEF UiCallback, ModeOf, Modes
    <3> QED
      BY <2>0, <2>11, <3>1 DEF UiCallback
  <2> QED
    BY <1>1, <2>1, <2>2, <2>3, <2>4, <2>5, <2>6, <2>7, <2>8, <2>9, <2>10, <2>11 DEF TaskStep
<1>2. CASE RestoreMode \/ User
  <2> USE DEF TypeOK
  <2>0. task' \in [Tasks -> Future] /\ OnPath'
    BY <1>2, UserTypes
  <2>1. ASSUME NEW on \in BOOLEAN, SystemProxy(on)
        PROVE  sysFlag' \in BOOLEAN /\ osProxy' \in BOOLEAN /\ used' \in Usage
    BY <2>1, SystemProxyEffect
  <2>2. ASSUME ShowProxy PROVE proxyOn' \in BOOLEAN
    BY <2>2 DEF ShowProxy
  <2>3. Acted => used' \in Usage
    BY ActedEffect
  <2>4. CASE RestoreMode
    <3>1. CASE UNCHANGED <<ui, svc, task, used>>
      BY <2>0, <2>4, <3>1 DEF RestoreMode
    <3>2. CASE /\ saved = "proxy" /\ SystemProxy(TRUE) /\ ShowProxy
               /\ saved' = IF proxyOn' THEN saved ELSE "off"
               /\ UNCHANGED <<enhanceOn, busy, showElevate, listening, serving, task>>
      <4>1. saved' \in Modes
        BY <3>2 DEF Modes
      <4> QED
        BY <2>0, <2>1, <2>2, <2>4, <3>2, <4>1, ZenonT(60) DEF RestoreMode
    <3>3. CASE /\ saved = "enhance" /\ admin /\ BeginEnhance(Attempts, TRUE)
               /\ UNCHANGED <<enhanceOn, showElevate, saved, listening, serving>>
      BY <2>0, <2>1, <2>4, <3>3 DEF RestoreMode, BeginEnhance
    <3> QED
      BY <2>4, <3>1, <3>2, <3>3 DEF RestoreMode
  <2>5. CASE ToggleProxy
    <3>1. enhanceOn' \in BOOLEAN /\ saved' \in Modes
      BY <2>5 DEF ToggleProxy, ModeOf, Modes
    <3>2. PICK on \in BOOLEAN : on = ~proxyOn
      OBVIOUS
    <3>3. SystemProxy(on)
      BY <2>5, <3>2 DEF ToggleProxy
    <3>4. sysFlag' \in BOOLEAN /\ osProxy' \in BOOLEAN /\ used' \in Usage
      BY <2>1, <3>3
    <3> QED
      BY <2>0, <2>2, <2>5, <3>1, <3>4 DEF ToggleProxy
  <2>6. CASE AskElevate
    BY <2>0, <2>3, <2>6 DEF AskElevate, UserActs
  <2>7. CASE StartEnhance
    <3>1. CASE /\ Acted
               /\ enhanceOn' = TRUE /\ busy' = FALSE /\ saved' = "enhance"
               /\ UNCHANGED <<proxyOn, sysFlag, osProxy, task>>
      <4>1. enhanceOn' \in BOOLEAN /\ busy' \in BOOLEAN /\ saved' \in Modes
        BY <3>1 DEF Modes
      <4> QED
        BY <2>0, <2>3, <2>7, <3>1, <4>1 DEF StartEnhance
    <3>2. CASE /\ Acted
               /\ UNCHANGED <<proxyOn, enhanceOn, busy, saved, sysFlag, osProxy, task>>
      BY <2>0, <2>3, <2>7, <3>2 DEF StartEnhance
    <3>3. CASE BeginEnhance(1, FALSE) /\ UNCHANGED <<enhanceOn, saved>>
      BY <2>0, <2>1, <2>7, <3>3, ZenonT(60) DEF StartEnhance, BeginEnhance
    <3> QED
      BY <2>7, <3>1, <3>2, <3>3 DEF StartEnhance
  <2>8. CASE StopEnhance
    BY <2>0, <2>3, <2>8 DEF StopEnhance, UserActs
  <2>9. CASE Persist
    <3>1. saved' \in Modes
      BY <2>9 DEF Persist, ModeOf, Modes
    <3> QED
      BY <2>0, <2>3, <2>9, <3>1 DEF Persist, UserActs
  <2>10. CASE ConfirmElevate
    <3>1. showElevate' \in BOOLEAN /\ saved' \in Modes
      BY <2>10 DEF ConfirmElevate, Modes
    <3> QED
      BY <2>0, <2>3, <2>10, <3>1 DEF ConfirmElevate, UserActs
  <2>11. CASE CancelElevate
    <3>1. showElevate' \in BOOLEAN
      BY <2>11 DEF CancelElevate
    <3> QED
      BY <2>0, <2>3, <2>11, <3>1 DEF CancelElevate, UserActs
  <2> QED
    BY <1>2, <2>4, <2>5, <2>6, <2>7, <2>8, <2>9, <2>10, <2>11 DEF User
<1>3. CASE Quit
  BY <1>3 DEF Quit, TypeOK, OnPath, RightPath
<1>4. CASE ExitStopTun
  <2>1. running' \in BOOLEAN /\ runtime' \in BOOLEAN /\ tunUp' \in BOOLEAN
    BY <1>4 DEF ExitStopTun, TypeOK
  <2> QED
    BY <1>4, <2>1, ZenonT(60) DEF ExitStopTun, TypeOK, OnPath, RightPath
<1>5. CASE ExitStopProxy
  <2>1. task' \in [Tasks -> Future] /\ \A t \in Tasks : task'[t].pc = "none"
    BY <1>5, DropEffect DEF ExitStopProxy
  <2> QED
    BY <1>5, <2>1, ZenonT(60) DEF ExitStopProxy, SetListeningOff, TypeOK, OnPath, RightPath
<1>6. CASE HardExit
  <2>1. task' \in [Tasks -> Future] /\ \A t \in Tasks : task'[t].pc = "none"
    BY <1>6, DropEffect DEF HardExit
  <2>2. serving' \in BOOLEAN
    BY <1>6 DEF HardExit
  <2> QED
    BY <1>6, <2>1, <2>2 DEF HardExit, TypeOK, OnPath, RightPath
<1> QED
  BY <1>1, <1>2, <1>3, <1>4, <1>5, <1>6 DEF Next

-------------------------------------------------------------------------------
(* The adapter and its owner.                                                  *)

\* A stop, or a step that has nothing to do with starting.
StopsTun == runtime' = FALSE /\ tunUp' = IF runtime THEN FALSE ELSE tunUp

LEMMA StartAside ==
  ASSUME TypeOK, StartInv, phase' # "gone" => phase # "gone",
         \A u \in Tasks : task'[u].pc = task[u].pc \/ (~Starting(u) /\ ~Starting(u)'),
         starting' = starting, UNCHANGED <<runtime, tunUp>> \/ StopsTun
  PROVE  StartInv'
<1> SUFFICES ASSUME phase' # "gone" PROVE StartInv'
  BY DEF StartInv
<1>1. /\ \A u \in Tasks : Starting(u)' <=> Starting(u)
      /\ \A u \in Tasks : task'[u].pc = "publish" <=> task[u].pc = "publish"
      /\ \A u \in Tasks : task'[u].pc = "resolve" <=> task[u].pc = "resolve"
  BY DEF Starting
<1>2. CASE UNCHANGED <<runtime, tunUp>>
  BY <1>1, <1>2 DEF StartInv
<1>3. CASE StopsTun
  BY <1>1, <1>3 DEF StartInv, StopsTun, TypeOK
<1> QED
  BY <1>2, <1>3

LEMMA StartStep ==
  ASSUME TypeOK, OnPath, StartInv, Next
  PROVE  StartInv'
<1> USE DEF ui, svc, tun, rest
<1>1. ASSUME NEW t \in Tasks, TaskStep(t) PROVE StartInv'
  <2>0. /\ OnlyTask(t) /\ task \in [Tasks -> Future]
        /\ \A u \in Tasks : u # t => task'[u].pc = task[u].pc
    BY <1>1, TaskTypes DEF OnlyTask, TypeOK
  <2>1. ASSUME phase' = phase, ~Starting(t), ~Starting(t)', starting' = starting,
               UNCHANGED <<runtime, tunUp>> \/ StopsTun
        PROVE  StartInv'
    BY <2>0, <2>1, StartAside
  <2>2. CASE Unlisten(t)
    BY <2>0, <2>1, <2>2, GotoEffect DEF Unlisten, At, Starting, Pcs
  <2>3. CASE TunStart(t)
    <3>1. CASE running /\ Result(t, TRUE) /\ UNCHANGED starting
      BY <2>0, <2>1, <2>3, <3>1, ResultEffect DEF TunStart, At, Starting
    <3>2. CASE ~running /\ starting /\ Goto(t, "await") /\ UNCHANGED starting
      BY <2>0, <2>1, <2>3, <3>2, GotoEffect DEF TunStart, At, Starting, Pcs
    <3>3. CASE ~running /\ ~starting /\ starting' = TRUE /\ Goto(t, "inner")
      <4>1. task[t].pc = "start" /\ task'[t].pc = "inner"
        BY <2>0, <2>3, <3>3, GotoEffect DEF TunStart, At, Pcs
      <4> QED
        BY <2>0, <2>3, <3>3, <4>1 DEF TunStart, StartInv, Starting
    <3> QED
      BY <2>3, <3>1, <3>2, <3>3 DEF TunStart
  <2>4. CASE TunAwait(t)
    BY <2>0, <2>1, <2>4, GotoEffect, ResultEffect DEF TunAwait, At, Starting, Pcs
  <2>5. CASE TunInner(t)
    <3>0. task[t].pc = "inner"
      BY <2>5 DEF TunInner, At
    <3>1. CASE runtime /\ starting' = FALSE /\ Result(t, TRUE)
      <4>1. task'[t].pc = "ui"
        BY <2>0, <3>1, ResultEffect
      <4> QED
        BY <2>0, <2>5, <3>0, <3>1, <4>1 DEF TunInner, StartInv, Starting
    <3>2. CASE ~runtime /\ Goto(t, "resolve") /\ UNCHANGED starting
      <4>1. task'[t].pc = "resolve"
        BY <2>0, <3>2, GotoEffect DEF Pcs
      <4> QED
        BY <2>0, <2>5, <3>0, <3>2, <4>1 DEF TunInner, StartInv, Starting
    <3> QED
      BY <2>5, <3>1, <3>2 DEF TunInner
  <2>13. CASE TunResolve(t)
    <3>0. task[t].pc = "resolve"
      BY <2>13 DEF TunResolve, At
    <3>1. CASE tunUp' = TRUE /\ Goto(t, "publish") /\ UNCHANGED <<running, starting, runtime>>
      <4>1. task'[t].pc = "publish"
        BY <2>0, <3>1, GotoEffect DEF Pcs
      <4> QED
        BY <2>0, <2>13, <3>0, <3>1, <4>1 DEF TunResolve, StartInv, Starting
    <3>2. CASE /\ runtime' = FALSE /\ tunUp' = FALSE /\ running' = FALSE
               /\ starting' = FALSE /\ Goto(t, "failed")
      <4>1. task'[t].pc = "failed"
        BY <2>0, <3>2, GotoEffect DEF Pcs
      <4> QED
        BY <2>0, <2>13, <3>0, <3>2, <4>1 DEF TunResolve, StartInv, Starting
    <3> QED
      BY <2>13, <3>1, <3>2 DEF TunResolve
  <2>6. CASE TunPublish(t)
    <3>1. CASE At(t, "publish") /\ runtime' = TRUE /\ Goto(t, "running") /\ UNCHANGED <<running, starting>>
      <4>1. task[t].pc = "publish" /\ task'[t].pc = "running"
        BY <2>0, <3>1, GotoEffect DEF At, Pcs
      <4> QED
        BY <2>0, <2>6, <3>1, <4>1 DEF TunPublish, StartInv, Starting, TypeOK
    <3>2. CASE /\ At(t, "running") /\ running' = TRUE /\ starting' = FALSE
               /\ Result(t, TRUE) /\ UNCHANGED runtime
      <4>1. task[t].pc = "running" /\ task'[t].pc = "ui"
        BY <2>0, <3>2, ResultEffect DEF At
      <4> QED
        BY <2>0, <2>6, <3>2, <4>1 DEF TunPublish, StartInv, Starting
    <3> QED
      BY <2>6, <3>1, <3>2 DEF TunPublish
  <2>7. CASE BeginFailed(t)
    BY <2>0, <2>1, <2>7, RetryEffect, ResultEffect DEF BeginFailed, At, Starting
  <2>8. CASE TunStop(t)
    BY <2>0, <2>1, <2>8, GotoEffect DEF TunStop, At, Starting, Pcs, StopsTun
  <2>9. CASE Relisten(t)
    BY <2>0, <2>1, <2>9, GotoEffect, FinishEffect DEF Relisten, At, Starting, Pcs
  <2>10. CASE ForceRestore(t)
    BY <2>0, <2>1, <2>10, GotoEffect DEF ForceRestore, At, Starting, Pcs
  <2>11. CASE Relaunch(t)
    <3>1. ~Starting(t) /\ ~Starting(t)' /\ (phase' # "gone" => phase # "gone") /\ UNCHANGED tun
      BY <2>0, <2>11, GotoEffect, FinishEffect DEF Relaunch, At, Starting, Pcs
    <3> QED
      BY <2>0, <3>1, StartAside
  <2>12. CASE UiCallback(t)
    BY <2>0, <2>1, <2>12, FinishEffect DEF UiCallback, At, Starting
  <2> QED
    BY <1>1, <2>2, <2>3, <2>4, <2>5, <2>6, <2>7, <2>8, <2>9, <2>10, <2>11, <2>12, <2>13 DEF TaskStep
<1>2. CASE RestoreMode \/ User
  <2>1. UNCHANGED tun /\ phase # "gone"
    BY <1>2 DEF RestoreMode, User, ToggleProxy, AskElevate, StartEnhance, StopEnhance,
                Persist, ConfirmElevate, CancelElevate, UserActs, UserMayAct
  <2>2. \A u \in Tasks : task'[u].pc = task[u].pc \/ (~Starting(u) /\ ~Starting(u)')
    BY <1>2, UserSpawns DEF Spawned, OnlyTask, Active, Starting
  <2> QED
    BY <2>1, <2>2, StartAside
<1>3. CASE Quit \/ ExitStopTun
  BY <1>3, StartAside DEF Quit, ExitStopTun, StopsTun
<1>4. CASE ExitStopProxy \/ HardExit
  BY <1>4 DEF ExitStopProxy, HardExit, StartInv
<1> QED
  BY <1>1, <1>2, <1>3, <1>4 DEF Next

-------------------------------------------------------------------------------
(* The mode on disk.                                                           *)

\* Only restore_mode brings the UI up, and it runs once.
LEMMA PhaseStep ==
  ASSUME Next, phase' = "up"
  PROVE  phase = "up" \/ (phase = "boot" /\ RestoreMode)
BY DEF Next, RestoreMode, User, ToggleProxy, AskElevate, StartEnhance, StopEnhance, Persist,
       ConfirmElevate, CancelElevate, Quit, ExitStopTun, ExitStopProxy, HardExit, TaskStep,
       Unlisten, TunStart, TunAwait, TunInner, TunResolve, TunPublish, BeginFailed, TunStop, Relisten,
       ForceRestore, Relaunch, UiCallback, rest

LEMMA SavedStep ==
  ASSUME TypeOK, OnPath, BootInv, SavedInv, Next
  PROVE  SavedInv'
<1> DEFINE Right == saved \in {ModeOf(enhanceOn, proxyOn), "enhance"}
           Begins(u) == Active(u) /\ task[u].kind = "begin"
<1> USE DEF ui, svc, tun, rest
<1> SUFFICES ASSUME phase' = "up" PROVE Right' \/ \E u \in Tasks : Begins(u)'
  BY DEF SavedInv
<1>0. ASSUME phase = "up" PROVE Right \/ \E u \in Tasks : Begins(u)
  BY <1>0 DEF SavedInv
<1>1. ASSUME NEW t \in Tasks, TaskStep(t) PROVE Right' \/ \E u \in Tasks : Begins(u)'
  <2>0. /\ OnlyTask(t) /\ task \in [Tasks -> Future] /\ RightPath(task[t])
        /\ \A u \in Tasks : u # t => task'[u] = task[u]
    BY <1>1, TaskTypes DEF OnlyTask, TypeOK, OnPath
  <2>1. phase # "boot"
    BY <1>1 DEF BootInv, Quiet, Active, At, TaskStep, Unlisten, TunStart, TunAwait, TunInner, TunResolve,
                TunPublish, BeginFailed, TunStop, Relisten, ForceRestore, Relaunch, UiCallback
  <2>2. phase = "up"
    BY <2>1, PhaseStep
  <2>3. CASE UiCallback(t)
    BY <2>3 DEF UiCallback, ModeOf
  <2>4. CASE ~UiCallback(t)
    <3>1. UNCHANGED <<enhanceOn, proxyOn, saved>>
      BY <1>1, <2>4 DEF TaskStep, Unlisten, TunStart, TunAwait, TunInner, TunResolve, TunPublish, BeginFailed,
                        TunStop, Relisten, ForceRestore, Relaunch
    <3>2. Begins(t) => Begins(t)'
      <4>1. CASE Unlisten(t) \/ TunStart(t) \/ TunAwait(t) \/ TunInner(t) \/ TunResolve(t) \/ TunPublish(t)
                 \/ TunStop(t) \/ ForceRestore(t)
        BY <2>0, <4>1, GotoEffect, ResultEffect
        DEF Unlisten, TunStart, TunAwait, TunInner, TunResolve, TunPublish, TunStop, ForceRestore, Active, Pcs
      <4>2. CASE BeginFailed(t)
        BY <2>0, <4>2, RetryEffect, ResultEffect DEF BeginFailed, Active
      <4>3. CASE Relisten(t) \/ Relaunch(t)
        BY <2>0, <4>3 DEF Relisten, Relaunch, RightPath, At
      <4> QED
        BY <1>1, <2>4, <4>1, <4>2, <4>3 DEF TaskStep
    <3> QED
      BY <2>0, <2>2, <3>1, <3>2, <1>0 DEF ModeOf, Active
  <2> QED
    BY <2>3, <2>4
<1>2. CASE RestoreMode
  <2>1. saved = "off" => ModeOf(FALSE, FALSE) = saved
    BY DEF ModeOf
  <2>2. phase = "boot" /\ ~enhanceOn /\ ~proxyOn
    BY <1>2 DEF RestoreMode, BootInv
  <2>3. CASE saved = "enhance" /\ saved' = saved
    BY <2>3
  <2>4. CASE saved = "off" /\ UNCHANGED ui
    BY <2>1, <2>2, <2>4 DEF ModeOf
  <2>5. CASE /\ saved = "proxy" /\ ShowProxy /\ UNCHANGED enhanceOn
             /\ saved' = IF proxyOn' THEN saved ELSE "off"
    BY <2>2, <2>5 DEF ModeOf
  <2> QED
    BY <1>2, <2>3, <2>4, <2>5 DEF RestoreMode
<1>3. CASE User
  <2>0. phase = "up"
    BY <1>3 DEF User, ToggleProxy, AskElevate, StartEnhance, StopEnhance,
                Persist, ConfirmElevate, CancelElevate, UserActs, UserMayAct
  <2>1. \A u \in Tasks : Begins(u) => Begins(u)'
    BY <1>3, UserSpawns DEF Spawned, OnlyTask, Active
  <2>2. CASE ToggleProxy \/ Persist
    <3>1. saved' = ModeOf(enhanceOn', proxyOn')
      BY <2>2 DEF ToggleProxy, Persist
    <3> QED
      BY <3>1
  <2>3. CASE AskElevate \/ StopEnhance \/ CancelElevate
    <3>1. UNCHANGED <<proxyOn, enhanceOn, saved>>
      BY <2>3 DEF AskElevate, StopEnhance, CancelElevate
    <3> QED
      BY <1>0, <2>0, <2>1, <3>1 DEF ModeOf
  <2>4. CASE ConfirmElevate
    BY <2>4 DEF ConfirmElevate
  <2>5. CASE StartEnhance
    <3>1. CASE saved' = "enhance"
      BY <3>1
    <3>2. CASE UNCHANGED <<proxyOn, enhanceOn, saved>>
      BY <1>0, <2>0, <2>1, <3>2 DEF ModeOf
    <3>3. CASE BeginEnhance(1, FALSE)
      <4>1. Spawned("begin", "unlisten")
        BY <3>3, SpawnKinds DEF BeginEnhance
      <4> QED
        BY <4>1 DEF Spawned, Active
    <3> QED
      BY <2>5, <3>1, <3>2, <3>3 DEF StartEnhance
  <2> QED
    BY <1>3, <2>2, <2>3, <2>4, <2>5 DEF User
<1>4. CASE Quit \/ ExitStopTun \/ ExitStopProxy \/ HardExit
  BY <1>4 DEF Quit, ExitStopTun, ExitStopProxy, HardExit
<1> QED
  BY <1>1, <1>2, <1>3, <1>4 DEF Next

\* Nothing happens before restore_mode, and only a process without administrator
\* rights asks for them.
LEMMA BootStep ==
  ASSUME TypeOK, OnPath, BootInv, Next
  PROVE  BootInv'
<1> USE DEF ui, svc, tun, rest
<1>1. (showElevate => ~admin)'
  BY DEF BootInv, Next, RestoreMode, BeginEnhance, User, ToggleProxy, AskElevate, StartEnhance, StopEnhance, Persist,
       ConfirmElevate, CancelElevate, Quit, ExitStopTun, ExitStopProxy, HardExit, TaskStep,
       Unlisten, TunStart, TunAwait, TunInner, TunResolve, TunPublish, BeginFailed, TunStop, Relisten,
       ForceRestore, Relaunch, UiCallback
<1>2. phase' # "boot"
  <2>1. ASSUME NEW t \in Tasks, TaskStep(t) PROVE phase # "boot" /\ phase' # "boot"
    <3>1. phase # "boot"
      BY <2>1 DEF BootInv, Quiet, Active, At, TaskStep, Unlisten, TunStart, TunAwait, TunInner, TunResolve,
                TunPublish, BeginFailed, TunStop, Relisten, ForceRestore, Relaunch, UiCallback
    <3> QED
      BY <2>1, <3>1 DEF TaskStep, Unlisten, TunStart, TunAwait, TunInner, TunResolve,
                TunPublish, BeginFailed, TunStop, Relisten, ForceRestore, Relaunch, UiCallback
  <2>2. CASE RestoreMode \/ Quit \/ ExitStopTun \/ ExitStopProxy \/ HardExit
    BY <2>2 DEF RestoreMode, Quit, ExitStopTun, ExitStopProxy, HardExit
  <2>3. CASE User
    BY <2>3 DEF User, ToggleProxy, AskElevate, StartEnhance, StopEnhance,
                Persist, ConfirmElevate, CancelElevate, UserActs, UserMayAct
  <2> QED
    BY <2>1, <2>2, <2>3 DEF Next
<1> QED
  BY <1>1, <1>2 DEF BootInv

-------------------------------------------------------------------------------
(* The user who waits.                                                         *)

Truthful ==
  ~(proxyOn /\ enhanceOn) /\ (enhanceOn => admin) /\ (proxyOn /\ admin => osProxy)
Rested == enhanceOn = running /\ running = runtime /\ ~busy

\* A step of a future leaves a user who waits what he is: hasty is what he does, and
\* no future brings the UI up.
LEMMA TaskPatient ==
  ASSUME TypeOK, OnPath, BootInv, NEW t \in Tasks, TaskStep(t), Patient'
  PROVE  Patient /\ Active(t)
<1> USE DEF ui, svc, tun, rest
<1>1. Active(t)
  BY DEF Active, At, TaskStep, Unlisten, TunStart, TunAwait, TunInner, TunResolve,
         TunPublish, BeginFailed, TunStop, Relisten, ForceRestore, Relaunch, UiCallback
<1>2. phase = "up"
  <2>1. phase # "boot"
    BY <1>1 DEF BootInv, Quiet
  <2> QED
    BY <2>1, PhaseStep DEF Patient, Next
<1>3. used'.hasty = used.hasty
  BY ListenEffect DEF TaskStep, Unlisten, TunStart, TunAwait, TunInner, TunResolve,
         TunPublish, BeginFailed, TunStop, Relisten, ForceRestore, Relaunch, UiCallback
<1> QED
  BY <1>1, <1>2, <1>3 DEF Patient

\* The one future of a user who waits, and what is left to show of it.
LEMMA OneTask ==
  ASSUME NEW t \in Tasks, \A u \in Tasks : u # t => ~Active(u), OnlyTask(t),
         Truthful' /\ (Active(t)' => Underway(task[t])') /\ (~Active(t)' => Rested')
  PROVE  PatientInv'
<1>2. \A u \in Tasks : u # t => ~Active(u)'
  BY DEF OnlyTask, Active
<1>3. Quiet' => ~Active(t)'
  BY DEF Quiet
<1>4. /\ \A u, v \in Tasks : Active(u)' /\ Active(v)' => u = v
      /\ Truthful' /\ (Quiet' => Rested')
  BY <1>2, <1>3
<1>5. \A u \in Tasks : Active(u)' => Underway(task[u])'
  BY <1>2
<1> QED
  BY <1>4, <1>5 DEF PatientInv, Truthful, Rested

LEMMA PatientTasks ==
  ASSUME TypeOK, OnPath, StartInv, BootInv, PatientInv, NEW t \in Tasks, TaskStep(t), Patient'
  PROVE  PatientInv'
<1> USE DEF ui, svc, tun, rest, At
<1>0. /\ Patient /\ Active(t) /\ OnlyTask(t) /\ RightPath(task[t]) /\ task \in [Tasks -> Future]
      /\ Truthful /\ Underway(task[t]) /\ \A u \in Tasks : u # t => ~Active(u)
  BY TaskPatient, TaskTypes DEF PatientInv, Truthful, OnPath, TypeOK
<1>1. SUFFICES Truthful' /\ (Active(t)' => Underway(task[t])') /\ (~Active(t)' => Rested')
  BY <1>0, OneTask
<1>2. CASE Unlisten(t)
  <2>1. task'[t].pc = (IF task[t].kind = "begin" THEN "start" ELSE "stop") /\ task'[t].kind = task[t].kind
    BY <1>0, <1>2, GotoEffect DEF Unlisten, Pcs
  <2> QED
    BY <1>0, <1>2, <2>1 DEF Unlisten, Truthful, Underway, Off, Active, RightPath
<1>3. CASE TunStart(t)
  <2>0. task[t].pc = "start" /\ task[t].kind = "begin" /\ Off
    BY <1>0, <1>3 DEF TunStart, RightPath, Underway
  <2>1. ~starting
    <3>1. ~Starting(t) /\ \A u \in Tasks : u # t => ~Starting(u)
      BY <1>0, <2>0 DEF PatientInv, Active, Starting
    <3> QED
      BY <1>0, <3>1 DEF StartInv, Patient
  <2>2. task'[t].pc = "inner" /\ task'[t].kind = "begin"
    BY <1>0, <1>3, <2>0, <2>1, GotoEffect DEF TunStart, Off, Pcs
  <2> QED
    BY <1>0, <1>3, <2>0, <2>2 DEF TunStart, Truthful, Underway, Off, Active
<1>4. CASE TunAwait(t)
  BY <1>0, <1>4 DEF TunAwait, RightPath, Underway
<1>5. CASE TunInner(t)
  <2>0. task[t].pc = "inner" /\ task[t].kind = "begin" /\ Off
    BY <1>0, <1>5 DEF TunInner, RightPath, Underway
  <2>1. Off' /\ Goto(t, "resolve")
    BY <1>5, <2>0 DEF TunInner, Off
  <2>2. task'[t].pc = "resolve" /\ task'[t].kind = "begin"
    BY <1>0, <2>0, <2>1, GotoEffect DEF Pcs
  <2> QED
    BY <1>0, <1>5, <2>0, <2>1, <2>2 DEF TunInner, Truthful, Underway, Active
<1>14. CASE TunResolve(t)
  <2>0. task[t].pc = "resolve" /\ task[t].kind = "begin" /\ Off
    BY <1>0, <1>14 DEF TunResolve, RightPath, Underway
  <2>1. Off' /\ (Goto(t, "publish") \/ Goto(t, "failed"))
    BY <1>14, <2>0 DEF TunResolve, Off
  <2>2. task'[t].pc \in {"publish", "failed"} /\ task'[t].kind = "begin"
    BY <1>0, <2>0, <2>1, GotoEffect DEF Pcs
  <2> QED
    BY <1>0, <1>14, <2>0, <2>1, <2>2 DEF TunResolve, Truthful, Underway, Active
<1>6. CASE TunPublish(t)
  <2>0. task[t].kind = "begin"
    BY <1>0, <1>6 DEF TunPublish, RightPath
  <2>1. CASE At(t, "publish") /\ runtime' = TRUE /\ Goto(t, "running") /\ UNCHANGED <<running, starting>>
    <3>1. task'[t].pc = "running" /\ task'[t].kind = "begin" /\ ~running
      BY <1>0, <2>0, <2>1, GotoEffect DEF Underway, Off, Pcs
    <3> QED
      BY <1>0, <1>6, <2>0, <2>1, <3>1 DEF TunPublish, Truthful, Underway, Active
  <2>2. CASE /\ At(t, "running") /\ running' = TRUE /\ starting' = FALSE
             /\ Result(t, TRUE) /\ UNCHANGED runtime
    <3>1. task'[t].pc = "ui" /\ task'[t].kind = "begin" /\ task'[t].ok = TRUE /\ runtime
      BY <1>0, <2>0, <2>2, ResultEffect DEF Underway
    <3> QED
      BY <1>0, <1>6, <2>0, <2>2, <3>1 DEF TunPublish, Truthful, Underway, Active
  <2> QED
    BY <1>6, <2>1, <2>2 DEF TunPublish
<1>7. CASE BeginFailed(t)
  <2>0. task[t].kind = "begin" /\ Off
    BY <1>0, <1>7 DEF BeginFailed, RightPath, Underway
  <2>1. task'[t].kind = "begin" /\ (task'[t].pc = "unlisten" \/ (task'[t].pc = "ui" /\ task'[t].ok = FALSE))
    <3>1. CASE task[t].left > 1
      <4>1. task' = [task EXCEPT ![t].pc = "unlisten", ![t].left = @ - 1]
        BY <1>7, <3>1 DEF BeginFailed
      <4>2. task'[t].pc = "unlisten" /\ task'[t].kind = task[t].kind
        BY <1>0, <3>1, <4>1, RetryEffect
      <4> QED
        BY <2>0, <4>2
    <3>2. CASE ~(task[t].left > 1)
      <4>1. Result(t, FALSE)
        BY <1>7, <3>2 DEF BeginFailed
      <4> QED
        BY <1>0, <2>0, <4>1, ResultEffect
    <3> QED
      BY <3>1, <3>2
  <2> QED
    BY <1>0, <1>7, <2>0, <2>1 DEF BeginFailed, Truthful, Underway, Off, Active
<1>8. CASE TunStop(t)
  <2>0. task[t].kind \in {"stop", "proxy", "elevate"}
    BY <1>0, <1>8 DEF TunStop, RightPath
  <2>1. task'[t].pc \in {"stopped", "restore", "relisten"} /\ task'[t].kind = task[t].kind
    BY <1>0, <1>8, GotoEffect DEF TunStop, Pcs
  <2>2. Off'
    <3>1. CASE At(t, "stop")
      BY <1>8, <3>1 DEF TunStop, Off
    <3>2. CASE At(t, "stopped")
      <4>1. Off
        BY <1>0, <2>0, <3>2 DEF Underway
      <4> QED
        BY <1>8, <3>2, <4>1 DEF TunStop, Off
    <3> QED
      BY <1>8, <3>1, <3>2 DEF TunStop
  <2> QED
    BY <1>0, <1>8, <2>0, <2>1, <2>2 DEF TunStop, Truthful, Underway, Active
<1>9. CASE Relisten(t)
  <2>0. task[t].kind \in {"stop", "proxy", "elevate"} /\ Off /\ ~busy
    BY <1>0, <1>9 DEF Relisten, RightPath, Underway
  <2>1. CASE task[t].kind = "proxy"
    <3>1. task'[t].pc = "none"
      BY <1>0, <1>9, <2>1, FinishEffect DEF Relisten
    <3> QED
      BY <1>0, <1>9, <2>0, <2>1, <3>1 DEF Relisten, Truthful, Rested, Underway, Off, Active, TypeOK
  <2>2. CASE task[t].kind # "proxy"
    <3>1. task'[t].pc = "ui" /\ task'[t].kind = task[t].kind
      BY <1>0, <1>9, <2>2, GotoEffect DEF Relisten, Pcs
    <3> QED
      BY <1>0, <1>9, <2>0, <2>2, <3>1 DEF Relisten, Truthful, Underway, Off, Active
  <2> QED
    BY <2>1, <2>2
<1>10. CASE ForceRestore(t)
  <2>1. task[t].kind = "elevate" /\ task'[t].pc = "relaunch" /\ task'[t].kind = "elevate"
    BY <1>0, <1>10, GotoEffect DEF ForceRestore, RightPath, Pcs
  <2> QED
    BY <1>0, <1>10, <2>1 DEF ForceRestore, Truthful, Underway, Off, Active
<1>11. CASE Relaunch(t)
  <2>1. task[t].kind = "elevate" /\ Goto(t, "relisten")
    BY <1>0, <1>11 DEF Relaunch, RightPath, Patient
  <2>2. task'[t].pc = "relisten" /\ task'[t].kind = "elevate"
    BY <1>0, <2>1, GotoEffect DEF Pcs
  <2> QED
    BY <1>0, <1>11, <2>1, <2>2 DEF Relaunch, Truthful, Underway, Off, Active
<1>12. CASE UiCallback(t)
  <2>1. task'[t].pc = "none"
    BY <1>0, <1>12, FinishEffect DEF UiCallback
  <2>2. CASE task[t].kind = "begin" /\ task[t].ok /\ enhanceOn' = TRUE /\ busy' = FALSE
    BY <1>0, <1>12, <2>1, <2>2 DEF UiCallback, Truthful, Rested, Underway, Active
  <2>3. CASE task[t].kind = "begin" /\ ~task[t].ok /\ enhanceOn' = FALSE /\ busy' = FALSE
    BY <1>0, <1>12, <2>1, <2>3 DEF UiCallback, Truthful, Rested, Underway, Off, Active, TypeOK
  <2>4. CASE task[t].kind = "stop" /\ enhanceOn' = FALSE /\ busy' = FALSE
    BY <1>0, <1>12, <2>1, <2>4 DEF UiCallback, Truthful, Rested, Underway, Off, Active, TypeOK
  <2>5. CASE task[t].kind = "elevate" /\ UNCHANGED <<enhanceOn, busy>>
    BY <1>0, <1>12, <2>1, <2>5 DEF UiCallback, Truthful, Rested, Underway, Off, Active, TypeOK
  <2> QED
    BY <1>12, <2>2, <2>3, <2>4, <2>5 DEF UiCallback
<1> QED
  BY <1>2, <1>3, <1>4, <1>5, <1>6, <1>7, <1>8, <1>9, <1>10, <1>11, <1>12, <1>14 DEF TaskStep

\* A user who waits acts on a program at rest, and so does restore_mode.
LEMMA UserPatient ==
  ASSUME TypeOK, BootInv, PatientInv, RestoreMode \/ User, Patient'
  PROVE  Quiet /\ Truthful /\ Rested /\ ~used.hasty /\ (phase = "boot" \/ phase = "up")
<1>1. CASE RestoreMode
  BY <1>1 DEF RestoreMode, BootInv, Truthful, Rested, TypeOK
<1>2. CASE User
  <2>1. used'.hasty = (used.hasty \/ ~Quiet)
    <3>1. ASSUME NEW on \in BOOLEAN, SystemProxy(on) PROVE used'.hasty = (used.hasty \/ ~Quiet)
      BY <3>1, SystemProxyEffect
    <3>2. CASE Acted
      BY <3>2, ActedEffect DEF TypeOK
    <3>3. CASE ToggleProxy
      <4>1. PICK on \in BOOLEAN : on = ~proxyOn
        OBVIOUS
      <4>2. SystemProxy(on)
        BY <3>3, <4>1 DEF ToggleProxy
      <4> QED
        BY <3>1, <4>2
    <3>4. CASE StartEnhance /\ BeginEnhance(1, FALSE)
      BY <3>1, <3>4 DEF BeginEnhance
    <3> QED
      BY <1>2, <3>2, <3>3, <3>4 DEF User, AskElevate, StartEnhance, StopEnhance,
                Persist, ConfirmElevate, CancelElevate, UserActs
  <2>2. ~used.hasty /\ Quiet
    BY <2>1 DEF Patient
  <2>3. phase = "up"
    BY <1>2 DEF User, ToggleProxy, AskElevate, StartEnhance, StopEnhance,
                Persist, ConfirmElevate, CancelElevate, UserActs, UserMayAct
  <2> QED
    BY <2>2, <2>3 DEF PatientInv, Patient, Truthful, Rested
<1> QED
  BY <1>1, <1>2

\* What set_system_proxy and the flag the UI shows of it make of each other.
LEMMA ShownIsSet ==
  ASSUME TypeOK, NEW on \in BOOLEAN, SystemProxy(on), ShowProxy
  PROVE  (proxyOn' => osProxy') /\ (proxyOn' => on)
<1>1. used.sysFails + 1 # used.sysFails
  BY DEF TypeOK, Usage
<1> QED
  BY <1>1, SystemProxyEffect DEF ShowProxy

LEMMA PatientUsers ==
  ASSUME TypeOK, BootInv, PatientInv, RestoreMode \/ User, Patient'
  PROVE  PatientInv'
<1> USE DEF ui, svc, tun
<1>0. Quiet /\ Truthful /\ Rested
  BY UserPatient
<1>1. ASSUME UNCHANGED task, Truthful', Rested' PROVE PatientInv'
  BY <1>0, <1>1 DEF PatientInv, Quiet, Active, Truthful, Rested
<1>2. ASSUME NEW k, NEW p, Spawned(k, p), p # "none", Truthful',
             ASSUME NEW t \in Tasks, task'[t].pc = p, task'[t].kind = k PROVE Underway(task[t])'
      PROVE  PatientInv'
  <2>1. PICK t \in Tasks : OnlyTask(t) /\ task'[t].pc = p /\ task'[t].kind = k
    BY <1>2 DEF Spawned
  <2>2. Active(t)' /\ \A u \in Tasks : u # t => ~Active(u)
    BY <1>0, <1>2, <2>1 DEF Active, Quiet
  <2>3. Underway(task[t])'
    BY <1>2, <2>1
  <2> QED
    BY <1>2, <2>1, <2>2, <2>3, OneTask
<1>3. ASSUME NEW left \in Nat, NEW keep \in BOOLEAN, BeginEnhance(left, keep), admin, ~enhanceOn,
             UNCHANGED <<enhanceOn, admin, running, runtime>>
      PROVE  PatientInv'
  <2>1. Spawned("begin", "unlisten")
    BY <1>3, SpawnKinds DEF BeginEnhance
  <2>2. Truthful'
    BY <1>3 DEF BeginEnhance, Truthful
  <2>3. ASSUME NEW t \in Tasks, task'[t].pc = "unlisten", task'[t].kind = "begin"
        PROVE  Underway(task[t])'
    BY <1>0, <1>3, <2>3 DEF BeginEnhance, Underway, Off, Rested
  <2> QED
    BY <2>1, <2>2, <2>3, <1>2, ZenonT(60)
<1>4. CASE RestoreMode
  <2>1. CASE UNCHANGED <<ui, svc, task, used>>
    BY <1>0, <1>1, <1>4, <2>1 DEF RestoreMode, Truthful, Rested
  <2>2. CASE /\ saved = "proxy" /\ SystemProxy(TRUE) /\ ShowProxy
             /\ UNCHANGED <<enhanceOn, busy, showElevate, listening, serving, task>>
    <3>1. ~enhanceOn
      BY <1>4 DEF RestoreMode, BootInv
    <3>2. Truthful'
      BY <2>2, <3>1, ShownIsSet DEF Truthful
    <3>3. Rested'
      BY <1>0, <1>4, <2>2 DEF RestoreMode, Rested
    <3> QED
      BY <1>1, <2>2, <3>2, <3>3
  <2>3. CASE /\ saved = "enhance" /\ admin /\ BeginEnhance(Attempts, TRUE)
             /\ UNCHANGED <<enhanceOn, showElevate, saved, listening, serving>>
    BY <1>3, <1>4, <2>3, ModeAssumption DEF RestoreMode, BootInv
  <2> QED
    BY <1>4, <2>1, <2>2, <2>3 DEF RestoreMode
<1>5. CASE ToggleProxy
  <2>1. PICK on \in BOOLEAN : on = ~proxyOn
    OBVIOUS
  <2>2. SystemProxy(on) /\ ShowProxy
    BY <1>5, <2>1 DEF ToggleProxy
  <2>3. (proxyOn' => osProxy') /\ (proxyOn' => ~proxyOn)
    BY <2>1, <2>2, ShownIsSet
  <2>4. ~enhanceOn' /\ Truthful'
    BY <1>0, <1>5, <2>3 DEF ToggleProxy, Truthful
  <2>5. CASE ~proxyOn /\ enhanceOn
    <3>1. Spawned("proxy", "stop")
      BY <1>5, <2>5, SpawnKinds DEF ToggleProxy
    <3>2. ASSUME NEW t \in Tasks, task'[t].pc = "stop", task'[t].kind = "proxy"
          PROVE  Underway(task[t])'
      BY <1>0, <1>5, <2>4, <3>2 DEF ToggleProxy, Underway, Rested
    <3> QED
      BY <2>4, <3>1, <3>2, <1>2, ZenonT(60)
  <2>6. CASE ~(~proxyOn /\ enhanceOn)
    <3>1. ~enhanceOn /\ UNCHANGED task
      BY <1>0, <1>5, <2>6 DEF ToggleProxy, Truthful
    <3>2. Rested'
      BY <1>0, <1>5, <2>4, <3>1 DEF ToggleProxy, Rested, TypeOK
    <3> QED
      BY <1>1, <2>4, <3>1, <3>2
  <2> QED
    BY <2>5, <2>6
<1>6. CASE AskElevate \/ Persist \/ CancelElevate
  BY <1>0, <1>1, <1>6 DEF AskElevate, Persist, CancelElevate, Truthful, Rested
<1>7. CASE StartEnhance
  <2>1. ~running
    BY <1>0, <1>7 DEF StartEnhance, Rested
  <2>2. CASE ~running /\ busy /\ UNCHANGED <<proxyOn, enhanceOn, busy, saved, sysFlag, osProxy, task>>
    BY <1>0, <2>2 DEF Rested
  <2>3. CASE BeginEnhance(1, FALSE) /\ UNCHANGED <<enhanceOn, saved>>
    BY <1>3, <1>7, <2>3 DEF StartEnhance
  <2> QED
    BY <1>7, <2>1, <2>2, <2>3 DEF StartEnhance
<1>8. CASE StopEnhance
  <2>1. Spawned("stop", "stop")
    BY <1>8, SpawnKinds DEF StopEnhance
  <2>2. Truthful'
    BY <1>0, <1>8 DEF StopEnhance, Truthful
  <2>3. ASSUME NEW t \in Tasks, task'[t].pc = "stop", task'[t].kind = "stop"
        PROVE  Underway(task[t])'
    BY <1>0, <1>8, <2>3 DEF StopEnhance, Underway, Rested
  <2> QED
    BY <2>1, <2>2, <2>3, <1>2, ZenonT(60)
<1>9. CASE ConfirmElevate
  <2>1. Spawned("elevate", "unlisten")
    BY <1>9, SpawnKinds DEF ConfirmElevate
  <2>2. Truthful'
    BY <1>0, <1>9 DEF ConfirmElevate, Truthful
  <2>3. ~admin /\ ~enhanceOn /\ Off /\ ~busy
    BY <1>0, <1>9 DEF ConfirmElevate, BootInv, Truthful, Rested, Off
  <2>4. ASSUME NEW t \in Tasks, task'[t].pc = "unlisten", task'[t].kind = "elevate"
        PROVE  Underway(task[t])'
    BY <1>9, <2>3, <2>4 DEF ConfirmElevate, Underway, Off
  <2> QED
    BY <2>1, <2>2, <2>4, <1>2, ZenonT(60)
<1> QED
  BY <1>4, <1>5, <1>6, <1>7, <1>8, <1>9 DEF User

LEMMA PatientStep ==
  ASSUME TypeOK, OnPath, StartInv, BootInv, PatientInv, Next
  PROVE  PatientInv'
<1> SUFFICES ASSUME Patient' PROVE PatientInv'
  BY DEF PatientInv
<1>1. CASE Quit \/ ExitStopTun \/ ExitStopProxy \/ HardExit
  BY <1>1 DEF Quit, ExitStopTun, ExitStopProxy, HardExit, Patient
<1> QED
  BY <1>1, PatientTasks, PatientUsers DEF Next

-------------------------------------------------------------------------------
(* The listener of the user who waits.                                         *)

\* What ListenInv says of a future, and of a program at rest.
Served(f) ==
  /\ f.kind = "begin" => ~osProxy
  /\ f.pc = "ui" /\ ~(f.kind = "begin" /\ f.ok) => serving
Listens == IF enhanceOn THEN ~osProxy ELSE serving

LEMMA OneServed ==
  ASSUME NEW t \in Tasks, \A u \in Tasks : u # t => ~Active(u), OnlyTask(t),
         (listening = serving)' /\ (Active(t)' => Served(task[t])') /\ (~Active(t)' => Listens')
  PROVE  ListenInv'
<1>1. \A u \in Tasks : u # t => ~Active(u)'
  BY DEF OnlyTask, Active
<1>2. Quiet' => Listens'
  BY DEF Quiet
<1>3. \A u \in Tasks : Active(u)' => Served(task[u])'
  BY <1>1
<1> QED
  BY <1>2, <1>3 DEF ListenInv, Served, Listens

LEMMA ListenTasks ==
  ASSUME TypeOK, OnPath, StartInv, BootInv, PatientInv, ListenInv, NEW t \in Tasks, TaskStep(t), Spared'
  PROVE  ListenInv'
<1> USE DEF ui, svc, tun, rest, At
<1>0. /\ Patient /\ Active(t) /\ OnlyTask(t) /\ RightPath(task[t]) /\ task \in [Tasks -> Future]
      /\ Underway(task[t]) /\ \A u \in Tasks : u # t => ~Active(u)
  BY TaskPatient, TaskTypes DEF PatientInv, OnPath, TypeOK, Spared
<1>1. Spared
  <2>1. used.bindFails \in Nat /\ used.sysFails \in Nat
    BY DEF TypeOK, Usage
  <2>2. CASE SetListeningOn
    BY <1>0, <2>1, <2>2, ListenEffect DEF Spared
  <2>3. CASE UNCHANGED used
    BY <1>0, <2>3 DEF Spared
  <2> QED
    BY <2>2, <2>3 DEF TaskStep, Unlisten, TunStart, TunAwait, TunInner, TunResolve, TunPublish, BeginFailed,
                      TunStop, Relisten, ForceRestore, Relaunch, UiCallback
<1>2. listening = serving /\ Served(task[t])
  BY <1>0, <1>1 DEF ListenInv, Served
<1>3. SUFFICES (listening = serving)' /\ (Active(t)' => Served(task[t])') /\ (~Active(t)' => Listens')
  BY <1>0, OneServed
<1>4. ASSUME SetListeningOn PROVE listening' = serving' /\ serving'
  <2>1. used.bindFails \in Nat
    BY DEF TypeOK, Usage
  <2>2. used'.bindFails # used.bindFails + 1
    BY <2>1 DEF Spared
  <2> QED
    BY <1>2, <1>4, <2>2, ListenEffect
<1>5. CASE Unlisten(t)
  <2>1. task'[t].pc \in {"start", "stop"} /\ task'[t].kind = task[t].kind
    BY <1>0, <1>5, GotoEffect DEF Unlisten, Pcs
  <2>2. listening' = serving'
    BY <1>5 DEF Unlisten, SetListeningOff
  <2> QED
    BY <1>2, <1>5, <2>1, <2>2 DEF Unlisten, Served, Active
<1>6. CASE TunStart(t) \/ TunInner(t) \/ TunResolve(t) \/ TunPublish(t)
  <2>0. task[t].kind = "begin" /\ UNCHANGED svc
    BY <1>0, <1>6 DEF TunStart, TunInner, TunResolve, TunPublish, RightPath
  <2>1. Result(t, TRUE) \/ \E p \in Pcs \ {"none", "ui"} : Goto(t, p)
    BY <1>6 DEF TunStart, TunInner, TunResolve, TunPublish, Pcs
  <2>2. task'[t].kind = "begin" /\ task'[t].pc # "none" /\ (task'[t].pc = "ui" => task'[t].ok)
    BY <1>0, <2>0, <2>1, GotoEffect, ResultEffect
  <2> QED
    BY <1>2, <2>0, <2>2 DEF Served, Active
<1>7. CASE TunAwait(t)
  BY <1>0, <1>7 DEF TunAwait, RightPath, Underway
<1>8. CASE BeginFailed(t)
  <2>0. task[t].kind = "begin" /\ UNCHANGED osProxy
    BY <1>0, <1>8 DEF BeginFailed, RightPath
  <2>1. task'[t].kind = "begin" /\ task'[t].pc # "none"
    BY <1>0, <1>8, <2>0, RetryEffect, ResultEffect DEF BeginFailed
  <2>2. listening' = serving' /\ serving'
    BY <1>4, <1>8 DEF BeginFailed
  <2> QED
    BY <1>2, <2>0, <2>1, <2>2 DEF Served, Active
<1>9. CASE TunStop(t)
  <2>1. task'[t].pc \in {"stopped", "restore", "relisten"} /\ task'[t].kind = task[t].kind
    BY <1>0, <1>9, GotoEffect DEF TunStop, Pcs
  <2> QED
    BY <1>2, <1>9, <2>1 DEF TunStop, Served, Active
<1>10. CASE Relisten(t)
  <2>0. UNCHANGED <<osProxy, enhanceOn>>
    BY <1>10 DEF Relisten
  <2>1. listening' = serving' /\ serving'
    BY <1>4, <1>10 DEF Relisten
  <2>2. CASE task[t].kind = "proxy"
    <3>1. task'[t].pc = "none" /\ ~enhanceOn
      BY <1>0, <1>10, <2>2, FinishEffect DEF Relisten, Underway
    <3> QED
      BY <2>0, <2>1, <3>1 DEF Listens, Active
  <2>3. CASE task[t].kind # "proxy"
    <3>1. task'[t].pc = "ui" /\ task'[t].kind = task[t].kind
      BY <1>0, <1>10, <2>3, GotoEffect DEF Relisten, Pcs
    <3> QED
      BY <1>2, <2>0, <2>1, <3>1 DEF Served, Active
  <2> QED
    BY <2>2, <2>3
<1>11. CASE ForceRestore(t)
  <2>1. task'[t].pc = "relaunch" /\ task'[t].kind = task[t].kind
    BY <1>0, <1>11, GotoEffect DEF ForceRestore, Pcs
  <2>2. ~osProxy' /\ listening' = serving'
    BY <1>2, <1>11 DEF ForceRestore
  <2> QED
    BY <2>1, <2>2 DEF Served, Active
<1>12. CASE Relaunch(t)
  <2>1. Goto(t, "relisten") /\ UNCHANGED svc
    BY <1>0, <1>12 DEF Relaunch, Patient, Spared
  <2>2. task'[t].pc = "relisten" /\ task'[t].kind = task[t].kind
    BY <1>0, <2>1, GotoEffect DEF Pcs
  <2> QED
    BY <1>2, <2>1, <2>2 DEF Served, Active
<1>13. CASE UiCallback(t)
  <2>0. task'[t].pc = "none" /\ task[t].pc = "ui" /\ UNCHANGED svc
    BY <1>0, <1>13, FinishEffect DEF UiCallback
  <2>1. Listens'
    <3>1. CASE task[t].kind = "begin" /\ task[t].ok
      BY <1>2, <2>0, <3>1, <1>13 DEF UiCallback, Served, Listens
    <3>2. CASE ~(task[t].kind = "begin" /\ task[t].ok)
      <4>1. serving' /\ ~enhanceOn'
        <5>1. serving'
          BY <1>2, <2>0, <3>2 DEF Served
        <5>2. CASE task[t].kind \in {"begin", "stop"}
          BY <1>13, <3>2, <5>1, <5>2 DEF UiCallback
        <5>3. CASE task[t].kind = "elevate"
          BY <1>0, <1>13, <3>2, <5>1, <5>3 DEF UiCallback, Underway
        <5> QED
          BY <1>0, <2>0, <5>2, <5>3 DEF RightPath
      <4> QED
        BY <4>1 DEF Listens
    <3> QED
      BY <3>1, <3>2
  <2> QED
    BY <1>2, <2>0, <2>1 DEF Active
<1> QED
  BY <1>5, <1>6, <1>7, <1>8, <1>9, <1>10, <1>11, <1>12, <1>13 DEF TaskStep

LEMMA ListenUsers ==
  ASSUME TypeOK, BootInv, PatientInv, ListenInv, RestoreMode \/ User, Spared'
  PROVE  ListenInv'
<1> USE DEF ui, svc, tun
<1>0. Quiet /\ Truthful /\ Rested /\ ~used.hasty /\ (phase = "boot" \/ phase = "up")
  BY UserPatient DEF Spared
<1>n. used.bindFails \in Nat /\ used.sysFails \in Nat
  BY DEF TypeOK, Usage
<1>1. ASSUME NEW on \in BOOLEAN, SystemProxy(on)
      PROVE  used.bindFails = 0 /\ used.sysFails = 0 /\ osProxy' = on
  BY <1>1, <1>n, SystemProxyEffect DEF Spared
<1>2. Acted => used.bindFails = 0 /\ used.sysFails = 0
  BY ActedEffect DEF TypeOK, Spared
<1>3. ASSUME used.bindFails = 0, used.sysFails = 0 PROVE listening = serving /\ Listens
  BY <1>0, <1>3 DEF ListenInv, BootInv, Listens, Spared, Patient
<1>4. ASSUME UNCHANGED task, (listening = serving)', Listens' PROVE ListenInv'
  BY <1>0, <1>4 DEF ListenInv, Quiet, Active, Listens
<1>5. ASSUME NEW k, NEW p, Spawned(k, p), p \notin {"none", "ui"}, (listening = serving)',
             k = "begin" => ~osProxy'
      PROVE  ListenInv'
  <2>1. PICK t \in Tasks : OnlyTask(t) /\ task'[t].pc = p /\ task'[t].kind = k
    BY <1>5 DEF Spawned
  <2>2. Active(t)' /\ Served(task[t])' /\ \A u \in Tasks : u # t => ~Active(u)
    BY <1>0, <1>5, <2>1 DEF Active, Quiet, Served
  <2> QED
    BY <1>5, <2>1, <2>2, OneServed
<1>6. ASSUME NEW left \in Nat, NEW keep \in BOOLEAN, BeginEnhance(left, keep),
             UNCHANGED <<listening, serving>>
      PROVE  ListenInv'
  <2>1. Spawned("begin", "unlisten") /\ SystemProxy(FALSE)
    BY <1>6, SpawnKinds DEF BeginEnhance
  <2>2. used.bindFails = 0 /\ used.sysFails = 0 /\ ~osProxy'
    BY <2>1, <1>1
  <2>3. (listening = serving)'
    BY <1>3, <1>6, <2>2
  <2> QED
    BY <2>1, <2>2, <2>3, <1>5
<1>7. CASE RestoreMode
  <2>0. phase = "boot" /\ ~enhanceOn /\ listening = serving /\ (used.bindFails = 0 => serving)
    BY <1>7 DEF RestoreMode, BootInv
  <2>1. CASE UNCHANGED <<ui, svc, task, used>>
    BY <1>4, <2>0, <2>1 DEF Listens, Spared
  <2>2. CASE SystemProxy(TRUE) /\ UNCHANGED <<enhanceOn, busy, showElevate, listening, serving, task>>
    BY <1>1, <1>4, <2>0, <2>2 DEF Listens
  <2>3. CASE BeginEnhance(Attempts, TRUE) /\ UNCHANGED <<enhanceOn, showElevate, saved, listening, serving>>
    BY <1>6, <2>3, ModeAssumption
  <2> QED
    BY <1>7, <2>1, <2>2, <2>3 DEF RestoreMode
<1>8. CASE ToggleProxy
  <2>1. PICK on \in BOOLEAN : on = ~proxyOn
    OBVIOUS
  <2>2. SystemProxy(on)
    BY <1>8, <2>1 DEF ToggleProxy
  <2>3. listening = serving /\ Listens
    BY <1>1, <1>3, <2>2
  <2>4. CASE ~proxyOn /\ enhanceOn
    <3>1. Spawned("proxy", "stop")
      BY <1>8, <2>4, SpawnKinds DEF ToggleProxy
    <3> QED
      BY <1>5, <1>8, <2>3, <3>1 DEF ToggleProxy
  <2>5. CASE ~(~proxyOn /\ enhanceOn)
    <3>1. ~enhanceOn /\ ~enhanceOn' /\ UNCHANGED task
      BY <1>0, <1>8, <2>5 DEF ToggleProxy, Truthful
    <3> QED
      BY <1>4, <1>8, <2>3, <3>1 DEF ToggleProxy, Listens
  <2> QED
    BY <2>4, <2>5
<1>9. CASE AskElevate \/ Persist \/ CancelElevate
  BY <1>2, <1>3, <1>4, <1>9 DEF AskElevate, Persist, CancelElevate, UserActs, Listens
<1>10. CASE StartEnhance
  <2>1. ~running /\ ~busy
    BY <1>0, <1>10 DEF StartEnhance, Rested
  <2> QED
    BY <1>6, <1>10, <2>1 DEF StartEnhance
<1>11. CASE StopEnhance
  <2>1. Spawned("stop", "stop") /\ Acted /\ UNCHANGED svc
    BY <1>11, SpawnKinds DEF StopEnhance, UserActs
  <2> QED
    BY <1>2, <1>3, <1>5, <2>1
<1>12. CASE ConfirmElevate
  <2>1. Spawned("elevate", "unlisten") /\ Acted /\ UNCHANGED svc
    BY <1>12, SpawnKinds DEF ConfirmElevate, UserActs
  <2> QED
    BY <1>2, <1>3, <1>5, <2>1
<1> QED
  BY <1>7, <1>8, <1>9, <1>10, <1>11, <1>12 DEF User

LEMMA ListenStep ==
  ASSUME TypeOK, OnPath, StartInv, BootInv, PatientInv, ListenInv, Next
  PROVE  ListenInv'
<1> SUFFICES ASSUME Spared' PROVE ListenInv'
  BY DEF ListenInv
<1>1. CASE Quit \/ ExitStopTun \/ ExitStopProxy \/ HardExit
  BY <1>1 DEF Quit, ExitStopTun, ExitStopProxy, HardExit, Spared, Patient
<1> QED
  BY <1>1, ListenTasks, ListenUsers DEF Next

-------------------------------------------------------------------------------
(* The theorems.                                                               *)

LEMMA ModeStart ==
  ASSUME Init
  PROVE  ModeInv
<1>1. TypeOK /\ OnPath
  BY TypeStart
<1>2. phase = "boot" /\ \A t \in Tasks : task[t].pc = "none"
  BY DEF Init, NoTask
<1>3. StartInv
  BY <1>2 DEF Init, StartInv, Starting
<1>4. used.hasty = FALSE /\ (used.bindFails = 0 => serving)
  BY DEF Init
<1>5. BootInv
  BY <1>2, <1>4 DEF Init, BootInv, Quiet, Active
<1> QED
  BY <1>1, <1>2, <1>3, <1>5 DEF ModeInv, SavedInv, PatientInv, ListenInv, Patient, Spared

LEMMA ModeStep ==
  ASSUME ModeInv, [Next]_vars
  PROVE  ModeInv'
<1>1. CASE Next
  BY <1>1, TypeStep, StartStep, SavedStep, BootStep, PatientStep, ListenStep DEF ModeInv
<1>2. CASE UNCHANGED vars
  <2> USE <1>2 DEF vars, ui, svc, tun, rest
  <2>1. TypeOK' /\ OnPath'
    BY DEF ModeInv, TypeOK, OnPath, RightPath
  <2>2. StartInv' /\ SavedInv' /\ BootInv'
    BY DEF ModeInv, StartInv, Starting, SavedInv, BootInv, Quiet, Active, ModeOf
  <2>3. PatientInv' /\ ListenInv'
    BY DEF ModeInv, PatientInv, ListenInv, Patient, Spared, Quiet, Active, Underway, Off
  <2> QED
    BY <2>1, <2>2, <2>3 DEF ModeInv
<1> QED
  BY <1>1, <1>2

\* The inductive invariant: types, the awaits of each kind of future, TunService
\* between its flags, the mode to be saved, and how far the future of a user who
\* waits has come (main.rs:762-916, 1303-1362; lib.rs:39-80; win.rs:35-104).
THEOREM ModeInvariant == Spec => []ModeInv
<1>1. Init => ModeInv
  BY ModeStart
<1>2. ModeInv /\ [Next]_vars => ModeInv'
  BY ModeStep
<1> QED
  BY <1>1, <1>2, PTL DEF Spec

\* Whatever starts and stops overlap: at most one start_inner, `starting` says so
\* (lib.rs:46), and outside of it an adapter exists exactly when there is a runtime
\* that can uninstall it.
THEOREM ModeTunOwned == Spec => []TunOwned
<1>1. ModeInv => TunOwned
  <2> SUFFICES ASSUME ModeInv, phase # "gone" PROVE TunOwned
    BY DEF TunOwned, OneStarter, NoOrphanTun
  <2>1. StartInv
    BY DEF ModeInv
  <2>2. Starters = {t \in Tasks : Starting(t)}
    BY DEF Starters, Starting
  <2>3. Cardinality(Starters) <= 1
    <3>1. CASE Starters = {}
      BY <3>1, FS_EmptySet
    <3>2. CASE Starters # {}
      <4>1. PICK t \in Tasks : Starters = {t}
        BY <2>1, <2>2, <3>2 DEF StartInv
      <4> QED
        BY <4>1, FS_Singleton
    <3> QED
      BY <3>1, <3>2
  <2>4. starting <=> Starters # {}
    BY <2>1, <2>2 DEF StartInv
  <2>5. Starters = {} => tunUp = runtime
    BY <2>1, <2>2 DEF StartInv, Starting
  <2> QED
    BY <2>3, <2>4, <2>5 DEF TunOwned, OneStarter, NoOrphanTun
<1> QED
  BY <1>1, ModeInvariant, PTL

\* What the UI shows and what ui_state stores is true: the flags for a user who
\* waits, the mode on disk for every user (main.rs, persist and restore_mode).
THEOREM ModeShownTrue == Spec => []ModeShown
<1>1. ModeInv => ModeShown
  <2> SUFFICES ASSUME ModeInv PROVE ModeShown
    OBVIOUS
  <2>1. FlagsTrue
    BY DEF ModeInv, PatientInv, Patient, FlagsTrue, MutualExclusion
  <2>2. SavedMatches
    BY DEF ModeInv, SavedInv, SavedMatches, Quiet
  <2> QED
    BY <2>1, <2>2 DEF ModeShown
<1> QED
  BY <1>1, ModeInvariant, PTL

\* The system proxy of a user who waits never points at a port nobody serves
\* (begin_enhance, stop_enhance, toggle_proxy and confirm_elevate in main.rs).
THEOREM ModeNoDeadProxy == Spec => []NoDeadProxy
<1>1. ModeInv => NoDeadProxy
  BY DEF ModeInv, ListenInv, Spared, Patient, NoDeadProxy
<1> QED
  BY <1>1, ModeInvariant, PTL

===============================================================================

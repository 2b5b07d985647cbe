------------------------------ MODULE ModeControl ------------------------------
(***************************************************************************)
(* Proxy mode, enhance (TUN) mode and the inbound listener: the mode       *)
(* handlers of MainView (crates/rust-clash/src/main.rs), ProxyService's    *)
(* set_listening and set_system_proxy (crates/clash-core/src/inbound.rs)   *)
(* and TunService (crates/clash-tun/src/lib.rs, win.rs).                   *)
(*                                                                         *)
(* UI handlers run on the UI thread and are atomic.  What they spawn runs  *)
(* on tokio and interleaves with them, and with other spawned work, at     *)
(* every await: a task below is one such spawned future, its `pc` the      *)
(* await it has reached.  The last part of a task is again a UI callback.  *)
(*                                                                         *)
(* system proxy calls are atomic here (SysProxy has their steps), and a    *)
(* toggle_enhance without a usable node, which only sets an error text, is *)
(* left out.                                                               *)
(***************************************************************************)
EXTENDS Naturals, FiniteSets

CONSTANTS
  Tasks,         \* bound: spawned futures alive at a time
  Attempts,      \* attempts of the begin_enhance that restore_mode makes (6)
  MaxEvents,     \* bound: user actions in a process
  MaxBindFails,  \* bound: TcpListener::bind calls that fail
  MaxSysFails    \* bound: system proxy calls that fail

ASSUME ModeAssumption ==
  /\ Attempts \in Nat \ {0} /\ MaxEvents \in Nat
  /\ MaxBindFails \in Nat /\ MaxSysFails \in Nat

Modes == {"off", "proxy", "enhance"}

VARIABLES
  admin,                     \* is_administrator()
  proxyOn, enhanceOn, busy,  \* MainView.proxy_on, enhance_on, enhance_busy
  showElevate,               \* MainView.show_elevate
  saved,                     \* UiState.mode on disk
  sysFlag, osProxy,          \* ProxyService.system_proxy; the OS setting is ours
  listening, serving,        \* ProxyService.listening; an accept loop has the port
  running, starting,         \* TunService.running, starting
  runtime, tunUp,            \* TunService.runtime is Some; adapter and routes exist
  task,                      \* spawned futures
  phase,                     \* boot, up, exiting, closing, gone
  exitTimer,                 \* confirm_elevate's process::exit(0) is pending
  used                       \* how much of each bound is used up, and (hasty) whether
                             \* the user has acted while spawned work was in flight

ui   == <<proxyOn, enhanceOn, busy, showElevate, saved>>
svc  == <<sysFlag, osProxy, listening, serving>>
tun  == <<running, starting, runtime, tunUp>>
rest == <<admin, phase, exitTimer, used>>
vars == <<ui, svc, tun, task, rest>>

-------------------------------------------------------------------------------
NoTask == [kind |-> "none", pc |-> "none", left |-> 0, keep |-> FALSE, ok |-> FALSE]
Active(t) == task[t].pc # "none"
Quiet     == \A t \in Tasks : ~Active(t)

At(t, p)      == task[t].pc = p
Goto(t, p)    == task' = [task EXCEPT ![t].pc = p]
Finish(t)     == task' = [task EXCEPT ![t] = NoTask]
Result(t, ok) == task' = [task EXCEPT ![t].pc = "ui", ![t].ok = ok]

\* cx.spawn
Spawn(kind, p, left, keep) ==
  \E t \in Tasks :
    /\ ~Active(t)
    /\ task' = [task EXCEPT ![t] =
         [kind |-> kind, pc |-> p, left |-> left, keep |-> keep, ok |-> FALSE]]

\* The mode persist() writes for the two flags.
ModeOf(enh, prox) == IF enh THEN "enhance" ELSE IF prox THEN "proxy" ELSE "off"

\* A user action: only while the UI is up, and within the bound.
UserMayAct == phase = "up" /\ used.events < MaxEvents
Acted      == used' = [used EXCEPT !.events = @ + 1, !.hasty = @ \/ ~Quiet]
UserActs   == UserMayAct /\ Acted
ActedButSysFailed ==
  /\ used.sysFails < MaxSysFails
  /\ used' = [used EXCEPT !.events = @ + 1, !.hasty = @ \/ ~Quiet, !.sysFails = @ + 1]

-------------------------------------------------------------------------------
\* set_listening(false): the flag, the token, the connections, the accept loop.
SetListeningOff == listening' = FALSE /\ serving' = FALSE

\* set_listening(true): nothing when already on; the caller ignores a bind error.
SetListeningOn ==
  \/ listening /\ UNCHANGED <<listening, serving, used>>
  \/ ~listening /\ listening' = TRUE /\ serving' = TRUE /\ UNCHANGED used
  \/ /\ ~listening /\ used.bindFails < MaxBindFails
     /\ used' = [used EXCEPT !.bindFails = @ + 1]
     /\ UNCHANGED <<listening, serving>>

-------------------------------------------------------------------------------
\* The process is starting: the listener is up, unless all of main's 25 attempts to
\* bind have failed; nothing else is.
Init ==
  /\ admin \in BOOLEAN
  /\ proxyOn = FALSE /\ enhanceOn = FALSE /\ busy = FALSE /\ showElevate = FALSE
  /\ saved \in Modes
  /\ sysFlag = FALSE /\ osProxy = FALSE
  /\ listening \in BOOLEAN /\ serving = listening /\ (~listening => MaxBindFails > 0)
  /\ running = FALSE /\ starting = FALSE /\ runtime = FALSE /\ tunUp = FALSE
  /\ task = [t \in Tasks |-> NoTask]
  /\ phase = "boot" /\ exitTimer = FALSE
  /\ used = [events |-> 0, hasty |-> FALSE, sysFails |-> 0,
             bindFails |-> IF listening THEN 0 ELSE 1]

\* set_system_proxy: on success the flag and the OS setting; on an error the
\* flag keeps its value and the OS setting may be either.  Every caller is a user
\* action, or restore_mode, which counts as one.
SystemProxy(on) ==
  \/ sysFlag' = on /\ osProxy' = on /\ Acted
  \/ osProxy' \in BOOLEAN /\ UNCHANGED sysFlag /\ ActedButSysFailed

\* What toggle_proxy and restore_mode make of it: proxy_on is the flag, unless
\* there was an error.
ShowProxy == proxyOn' = (sysFlag' /\ used'.sysFails = used.sysFails)

\* Mutant: begin_enhance leaves the system proxy as it is.
BeginEnhanceKeepsProxy(left, keep) ==
  /\ busy' = TRUE /\ proxyOn' = FALSE /\ Acted
  /\ Spawn("begin", "unlisten", left, keep)
  /\ UNCHANGED <<sysFlag, osProxy>>

\* begin_enhance past its early returns; an error of the system proxy is ignored.
BeginEnhance(left, keep) ==
  /\ busy' = TRUE /\ proxyOn' = FALSE
  /\ SystemProxy(FALSE)
  /\ Spawn("begin", "unlisten", left, keep)

\* MainView::new: restore_mode(saved).
RestoreMode ==
  /\ phase = "boot" /\ phase' = "up"
  /\ \/ saved = "off" /\ UNCHANGED <<ui, svc, task, used>>
     \/ /\ saved = "proxy" /\ SystemProxy(TRUE) /\ ShowProxy
        /\ saved' = IF proxyOn' THEN saved ELSE "off"
        /\ UNCHANGED <<enhanceOn, busy, showElevate, listening, serving, task>>
     \/ saved = "enhance" /\ ~admin /\ UNCHANGED <<ui, svc, task, used>>
     \/ /\ saved = "enhance" /\ admin /\ BeginEnhance(Attempts, TRUE)
        /\ UNCHANGED <<enhanceOn, showElevate, saved, listening, serving>>
  /\ UNCHANGED <<tun, admin, exitTimer>>

\* Mutant: turning proxy mode on does not stop the TUN.
ToggleProxyNoStop ==
  /\ UserMayAct
  /\ enhanceOn' = (enhanceOn /\ proxyOn)
  /\ SystemProxy(~proxyOn) /\ ShowProxy
  /\ saved' = ModeOf(enhanceOn', proxyOn')
  /\ UNCHANGED task
  /\ UNCHANGED <<busy, showElevate, listening, serving, tun, admin, phase, exitTimer>>

\* toggle_proxy; turning it on leaves enhance mode by a spawned stop.
ToggleProxy ==
  /\ UserMayAct
  /\ IF ~proxyOn /\ enhanceOn THEN Spawn("proxy", "stop", 0, FALSE) ELSE UNCHANGED task
  /\ enhanceOn' = (enhanceOn /\ proxyOn)
  /\ SystemProxy(~proxyOn) /\ ShowProxy
  /\ saved' = ModeOf(enhanceOn', proxyOn')
  /\ UNCHANGED <<busy, showElevate, listening, serving, tun, admin, phase, exitTimer>>

\* toggle_enhance without administrator rights: ask.
AskElevate ==
  /\ UserActs /\ ~admin
  /\ showElevate' = TRUE
  /\ UNCHANGED <<proxyOn, enhanceOn, busy, saved, svc, tun, task, admin, phase, exitTimer>>

\* toggle_enhance to on: already running, already being started, or begin.
StartEnhance ==
  /\ UserMayAct /\ admin /\ ~enhanceOn
  /\ \/ /\ running /\ Acted
        /\ enhanceOn' = TRUE /\ busy' = FALSE /\ saved' = "enhance"
        /\ UNCHANGED <<proxyOn, sysFlag, osProxy, task>>
     \/ /\ ~running /\ busy /\ Acted
        /\ UNCHANGED <<proxyOn, enhanceOn, busy, saved, sysFlag, osProxy, task>>
     \/ ~running /\ ~busy /\ BeginEnhance(1, FALSE) /\ UNCHANGED <<enhanceOn, saved>>
  /\ UNCHANGED <<showElevate, listening, serving, tun, admin, phase, exitTimer>>

StopEnhance ==
  /\ UserActs /\ admin /\ enhanceOn
  /\ Spawn("stop", "stop", 0, FALSE)
  /\ UNCHANGED <<ui, svc, tun, admin, phase, exitTimer>>

\* Any handler that only calls persist (hiding the window, choosing a node).
Persist ==
  /\ UserActs
  /\ saved' = ModeOf(enhanceOn, proxyOn)
  /\ UNCHANGED <<proxyOn, enhanceOn, busy, showElevate, svc, tun, task, admin, phase, exitTimer>>

ConfirmElevate ==
  /\ UserActs /\ showElevate
  /\ saved' = "enhance" /\ showElevate' = FALSE
  /\ Spawn("elevate", "unlisten", 0, FALSE)
  /\ UNCHANGED <<proxyOn, enhanceOn, busy, svc, tun, admin, phase, exitTimer>>

\* The cancel button of the dialog.
CancelElevate ==
  /\ UserActs /\ showElevate
  /\ showElevate' = FALSE
  /\ UNCHANGED <<proxyOn, enhanceOn, busy, saved, svc, tun, task, admin, phase, exitTimer>>

-------------------------------------------------------------------------------
\* Spawned work.  begin_enhance and confirm_elevate first drop the listener.
Unlisten(t) ==
  /\ At(t, "unlisten") /\ SetListeningOff
  /\ Goto(t, IF task[t].kind = "begin" THEN "start" ELSE "stop")
  /\ UNCHANGED <<ui, sysFlag, osProxy, tun, rest>>

\* Mutant: `starting` is set without looking at it.
TunStartNoCas(t) ==
  /\ At(t, "start")
  /\ \/ running /\ Result(t, TRUE) /\ UNCHANGED starting
     \/ ~running /\ starting' = TRUE /\ Goto(t, "inner")
  /\ UNCHANGED <<ui, svc, running, runtime, tunUp, rest>>

\* TunService::start up to the compare_exchange of `starting`.
TunStart(t) ==
  /\ At(t, "start")
  /\ \/ running /\ Result(t, TRUE) /\ UNCHANGED starting
     \/ ~running /\ starting /\ Goto(t, "await") /\ UNCHANGED starting
     \/ ~running /\ ~starting /\ starting' = TRUE /\ Goto(t, "inner")
  /\ UNCHANGED <<ui, svc, running, runtime, tunUp, rest>>

\* The start that lost polls until the other one has ended.
TunAwait(t) ==
  /\ At(t, "await") /\ ~starting
  /\ IF running THEN Result(t, TRUE) ELSE Goto(t, "failed")
  /\ UNCHANGED <<ui, svc, tun, rest>>

\* win::start: a runtime is there already, or start_inner resolves the node.
TunInner(t) ==
  /\ At(t, "inner")
  /\ \/ runtime /\ starting' = FALSE /\ Result(t, TRUE)
     \/ ~runtime /\ Goto(t, "resolve") /\ UNCHANGED starting
  /\ UNCHANGED <<ui, svc, running, runtime, tunUp, rest>>

\* The resolver answers, which nothing bounds, and start_inner installs adapter and
\* routes; or there is no address or that fails, and stop and routes::recover
\* clean up.
TunResolve(t) ==
  /\ At(t, "resolve")
  /\ \/ tunUp' = TRUE /\ Goto(t, "publish") /\ UNCHANGED <<running, starting, runtime>>
     \/ /\ runtime' = FALSE /\ tunUp' = FALSE /\ running' = FALSE
        /\ starting' = FALSE /\ Goto(t, "failed")
  /\ UNCHANGED <<ui, svc, rest>>

\* start_inner stores the runtime, then `running`; start clears `starting`.
TunPublish(t) ==
  /\ \/ At(t, "publish") /\ runtime' = TRUE /\ Goto(t, "running") /\ UNCHANGED <<running, starting>>
     \/ /\ At(t, "running") /\ running' = TRUE /\ starting' = FALSE
        /\ Result(t, TRUE) /\ UNCHANGED runtime
  /\ UNCHANGED <<ui, svc, tunUp, rest>>

\* A failed attempt of begin_enhance: listen again, and try again or give up.
BeginFailed(t) ==
  /\ At(t, "failed") /\ SetListeningOn
  /\ IF task[t].left > 1
     THEN task' = [task EXCEPT ![t].pc = "unlisten", ![t].left = @ - 1]
     ELSE Result(t, FALSE)
  /\ UNCHANGED <<ui, sysFlag, osProxy, tun, admin, phase, exitTimer>>

\* TunService::stop: win::stop takes the runtime, if there is one, uninstalls
\* and clears `running`; TunService::stop clears it once more.
TunStop(t) ==
  /\ \/ /\ At(t, "stop")
        /\ runtime' = FALSE /\ running' = FALSE
        /\ tunUp' = IF runtime THEN FALSE ELSE tunUp
        /\ Goto(t, "stopped")
     \/ /\ At(t, "stopped") /\ running' = FALSE
        /\ Goto(t, IF task[t].kind = "elevate" THEN "restore" ELSE "relisten")
        /\ UNCHANGED <<runtime, tunUp>>
  /\ UNCHANGED <<ui, svc, starting, rest>>

\* After the stop: listen again.
Relisten(t) ==
  /\ At(t, "relisten") /\ SetListeningOn
  /\ IF task[t].kind = "proxy" THEN Finish(t) ELSE Goto(t, "ui")
  /\ UNCHANGED <<ui, sysFlag, osProxy, tun, admin, phase, exitTimer>>

\* confirm_elevate: force_restore, then the elevated process is started or the
\* user declines.
ForceRestore(t) ==
  /\ At(t, "restore") /\ osProxy' = FALSE /\ Goto(t, "relaunch")
  /\ UNCHANGED <<ui, sysFlag, listening, serving, tun, rest>>

Relaunch(t) ==
  /\ At(t, "relaunch")
  /\ \/ /\ exitTimer' = TRUE /\ Finish(t)
        /\ phase' = IF phase = "up" THEN "exiting" ELSE phase
     \/ Goto(t, "relisten") /\ UNCHANGED <<phase, exitTimer>>
  /\ UNCHANGED <<ui, svc, tun, admin, used>>

\* Mutant: only a begin that succeeded clears enhance_busy.
UiCallbackKeepsBusy(t) ==
  /\ At(t, "ui") /\ phase = "up"
  /\ \/ /\ task[t].kind = "begin" /\ task[t].ok
        /\ enhanceOn' = TRUE /\ busy' = FALSE /\ saved' = "enhance"
     \/ /\ ~(task[t].kind = "begin" /\ task[t].ok)
        /\ enhanceOn' = FALSE /\ saved' = ModeOf(FALSE, proxyOn) /\ UNCHANGED busy
  /\ Finish(t)
  /\ UNCHANGED <<proxyOn, showElevate, svc, tun, rest>>

\* The closing UI callback of each kind.
UiCallback(t) ==
  /\ At(t, "ui") /\ phase = "up"
  /\ \/ /\ task[t].kind = "begin" /\ task[t].ok
        /\ enhanceOn' = TRUE /\ busy' = FALSE /\ saved' = "enhance"
     \/ /\ task[t].kind = "begin" /\ ~task[t].ok
        /\ enhanceOn' = FALSE /\ busy' = FALSE
        /\ saved' = IF task[t].keep THEN "enhance" ELSE ModeOf(FALSE, proxyOn)
     \/ /\ task[t].kind = "stop"
        /\ enhanceOn' = FALSE /\ busy' = FALSE /\ saved' = ModeOf(FALSE, proxyOn)
     \/ /\ task[t].kind = "elevate"
        /\ saved' = ModeOf(enhanceOn, proxyOn) /\ UNCHANGED <<enhanceOn, busy>>
  /\ Finish(t)
  /\ UNCHANGED <<proxyOn, showElevate, svc, tun, rest>>

-------------------------------------------------------------------------------
\* Quitting (tray, ctrl-q): the UI is gone, tokio still runs.
Quit ==
  /\ phase = "up" /\ phase' = "exiting"
  /\ UNCHANGED <<ui, svc, tun, task, admin, exitTimer, used>>

\* main after the event loop: tun.stop, proxy.stop, force_restore; then the
\* runtime is dropped and every task with it.
ExitStopTun ==
  /\ phase = "exiting" /\ phase' = "closing"
  /\ runtime' = FALSE /\ running' = FALSE
  /\ tunUp' = IF runtime THEN FALSE ELSE tunUp
  /\ UNCHANGED <<ui, svc, starting, task, admin, exitTimer, used>>

ExitStopProxy ==
  /\ phase = "closing" /\ phase' = "gone"
  /\ SetListeningOff /\ sysFlag' = FALSE /\ osProxy' = FALSE
  /\ task' = [t \in Tasks |-> NoTask]
  /\ UNCHANGED <<ui, tun, admin, exitTimer, used>>

\* 1.5 s after a successful elevation the process exits wherever it is.
HardExit ==
  /\ exitTimer /\ phase # "gone" /\ phase' = "gone"
  /\ serving' = FALSE
  /\ task' = [t \in Tasks |-> NoTask]
  /\ UNCHANGED <<ui, sysFlag, osProxy, listening, tun, admin, exitTimer, used>>

TaskStep(t) ==
  \/ Unlisten(t) \/ TunStart(t) \/ TunAwait(t) \/ TunInner(t) \/ TunResolve(t) \/ TunPublish(t)
  \/ BeginFailed(t) \/ TunStop(t) \/ Relisten(t) \/ ForceRestore(t) \/ Relaunch(t)
  \/ UiCallback(t)

User ==
  \/ ToggleProxy \/ AskElevate \/ StartEnhance \/ StopEnhance
  \/ Persist \/ ConfirmElevate \/ CancelElevate

Next ==
  \/ RestoreMode \/ User \/ Quit \/ ExitStopTun \/ ExitStopProxy \/ HardExit
  \/ \E t \in Tasks : TaskStep(t)

Spec == Init /\ [][Next]_vars

\* tokio polls every ready task, and the UI executor every callback.  Every await
\* ends by itself but one: start_inner's resolve_node_ipv4 has no time limit and
\* waits for ever behind a lookup whose leader was dropped (DohResolver).
FairSpec == Spec /\ \A t \in Tasks : WF_vars(TaskStep(t) /\ ~At(t, "resolve"))

-------------------------------------------------------------------------------
\* Proxy mode and enhance mode exclude each other (README.md:40).
MutualExclusion == ~(proxyOn /\ enhanceOn)

\* For a user who waits for each action to finish, whatever binds, starts and
\* system proxy calls fail: proxy and enhance mode exclude each other
\* (README.md:40), and when nothing is in flight the two flags tell the truth.
\* Enhance mode is on exactly when the TUN runs, with its runtime; and in proxy mode
\* the system proxy is ours, unless a declined elevation has restored it.
FlagsTrue ==
  ~used.hasty /\ phase = "up" =>
    /\ MutualExclusion
    /\ Quiet => /\ enhanceOn = running /\ running = runtime /\ ~busy
                /\ proxyOn /\ admin => osProxy

\* For the same user the system proxy never keeps pointing at a closed port: when
\* nothing is in flight and no bind and no system proxy call has failed, the
\* listener is up whenever the setting is ours.
NoDeadProxy ==
  (/\ Quiet /\ phase = "up" /\ osProxy
   /\ ~used.hasty /\ used.bindFails = 0 /\ used.sysFails = 0) => serving

\* However the user's clicks interleave with the spawned work, the mode on disk
\* is the one shown, or the enhance mode a restart is to try again.
SavedMatches ==
  Quiet /\ phase = "up" => saved \in {ModeOf(enhanceOn, proxyOn), "enhance"}

\* What the program shows and stores is true: the flags of a user who waits, and
\* the mode on disk of any user.
ModeShown == FlagsTrue /\ SavedMatches

\* The tasks inside start_inner, or about to clear `starting` after it.
Starters == {t \in Tasks : task[t].pc \in {"inner", "resolve", "publish", "running"}}

\* At most one start_inner at a time, and `starting` says so (lib.rs:46): two
\* would create the adapter and the routes twice.
OneStarter ==
  phase # "gone" => Cardinality(Starters) <= 1 /\ (starting <=> Starters # {})

\* An adapter with its routes always has a runtime that can uninstall it, but
\* while a start is at work: a stop that runs during a start never separates
\* the two.
NoOrphanTun == phase # "gone" /\ Starters = {} => tunUp = runtime

\* The adapter, its routes and the runtime that owns them stay together, whatever
\* starts and stops overlap.
TunOwned == OneStarter /\ NoOrphanTun

\* A start_inner waits for the resolver for ever.
Hung == \E t \in Tasks : []At(t, "resolve")

\* enhance_busy, which blocks begin_enhance (main.rs:827), is cleared again on every
\* path, failed attempts, retries and lost races for `starting` included; unless a
\* start_inner waits for the resolver for ever, which the code does not exclude:
\* then enhance mode cannot be turned on again in this process.
BusyClears == busy ~> (~busy \/ phase # "up" \/ Hung)

===============================================================================

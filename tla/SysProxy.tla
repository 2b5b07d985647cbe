------------------------------- MODULE SysProxy -------------------------------
(***************************************************************************)
(* The Windows system proxy (crates/clash-core/src/inbound.rs, mod         *)
(* sysproxy::windows): set(on), the sysproxy-keep thread and               *)
(* recover_orphaned, over the registry and the undo file, which outlive    *)
(* the process.                                                            *)
(*                                                                         *)
(* A step is one registry write, one file operation or one read, because   *)
(* the process may die, another program may write the registry, and the    *)
(* keepalive thread (which takes no lock) may run, between any two.        *)
(*                                                                         *)
(* Callers: Main is the UI thread, which also runs recover_orphaned before *)
(* anything else and force_restore on the way out; Tasks are tokio tasks   *)
(* that call force_restore (confirm_elevate); Keep is the keepalive thread.*)
(***************************************************************************)
EXTENDS Naturals

CONSTANTS
  Main, Tasks, Keep,   \* actors
  Foreign,             \* proxy servers of the user or of other programs
  Ours,                \* 127.0.0.1:7890
  Empty,               \* the empty ProxyServer string
  Nobody,              \* nobody holds the APPLIED mutex
  NoFile,              \* there is no undo file
  MaxCalls,            \* bound: set(..) calls of a process
  MaxSteals,           \* bound: writes of other programs
  MaxFaults,           \* bound: failing registry, file or notify calls
  MaxCrashes           \* bound: crashes of the process

ASSUME SysProxyAssumption ==
  /\ Main \notin Tasks /\ Keep \notin Tasks \cup {Main} /\ Nobody \notin Tasks \cup {Main, Keep}
  /\ Ours \notin Foreign \cup {Empty}
  /\ NoFile \notin [enable : 0..1, server : Foreign \cup {Empty, Ours}]
  /\ MaxCalls \in Nat /\ MaxSteals \in Nat /\ MaxFaults \in Nat /\ MaxCrashes \in Nat

Callers == {Main} \cup Tasks
Actors  == Callers \cup {Keep}

VARIABLES
  reg,        \* ProxyEnable, ProxyServer (with ProxyOverride), auto-configuration
  undo,       \* the undo file
  applied,    \* *APPLIED
  lock,       \* holder of the APPLIED mutex
  keepalive,  \* KEEPALIVE
  pc, stage,  \* where each actor is, and on whose behalf it applies or restores
  ret,        \* Ok or Err: what the last set(..) of the actor returned
  phase,      \* of the process
  orig,       \* ghost: the settings before the program first touched them
  late,       \* ghost: commit_on, which takes no lock, wrote after a set(false) had begun
  used        \* how much of each bound is used up

vars == <<reg, undo, applied, lock, keepalive, pc, stage, ret, phase, orig, late, used>>

-------------------------------------------------------------------------------
\* currently_ours()
CurrentlyOurs(r) == r.enable = 1 /\ r.server = Ours

\* What save_undo writes: the auto-configuration values are not among it.
SavedBySaveUndo(r) == [enable |-> r.enable, server |-> r.server]

Bump(b) == used' = [used EXCEPT ![b] = @ + 1]
Goto(a, p) == pc' = [pc EXCEPT ![a] = p]
GotoAs(a, p, st) == Goto(a, p) /\ stage' = [stage EXCEPT ![a] = st]

\* The mutex of a stage that holds it is released on return.
Unlock(a) == lock' = IF lock = a THEN Nobody ELSE lock

Return(a, r) ==
  /\ GotoAs(a, "idle", "none")
  /\ Unlock(a)
  /\ ret' = [ret EXCEPT ![a] = r]

\* restore_undo: nothing to do without an undo file.
BeginRestore(a, st) == GotoAs(a, IF undo = NoFile THEN "offCheck" ELSE "rEnable", st)

Alive == phase \in {"boot", "run", "exit"}

-------------------------------------------------------------------------------
\* The program has not run yet: the settings are the user's.
Init ==
  /\ reg \in [enable : 0..1, server : Foreign \cup {Empty}, auto : BOOLEAN]
  /\ undo = NoFile
  /\ applied = FALSE /\ lock = Nobody /\ keepalive = FALSE
  /\ pc = [a \in Actors |-> "idle"] /\ stage = [a \in Actors |-> "none"]
  /\ ret = [a \in Actors |-> "ok"]
  /\ phase = "down"
  /\ orig = reg
  /\ late = FALSE
  /\ used = [calls |-> 0, steals |-> 0, faults |-> 0, crashes |-> 0]

-------------------------------------------------------------------------------
\* set(true)
CallOn ==
  /\ phase = "run" /\ pc[Main] = "idle" /\ used.calls < MaxCalls
  /\ Goto(Main, "onLock") /\ Bump("calls")
  /\ UNCHANGED <<ret, reg, undo, applied, lock, keepalive, stage, phase, orig, late>>

\* Mutant: `if !*applied` dropped, every set(true) saves an undo file.
OnLockSavesAlways(a) ==
  /\ pc[a] = "onLock" /\ lock = Nobody
  /\ lock' = a
  /\ undo' = SavedBySaveUndo(reg)
  /\ GotoAs(a, "onEnable", "first")
  /\ UNCHANGED <<ret, reg, applied, keepalive, phase, orig, late, used>>

\* Under the lock, the first time only: save_undo, then apply_on.
OnLock(a) ==
  /\ pc[a] = "onLock" /\ lock = Nobody
  /\ \/ /\ applied
        /\ GotoAs(a, "onEnable", "commit")
        /\ UNCHANGED <<lock, undo>>
     \/ /\ ~applied
        /\ lock' = a
        /\ undo' = SavedBySaveUndo(reg)
        /\ GotoAs(a, "onEnable", "first")
  /\ UNCHANGED <<ret, reg, applied, keepalive, phase, orig, late, used>>

\* A set(false) has begun since the actor, which holds no lock, decided to commit.
Overtaken(a) ==
  /\ stage[a] \in {"commit", "recommit", "keep"}
  /\ ~applied \/ lock # Nobody \/ (a = Keep /\ ~keepalive)

\* apply_on: ProxyEnable, then ProxyServer and ProxyOverride, then AutoDetect
\* and AutoConfigURL, then notify.
WriteOn(a) ==
  /\ pc[a] \in {"onEnable", "onServer", "onAuto"}
  /\ \/ pc[a] = "onEnable" /\ reg' = [reg EXCEPT !.enable = 1] /\ Goto(a, "onServer")
     \/ pc[a] = "onServer" /\ reg' = [reg EXCEPT !.server = Ours] /\ Goto(a, "onAuto")
     \/ pc[a] = "onAuto" /\ reg' = [reg EXCEPT !.auto = FALSE] /\ Goto(a, "onNotify")
  /\ late' = (late \/ Overtaken(a))
  /\ UNCHANGED <<ret, undo, applied, lock, keepalive, stage, phase, orig, used>>

\* apply_on returns Ok to the stage it was called from.
AppliedOn(a) ==
  /\ pc[a] = "onNotify"
  /\ \/ /\ stage[a] = "first" /\ applied' = TRUE /\ Unlock(a)
        /\ GotoAs(a, "onEnable", "commit") /\ UNCHANGED ret
     \/ stage[a] = "commit" /\ GotoAs(a, "check1", "commit") /\ UNCHANGED <<applied, lock, ret>>
     \/ stage[a] = "recommit" /\ GotoAs(a, "check2", "recommit") /\ UNCHANGED <<applied, lock, ret>>
     \/ stage[a] = "keep" /\ Return(a, "ok") /\ UNCHANGED applied
  /\ UNCHANGED <<reg, undo, keepalive, phase, orig, late, used>>

\* After 200 ms: commit once more if another program has overwritten us.
Check1(a) ==
  /\ pc[a] = "check1"
  /\ IF CurrentlyOurs(reg) THEN Goto(a, "check2") /\ UNCHANGED stage
                           ELSE GotoAs(a, "onEnable", "recommit")
  /\ UNCHANGED <<ret, reg, undo, applied, lock, keepalive, phase, orig, late, used>>

\* Still ours: the keepalive thread may watch.  Stolen: give up, with an error.
Check2(a) ==
  /\ pc[a] = "check2"
  /\ \/ CurrentlyOurs(reg) /\ keepalive' = TRUE /\ Return(a, "ok") /\ UNCHANGED applied
     \/ /\ ~CurrentlyOurs(reg) /\ lock = Nobody
        /\ applied' = FALSE /\ keepalive' = FALSE /\ Return(a, "err")
  /\ UNCHANGED <<reg, undo, phase, orig, late, used>>

-------------------------------------------------------------------------------
\* set(false), by the user, by a task, or by main on the way out.
CallOff(a) ==
  /\ phase = "run" /\ pc[a] = "idle" /\ used.calls < MaxCalls
  /\ keepalive' = FALSE
  /\ Goto(a, "offLock") /\ Bump("calls")
  /\ UNCHANGED <<ret, reg, undo, applied, lock, stage, phase, orig, late>>

\* The event loop has ended: force_restore.
Quit ==
  /\ phase = "run" /\ pc[Main] = "idle"
  /\ phase' = "exit"
  /\ keepalive' = FALSE
  /\ Goto(Main, "offLock")
  /\ UNCHANGED <<ret, reg, undo, applied, lock, stage, orig, late, used>>

OffLock(a) ==
  /\ pc[a] = "offLock" /\ lock = Nobody
  /\ \/ (applied \/ CurrentlyOurs(reg)) /\ lock' = a /\ BeginRestore(a, "off") /\ UNCHANGED ret
     \/ ~(applied \/ CurrentlyOurs(reg)) /\ Return(a, "ok")
  /\ UNCHANGED <<reg, undo, applied, keepalive, phase, orig, late, used>>

\* Mutant: restore_undo forgets ProxyServer.
RestoreUndoEnableOnly(a) ==
  /\ \/ pc[a] = "rEnable" /\ reg' = [reg EXCEPT !.enable = undo.enable]
        /\ Goto(a, "rRemove") /\ UNCHANGED undo
     \/ pc[a] = "rRemove" /\ undo' = NoFile /\ Goto(a, "offCheck") /\ UNCHANGED reg
  /\ UNCHANGED <<ret, applied, lock, keepalive, stage, phase, orig, late, used>>

\* restore_undo writes ProxyEnable, then ProxyServer, then removes the file.
RestoreUndo(a) ==
  /\ \/ pc[a] = "rEnable" /\ reg' = [reg EXCEPT !.enable = undo.enable]
        /\ Goto(a, "rServer") /\ UNCHANGED undo
     \/ pc[a] = "rServer" /\ reg' = [reg EXCEPT !.server = undo.server]
        /\ Goto(a, "rRemove") /\ UNCHANGED undo
     \/ pc[a] = "rRemove" /\ undo' = NoFile /\ Goto(a, "offCheck") /\ UNCHANGED reg
  /\ UNCHANGED <<ret, applied, lock, keepalive, stage, phase, orig, late, used>>

\* Mutant: no apply_off after restore_undo.
ApplyOffNever(a) ==
  /\ pc[a] = "offCheck" /\ Goto(a, "offDone")
  /\ UNCHANGED <<ret, reg, undo, applied, lock, keepalive, stage, phase, orig, late, used>>

\* Still ours after restore_undo: apply_off writes ProxyEnable = 0, then an
\* empty ProxyServer.
ApplyOff(a) ==
  /\ \/ pc[a] = "offCheck" /\ UNCHANGED reg
        /\ Goto(a, IF CurrentlyOurs(reg) THEN "offEnable" ELSE "offDone")
     \/ pc[a] = "offEnable" /\ reg' = [reg EXCEPT !.enable = 0] /\ Goto(a, "offServer")
     \/ pc[a] = "offServer" /\ reg' = [reg EXCEPT !.server = Empty] /\ Goto(a, "offDone")
  /\ UNCHANGED <<ret, undo, applied, lock, keepalive, stage, phase, orig, late, used>>

\* set(false) or recover_orphaned returns.
OffDone(a) ==
  /\ pc[a] = "offDone"
  /\ applied' = FALSE
  /\ phase' = IF stage[a] = "recover" THEN "run" ELSE phase
  /\ Return(a, "ok")
  /\ UNCHANGED <<reg, undo, keepalive, orig, late, used>>

\* main returns: the process is gone, and with it the keepalive thread,
\* wherever it was.
Exit ==
  /\ phase = "exit" /\ pc[Main] = "idle"
  /\ phase' = "exited"
  /\ pc' = [a \in Actors |-> "idle"] /\ stage' = [a \in Actors |-> "none"]
  /\ lock' = Nobody
  /\ UNCHANGED <<ret, reg, undo, applied, keepalive, orig, late, used>>

-------------------------------------------------------------------------------
\* The keepalive thread: KEEPALIVE, not ours, KEEPALIVE again, commit_on.  A
\* check that fails sends it back to sleep.
KeepWake ==
  /\ phase \in {"run", "exit"} /\ pc[Keep] = "idle" /\ keepalive
  /\ Goto(Keep, "kSeen")
  /\ UNCHANGED <<ret, reg, undo, applied, lock, keepalive, stage, phase, orig, late, used>>

KeepCheck ==
  /\ \/ pc[Keep] = "kSeen" /\ UNCHANGED stage
        /\ Goto(Keep, IF CurrentlyOurs(reg) THEN "idle" ELSE "kOurs")
     \/ pc[Keep] = "kOurs" /\ keepalive /\ GotoAs(Keep, "onEnable", "keep")
     \/ pc[Keep] = "kOurs" /\ ~keepalive /\ GotoAs(Keep, "idle", "none")
  /\ UNCHANGED <<ret, reg, undo, applied, lock, keepalive, phase, orig, late, used>>

-------------------------------------------------------------------------------
\* The process starts, with fresh statics, and runs recover_orphaned: an undo
\* file is dropped unless the proxy is still ours.
Start ==
  /\ phase \in {"down", "exited", "crashed"}
  /\ keepalive' = FALSE
  /\ ret' = [a \in Actors |-> "ok"]
  /\ used' = [used EXCEPT !.calls = 0]
  /\ \/ /\ ~CurrentlyOurs(reg)
        /\ undo' = NoFile /\ applied' = FALSE /\ phase' = "run"
        /\ UNCHANGED <<pc, stage>>
     \/ /\ CurrentlyOurs(reg)
        /\ applied' = TRUE /\ phase' = "boot"
        /\ BeginRestore(Main, "recover") /\ UNCHANGED undo
  /\ UNCHANGED <<reg, lock, orig, late>>

Crash ==
  /\ Alive /\ used.crashes < MaxCrashes
  /\ phase' = "crashed"
  /\ pc' = [a \in Actors |-> "idle"] /\ stage' = [a \in Actors |-> "none"]
  /\ lock' = Nobody /\ applied' = FALSE /\ keepalive' = FALSE
  /\ Bump("crashes")
  /\ UNCHANGED <<ret, reg, undo, orig, late>>

\* Another program takes the system proxy while we run.
Steal(s) ==
  /\ Alive /\ used.steals < MaxSteals
  /\ reg' = [reg EXCEPT !.enable = 1, !.server = s]
  /\ Bump("steals")
  /\ UNCHANGED <<ret, undo, applied, lock, keepalive, pc, stage, phase, orig, late>>

\* A registry write, the undo file or notify fails.  apply_on's error ends
\* set(true), or is ignored by Keep; save_undo's is ignored; restore_undo
\* ignores set_values' error and removes the file all the same; apply_off's
\* ends set(false) before `applied` is cleared, and is ignored by recovery.
Fault(a) ==
  /\ used.faults < MaxFaults /\ Bump("faults")
  /\ \/ pc[a] \in {"onEnable", "onServer", "onNotify"} /\ Return(a, "err")
     \/ /\ pc[a] = "onLock" /\ lock = Nobody /\ ~applied
        /\ lock' = a /\ GotoAs(a, "onEnable", "first") /\ UNCHANGED ret
     \/ /\ pc[a] \in {"rEnable", "rServer"}
        /\ Goto(a, "rRemove") /\ UNCHANGED <<stage, lock, ret>>
     \/ /\ pc[a] \in {"offEnable", "offServer"} /\ stage[a] = "recover"
        /\ Goto(a, "offDone") /\ UNCHANGED <<stage, lock, ret>>
     \/ pc[a] \in {"offEnable", "offServer"} /\ stage[a] = "off" /\ Return(a, "err")
  /\ UNCHANGED <<reg, undo, applied, keepalive, phase, orig, late>>

Next ==
  \/ CallOn \/ Quit \/ Exit \/ Start \/ Crash \/ KeepWake \/ KeepCheck
  \/ \E a \in Callers : CallOff(a) \/ OnLock(a) \/ Check1(a) \/ Check2(a)
                          \/ OffLock(a) \/ RestoreUndo(a) \/ ApplyOff(a) \/ OffDone(a)
  \/ \E a \in Actors : WriteOn(a) \/ AppliedOn(a) \/ Fault(a)
  \/ \E s \in Foreign : Steal(s)

Spec == Init /\ [][Next]_vars

-------------------------------------------------------------------------------
\* Whenever the system proxy points at us, an undo file that holds somebody
\* else's settings exists, so that set(false), and after a crash
\* recover_orphaned, can give them back (save_undo before apply_on,
\* inbound.rs:648).  It takes a failing call, a commit_on that a set(false) has
\* overtaken (late), or both a crash and another program writing, to break it.
UndoWhileOurs ==
  (/\ CurrentlyOurs(reg) /\ ~late /\ used.faults = 0
   /\ used.steals = 0 \/ used.crashes = 0)
    => undo # NoFile /\ ~CurrentlyOurs(undo)

\* A clean exit whose force_restore reported no error never leaves the system
\* proxy at the port that has just been closed, whatever was stolen, failed or
\* crashed before, unless a commit_on wrote late.
ExitNotOurs ==
  phase = "exited" /\ ret[Main] = "ok" /\ ~late => ~CurrentlyOurs(reg)

\* README.md:39, for ProxyEnable and ProxyServer: with nobody else writing them,
\* and no call failing, a clean exit gives back the settings the program found,
\* also when it crashed and was started again in between, provided the user had a
\* proxy enabled.
RestoredOnExit ==
  (/\ phase = "exited" /\ ~late /\ used.steals = 0 /\ used.faults = 0
   /\ orig.enable = 1 \/ used.crashes = 0)
    => reg.enable = orig.enable /\ reg.server = orig.server

\* What a clean exit leaves behind: nobody is sent to the port just closed, and the
\* user's own settings are back.
ExitRestores == ExitNotOurs /\ RestoredOnExit

\* Whatever the last process did, and wherever it died, the system proxy does
\* not point at us once recover_orphaned has run and no call has failed.
RecoverClears ==
  [][phase' = "run" /\ phase # "run" /\ used.faults = 0 => ~CurrentlyOurs(reg')]_vars

===============================================================================

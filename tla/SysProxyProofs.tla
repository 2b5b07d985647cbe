---------------------------- MODULE SysProxyProofs ----------------------------
(***************************************************************************)
(* The Windows system proxy is given back.  While it points at us there is *)
(* an undo file with somebody else's settings, a clean exit leaves the     *)
(* user's settings behind, and recovery clears what a crash left.  For any *)
(* number of tasks that switch it off, calls, foreign writes, failing      *)
(* calls and crashes.                                                      *)
(***************************************************************************)
EXTENDS SysProxy, TLAPS

Servers  == Foreign \cup {Empty, Ours}
Settings == [enable : 0..1, server : Servers]
Registry == [enable : 0..1, server : Servers, auto : BOOLEAN]
Usage    == [calls : Nat, steals : Nat, faults : Nat, crashes : Nat]

OnPcs  == {"onEnable", "onServer", "onAuto", "onNotify"}
OffPcs == {"rEnable", "rServer", "rRemove", "offCheck", "offEnable", "offServer", "offDone"}
Pcs    == {"idle", "onLock", "check1", "check2", "offLock", "kSeen", "kOurs"} \cup OnPcs \cup OffPcs
Stages == {"none", "first", "commit", "recommit", "keep", "off", "recover"}
Phases == {"down", "boot", "run", "exit", "exited", "crashed"}

TypeOK ==
  /\ reg \in Registry /\ undo \in Settings \cup {NoFile}
  /\ applied \in BOOLEAN /\ lock \in Callers \cup {Nobody} /\ keepalive \in BOOLEAN
  /\ pc \in [Actors -> Pcs] /\ stage \in [Actors -> Stages] /\ ret \in [Actors -> {"ok", "err"}]
  /\ phase \in Phases
  /\ orig \in Registry /\ orig.server # Ours
  /\ late \in BOOLEAN /\ used \in Usage

\* On whose behalf an actor applies or restores.
StageOf(a) ==
  /\ pc[a] \in {"idle", "onLock", "offLock", "kSeen", "kOurs"} => stage[a] = "none"
  /\ pc[a] \in OnPcs => stage[a] \in {"first", "commit", "recommit", "keep"}
  /\ pc[a] = "check1" => stage[a] = "commit"
  /\ pc[a] = "check2" => stage[a] \in {"commit", "recommit"}
  /\ pc[a] \in OffPcs => stage[a] \in {"off", "recover"}

\* Which actor may be where, in which phase of the process.
Places ==
  /\ \A a \in Actors : StageOf(a) /\ (stage[a] = "recover" => a = Main /\ phase = "boot")
  /\ pc[Keep] \in {"idle", "kSeen", "kOurs"} \cup OnPcs
  /\ \A a \in Actors : stage[a] = "keep" <=> a = Keep /\ pc[a] \in OnPcs
  /\ \A a \in Tasks : pc[a] \in {"idle", "offLock"} \cup OffPcs
  /\ phase \in {"down", "exited", "crashed"} => \A a \in Actors : pc[a] = "idle"
  /\ phase = "boot" =>
       /\ stage[Main] = "recover" /\ applied /\ ~keepalive
       /\ \A a \in Actors \ {Main} : pc[a] = "idle"
  /\ phase = "exit" => ~keepalive /\ pc[Main] \in {"idle", "offLock"} \cup OffPcs

\* restore_undo works on a file that is there: it is removed by the restore itself.
FileThere == \A a \in Callers : pc[a] \in {"rEnable", "rServer", "rRemove"} => undo # NoFile

\* The APPLIED mutex is held by save_undo with the first apply_on, and by a restore.
Locked == \A a \in Callers : lock = a <=> stage[a] \in {"first", "off"}

\* The last thing a restore does is to look whether the proxy is still ours, and
\* the last thing a process does is a restore.
Cleared ==
  /\ \A a \in Callers : pc[a] = "offDone" /\ stage[a] = "off" /\ ~late => ~CurrentlyOurs(reg)
  /\ \A a \in Callers : pc[a] = "offDone" /\ stage[a] = "recover" /\ used.faults = 0 => ~CurrentlyOurs(reg)
  /\ phase = "exit" /\ pc[Main] = "idle" /\ used.faults = 0 => ret[Main] = "ok"
  /\ phase = "exit" /\ pc[Main] = "idle" /\ ret[Main] = "ok" /\ ~late
       => ~applied /\ lock = Nobody /\ ~CurrentlyOurs(reg)
  /\ phase = "exited" /\ ret[Main] = "ok" /\ ~late => ~CurrentlyOurs(reg)

\* Nobody holds the mutex: the proxy is on or off and nothing is half done, but for
\* the steps outside of it.
Settled  == phase \in {"run", "exit"} /\ lock = Nobody
Restores(a) == stage[a] \in {"off", "recover"}
CanUndo  == undo # NoFile /\ ~CurrentlyOurs(undo)

\* The premise of UndoWhileOurs.
Calm == ~late /\ used.faults = 0 /\ (used.steals = 0 \/ used.crashes = 0)

Guarded ==
  Calm =>
    /\ CurrentlyOurs(reg) => CanUndo
    /\ Settled /\ applied => CanUndo
    /\ Settled /\ ~applied => ~CurrentlyOurs(reg)
    /\ \A a \in Callers : stage[a] = "first" => CanUndo
    /\ \A a \in Callers : Restores(a) =>
         /\ pc[a] \notin {"offEnable", "offServer"}
         /\ pc[a] \in {"rEnable", "rServer", "rRemove"} => CanUndo
         /\ pc[a] = "rServer" /\ used.steals = 0 => reg.enable = undo.enable
         /\ pc[a] \in {"rRemove", "offCheck", "offDone"} => ~CurrentlyOurs(reg)

\* Without a crash our server never stands in the settings but while they are ours.
\* Only so is the restore safe against another program that writes in the middle.
Unmixed ==
  Calm /\ used.crashes = 0 =>
    /\ phase \notin {"boot", "crashed"}
    /\ undo # NoFile => undo.server # Ours
    /\ phase \in {"down", "exited"} \/ (Settled /\ ~applied) => reg.server # Ours
    /\ Settled /\ applied => reg.enable = 1
    /\ \A a \in Callers : stage[a] = "first" /\ pc[a] # "onEnable" => reg.enable = 1
    /\ \A a \in Callers : Restores(a) /\ pc[a] \in {"rRemove", "offCheck", "offDone"} => reg.server # Ours

\* The premise of RestoredOnExit, and what each step makes of the user's settings.
Alone   == ~late /\ used.steals = 0 /\ used.faults = 0 /\ (orig.enable = 1 \/ used.crashes = 0)
Same(r) == r.enable = orig.enable /\ r.server = orig.server

Returned ==
  Alone =>
    /\ phase = "crashed" => used.crashes > 0
    /\ undo # NoFile => Same(undo)
    /\ orig.enable = 1 => Same(reg) \/ CurrentlyOurs(reg)
    /\ phase \in {"down", "exited"} \/ (Settled /\ ~applied) => Same(reg)
    /\ Settled /\ applied => CurrentlyOurs(reg)
    /\ \A a \in Callers : stage[a] = "first" =>
         /\ pc[a] = "onEnable" => Same(reg)
         /\ pc[a] = "onServer" => reg.enable = 1 /\ reg.server = orig.server
         /\ pc[a] \in {"onAuto", "onNotify"} => CurrentlyOurs(reg)
    /\ \A a \in Callers : Restores(a) =>
         /\ pc[a] = "rEnable" => CurrentlyOurs(reg)
         /\ pc[a] = "rServer" => reg.server = Ours
         /\ pc[a] \in {"rRemove", "offCheck", "offDone"} => Same(reg)

ProxyInv == TypeOK /\ Places /\ Locked /\ FileThere /\ Cleared /\ Guarded /\ Unmixed /\ Returned

-------------------------------------------------------------------------------
\* Every step keeps the state well typed.
LEMMA TypeStep ==
  ASSUME TypeOK, Places, FileThere, [Next]_vars
  PROVE  TypeOK'
<1> USE SysProxyAssumption
    DEF TypeOK, Registry, Settings, Servers, Usage, Pcs, OnPcs, OffPcs, Stages, Phases,
        Actors, Callers
<1>1. ASSUME CallOn PROVE TypeOK'
  BY <1>1 DEF CallOn, Goto, Bump
<1>2. ASSUME Quit PROVE TypeOK'
  BY <1>2 DEF Quit, Goto
<1>3. ASSUME Exit PROVE TypeOK'
  BY <1>3 DEF Exit
<1>4. ASSUME Start PROVE TypeOK'
  <2>1. keepalive' \in BOOLEAN
    BY <1>4 DEF Start
  <2>2. applied' \in BOOLEAN
    BY <1>4 DEF Start
  <2>3. used' \in Usage
    BY <1>4 DEF Start
  <2>4. ret' \in [Actors -> {"ok", "err"}]
    BY <1>4 DEF Start
  <2>5. pc' \in [Actors -> Pcs] /\ stage' \in [Actors -> Stages]
    BY <1>4 DEF Start, BeginRestore, GotoAs, Goto
  <2>6. undo' \in Settings \cup {NoFile}
    BY <1>4 DEF Start
  <2> QED
    BY <1>4, <2>1, <2>2, <2>3, <2>4, <2>5, <2>6 DEF Start
<1>5. ASSUME Crash PROVE TypeOK'
  <2>1. keepalive' \in BOOLEAN
    BY <1>5 DEF Crash
  <2>2. applied' \in BOOLEAN
    BY <1>5 DEF Crash
  <2>3. used' \in Usage
    BY <1>5 DEF Crash, Bump
  <2>4. pc' \in [Actors -> Pcs] /\ stage' \in [Actors -> Stages]
    BY <1>5 DEF Crash
  <2> QED
    BY <1>5, <2>1, <2>2, <2>3, <2>4 DEF Crash
<1>6. ASSUME KeepWake PROVE TypeOK'
  BY <1>6 DEF KeepWake, Goto
<1>7. ASSUME KeepCheck PROVE TypeOK'
  BY <1>7 DEF KeepCheck, GotoAs, Goto
<1>8. ASSUME NEW a \in Callers, CallOff(a) PROVE TypeOK'
  <2>1. keepalive' \in BOOLEAN
    BY <1>8 DEF CallOff
  <2>2. used' \in Usage
    BY <1>8 DEF CallOff, Bump
  <2>3. pc' \in [Actors -> Pcs] /\ stage' \in [Actors -> Stages]
    BY <1>8 DEF CallOff, GotoAs, Goto
  <2> QED
    BY <1>8, <2>1, <2>2, <2>3 DEF CallOff
<1>9. ASSUME NEW a \in Callers, OnLock(a) PROVE TypeOK'
  BY <1>9 DEF OnLock, GotoAs, Goto, SavedBySaveUndo
<1>10. ASSUME NEW a \in Callers, Check1(a) PROVE TypeOK'
  BY <1>10 DEF Check1, GotoAs, Goto
<1>11. ASSUME NEW a \in Callers, Check2(a) PROVE TypeOK'
  <2>1. applied' \in BOOLEAN
    BY <1>11 DEF Check2
  <2>2. keepalive' \in BOOLEAN
    BY <1>11 DEF Check2
  <2>3. pc' \in [Actors -> Pcs] /\ stage' \in [Actors -> Stages]
    BY <1>11 DEF Check2, Return, GotoAs, Goto
  <2>4. ret' \in [Actors -> {"ok", "err"}]
    BY <1>11 DEF Check2, Return
  <2>5. lock' \in Callers \cup {Nobody}
    BY <1>11 DEF Check2, Return, Unlock
  <2> QED
    BY <1>11, <2>1, <2>2, <2>3, <2>4, <2>5 DEF Check2
<1>12. ASSUME NEW a \in Callers, OffLock(a) PROVE TypeOK'
  BY <1>12 DEF OffLock, BeginRestore, Return, Unlock, GotoAs, Goto
<1>13. ASSUME NEW a \in Callers, RestoreUndo(a) PROVE TypeOK'
  <2>1. pc[a] \in {"rEnable", "rServer"} => undo \in Settings
    BY DEF FileThere
  <2>2. CASE /\ pc[a] = "rEnable" /\ reg' = [reg EXCEPT !.enable = undo.enable]
             /\ Goto(a, "rServer") /\ UNCHANGED undo
    BY <1>13, <2>1, <2>2 DEF RestoreUndo, Goto
  <2>3. CASE /\ pc[a] = "rServer" /\ reg' = [reg EXCEPT !.server = undo.server]
             /\ Goto(a, "rRemove") /\ UNCHANGED undo
    BY <1>13, <2>1, <2>3 DEF RestoreUndo, Goto
  <2>4. CASE pc[a] = "rRemove" /\ undo' = NoFile /\ Goto(a, "offCheck") /\ UNCHANGED reg
    BY <1>13, <2>4 DEF RestoreUndo, Goto
  <2> QED
    BY <1>13, <2>2, <2>3, <2>4 DEF RestoreUndo
<1>14. ASSUME NEW a \in Callers, ApplyOff(a) PROVE TypeOK'
  BY <1>14 DEF ApplyOff, Goto
<1>15. ASSUME NEW a \in Callers, OffDone(a) PROVE TypeOK'
  BY <1>15 DEF OffDone, Return, Unlock, GotoAs, Goto
<1>16. ASSUME NEW a \in Actors, WriteOn(a) PROVE TypeOK'
  <2>1. late' \in BOOLEAN /\ (late => late') /\ (Overtaken(a) => late')
    BY <1>16 DEF WriteOn
  <2>2. CASE pc[a] = "onEnable" /\ reg' = [reg EXCEPT !.enable = 1] /\ Goto(a, "onServer")
    BY <1>16, <2>1, <2>2 DEF WriteOn, Goto, Overtaken
  <2>3. CASE pc[a] = "onServer" /\ reg' = [reg EXCEPT !.server = Ours] /\ Goto(a, "onAuto")
    BY <1>16, <2>1, <2>3 DEF WriteOn, Goto, Overtaken
  <2>4. CASE pc[a] = "onAuto" /\ reg' = [reg EXCEPT !.auto = FALSE] /\ Goto(a, "onNotify")
    BY <1>16, <2>1, <2>4 DEF WriteOn, Goto, Overtaken
  <2> QED
    BY <1>16, <2>2, <2>3, <2>4 DEF WriteOn
<1>17. ASSUME NEW a \in Actors, AppliedOn(a) PROVE TypeOK'
  <2>1. applied' \in BOOLEAN
    BY <1>17 DEF AppliedOn
  <2>2. pc' \in [Actors -> Pcs] /\ stage' \in [Actors -> Stages]
    BY <1>17 DEF AppliedOn, Return, GotoAs, Goto
  <2>3. ret' \in [Actors -> {"ok", "err"}]
    BY <1>17 DEF AppliedOn, Return
  <2>4. lock' \in Callers \cup {Nobody}
    BY <1>17 DEF AppliedOn, Return, Unlock
  <2> QED
    BY <1>17, <2>1, <2>2, <2>3, <2>4 DEF AppliedOn
<1>18. ASSUME NEW a \in Actors, Fault(a) PROVE TypeOK'
  <2>1. used' \in Usage
    BY <1>18 DEF Fault, Bump
  <2>2. pc' \in [Actors -> Pcs] /\ stage' \in [Actors -> Stages]
    BY <1>18 DEF Fault, Return, GotoAs, Goto
  <2>3. ret' \in [Actors -> {"ok", "err"}]
    BY <1>18 DEF Fault, Return
  <2>4. pc[a] = "onLock" => a \in Callers
    BY DEF Places
  <2>5. lock' \in Callers \cup {Nobody}
    BY <1>18, <2>4 DEF Fault, Bump, Return, Unlock, GotoAs, Goto
  <2> QED
    BY <1>18, <2>1, <2>2, <2>3, <2>4, <2>5 DEF Fault
<1>19. ASSUME NEW a \in Foreign, Steal(a) PROVE TypeOK'
  <2>1. reg' \in Registry
    <3>1. reg' = [enable |-> 1, server |-> a, auto |-> reg.auto]
      BY <1>19 DEF Steal
    <3> QED
      BY <3>1
  <2>2. used' \in Usage
    BY <1>19 DEF Steal, Bump
  <2> QED
    BY <1>19, <2>1, <2>2 DEF Steal
<1>20. CASE UNCHANGED vars
  BY <1>20 DEF vars
<1> QED
  BY <1>1, <1>2, <1>3, <1>4, <1>5, <1>6, <1>7, <1>8, <1>9, <1>10, <1>11,
     <1>12, <1>13, <1>14, <1>15, <1>16, <1>17, <1>18, <1>19, <1>20 DEF Next

\* An actor is where its stage allows, and the mutex with the stages that need it.
LEMMA PlaceStep ==
  ASSUME TypeOK, Places, Locked, [Next]_vars
  PROVE  Places' /\ Locked'
<1> USE SysProxyAssumption
    DEF TypeOK, Places, StageOf, Locked, Pcs, OnPcs, OffPcs, Stages, Phases, Actors, Callers
<1>1. ASSUME CallOn PROVE Places' /\ Locked'
  BY <1>1 DEF CallOn, Goto, Bump
<1>2. ASSUME Quit PROVE Places' /\ Locked'
  BY <1>2 DEF Quit, Goto
<1>3. ASSUME Exit PROVE Places' /\ Locked'
  BY <1>3 DEF Exit
<1>4. ASSUME Start PROVE Places' /\ Locked'
  BY <1>4 DEF Start, BeginRestore, GotoAs, Goto
<1>5. ASSUME Crash PROVE Places' /\ Locked'
  BY <1>5 DEF Crash, Alive, Bump
<1>6. ASSUME KeepWake PROVE Places' /\ Locked'
  BY <1>6 DEF KeepWake, Goto
<1>7. ASSUME KeepCheck PROVE Places' /\ Locked'
  BY <1>7 DEF KeepCheck, GotoAs, Goto
<1>8. ASSUME NEW a \in Callers, CallOff(a) PROVE Places' /\ Locked'
  BY <1>8 DEF CallOff, Goto, Bump
<1>9. ASSUME NEW a \in Callers, OnLock(a) PROVE Places' /\ Locked'
  BY <1>9 DEF OnLock, GotoAs, Goto, SavedBySaveUndo
<1>10. ASSUME NEW a \in Callers, Check1(a) PROVE Places' /\ Locked'
  BY <1>10 DEF Check1, GotoAs, Goto
<1>11. ASSUME NEW a \in Callers, Check2(a) PROVE Places' /\ Locked'
  BY <1>11 DEF Check2, Return, Unlock, GotoAs, Goto
<1>12. ASSUME NEW a \in Callers, OffLock(a) PROVE Places' /\ Locked'
  BY <1>12 DEF OffLock, BeginRestore, Return, Unlock, GotoAs, Goto
<1>13. ASSUME NEW a \in Callers, RestoreUndo(a) PROVE Places' /\ Locked'
  BY <1>13 DEF RestoreUndo, Goto
<1>14. ASSUME NEW a \in Callers, ApplyOff(a) PROVE Places' /\ Locked'
  BY <1>14 DEF ApplyOff, Goto
<1>15. ASSUME NEW a \in Callers, OffDone(a) PROVE Places' /\ Locked'
  BY <1>15 DEF OffDone, Return, Unlock, GotoAs, Goto
<1>16. ASSUME NEW a \in Actors, WriteOn(a) PROVE Places' /\ Locked'
  BY <1>16 DEF WriteOn, Goto, Overtaken
<1>17. ASSUME NEW a \in Actors, AppliedOn(a) PROVE Places' /\ Locked'
  BY <1>17 DEF AppliedOn, Return, Unlock, GotoAs, Goto
<1>18. ASSUME NEW a \in Actors, Fault(a) PROVE Places' /\ Locked'
  BY <1>18 DEF Fault, Bump, Return, Unlock, GotoAs, Goto
<1>19. ASSUME NEW a \in Foreign, Steal(a) PROVE Places' /\ Locked'
  BY <1>19 DEF Steal, Alive, Bump
<1>20. CASE UNCHANGED vars
  BY <1>20 DEF vars
<1> QED
  BY <1>1, <1>2, <1>3, <1>4, <1>5, <1>6, <1>7, <1>8, <1>9, <1>10, <1>11,
     <1>12, <1>13, <1>14, <1>15, <1>16, <1>17, <1>18, <1>19, <1>20 DEF Next

\* The undo file stays while a restore works on it: only the holder of the mutex, or
\* recovery before anything else runs, touches it (inbound.rs:767-778).
LEMMA FileStep ==
  ASSUME TypeOK, Places, Locked, FileThere, [Next]_vars
  PROVE  FileThere'
<1> USE SysProxyAssumption
    DEF TypeOK, Places, StageOf, Locked, FileThere, Pcs, OnPcs, OffPcs, Stages, Phases, Actors,
        Callers, Settings, Servers, Registry
<1>1. ASSUME CallOn PROVE FileThere'
  BY <1>1 DEF CallOn, Goto, Bump
<1>2. ASSUME Quit PROVE FileThere'
  BY <1>2 DEF Quit, Goto
<1>3. ASSUME Exit PROVE FileThere'
  BY <1>3 DEF Exit
<1>4. ASSUME Start PROVE FileThere'
  BY <1>4 DEF Start, BeginRestore, GotoAs, Goto
<1>5. ASSUME Crash PROVE FileThere'
  BY <1>5 DEF Crash, Alive, Bump
<1>6. ASSUME KeepWake PROVE FileThere'
  BY <1>6 DEF KeepWake, Goto
<1>7. ASSUME KeepCheck PROVE FileThere'
  BY <1>7 DEF KeepCheck, GotoAs, Goto
<1>8. ASSUME NEW a \in Callers, CallOff(a) PROVE FileThere'
  BY <1>8 DEF CallOff, Goto, Bump
<1>9. ASSUME NEW a \in Callers, OnLock(a) PROVE FileThere'
  BY <1>9 DEF OnLock, GotoAs, Goto, SavedBySaveUndo
<1>10. ASSUME NEW a \in Callers, Check1(a) PROVE FileThere'
  BY <1>10 DEF Check1, GotoAs, Goto
<1>11. ASSUME NEW a \in Callers, Check2(a) PROVE FileThere'
  BY <1>11 DEF Check2, Return, Unlock, GotoAs, Goto
<1>12. ASSUME NEW a \in Callers, OffLock(a) PROVE FileThere'
  BY <1>12 DEF OffLock, BeginRestore, Return, Unlock, GotoAs, Goto
<1>13. ASSUME NEW a \in Callers, RestoreUndo(a) PROVE FileThere'
  BY <1>13 DEF RestoreUndo, Goto
<1>14. ASSUME NEW a \in Callers, ApplyOff(a) PROVE FileThere'
  BY <1>14 DEF ApplyOff, Goto
<1>15. ASSUME NEW a \in Callers, OffDone(a) PROVE FileThere'
  BY <1>15 DEF OffDone, Return, Unlock, GotoAs, Goto
<1>16. ASSUME NEW a \in Actors, WriteOn(a) PROVE FileThere'
  BY <1>16 DEF WriteOn, Goto, Overtaken
<1>17. ASSUME NEW a \in Actors, AppliedOn(a) PROVE FileThere'
  BY <1>17 DEF AppliedOn, Return, Unlock, GotoAs, Goto
<1>18. ASSUME NEW a \in Actors, Fault(a) PROVE FileThere'
  BY <1>18 DEF Fault, Bump, Return, Unlock, GotoAs, Goto
<1>19. ASSUME NEW a \in Foreign, Steal(a) PROVE FileThere'
  BY <1>19 DEF Steal, Alive, Bump
<1>20. CASE UNCHANGED vars
  BY <1>20 DEF vars
<1> QED
  BY <1>1, <1>2, <1>3, <1>4, <1>5, <1>6, <1>7, <1>8, <1>9, <1>10, <1>11,
     <1>12, <1>13, <1>14, <1>15, <1>16, <1>17, <1>18, <1>19, <1>20 DEF Next

\* Whoever finds the mutex free finds nobody at a first apply_on or a restore.
LEMMA MutexFree ==
  ASSUME TypeOK, Places, Locked, lock = Nobody, NEW a \in Callers, pc[a] \in {"onLock", "offLock"}
  PROVE  /\ phase \in {"run", "exit"} /\ (pc[a] = "onLock" => phase = "run")
         /\ \A b \in Callers : stage[b] \notin {"first", "off", "recover"}
<1>1. stage[a] = "none"
  BY DEF Places, StageOf, Actors, Callers
<1>2. phase # "boot"
  BY <1>1, SysProxyAssumption DEF Places, Actors, Callers
<1>3. phase \notin {"down", "exited", "crashed"}
  BY DEF Places, Actors, Callers
<1>4. pc[a] = "onLock" => phase # "exit"
  BY DEF Places, OffPcs, Callers
<1>5. \A b \in Callers : stage[b] \notin {"first", "off"}
  BY SysProxyAssumption DEF Locked, Callers, Actors
<1>6. \A b \in Callers : stage[b] # "recover"
  BY <1>2 DEF Places, Callers, Actors
<1> QED
  BY <1>2, <1>3, <1>4, <1>5, <1>6 DEF TypeOK, Phases

\* A write that is not overtaken is made with the mutex held, or between a set(true)
\* and a set(false); nobody restores meanwhile.
LEMMA OnTime ==
  ASSUME TypeOK, Places, Locked, NEW a \in Actors, pc[a] \in OnPcs, ~Overtaken(a)
  PROVE  /\ \/ stage[a] = "first" /\ a \in Callers /\ lock = a
            \/ applied /\ lock = Nobody /\ phase \in {"run", "exit"}
         /\ \A b \in Callers : stage[b] \notin {"off", "recover"}
<1>1. phase \notin {"down", "exited", "crashed"}
  BY DEF Places, OnPcs
<1>2. phase # "boot"
  <2>1. CASE a = Main
    BY <2>1 DEF Places, StageOf, OnPcs
  <2>2. CASE a # Main
    BY <2>2 DEF Places, OnPcs
  <2> QED
    BY <2>1, <2>2
<1>3. \A b \in Callers : stage[b] # "recover"
  BY <1>2 DEF Places, Callers, Actors
<1>4. stage[a] \in {"first", "commit", "recommit", "keep"}
  BY DEF Places, StageOf
<1>5. CASE stage[a] = "first"
  <2>1. a \in Callers
    BY <1>5 DEF Places, Actors, Callers, OnPcs
  <2>2. lock = a
    BY <1>5, <2>1 DEF Locked
  <2> QED
    BY <1>3, <1>5, <2>1, <2>2 DEF Locked
<1>6. CASE stage[a] # "first"
  <2>1. applied /\ lock = Nobody
    BY <1>4, <1>6 DEF Overtaken
  <2> QED
    BY <1>1, <1>2, <1>3, <2>1, SysProxyAssumption DEF Locked, TypeOK, Phases, Callers
<1> QED
  BY <1>5, <1>6

\* A restore ends with a registry that is not ours, unless a commit_on wrote late
\* (inbound.rs:667-677).
LEMMA ClearStep ==
  ASSUME TypeOK, TypeOK', Places, Locked, Cleared, [Next]_vars
  PROVE  Cleared'
<1> USE SysProxyAssumption
    DEF TypeOK, Registry, Settings, Servers, Usage, OnPcs, OffPcs, Actors, Callers,
        Places, StageOf, Locked, Cleared, CurrentlyOurs
<1>1. ASSUME CallOn PROVE Cleared'
  BY <1>1 DEF CallOn, Goto, Bump
<1>2. ASSUME Quit PROVE Cleared'
  BY <1>2 DEF Quit, Goto
<1>3. ASSUME Exit PROVE Cleared'
  BY <1>3 DEF Exit
<1>4. ASSUME Start PROVE Cleared'
  BY <1>4 DEF Start, BeginRestore, GotoAs, Goto
<1>5. ASSUME Crash PROVE Cleared'
  BY <1>5 DEF Crash, Alive, Bump
<1>6. ASSUME KeepWake PROVE Cleared'
  BY <1>6 DEF KeepWake, Goto
<1>7. ASSUME KeepCheck PROVE Cleared'
  BY <1>7 DEF KeepCheck, GotoAs, Goto
<1>8. ASSUME NEW a \in Callers, CallOff(a) PROVE Cleared'
  BY <1>8 DEF CallOff, Goto, Bump
<1>9. ASSUME NEW a \in Callers, OnLock(a) PROVE Cleared'
  BY <1>9 DEF OnLock, GotoAs, Goto, SavedBySaveUndo
<1>10. ASSUME NEW a \in Callers, Check1(a) PROVE Cleared'
  BY <1>10 DEF Check1, GotoAs, Goto
<1>11. ASSUME NEW a \in Callers, Check2(a) PROVE Cleared'
  BY <1>11 DEF Check2, Return, Unlock, GotoAs, Goto
<1>12. ASSUME NEW a \in Callers, OffLock(a) PROVE Cleared'
  BY <1>12 DEF OffLock, BeginRestore, Return, Unlock, GotoAs, Goto
<1>13. ASSUME NEW a \in Callers, RestoreUndo(a) PROVE Cleared'
  BY <1>13 DEF RestoreUndo, Goto
<1>14. ASSUME NEW a \in Callers, ApplyOff(a) PROVE Cleared'
  BY <1>14 DEF ApplyOff, Goto
<1>15. ASSUME NEW a \in Callers, OffDone(a) PROVE Cleared'
  BY <1>15 DEF OffDone, Return, Unlock, GotoAs, Goto
<1>16. ASSUME NEW a \in Actors, WriteOn(a) PROVE Cleared'
  <2>1. late' \in BOOLEAN /\ (late => late') /\ (Overtaken(a) => late')
    BY <1>16 DEF WriteOn
  <2>2. CASE pc[a] = "onEnable" /\ reg' = [reg EXCEPT !.enable = 1] /\ Goto(a, "onServer")
    BY <1>16, <2>1, <2>2 DEF WriteOn, Goto, Overtaken
  <2>3. CASE pc[a] = "onServer" /\ reg' = [reg EXCEPT !.server = Ours] /\ Goto(a, "onAuto")
    BY <1>16, <2>1, <2>3 DEF WriteOn, Goto, Overtaken
  <2>4. CASE pc[a] = "onAuto" /\ reg' = [reg EXCEPT !.auto = FALSE] /\ Goto(a, "onNotify")
    BY <1>16, <2>1, <2>4 DEF WriteOn, Goto, Overtaken
  <2> QED
    BY <1>16, <2>2, <2>3, <2>4 DEF WriteOn
<1>17. ASSUME NEW a \in Actors, AppliedOn(a) PROVE Cleared'
  BY <1>17 DEF AppliedOn, Return, Unlock, GotoAs, Goto
<1>18. ASSUME NEW a \in Actors, Fault(a) PROVE Cleared'
  BY <1>18 DEF Fault, Bump, Return, Unlock, GotoAs, Goto
<1>19. ASSUME NEW a \in Foreign, Steal(a) PROVE Cleared'
  BY <1>19 DEF Steal, Alive, Bump
<1>20. CASE UNCHANGED vars
  BY <1>20 DEF vars
<1> QED
  BY <1>1, <1>2, <1>3, <1>4, <1>5, <1>6, <1>7, <1>8, <1>9, <1>10, <1>11,
     <1>12, <1>13, <1>14, <1>15, <1>16, <1>17, <1>18, <1>19, <1>20 DEF Next

\* While the proxy is ours, somebody else's settings are in the file
\* (inbound.rs:644-656, 755-778).
LEMMA GuardStep ==
  ASSUME TypeOK, TypeOK', Places, Locked, Cleared, Guarded, Unmixed, [Next]_vars
  PROVE  Guarded'
<1> USE SysProxyAssumption
    DEF TypeOK, Registry, Settings, Servers, Usage, OnPcs, OffPcs, Actors, Callers,
        Places, StageOf, Locked, Cleared, Guarded, Unmixed, Calm, Settled, Restores, CanUndo, CurrentlyOurs
<1>1. ASSUME CallOn PROVE Guarded'
  BY <1>1 DEF CallOn, Goto, Bump
<1>2. ASSUME Quit PROVE Guarded'
  BY <1>2 DEF Quit, Goto
<1>3. ASSUME Exit PROVE Guarded'
  BY <1>3 DEF Exit
<1>4. ASSUME Start PROVE Guarded'
  BY <1>4 DEF Start, BeginRestore, GotoAs, Goto
<1>5. ASSUME Crash PROVE Guarded'
  BY <1>5 DEF Crash, Alive, Bump
<1>6. ASSUME KeepWake PROVE Guarded'
  BY <1>6 DEF KeepWake, Goto
<1>7. ASSUME KeepCheck PROVE Guarded'
  BY <1>7 DEF KeepCheck, GotoAs, Goto
<1>8. ASSUME NEW a \in Callers, CallOff(a) PROVE Guarded'
  BY <1>8 DEF CallOff, Goto, Bump
<1>9. ASSUME NEW a \in Callers, OnLock(a) PROVE Guarded'
  <2>1. CASE applied
    BY <1>9, <2>1 DEF OnLock, GotoAs, Goto
  <2>2. CASE ~applied
    <3>1. undo' = [enable |-> reg.enable, server |-> reg.server] /\ undo' # NoFile
      BY <1>9, <2>2 DEF OnLock, SavedBySaveUndo
    <3>2. undo'.enable = reg.enable /\ undo'.server = reg.server
      BY <3>1
    <3>3. /\ phase = "run" /\ lock = Nobody
          /\ \A b \in Callers : stage[b] \notin {"first", "off", "recover"}
      BY <1>9, MutexFree DEF OnLock
    <3>4. /\ lock' = a /\ pc'[a] = "onEnable" /\ stage'[a] = "first"
          /\ \A b \in Callers \ {a} : pc'[b] = pc[b] /\ stage'[b] = stage[b]
      BY <1>9, <2>2 DEF OnLock, GotoAs, Goto
    <3>5. UNCHANGED <<reg, applied, phase, orig, late, used>>
      BY <1>9 DEF OnLock
    <3> QED
      BY <2>2, <3>1, <3>2, <3>3, <3>4, <3>5
  <2> QED
    BY <2>1, <2>2
<1>10. ASSUME NEW a \in Callers, Check1(a) PROVE Guarded'
  BY <1>10 DEF Check1, GotoAs, Goto
<1>11. ASSUME NEW a \in Callers, Check2(a) PROVE Guarded'
  BY <1>11 DEF Check2, Return, Unlock, GotoAs, Goto
<1>12. ASSUME NEW a \in Callers, OffLock(a) PROVE Guarded'
  <2>1. /\ phase \in {"run", "exit"} /\ lock = Nobody
        /\ \A b \in Callers : stage[b] \notin {"first", "off", "recover"}
    BY <1>12, MutexFree DEF OffLock
  <2>2. UNCHANGED <<reg, undo, applied, phase, orig, late, used>>
    BY <1>12 DEF OffLock
  <2>3. CASE (applied \/ CurrentlyOurs(reg)) /\ lock' = a /\ BeginRestore(a, "off") /\ UNCHANGED ret
    <3>1. Calm => applied /\ CanUndo
      BY <2>1, <2>3
    <3>2. /\ pc'[a] = (IF undo = NoFile THEN "offCheck" ELSE "rEnable") /\ stage'[a] = "off"
          /\ \A b \in Callers \ {a} : pc'[b] = pc[b] /\ stage'[b] = stage[b]
      BY <2>3 DEF BeginRestore, GotoAs, Goto
    <3> QED
      BY <2>1, <2>2, <2>3, <3>1, <3>2
  <2>4. CASE ~(applied \/ CurrentlyOurs(reg)) /\ Return(a, "ok")
    BY <1>12, <2>1, <2>2, <2>4 DEF Return, Unlock, GotoAs, Goto
  <2> QED
    BY <1>12, <2>3, <2>4 DEF OffLock
<1>13. ASSUME NEW a \in Callers, RestoreUndo(a) PROVE Guarded'
  BY <1>13 DEF RestoreUndo, Goto
<1>14. ASSUME NEW a \in Callers, ApplyOff(a) PROVE Guarded'
  BY <1>14 DEF ApplyOff, Goto
<1>15. ASSUME NEW a \in Callers, OffDone(a) PROVE Guarded'
  BY <1>15 DEF OffDone, Return, Unlock, GotoAs, Goto
<1>16. ASSUME NEW a \in Actors, WriteOn(a) PROVE Guarded'
  <2>1. late' \in BOOLEAN /\ (late => late') /\ (Overtaken(a) => late')
    BY <1>16 DEF WriteOn
  <2>2. UNCHANGED <<undo, applied, lock, stage, phase, orig, used>>
    BY <1>16 DEF WriteOn
  <2>3. ~late' => /\ \/ stage[a] = "first" /\ a \in Callers /\ lock = a
                     \/ applied /\ lock = Nobody /\ phase \in {"run", "exit"}
                  /\ \A b \in Callers : stage[b] \notin {"off", "recover"}
    BY <1>16, <2>1, OnTime DEF WriteOn
  <2>5. Calm' => CanUndo' /\ (Settled' => applied')
    BY <2>1, <2>2, <2>3
  <2> QED
    BY <2>1, <2>2, <2>3, <2>5
<1>17. ASSUME NEW a \in Actors, AppliedOn(a) PROVE Guarded'
  BY <1>17 DEF AppliedOn, Return, Unlock, GotoAs, Goto
<1>18. ASSUME NEW a \in Actors, Fault(a) PROVE Guarded'
  BY <1>18 DEF Fault, Bump, Return, Unlock, GotoAs, Goto
<1>19. ASSUME NEW a \in Foreign, Steal(a) PROVE Guarded'
  BY <1>19 DEF Steal, Alive, Bump
<1>20. CASE UNCHANGED vars
  BY <1>20 DEF vars
<1> QED
  BY <1>1, <1>2, <1>3, <1>4, <1>5, <1>6, <1>7, <1>8, <1>9, <1>10, <1>11,
     <1>12, <1>13, <1>14, <1>15, <1>16, <1>17, <1>18, <1>19, <1>20 DEF Next

\* Without a crash our server comes and goes together with ProxyEnable (inbound.rs:820-838).
LEMMA UnmixedStep ==
  ASSUME TypeOK, TypeOK', Places, Locked, Cleared, Guarded, Unmixed, [Next]_vars
  PROVE  Unmixed'
<1> USE SysProxyAssumption
    DEF TypeOK, Registry, Settings, Servers, Usage, OnPcs, OffPcs, Actors, Callers,
        Places, StageOf, Locked, Cleared, Guarded, Unmixed, Calm, Settled, Restores, CanUndo, CurrentlyOurs
<1>1. ASSUME CallOn PROVE Unmixed'
  BY <1>1 DEF CallOn, Goto, Bump
<1>2. ASSUME Quit PROVE Unmixed'
  BY <1>2 DEF Quit, Goto
<1>3. ASSUME Exit PROVE Unmixed'
  BY <1>3 DEF Exit
<1>4. ASSUME Start PROVE Unmixed'
  BY <1>4 DEF Start, BeginRestore, GotoAs, Goto
<1>5. ASSUME Crash PROVE Unmixed'
  BY <1>5 DEF Crash, Alive, Bump
<1>6. ASSUME KeepWake PROVE Unmixed'
  BY <1>6 DEF KeepWake, Goto
<1>7. ASSUME KeepCheck PROVE Unmixed'
  BY <1>7 DEF KeepCheck, GotoAs, Goto
<1>8. ASSUME NEW a \in Callers, CallOff(a) PROVE Unmixed'
  BY <1>8 DEF CallOff, Goto, Bump
<1>9. ASSUME NEW a \in Callers, OnLock(a) PROVE Unmixed'
  <2>1. CASE applied
    BY <1>9, <2>1 DEF OnLock, GotoAs, Goto
  <2>2. CASE ~applied
    <3>1. undo' = [enable |-> reg.enable, server |-> reg.server] /\ undo' # NoFile
      BY <1>9, <2>2 DEF OnLock, SavedBySaveUndo
    <3>2. undo'.enable = reg.enable /\ undo'.server = reg.server
      BY <3>1
    <3>3. /\ phase = "run" /\ lock = Nobody
          /\ \A b \in Callers : stage[b] \notin {"first", "off", "recover"}
      BY <1>9, MutexFree DEF OnLock
    <3>4. /\ lock' = a /\ pc'[a] = "onEnable" /\ stage'[a] = "first"
          /\ \A b \in Callers \ {a} : pc'[b] = pc[b] /\ stage'[b] = stage[b]
      BY <1>9, <2>2 DEF OnLock, GotoAs, Goto
    <3>5. UNCHANGED <<reg, applied, phase, orig, late, used>>
      BY <1>9 DEF OnLock
    <3> QED
      BY <2>2, <3>1, <3>2, <3>3, <3>4, <3>5
  <2> QED
    BY <2>1, <2>2
<1>10. ASSUME NEW a \in Callers, Check1(a) PROVE Unmixed'
  BY <1>10 DEF Check1, GotoAs, Goto
<1>11. ASSUME NEW a \in Callers, Check2(a) PROVE Unmixed'
  BY <1>11 DEF Check2, Return, Unlock, GotoAs, Goto
<1>12. ASSUME NEW a \in Callers, OffLock(a) PROVE Unmixed'
  <2>1. /\ phase \in {"run", "exit"} /\ lock = Nobody
        /\ \A b \in Callers : stage[b] \notin {"first", "off", "recover"}
    BY <1>12, MutexFree DEF OffLock
  <2>2. UNCHANGED <<reg, undo, applied, phase, orig, late, used>>
    BY <1>12 DEF OffLock
  <2>3. CASE (applied \/ CurrentlyOurs(reg)) /\ lock' = a /\ BeginRestore(a, "off") /\ UNCHANGED ret
    <3>1. Calm => applied /\ CanUndo
      BY <2>1, <2>3
    <3>2. /\ pc'[a] = (IF undo = NoFile THEN "offCheck" ELSE "rEnable") /\ stage'[a] = "off"
          /\ \A b \in Callers \ {a} : pc'[b] = pc[b] /\ stage'[b] = stage[b]
      BY <2>3 DEF BeginRestore, GotoAs, Goto
    <3> QED
      BY <2>1, <2>2, <2>3, <3>1, <3>2
  <2>4. CASE ~(applied \/ CurrentlyOurs(reg)) /\ Return(a, "ok")
    BY <1>12, <2>1, <2>2, <2>4 DEF Return, Unlock, GotoAs, Goto
  <2> QED
    BY <1>12, <2>3, <2>4 DEF OffLock
<1>13. ASSUME NEW a \in Callers, RestoreUndo(a) PROVE Unmixed'
  BY <1>13 DEF RestoreUndo, Goto
<1>14. ASSUME NEW a \in Callers, ApplyOff(a) PROVE Unmixed'
  BY <1>14 DEF ApplyOff, Goto
<1>15. ASSUME NEW a \in Callers, OffDone(a) PROVE Unmixed'
  BY <1>15 DEF OffDone, Return, Unlock, GotoAs, Goto
<1>16. ASSUME NEW a \in Actors, WriteOn(a) PROVE Unmixed'
  <2>1. late' \in BOOLEAN /\ (late => late') /\ (Overtaken(a) => late')
    BY <1>16 DEF WriteOn
  <2>2. CASE pc[a] = "onEnable" /\ reg' = [reg EXCEPT !.enable = 1] /\ Goto(a, "onServer")
    BY <1>16, <2>1, <2>2 DEF WriteOn, Goto, Overtaken
  <2>3. CASE pc[a] = "onServer" /\ reg' = [reg EXCEPT !.server = Ours] /\ Goto(a, "onAuto")
    BY <1>16, <2>1, <2>3 DEF WriteOn, Goto, Overtaken
  <2>4. CASE pc[a] = "onAuto" /\ reg' = [reg EXCEPT !.auto = FALSE] /\ Goto(a, "onNotify")
    BY <1>16, <2>1, <2>4 DEF WriteOn, Goto, Overtaken
  <2> QED
    BY <1>16, <2>2, <2>3, <2>4 DEF WriteOn
<1>17. ASSUME NEW a \in Actors, AppliedOn(a) PROVE Unmixed'
  BY <1>17 DEF AppliedOn, Return, Unlock, GotoAs, Goto
<1>18. ASSUME NEW a \in Actors, Fault(a) PROVE Unmixed'
  BY <1>18 DEF Fault, Bump, Return, Unlock, GotoAs, Goto
<1>19. ASSUME NEW a \in Foreign, Steal(a) PROVE Unmixed'
  BY <1>19 DEF Steal, Alive, Bump
<1>20. CASE UNCHANGED vars
  BY <1>20 DEF vars
<1> QED
  BY <1>1, <1>2, <1>3, <1>4, <1>5, <1>6, <1>7, <1>8, <1>9, <1>10, <1>11,
     <1>12, <1>13, <1>14, <1>15, <1>16, <1>17, <1>18, <1>19, <1>20 DEF Next

\* What is written and restored is what the user had.
LEMMA ReturnStep ==
  ASSUME TypeOK, TypeOK', Places, Locked, Cleared, Guarded, Returned, [Next]_vars
  PROVE  Returned'
<1> USE SysProxyAssumption
    DEF TypeOK, Registry, Settings, Servers, Usage, OnPcs, OffPcs, Actors, Callers,
        Places, StageOf, Locked, Cleared, Guarded, Returned, Calm, Alone, Same, Settled, Restores, CanUndo,
        CurrentlyOurs
<1>1. ASSUME CallOn PROVE Returned'
  BY <1>1 DEF CallOn, Goto, Bump
<1>2. ASSUME Quit PROVE Returned'
  BY <1>2 DEF Quit, Goto
<1>3. ASSUME Exit PROVE Returned'
  BY <1>3 DEF Exit
<1>4. ASSUME Start PROVE Returned'
  BY <1>4 DEF Start, BeginRestore, GotoAs, Goto
<1>5. ASSUME Crash PROVE Returned'
  BY <1>5 DEF Crash, Alive, Bump
<1>6. ASSUME KeepWake PROVE Returned'
  BY <1>6 DEF KeepWake, Goto
<1>7. ASSUME KeepCheck PROVE Returned'
  BY <1>7 DEF KeepCheck, GotoAs, Goto
<1>8. ASSUME NEW a \in Callers, CallOff(a) PROVE Returned'
  BY <1>8 DEF CallOff, Goto, Bump
<1>9. ASSUME NEW a \in Callers, OnLock(a) PROVE Returned'
  <2>1. CASE applied
    BY <1>9, <2>1 DEF OnLock, GotoAs, Goto
  <2>2. CASE ~applied
    <3>1. undo' = [enable |-> reg.enable, server |-> reg.server] /\ undo' # NoFile
      BY <1>9, <2>2 DEF OnLock, SavedBySaveUndo
    <3>2. undo'.enable = reg.enable /\ undo'.server = reg.server
      BY <3>1
    <3>3. /\ phase = "run" /\ lock = Nobody
          /\ \A b \in Callers : stage[b] \notin {"first", "off", "recover"}
      BY <1>9, MutexFree DEF OnLock
    <3>4. /\ lock' = a /\ pc'[a] = "onEnable" /\ stage'[a] = "first"
          /\ \A b \in Callers \ {a} : pc'[b] = pc[b] /\ stage'[b] = stage[b]
      BY <1>9, <2>2 DEF OnLock, GotoAs, Goto
    <3>5. UNCHANGED <<reg, applied, phase, orig, late, used>>
      BY <1>9 DEF OnLock
    <3> QED
      BY <2>2, <3>1, <3>2, <3>3, <3>4, <3>5
  <2> QED
    BY <2>1, <2>2
<1>10. ASSUME NEW a \in Callers, Check1(a) PROVE Returned'
  BY <1>10 DEF Check1, GotoAs, Goto
<1>11. ASSUME NEW a \in Callers, Check2(a) PROVE Returned'
  BY <1>11 DEF Check2, Return, Unlock, GotoAs, Goto
<1>12. ASSUME NEW a \in Callers, OffLock(a) PROVE Returned'
  <2>1. /\ phase \in {"run", "exit"} /\ lock = Nobody
        /\ \A b \in Callers : stage[b] \notin {"first", "off", "recover"}
    BY <1>12, MutexFree DEF OffLock
  <2>2. UNCHANGED <<reg, undo, applied, phase, orig, late, used>>
    BY <1>12 DEF OffLock
  <2>3. CASE (applied \/ CurrentlyOurs(reg)) /\ lock' = a /\ BeginRestore(a, "off") /\ UNCHANGED ret
    <3>1. Calm => applied /\ CanUndo
      BY <2>1, <2>3
    <3>2. /\ pc'[a] = (IF undo = NoFile THEN "offCheck" ELSE "rEnable") /\ stage'[a] = "off"
          /\ \A b \in Callers \ {a} : pc'[b] = pc[b] /\ stage'[b] = stage[b]
      BY <2>3 DEF BeginRestore, GotoAs, Goto
    <3> QED
      BY <2>1, <2>2, <2>3, <3>1, <3>2
  <2>4. CASE ~(applied \/ CurrentlyOurs(reg)) /\ Return(a, "ok")
    BY <1>12, <2>1, <2>2, <2>4 DEF Return, Unlock, GotoAs, Goto
  <2> QED
    BY <1>12, <2>3, <2>4 DEF OffLock
<1>13. ASSUME NEW a \in Callers, RestoreUndo(a) PROVE Returned'
  BY <1>13 DEF RestoreUndo, Goto
<1>14. ASSUME NEW a \in Callers, ApplyOff(a) PROVE Returned'
  BY <1>14 DEF ApplyOff, Goto
<1>15. ASSUME NEW a \in Callers, OffDone(a) PROVE Returned'
  BY <1>15 DEF OffDone, Return, Unlock, GotoAs, Goto
<1>16. ASSUME NEW a \in Actors, WriteOn(a) PROVE Returned'
  <2>1. late' \in BOOLEAN /\ (late => late') /\ (Overtaken(a) => late')
    BY <1>16 DEF WriteOn
  <2>2. CASE pc[a] = "onEnable" /\ reg' = [reg EXCEPT !.enable = 1] /\ Goto(a, "onServer")
    BY <1>16, <2>1, <2>2 DEF WriteOn, Goto, Overtaken
  <2>3. CASE pc[a] = "onServer" /\ reg' = [reg EXCEPT !.server = Ours] /\ Goto(a, "onAuto")
    BY <1>16, <2>1, <2>3 DEF WriteOn, Goto, Overtaken
  <2>4. CASE pc[a] = "onAuto" /\ reg' = [reg EXCEPT !.auto = FALSE] /\ Goto(a, "onNotify")
    BY <1>16, <2>1, <2>4 DEF WriteOn, Goto, Overtaken
  <2> QED
    BY <1>16, <2>2, <2>3, <2>4 DEF WriteOn
<1>17. ASSUME NEW a \in Actors, AppliedOn(a) PROVE Returned'
  BY <1>17 DEF AppliedOn, Return, Unlock, GotoAs, Goto
<1>18. ASSUME NEW a \in Actors, Fault(a) PROVE Returned'
  BY <1>18 DEF Fault, Bump, Return, Unlock, GotoAs, Goto
<1>19. ASSUME NEW a \in Foreign, Steal(a) PROVE Returned'
  BY <1>19 DEF Steal, Alive, Bump
<1>20. CASE UNCHANGED vars
  BY <1>20 DEF vars
<1> QED
  BY <1>1, <1>2, <1>3, <1>4, <1>5, <1>6, <1>7, <1>8, <1>9, <1>10, <1>11,
     <1>12, <1>13, <1>14, <1>15, <1>16, <1>17, <1>18, <1>19, <1>20 DEF Next

-------------------------------------------------------------------------------
(* The theorems.                                                               *)

LEMMA ProxyStart ==
  ASSUME Init
  PROVE  ProxyInv
<1> USE SysProxyAssumption DEF Init
<1>1. TypeOK
  BY DEF TypeOK, Registry, Servers, Usage, Pcs, Stages, Phases, Callers
<1>2. Places /\ Locked /\ FileThere
  BY DEF Places, StageOf, Locked, FileThere, OnPcs, OffPcs, Actors, Callers
<1>3. Cleared /\ Guarded /\ Unmixed /\ Returned
  BY DEF Cleared, Guarded, Unmixed, Returned, Calm, Alone, Same, Settled, Restores, CurrentlyOurs,
         Actors, Callers
<1> QED
  BY <1>1, <1>2, <1>3 DEF ProxyInv

\* Every step of a caller, the keepalive thread, another program or a crash keeps the
\* invariant.
LEMMA ProxyStep ==
  ASSUME ProxyInv, [Next]_vars
  PROVE  ProxyInv'
<1> USE DEF ProxyInv
<1>1. TypeOK'
  BY TypeStep
<1>2. Places' /\ Locked' /\ FileThere'
  BY PlaceStep, FileStep
<1>3. Cleared' /\ Guarded' /\ Unmixed' /\ Returned'
  BY <1>1, ClearStep, GuardStep, UnmixedStep, ReturnStep
<1> QED
  BY <1>1, <1>2, <1>3

\* The inductive invariant: who may be where, who holds the APPLIED mutex, and what
\* the registry and the undo file hold at each step of set(true), set(false) and
\* recover_orphaned (inbound.rs:637-778).
THEOREM ProxyInvariant == Spec => []ProxyInv
<1>1. Init => ProxyInv
  BY ProxyStart
<1>2. ProxyInv /\ [Next]_vars => ProxyInv'
  BY ProxyStep
<1> QED
  BY <1>1, <1>2, PTL DEF Spec

\* Whenever the system proxy points at us there is an undo file with somebody else's
\* settings, for any number of tasks and calls, and for crashes or foreign writes
\* at any step (save_undo before apply_on, inbound.rs:648).
THEOREM ProxyUndoWhileOurs == Spec => []UndoWhileOurs
<1>1. ProxyInv => UndoWhileOurs
  BY DEF ProxyInv, Guarded, Calm, CanUndo, UndoWhileOurs
<1> QED
  BY <1>1, ProxyInvariant, PTL

\* A clean exit leaves nobody at the port just closed and gives the user's settings
\* back (force_restore, inbound.rs:546).
THEOREM ProxyExitRestores == Spec => []ExitRestores
<1>1. ProxyInv => ExitNotOurs
  BY DEF ProxyInv, Cleared, ExitNotOurs
<1>2. ProxyInv => RestoredOnExit
  BY DEF ProxyInv, Returned, Alone, Same, RestoredOnExit
<1>3. ProxyInv => ExitRestores
  BY <1>1, <1>2 DEF ExitRestores
<1> QED
  BY <1>3, ProxyInvariant, PTL

\* However the last process ended, once recover_orphaned is through the proxy does not
\* point at us, unless a call failed (inbound.rs:716-730).
THEOREM ProxyRecoverClears == Spec => RecoverClears
<1>1. ASSUME ProxyInv, [Next]_vars, phase' = "run", phase # "run", used.faults = 0
      PROVE  ~CurrentlyOurs(reg')
  <2>1. CASE Start
    BY <1>1, <2>1 DEF Start
  <2>2. ASSUME NEW a \in Callers, OffDone(a) PROVE ~CurrentlyOurs(reg')
    <3>1. pc[a] = "offDone" /\ stage[a] = "recover" /\ reg' = reg
      BY <1>1, <2>2 DEF OffDone
    <3> QED
      BY <1>1, <3>1 DEF ProxyInv, Cleared
  <2>3. Start \/ \E a \in Callers : OffDone(a)
    BY <1>1 DEF Next, vars, CallOn, Quit, Exit, Crash, KeepWake, KeepCheck, CallOff, OnLock, Check1,
                Check2, OffLock, RestoreUndo, ApplyOff, WriteOn, AppliedOn, Fault, Steal
  <2> QED
    BY <2>1, <2>2, <2>3
<1>2. ProxyInv /\ [Next]_vars
        => [phase' = "run" /\ phase # "run" /\ used.faults = 0 => ~CurrentlyOurs(reg')]_vars
  BY <1>1
<1> QED
  BY <1>2, ProxyInvariant, PTL DEF Spec, RecoverClears
===============================================================================

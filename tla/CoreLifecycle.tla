--------------------------- MODULE CoreLifecycle ---------------------------
(***************************************************************************)
(* Who may stop, start and change the embedded sing-box core, and when.    *)
(*                                                                         *)
(* service/config.go (startMu, Save, HoldCore, RestartCore, StartCore,     *)
(* requestRestart, RetireCore), core/main.go (Core.Start, Core.Stop),      *)
(* service/maintenance.go, the jobs that change users outside Save, and    *)
(* the panel restart of app/app.go.                                        *)
(*                                                                         *)
(* A process is one goroutine: an HTTP handler, a cron tick, the goroutine *)
(* requestRestart spawns.  A writer is identified with the change it       *)
(* commits, so "the core carries change c" is c \in base for a change that *)
(* needs a restart and c \in users[i] for one that is applied in place.    *)
(***************************************************************************)
EXTENDS Integers, FiniteSets

CONSTANTS
  HotSaver,      \* Save calls whose object is changed in place (clients)
  RestartSaver,  \* Save calls that need a restart (base config, group members)
  DepleteRun,    \* runs of DepleteJob
  ResetRun,      \* calls of ResetTraffic
  Watchdog,      \* ticks of CheckCoreJob
  Button,        \* callers of RestartCore: panel, bot, API
  Toggle,        \* callers of SetMaintenance
  App,           \* app.Stop / app.Start, and the exec of an update
  Inbound,       \* local inbounds of the core
  Fault,         \* failures the environment may produce: of a start ("start",
                 \* "config"), of a write ("write", "row", "commit"), of an
                 \* in-place update by a save ("users") or a job ("jobusers")
  None

Saver  == HotSaver \cup RestartSaver
Job    == DepleteRun \cup ResetRun
Hot    == HotSaver \cup Job
Writer == Saver \cup Job
Proc   == Writer \cup Watchdog \cup Button \cup Toggle \cup App

ASSUME RolesAreDisjoint ==
  /\ HotSaver \cap RestartSaver = {}
  /\ Saver \cap Job = {}
  /\ DepleteRun \cap ResetRun = {}
  /\ Writer \cap (Watchdog \cup Button \cup Toggle \cup App) = {}
  /\ Watchdog \cap (Button \cup Toggle \cup App) = {}
  /\ Button \cap (Toggle \cup App) = {}
  /\ Toggle \cap App = {}
  /\ None \notin Proc \cup Inbound

VARIABLES
  pc,       \* where each goroutine is
  op,       \* which lifecycle entry point it is in
  want,     \* the argument of a SetMaintenance call
  mutex,    \* startMu, write side: the goroutine that announced itself or None
  readers,  \* startMu, read side: the goroutines inside HoldCore or Save
  tx,       \* the goroutine holding SQLite's write lock (BEGIN IMMEDIATE)
  db,       \* the committed changes
  todo,     \* inbounds UpdateInboundsUsers has not reached yet
  cur,      \* the inbound it is at
  view,     \* what a goroutine has read of db and not used yet
  running,  \* Core.isRunning, written together with Core.instance
  base,     \* restart-only changes the published box was built from
  users,    \* in-place changes in each inbound's user list
  serving,  \* inbounds present in the published box
  live,     \* boxes that were built and not yet closed
  maint,    \* maintenanceMode
  row,      \* the maintenance settings row
  retired,  \* coreRetired
  queued,   \* restartQueued
  cooling   \* the cooldown after a failed start has not passed

lockVars == <<mutex, readers>>
coreVars == <<running, base, users, serving, live>>
saveVars == <<tx, db, todo>>
flagVars == <<maint, row, retired, queued, cooling>>
vars == <<pc, op, want, view, cur, lockVars, coreVars, saveVars, flagVars>>

Ops == {"none", "start", "try", "restart", "queued", "stop"}
\* The goroutine owns startMu's write side at these points.
Critical == {"in", "closing", "begin", "built", "check", "undo"}
\* It owns the read side at these.
Holding == {"begintx", "write", "commitjob", "users", "apply", "row", "commit",
            "rollback", "release", "giveup"}
Outside == {"idle", "done", "failed", "gate", "try", "lock", "drain", "request",
            "flag", "reclaim"}

Init ==
  /\ pc = [p \in Proc |-> "idle"]
  /\ op = [p \in Proc |-> "none"]
  /\ want = [p \in Toggle |-> FALSE]
  /\ mutex = None
  /\ readers = {}
  /\ tx = None
  /\ db = {}
  /\ todo = [p \in Hot |-> {}]
  /\ view = [p \in Proc |-> {}]
  /\ cur = [p \in Hot |-> None]
  /\ running = FALSE
  /\ base = {}
  /\ users = [i \in Inbound |-> {}]
  /\ serving = {}
  /\ live = 0
  /\ row \in BOOLEAN
  /\ maint = row
  /\ retired = FALSE
  /\ queued = FALSE
  /\ cooling = FALSE

Goto(p, label) == pc' = [pc EXCEPT ![p] = label]

(***************************************************************************)
(* The end of a lifecycle call.  app.Stop's goroutine stays between Stop   *)
(* and Start; a writer's goroutine ends; the others can be called again.   *)
(***************************************************************************)
Return(p) ==
  /\ op' = [op EXCEPT ![p] = "none"]
  /\ Goto(p, IF p \in App /\ op[p] = "stop" THEN "reclaim"
             ELSE IF p \in Writer THEN "done" ELSE "idle")

\* startMu.Unlock in a deferred call, and the return.
UnlockAndReturn(p) ==
  /\ mutex' = None
  /\ Return(p)
  /\ UNCHANGED readers

Call(p, entry) ==
  /\ op' = [op EXCEPT ![p] = entry]
  /\ Goto(p, IF entry = "stop" THEN "lock" ELSE "gate")

-----------------------------------------------------------------------------
(* The lifecycle calls of ConfigService: gates, then startMu's write side. *)

\* Mutant: a restart gives up when a start is under way, as the flag startMu
\* replaced made every path do.
GateSkips(p) ==
  /\ pc[p] = "gate"
  /\ IF maint \/ (op[p] \in {"start", "try"} /\ running) \/ (op[p] = "queued" /\ mutex # None)
     THEN /\ Return(p)
          /\ IF op[p] = "queued" THEN queued' = FALSE ELSE UNCHANGED queued
     ELSE /\ Goto(p, IF op[p] = "try" THEN "try" ELSE "lock")
          /\ UNCHANGED <<op, queued>>
  /\ UNCHANGED <<want, view, cur, lockVars, coreVars, saveVars, maint, row, retired, cooling>>

\* The checks made before the lock, on flags other goroutines may change next.
Gate(p) ==
  /\ pc[p] = "gate"
  /\ IF maint \/ (op[p] \in {"start", "try"} /\ running)
     THEN /\ Return(p)
          /\ IF op[p] = "queued" THEN queued' = FALSE ELSE UNCHANGED queued
     ELSE /\ Goto(p, IF op[p] = "try" THEN "try" ELSE "lock")
          /\ UNCHANGED <<op, queued>>
  /\ UNCHANGED <<want, view, cur, lockVars, coreVars, saveVars, maint, row, retired, cooling>>

\* Mutant: TryRLock for TryLock.
TryRLock(p) ==
  /\ pc[p] = "try"
  /\ IF mutex = None
     THEN readers' = readers \cup {p} /\ Goto(p, "in") /\ UNCHANGED op
     ELSE Return(p) /\ UNCHANGED readers
  /\ UNCHANGED <<want, view, cur, mutex, coreVars, saveVars, flagVars>>

\* startMu.TryLock: gives up when anyone holds or awaits either side.
TryLock(p) ==
  /\ pc[p] = "try"
  /\ IF mutex = None /\ readers = {}
     THEN mutex' = p /\ Goto(p, "in") /\ UNCHANGED op
     ELSE Return(p) /\ UNCHANGED mutex
  /\ UNCHANGED <<want, view, cur, readers, coreVars, saveVars, flagVars>>

\* startMu.Lock, first half: from here on no new reader gets in.
Announce(p) ==
  /\ pc[p] = "lock"
  /\ mutex = None
  /\ mutex' = p
  /\ Goto(p, "drain")
  /\ UNCHANGED <<op, want, view, cur, readers, coreVars, saveVars, flagVars>>

\* startMu.Lock, second half: the readers inside have left.
Acquire(p) ==
  /\ pc[p] = "drain"
  /\ readers = {}
  /\ Goto(p, "in")
  /\ UNCHANGED <<op, want, view, cur, lockVars, coreVars, saveVars, flagVars>>

\* Core.Stop, first half: the core is published as down before it is closed.
Unpublish ==
  /\ running' = FALSE
  /\ base' = {}
  /\ users' = [i \in Inbound |-> {}]
  /\ serving' = {}
  /\ UNCHANGED live

\* stopLocked, up to the Close; a core that is down has nothing to close.
StopLocked(p) ==
  IF running
  THEN Unpublish /\ Goto(p, "closing") /\ UNCHANGED <<op, lockVars>>
  ELSE /\ UNCHANGED coreVars
       /\ IF op[p] = "stop"
          THEN UnlockAndReturn(p)
          ELSE Goto(p, "begin") /\ UNCHANGED <<op, lockVars>>

\* Mutant: IsRunning is only asked before the lock.
EnterStartUnchecked(p) ==
  /\ op[p] \in {"start", "try"}
  /\ IF cooling
     THEN UnlockAndReturn(p)
     ELSE Goto(p, "begin") /\ UNCHANGED <<op, lockVars>>
  /\ UNCHANGED <<coreVars, queued>>

\* startCore under the lock: a restart may have brought the core up meanwhile.
EnterStart(p) ==
  /\ op[p] \in {"start", "try"}
  /\ IF running \/ cooling
     THEN UnlockAndReturn(p)
     ELSE Goto(p, "begin") /\ UNCHANGED <<op, lockVars>>
  /\ UNCHANGED <<coreVars, queued>>

\* RestartCore under the lock.
EnterRestart(p) ==
  /\ op[p] = "restart"
  /\ IF retired THEN UnlockAndReturn(p) /\ UNCHANGED coreVars ELSE StopLocked(p)
  /\ UNCHANGED queued

\* restartQueuedCore under the lock: a later request needs its own restart.
EnterQueued(p) ==
  /\ op[p] = "queued"
  /\ queued' = FALSE
  /\ StopLocked(p)

\* StopCore under the lock.
EnterStop(p) ==
  /\ op[p] = "stop"
  /\ StopLocked(p)
  /\ UNCHANGED queued

Enter(p) ==
  /\ pc[p] = "in"
  /\ EnterStart(p) \/ EnterRestart(p) \/ EnterQueued(p) \/ EnterStop(p)
  /\ UNCHANGED <<want, view, cur, saveVars, maint, row, retired, cooling>>

\* Core.Stop, second half: Box.Close.  An error changes nothing here.
Close(p) ==
  /\ pc[p] = "closing"
  /\ live' = live - 1
  /\ IF op[p] = "stop"
     THEN UnlockAndReturn(p)
     ELSE Goto(p, "begin") /\ UNCHANGED <<op, lockVars>>
  /\ UNCHANGED <<want, view, cur, running, base, users, serving, saveVars, flagVars>>

\* Mutant: startLocked does not look at coreRetired.
BeginUnchecked(p) ==
  /\ pc[p] = "begin"
  /\ \/ /\ "config" \in Fault
        /\ UnlockAndReturn(p)
        /\ UNCHANGED view
     \/ /\ view' = [view EXCEPT ![p] = db]
        /\ Goto(p, "built")
        /\ UNCHANGED <<op, lockVars>>
  /\ UNCHANGED <<want, cur, coreVars, saveVars, flagVars>>

\* startLocked: a retired core stays down; otherwise GetConfig reads the tables.
Begin(p) ==
  /\ pc[p] = "begin"
  /\ \/ /\ retired \/ "config" \in Fault
        /\ UnlockAndReturn(p)
        /\ UNCHANGED view
     \/ /\ ~retired
        /\ view' = [view EXCEPT ![p] = db]
        /\ Goto(p, "built")
        /\ UNCHANGED <<op, lockVars>>
  /\ UNCHANGED <<want, cur, coreVars, saveVars, flagVars>>

\* Core.Start: the box is published once it runs, or the failure is recorded.
StartBox(p) ==
  /\ pc[p] = "built"
  /\ view' = [view EXCEPT ![p] = {}]
  /\ \/ /\ running' = TRUE
        /\ base' = view[p] \cap RestartSaver
        /\ users' = [i \in Inbound |-> view[p] \cap Hot]
        /\ serving' = Inbound
        /\ live' = live + 1
        /\ Goto(p, "check")
        /\ UNCHANGED <<op, lockVars, cooling>>
     \/ /\ "start" \in Fault
        /\ running' = FALSE
        /\ base' = {} /\ users' = [i \in Inbound |-> {}] /\ serving' = {}
        /\ cooling' = TRUE
        /\ UnlockAndReturn(p)
        /\ UNCHANGED live
  /\ UNCHANGED <<want, cur, saveVars, maint, row, retired, queued>>

\* Mutant: maintenance is only asked about before the start.
CheckNothing(p) ==
  /\ pc[p] = "check"
  /\ UnlockAndReturn(p)
  /\ UNCHANGED <<want, view, cur, coreVars, saveVars, flagVars>>

\* startBox, after Core.Start: maintenance was switched on meanwhile.
CheckMaintenance(p) ==
  /\ pc[p] = "check"
  /\ IF maint
     THEN Unpublish /\ Goto(p, "undo") /\ UNCHANGED <<op, lockVars>>
     ELSE UnlockAndReturn(p) /\ UNCHANGED coreVars
  /\ UNCHANGED <<want, view, cur, saveVars, flagVars>>

\* Mutant: the early return of an undone start keeps startMu.
UndoKeepsLock(p) ==
  /\ pc[p] = "undo"
  /\ live' = live - 1
  /\ Return(p)
  /\ UNCHANGED <<want, view, cur, lockVars, running, base, users, serving, saveVars, flagVars>>

Undo(p) ==
  /\ pc[p] = "undo"
  /\ live' = live - 1
  /\ UnlockAndReturn(p)
  /\ UNCHANGED <<want, view, cur, running, base, users, serving, saveVars, flagVars>>

\* startCooldown has passed since lastStartFailTime.
CooldownPasses ==
  /\ cooling
  /\ cooling' = FALSE
  /\ UNCHANGED <<pc, op, want, view, cur, lockVars, coreVars, saveVars, maint, row, retired, queued>>

-----------------------------------------------------------------------------
(* ConfigService.Save.                                                     *)

\* Mutant: a save does not wait for the restart under way.
HoldNothing(p) ==
  /\ pc[p] = "idle"
  /\ p \in Writer
  /\ Goto(p, IF p \in Saver THEN "begintx" ELSE "commitjob")
  /\ UNCHANGED <<op, want, view, cur, lockVars, coreVars, saveVars, flagVars>>

\* startMu.RLock, of Save and of HoldCore.
Hold(p) ==
  /\ pc[p] = "idle"
  /\ p \in Writer
  /\ mutex = None
  /\ readers' = readers \cup {p}
  /\ Goto(p, IF p \in Saver THEN "begintx" ELSE "commitjob")
  /\ UNCHANGED <<op, want, view, cur, mutex, coreVars, saveVars, flagVars>>

BeginTx(p) ==
  /\ pc[p] = "begintx"
  /\ tx = None
  /\ tx' = p
  /\ Goto(p, "write")
  /\ UNCHANGED <<op, want, view, cur, lockVars, coreVars, db, todo, flagVars>>

\* The object's own Save: a hot one goes on to UpdateInboundsUsers, which
\* skips a core that is not running.
WriteObject(p) ==
  /\ pc[p] = "write"
  /\ \/ /\ p \in HotSaver /\ running
        /\ todo' = [todo EXCEPT ![p] = Inbound]
        /\ Goto(p, "users")
     \/ /\ p \in RestartSaver \/ ~running
        /\ Goto(p, "row")
        /\ UNCHANGED todo
     \/ /\ "write" \in Fault
        /\ Goto(p, "rollback")
        /\ UNCHANGED todo
  /\ UNCHANGED <<op, want, view, cur, lockVars, coreVars, tx, db, flagVars>>

\* UpdateInboundsUsers, one inbound: addUsers reads the user list -- inside
\* the transaction for a save, the committed rows for a job.
ReadUsers(p) ==
  /\ pc[p] = "users"
  /\ \E i \in todo[p] :
       /\ cur' = [cur EXCEPT ![p] = i]
       /\ todo' = [todo EXCEPT ![p] = @ \ {i}]
  /\ view' = [view EXCEPT ![p] = (db \cap Hot) \cup (IF tx = p THEN {p} ELSE {})]
  /\ Goto(p, "apply")
  /\ UNCHANGED <<op, want, lockVars, coreVars, tx, db, flagVars>>

\* The same inbound: its user table is replaced by what was read, in place or
\* by removing the inbound and adding it again.  An error ends the loop, with
\* the inbound untouched or, when the second half failed, removed.
ApplyUsers(p) ==
  /\ pc[p] = "apply"
  /\ cur' = [cur EXCEPT ![p] = None]
  /\ view' = [view EXCEPT ![p] = {}]
  /\ \/ /\ users' = [users EXCEPT ![cur[p]] = view[p]]
        /\ serving' = serving \cup {cur[p]}
        /\ Goto(p, "users")
     \/ /\ (IF p \in Saver THEN "users" ELSE "jobusers") \in Fault
        /\ \/ UNCHANGED <<users, serving>>
           \/ /\ users' = [users EXCEPT ![cur[p]] = {}]
              /\ serving' = serving \ {cur[p]}
        /\ Goto(p, IF p \in Saver THEN "rollback" ELSE "giveup")
  /\ UNCHANGED <<op, want, lockVars, running, base, live, saveVars, flagVars>>

\* Every inbound has been reached.
UsersDone(p) ==
  /\ pc[p] = "users"
  /\ todo[p] = {}
  /\ Goto(p, IF p \in Saver THEN "row" ELSE "release")
  /\ UNCHANGED <<op, want, view, cur, lockVars, coreVars, saveVars, flagVars>>

\* The changes row, last write of the transaction.
WriteRow(p) ==
  /\ pc[p] = "row"
  /\ \/ Goto(p, "commit")
     \/ "row" \in Fault /\ Goto(p, "rollback")
  /\ UNCHANGED <<op, want, view, cur, lockVars, coreVars, saveVars, flagVars>>

\* tx.Commit, whose error is not looked at.
Commit(p) ==
  /\ pc[p] = "commit"
  /\ tx' = None
  /\ \/ db' = db \cup {p}
     \/ "commit" \in Fault /\ UNCHANGED db
  /\ Goto(p, "release")
  /\ UNCHANGED <<op, want, view, cur, lockVars, coreVars, todo, flagVars>>

\* Mutant: the failing return of Save keeps the read side.
RollbackKeepsHold(p) ==
  /\ pc[p] = "rollback"
  /\ tx' = None
  /\ todo' = [q \in Hot |-> IF q = p THEN {} ELSE todo[q]]
  /\ Goto(p, "failed")
  /\ UNCHANGED <<op, want, view, cur, lockVars, coreVars, db, flagVars>>

Rollback(p) ==
  /\ pc[p] = "rollback"
  /\ tx' = None
  /\ readers' = readers \ {p}
  /\ todo' = [q \in Hot |-> IF q = p THEN {} ELSE todo[q]]
  /\ Goto(p, "failed")
  /\ UNCHANGED <<op, want, view, cur, mutex, coreVars, db, flagVars>>

\* startMu.RUnlock.  A save whose object was changed in place starts a core it
\* finds down (startCore's gate looks); the others end or ask for a restart.
Release(p) ==
  /\ pc[p] = "release"
  /\ readers' = readers \ {p}
  /\ \/ p \in RestartSaver /\ Goto(p, "request") /\ UNCHANGED op
     \/ p \in HotSaver /\ Call(p, "start")
     \/ p \in Job /\ Goto(p, "done") /\ UNCHANGED op
  /\ UNCHANGED <<want, view, cur, mutex, coreVars, saveVars, flagVars>>

\* requestRestart: folded into a restart that still waits for startMu, or a
\* goroutine of its own (this process from here on).
RequestRestart(p) ==
  /\ pc[p] = "request"
  /\ queued' = TRUE
  /\ IF queued THEN Goto(p, "done") /\ UNCHANGED op ELSE Call(p, "queued")
  /\ UNCHANGED <<want, view, cur, lockVars, coreVars, saveVars, maint, row, retired, cooling>>

-----------------------------------------------------------------------------
(* The jobs that change users outside Save: DepleteJob.Run, ResetTraffic.   *)

\* DepleteClients or ResetAllClientsTraffic, a transaction of their own; only
\* the second looks at the error of its commit.
CommitJob(p) ==
  /\ pc[p] = "commitjob"
  /\ tx = None
  /\ \/ /\ \/ db' = db \cup {p}
           \/ "commit" \in Fault /\ p \in DepleteRun /\ UNCHANGED db
        /\ IF running
           THEN todo' = [todo EXCEPT ![p] = Inbound] /\ Goto(p, "users")
           ELSE UNCHANGED todo /\ Goto(p, "release")
     \/ "write" \in Fault /\ UNCHANGED <<db, todo>> /\ Goto(p, "release")
  /\ UNCHANGED <<op, want, view, cur, lockVars, coreVars, tx, flagVars>>

\* Mutant: ResetTraffic has no fallback restart.
GiveUpForGood(p) ==
  /\ pc[p] = "giveup"
  /\ readers' = readers \ {p}
  /\ todo' = [todo EXCEPT ![p] = {}]
  /\ Goto(p, "done")
  /\ UNCHANGED <<op, want, view, cur, mutex, coreVars, tx, db, flagVars>>

\* UpdateInboundsUsers failed: DepleteJob logs it, ResetTraffic restarts the core.
GiveUp(p) ==
  /\ pc[p] = "giveup"
  /\ readers' = readers \ {p}
  /\ todo' = [todo EXCEPT ![p] = {}]
  /\ \/ p \in DepleteRun /\ Goto(p, "done") /\ UNCHANGED op
     \/ p \in ResetRun /\ Call(p, "restart")
  /\ UNCHANGED <<want, view, cur, mutex, coreVars, tx, db, flagVars>>

-----------------------------------------------------------------------------
(* The callers of the lifecycle.                                            *)

\* CheckCoreJob.Run, every five seconds.
Tick(p) ==
  /\ p \in Watchdog
  /\ pc[p] = "idle"
  /\ Call(p, "try")
  /\ UNCHANGED <<want, view, cur, lockVars, coreVars, saveVars, flagVars>>

\* The panel's restart button, the bot, api/restartSb.
Press(p) ==
  /\ p \in Button
  /\ pc[p] = "idle"
  /\ Call(p, "restart")
  /\ UNCHANGED <<want, view, cur, lockVars, coreVars, saveVars, flagVars>>

\* SetMaintenance: the row first; an error ends the call.
SetRow(p, on) ==
  /\ p \in Toggle
  /\ pc[p] = "idle"
  /\ tx = None
  /\ row' = on
  /\ want' = [want EXCEPT ![p] = on]
  /\ Goto(p, "flag")
  /\ UNCHANGED <<op, view, cur, lockVars, coreVars, saveVars, maint, retired, queued, cooling>>

\* SetMaintenance: then the flag, then the core.
SetFlag(p) ==
  /\ pc[p] = "flag"
  /\ maint' = want[p]
  /\ want' = [want EXCEPT ![p] = FALSE]
  /\ Call(p, IF want[p] THEN "stop" ELSE "start")
  /\ UNCHANGED <<view, cur, lockVars, coreVars, saveVars, row, retired, queued, cooling>>

\* RetireCore, of app.Stop and of stopCoreForExec: the flag, then StopCore.
Retire(p) ==
  /\ p \in App
  /\ pc[p] = "idle"
  /\ retired' = TRUE
  /\ Call(p, "stop")
  /\ UNCHANGED <<want, view, cur, lockVars, coreVars, saveVars, maint, row, queued, cooling>>

\* ReclaimCore, of app.Start and of startCoreAfterFailedExec, then StartCore.
Reclaim(p) ==
  /\ pc[p] = "reclaim"
  /\ retired' = FALSE
  /\ Call(p, "start")
  /\ UNCHANGED <<want, view, cur, lockVars, coreVars, saveVars, maint, row, queued, cooling>>

Lifecycle(p) ==
  \/ Gate(p) \/ TryLock(p) \/ Announce(p) \/ Acquire(p) \/ Enter(p) \/ Close(p)
  \/ Begin(p) \/ StartBox(p) \/ CheckMaintenance(p) \/ Undo(p)

Write(p) ==
  \/ Hold(p) \/ BeginTx(p) \/ WriteObject(p) \/ ReadUsers(p) \/ ApplyUsers(p)
  \/ UsersDone(p) \/ WriteRow(p) \/ Commit(p) \/ Rollback(p) \/ Release(p)
  \/ RequestRestart(p) \/ CommitJob(p) \/ GiveUp(p)

Demand(p) ==
  \/ Tick(p) \/ Press(p) \/ SetFlag(p) \/ Retire(p) \/ Reclaim(p)
  \/ \E on \in BOOLEAN : SetRow(p, on)

Next ==
  \/ CooldownPasses
  \/ \E p \in Proc : Lifecycle(p) \/ Write(p) \/ Demand(p)

Spec == Init /\ [][Next]_vars

\* A goroutine inside a call keeps running; startMu's waiters are served in
\* turn (sync.Mutex's starvation mode, and readers waiting at an Unlock are let
\* in before the next writer); cron keeps ticking.  Nobody has to press a
\* button, toggle maintenance, or restart the panel.
Fairness ==
  /\ WF_vars(CooldownPasses)
  /\ \A p \in Proc :
       /\ WF_vars(Lifecycle(p) \/ Write(p) \/ SetFlag(p))
       /\ SF_vars(Announce(p))
       /\ SF_vars(Hold(p))
  /\ \A p \in Watchdog : WF_vars(Tick(p))

LiveSpec == Spec /\ Fairness

-----------------------------------------------------------------------------
(* Properties.                                                              *)

TypeOK ==
  /\ pc \in [Proc -> Critical \cup Holding \cup Outside]
  /\ op \in [Proc -> Ops]
  /\ want \in [Toggle -> BOOLEAN]
  /\ mutex \in Proc \cup {None}
  /\ readers \subseteq Writer
  /\ tx \in Saver \cup {None}
  /\ db \subseteq Writer
  /\ todo \in [Hot -> SUBSET Inbound]
  /\ cur \in [Hot -> Inbound \cup {None}]
  /\ view \in [Proc -> SUBSET Writer]
  /\ running \in BOOLEAN
  /\ base \subseteq RestartSaver
  /\ users \in [Inbound -> SUBSET Hot]
  /\ serving \subseteq Inbound
  /\ live \in Int
  /\ maint \in BOOLEAN /\ row \in BOOLEAN /\ retired \in BOOLEAN
  /\ queued \in BOOLEAN /\ cooling \in BOOLEAN

\* p is on its way to stop the core and nothing on that way lets it give up.
Stopping(p) == op[p] = "stop" /\ pc[p] \in {"lock", "drain", "in"}

\* p is a queued restart that has not looked at the configuration yet.
Requeued(p) == op[p] = "queued" /\ pc[p] \in {"gate", "lock", "drain", "in"}

\* There is never a second sing-box holding ports, TUN devices and routes: a
\* box is closed before the next one is built, and none is dropped unclosed
\* (Core.Start overwrites Core.instance without closing what was there).
OneBox == live = IF running \/ \E p \in Proc : pc[p] \in {"closing", "undo"} THEN 1 ELSE 0

\* While maintenance is on, a running core is about to be stopped: by the
\* switch itself, or by the start that raced it (startBox's second look).
MaintenanceHolds ==
  maint /\ running => \E p \in Proc : Stopping(p) \/ pc[p] = "check"

\* Once RetireCore has stopped the core, no restart queued before and no
\* watchdog tick under way brings it back until ReclaimCore.
RetiredHolds == retired /\ running => \E p \in App : Stopping(p)

\* A committed change that needs a restart is in the running core, or the
\* goroutine that will replace that core has not read its configuration yet.
RestartNotLost ==
  \A c \in db \cap RestartSaver : running /\ c \notin base =>
    pc[c] \in {"release", "request"} \/ \E p \in Proc : Stopping(p) \/ Requeued(p)

\* While no writer is inside startMu's read side, every inbound of a running
\* core serves the committed users: neither a restart nor a start of the
\* watchdog falls between a save's commit and its change to the core.  (Until a
\* job writes: its update of the core may fail, or undo a newer one.)
UsersCurrent ==
  /\ running
  /\ readers = {}
  /\ \A p \in DepleteRun \cup ResetRun : pc[p] = "idle"
  => \A i \in Inbound : i \in serving /\ db \cap Hot \subseteq users[i]

\* ResetTraffic "brings the running core up to date" with the reset: once it
\* has returned, no inbound of the running core misses the re-enabled clients,
\* unless that core is about to be stopped.
ResetReachesCore ==
  \A c \in ResetRun \cap db :
    pc[c] = "done" /\ running /\ readers = {} =>
      (\A i \in Inbound : c \in users[i]) \/ \E p \in Proc : Stopping(p)

\* Every save is answered: no goroutine waits forever for startMu or SQLite.
SaveAnswered == \A p \in Saver : <>(pc[p] \in {"done", "failed"})

\* A change that needs a restart reaches the core, unless the operator or the
\* panel's own shutdown takes the core away.
RestartArrives ==
  \A c \in RestartSaver : (c \in db) ~> (c \in base \/ maint \/ retired)

\* The watchdog brings a core that is down back.
CoreComesBack ==
  (~running /\ ~maint /\ ~retired) ~> (running \/ maint \/ retired)

=============================================================================

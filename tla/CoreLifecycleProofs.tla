------------------------ MODULE CoreLifecycleProofs ------------------------
(***************************************************************************)
(* Proofs about CoreLifecycle, for any number of goroutines of every role, *)
(* any number of inbounds and any set of failures; SavesReachCore and      *)
(* ResetArrives say which they exclude.                                    *)
(***************************************************************************)
EXTENDS CoreLifecycle, TLAPS

-----------------------------------------------------------------------------
(* The inductive invariant, in parts.                                       *)

\* startMu: one goroutine past the announcement, readers exactly the goroutines
\* inside a save or a job, and none of them while a writer is inside.
LockInv ==
  /\ \A p \in Proc : pc[p] \in Critical \cup {"drain"} => mutex = p
  /\ \A p \in Proc : p \in readers => pc[p] \in Holding
  /\ \A p \in Proc : pc[p] \in Holding => p \in readers
  /\ \A p \in Proc : pc[p] \in Critical => readers = {}

\* Which goroutines can be where.
RoleInv ==
  /\ \A p \in Proc : pc[p] \in {"begintx", "write", "row", "commit", "rollback"} => p \in Saver
  /\ \A p \in Proc : pc[p] \in {"users", "apply"} => p \in Hot
  /\ \A p \in Proc : pc[p] \in {"commitjob", "giveup"} => p \in Job
  /\ \A p \in Proc : pc[p] \in {"release", "request"} => p \in Writer
  /\ \A p \in Proc : pc[p] = "request" => p \in RestartSaver
  /\ \A p \in Proc : pc[p] = "flag" => p \in Toggle
  /\ \A p \in Proc : pc[p] = "apply" => cur[p] \in Inbound /\ view[p] \subseteq Hot

\* Where no box is published, and how many are alive.
BoxInv ==
  /\ \A p \in Proc : pc[p] \in {"closing", "begin", "built", "undo"} => ~running
  /\ \A p \in Proc : pc[p] = "check" => running
  /\ OneBox

\* A start that got past the retired check is stopped by the RetireCore whose
\* flag it did not see.
RetireInv ==
  retired /\ (running \/ \E p \in Proc : pc[p] = "built") => \E a \in App : Stopping(a)

\* The flag restartQueued stands for a restart that has not read its
\* configuration; a start under way has read all that is committed.
RequestInv ==
  /\ queued => \E p \in Proc : Requeued(p)
  /\ \A p \in Proc : pc[p] = "built" => view[p] = db
  /\ \A p \in Proc : pc[p] = "check" => db \cap RestartSaver \subseteq base

IInv ==
  /\ TypeOK /\ LockInv /\ RoleInv /\ BoxInv
  /\ MaintenanceHolds /\ RetireInv /\ RequestInv /\ RestartNotLost

-----------------------------------------------------------------------------
\* Every step keeps the types.
LEMMA TypeStep ==
  ASSUME TypeOK, RoleInv, [Next]_vars
  PROVE  TypeOK'
<1> USE DEF TypeOK, RoleInv, Ops, Proc, Writer, Saver, Job, Hot, Critical, Holding, Outside, lockVars, coreVars, saveVars, flagVars
<1>1. CASE UNCHANGED vars
  BY <1>1 DEF vars
<1>2. CASE CooldownPasses
  BY <1>2 DEF CooldownPasses
<1>3. ASSUME NEW p \in Proc, Gate(p) PROVE TypeOK'
  <2>1. CASE maint /\ op[p] = "queued"
    BY <1>3, <2>1 DEF Gate, Return, Goto
  <2>2. CASE maint /\ op[p] # "queued"
    BY <1>3, <2>2 DEF Gate, Return, Goto
  <2>3. CASE ~maint /\ running
    BY <1>3, <2>3 DEF Gate, Return, Goto
  <2>4. CASE ~maint /\ ~running
    BY <1>3, <2>4 DEF Gate, Return, Goto
  <2> QED BY <2>1, <2>2, <2>3, <2>4
<1>4. ASSUME NEW p \in Proc, TryLock(p) PROVE TypeOK'
  BY <1>4 DEF TryLock, Return, Goto
<1>5. ASSUME NEW p \in Proc, Announce(p) PROVE TypeOK'
  BY <1>5 DEF Announce, Goto
<1>6. ASSUME NEW p \in Proc, Acquire(p) PROVE TypeOK'
  BY <1>6 DEF Acquire, Goto
<1>7. ASSUME NEW p \in Proc, Enter(p) PROVE TypeOK'
  <2>1. CASE EnterStart(p)
    BY <1>7, <2>1 DEF Enter, EnterStart, UnlockAndReturn, Return, Goto
  <2>2. CASE EnterRestart(p)
    BY <1>7, <2>2 DEF Enter, EnterRestart, StopLocked, Unpublish, UnlockAndReturn, Return, Goto
  <2>3. CASE EnterQueued(p)
    BY <1>7, <2>3 DEF Enter, EnterQueued, StopLocked, Unpublish, UnlockAndReturn, Return, Goto
  <2>4. CASE EnterStop(p)
    BY <1>7, <2>4 DEF Enter, EnterStop, StopLocked, Unpublish, UnlockAndReturn, Return, Goto
  <2> QED BY <1>7, <2>1, <2>2, <2>3, <2>4 DEF Enter
<1>8. ASSUME NEW p \in Proc, Close(p) PROVE TypeOK'
  BY <1>8 DEF Close, UnlockAndReturn, Return, Goto
<1>9. ASSUME NEW p \in Proc, Begin(p) PROVE TypeOK'
  <2>1. CASE pc'[p] = "built"
    BY <1>9, <2>1 DEF Begin, UnlockAndReturn, Return, Goto
  <2>2. CASE pc'[p] # "built"
    BY <1>9, <2>2 DEF Begin, UnlockAndReturn, Return, Goto
  <2> QED BY <2>1, <2>2
<1>10. ASSUME NEW p \in Proc, StartBox(p) PROVE TypeOK'
  <2>1. view' \in [Proc -> SUBSET Writer]
    BY <1>10 DEF StartBox
  <2>2. base' \subseteq RestartSaver /\ users' \in [Inbound -> SUBSET Hot] /\ serving' \subseteq Inbound
    BY <1>10 DEF StartBox
  <2>3. live' \in Int
    BY <1>10 DEF StartBox
  <2>5. running' \in BOOLEAN
    BY <1>10 DEF StartBox
  <2>6. cooling' \in BOOLEAN
    BY <1>10 DEF StartBox
  <2>4. pc' \in [Proc -> Critical \cup Holding \cup Outside] /\ op' \in [Proc -> Ops] /\ mutex' \in Proc \cup {None} /\ readers' \subseteq Writer
    BY <1>10 DEF StartBox, UnlockAndReturn, Return, Goto
  <2> QED BY <1>10, <2>1, <2>2, <2>3, <2>4, <2>5, <2>6 DEF StartBox
<1>11. ASSUME NEW p \in Proc, CheckMaintenance(p) PROVE TypeOK'
  BY <1>11 DEF CheckMaintenance, Unpublish, UnlockAndReturn, Return, Goto
<1>12. ASSUME NEW p \in Proc, Undo(p) PROVE TypeOK'
  BY <1>12 DEF Undo, UnlockAndReturn, Return, Goto
<1>13. ASSUME NEW p \in Proc, Hold(p) PROVE TypeOK'
  BY <1>13 DEF Hold, Goto
<1>14. ASSUME NEW p \in Proc, BeginTx(p) PROVE TypeOK'
  BY <1>14 DEF BeginTx, Goto
<1>15. ASSUME NEW p \in Proc, WriteObject(p) PROVE TypeOK'
  BY <1>15 DEF WriteObject, Goto
<1>16. ASSUME NEW p \in Proc, ReadUsers(p) PROVE TypeOK'
  BY <1>16 DEF ReadUsers, Goto
<1>17. ASSUME NEW p \in Proc, ApplyUsers(p) PROVE TypeOK'
  BY <1>17 DEF ApplyUsers, Goto
<1>18. ASSUME NEW p \in Proc, UsersDone(p) PROVE TypeOK'
  BY <1>18 DEF UsersDone, Goto
<1>19. ASSUME NEW p \in Proc, WriteRow(p) PROVE TypeOK'
  BY <1>19 DEF WriteRow, Goto
<1>20. ASSUME NEW p \in Proc, Commit(p) PROVE TypeOK'
  BY <1>20 DEF Commit, Goto
<1>21. ASSUME NEW p \in Proc, Rollback(p) PROVE TypeOK'
  BY <1>21 DEF Rollback, Goto
<1>22. ASSUME NEW p \in Proc, Release(p) PROVE TypeOK'
  BY <1>22 DEF Release, Call, Goto
<1>23. ASSUME NEW p \in Proc, RequestRestart(p) PROVE TypeOK'
  BY <1>23 DEF RequestRestart, Call, Goto
<1>24. ASSUME NEW p \in Proc, CommitJob(p) PROVE TypeOK'
  BY <1>24 DEF CommitJob, Goto
<1>25. ASSUME NEW p \in Proc, GiveUp(p) PROVE TypeOK'
  BY <1>25 DEF GiveUp, Call, Goto
<1>26. ASSUME NEW p \in Proc, Tick(p) PROVE TypeOK'
  BY <1>26 DEF Tick, Call, Goto
<1>27. ASSUME NEW p \in Proc, Press(p) PROVE TypeOK'
  BY <1>27 DEF Press, Call, Goto
<1>28. ASSUME NEW p \in Proc, SetFlag(p) PROVE TypeOK'
  BY <1>28 DEF SetFlag, Call, Goto
<1>29. ASSUME NEW p \in Proc, Retire(p) PROVE TypeOK'
  BY <1>29 DEF Retire, Call, Goto
<1>30. ASSUME NEW p \in Proc, Reclaim(p) PROVE TypeOK'
  BY <1>30 DEF Reclaim, Call, Goto
<1>31. ASSUME NEW p \in Proc, NEW on \in BOOLEAN, SetRow(p, on) PROVE TypeOK'
  BY <1>31 DEF SetRow, Goto
<1> QED
  BY <1>1, <1>2, <1>3, <1>4, <1>5, <1>6, <1>7, <1>8, <1>9, <1>10, <1>11, <1>12, <1>13, <1>14, <1>15, <1>16, <1>17, <1>18, <1>19, <1>20, <1>21, <1>22, <1>23, <1>24, <1>25, <1>26, <1>27, <1>28, <1>29, <1>30, <1>31 DEF Next, Lifecycle, Write, Demand

\* Every step keeps each goroutine where its role can be.
LEMMA RoleStep ==
  ASSUME TypeOK, RoleInv, [Next]_vars
  PROVE  RoleInv'
<1> USE DEF TypeOK, RoleInv, Ops, Proc, Writer, Saver, Job, Hot, Critical, Holding, Outside, lockVars, coreVars, saveVars, flagVars
<1>1. CASE UNCHANGED vars
  BY <1>1 DEF vars
<1>2. CASE CooldownPasses
  BY <1>2 DEF CooldownPasses
<1>3. ASSUME NEW p \in Proc, Gate(p) PROVE RoleInv'
  BY <1>3 DEF Gate, Return, Goto
<1>4. ASSUME NEW p \in Proc, TryLock(p) PROVE RoleInv'
  BY <1>4 DEF TryLock, Return, Goto
<1>5. ASSUME NEW p \in Proc, Announce(p) PROVE RoleInv'
  BY <1>5 DEF Announce, Goto
<1>6. ASSUME NEW p \in Proc, Acquire(p) PROVE RoleInv'
  BY <1>6 DEF Acquire, Goto
<1>7. ASSUME NEW p \in Proc, Enter(p) PROVE RoleInv'
  <2>1. CASE EnterStart(p)
    BY <1>7, <2>1 DEF Enter, EnterStart, UnlockAndReturn, Return, Goto
  <2>2. CASE EnterRestart(p)
    BY <1>7, <2>2 DEF Enter, EnterRestart, StopLocked, Unpublish, UnlockAndReturn, Return, Goto
  <2>3. CASE EnterQueued(p)
    BY <1>7, <2>3 DEF Enter, EnterQueued, StopLocked, Unpublish, UnlockAndReturn, Return, Goto
  <2>4. CASE EnterStop(p)
    BY <1>7, <2>4 DEF Enter, EnterStop, StopLocked, Unpublish, UnlockAndReturn, Return, Goto
  <2> QED BY <1>7, <2>1, <2>2, <2>3, <2>4 DEF Enter
<1>8. ASSUME NEW p \in Proc, Close(p) PROVE RoleInv'
  BY <1>8 DEF Close, UnlockAndReturn, Return, Goto
<1>9. ASSUME NEW p \in Proc, Begin(p) PROVE RoleInv'
  BY <1>9 DEF Begin, UnlockAndReturn, Return, Goto
<1>10. ASSUME NEW p \in Proc, StartBox(p) PROVE RoleInv'
  BY <1>10 DEF StartBox, UnlockAndReturn, Return, Goto
<1>11. ASSUME NEW p \in Proc, CheckMaintenance(p) PROVE RoleInv'
  BY <1>11 DEF CheckMaintenance, Unpublish, UnlockAndReturn, Return, Goto
<1>12. ASSUME NEW p \in Proc, Undo(p) PROVE RoleInv'
  BY <1>12 DEF Undo, UnlockAndReturn, Return, Goto
<1>13. ASSUME NEW p \in Proc, Hold(p) PROVE RoleInv'
  BY <1>13 DEF Hold, Goto
<1>14. ASSUME NEW p \in Proc, BeginTx(p) PROVE RoleInv'
  BY <1>14 DEF BeginTx, Goto
<1>15. ASSUME NEW p \in Proc, WriteObject(p) PROVE RoleInv'
  BY <1>15 DEF WriteObject, Goto
<1>16. ASSUME NEW p \in Proc, ReadUsers(p) PROVE RoleInv'
  BY <1>16 DEF ReadUsers, Goto
<1>17. ASSUME NEW p \in Proc, ApplyUsers(p) PROVE RoleInv'
  BY <1>17 DEF ApplyUsers, Goto
<1>18. ASSUME NEW p \in Proc, UsersDone(p) PROVE RoleInv'
  BY <1>18 DEF UsersDone, Goto
<1>19. ASSUME NEW p \in Proc, WriteRow(p) PROVE RoleInv'
  BY <1>19 DEF WriteRow, Goto
<1>20. ASSUME NEW p \in Proc, Commit(p) PROVE RoleInv'
  BY <1>20 DEF Commit, Goto
<1>21. ASSUME NEW p \in Proc, Rollback(p) PROVE RoleInv'
  BY <1>21 DEF Rollback, Goto
<1>22. ASSUME NEW p \in Proc, Release(p) PROVE RoleInv'
  BY <1>22 DEF Release, Call, Goto
<1>23. ASSUME NEW p \in Proc, RequestRestart(p) PROVE RoleInv'
  BY <1>23 DEF RequestRestart, Call, Goto
<1>24. ASSUME NEW p \in Proc, CommitJob(p) PROVE RoleInv'
  BY <1>24 DEF CommitJob, Goto
<1>25. ASSUME NEW p \in Proc, GiveUp(p) PROVE RoleInv'
  BY <1>25 DEF GiveUp, Call, Goto
<1>26. ASSUME NEW p \in Proc, Tick(p) PROVE RoleInv'
  BY <1>26 DEF Tick, Call, Goto
<1>27. ASSUME NEW p \in Proc, Press(p) PROVE RoleInv'
  BY <1>27 DEF Press, Call, Goto
<1>28. ASSUME NEW p \in Proc, SetFlag(p) PROVE RoleInv'
  BY <1>28 DEF SetFlag, Call, Goto
<1>29. ASSUME NEW p \in Proc, Retire(p) PROVE RoleInv'
  BY <1>29 DEF Retire, Call, Goto
<1>30. ASSUME NEW p \in Proc, Reclaim(p) PROVE RoleInv'
  BY <1>30 DEF Reclaim, Call, Goto
<1>31. ASSUME NEW p \in Proc, NEW on \in BOOLEAN, SetRow(p, on) PROVE RoleInv'
  BY <1>31 DEF SetRow, Goto
<1> QED
  BY <1>1, <1>2, <1>3, <1>4, <1>5, <1>6, <1>7, <1>8, <1>9, <1>10, <1>11, <1>12, <1>13, <1>14, <1>15, <1>16, <1>17, <1>18, <1>19, <1>20, <1>21, <1>22, <1>23, <1>24, <1>25, <1>26, <1>27, <1>28, <1>29, <1>30, <1>31 DEF Next, Lifecycle, Write, Demand

\* startMu excludes: a step cannot let a second writer or a reader in.
LEMMA LockStep ==
  ASSUME TypeOK, RoleInv, LockInv, [Next]_vars
  PROVE  LockInv'
<1> USE DEF TypeOK, RoleInv, LockInv, Ops, Proc, Writer, Saver, Job, Hot, Critical, Holding, Outside, lockVars, coreVars, saveVars, flagVars
<1>1. CASE UNCHANGED vars
  BY <1>1 DEF vars
<1>2. CASE CooldownPasses
  BY <1>2 DEF CooldownPasses
<1>3. ASSUME NEW p \in Proc, Gate(p) PROVE LockInv'
  BY <1>3 DEF Gate, Return, Goto
<1>4. ASSUME NEW p \in Proc, TryLock(p) PROVE LockInv'
  BY <1>4, RolesAreDisjoint DEF TryLock, Return, Goto
<1>5. ASSUME NEW p \in Proc, Announce(p) PROVE LockInv'
  BY <1>5, RolesAreDisjoint DEF Announce, Goto
<1>6. ASSUME NEW p \in Proc, Acquire(p) PROVE LockInv'
  BY <1>6 DEF Acquire, Goto
<1>7. ASSUME NEW p \in Proc, Enter(p) PROVE LockInv'
  <2>1. CASE EnterStart(p)
    BY <1>7, <2>1 DEF Enter, EnterStart, UnlockAndReturn, Return, Goto
  <2>2. CASE EnterRestart(p)
    BY <1>7, <2>2 DEF Enter, EnterRestart, StopLocked, Unpublish, UnlockAndReturn, Return, Goto
  <2>3. CASE EnterQueued(p)
    BY <1>7, <2>3 DEF Enter, EnterQueued, StopLocked, Unpublish, UnlockAndReturn, Return, Goto
  <2>4. CASE EnterStop(p)
    BY <1>7, <2>4 DEF Enter, EnterStop, StopLocked, Unpublish, UnlockAndReturn, Return, Goto
  <2> QED BY <1>7, <2>1, <2>2, <2>3, <2>4 DEF Enter
<1>8. ASSUME NEW p \in Proc, Close(p) PROVE LockInv'
  BY <1>8 DEF Close, UnlockAndReturn, Return, Goto
<1>9. ASSUME NEW p \in Proc, Begin(p) PROVE LockInv'
  BY <1>9 DEF Begin, UnlockAndReturn, Return, Goto
<1>10. ASSUME NEW p \in Proc, StartBox(p) PROVE LockInv'
  BY <1>10 DEF StartBox, UnlockAndReturn, Return, Goto
<1>11. ASSUME NEW p \in Proc, CheckMaintenance(p) PROVE LockInv'
  BY <1>11 DEF CheckMaintenance, Unpublish, UnlockAndReturn, Return, Goto
<1>12. ASSUME NEW p \in Proc, Undo(p) PROVE LockInv'
  BY <1>12 DEF Undo, UnlockAndReturn, Return, Goto
<1>13. ASSUME NEW p \in Proc, Hold(p) PROVE LockInv'
  BY <1>13, RolesAreDisjoint DEF Hold, Goto
<1>14. ASSUME NEW p \in Proc, BeginTx(p) PROVE LockInv'
  BY <1>14 DEF BeginTx, Goto
<1>15. ASSUME NEW p \in Proc, WriteObject(p) PROVE LockInv'
  BY <1>15 DEF WriteObject, Goto
<1>16. ASSUME NEW p \in Proc, ReadUsers(p) PROVE LockInv'
  BY <1>16 DEF ReadUsers, Goto
<1>17. ASSUME NEW p \in Proc, ApplyUsers(p) PROVE LockInv'
  BY <1>17 DEF ApplyUsers, Goto
<1>18. ASSUME NEW p \in Proc, UsersDone(p) PROVE LockInv'
  BY <1>18 DEF UsersDone, Goto
<1>19. ASSUME NEW p \in Proc, WriteRow(p) PROVE LockInv'
  BY <1>19 DEF WriteRow, Goto
<1>20. ASSUME NEW p \in Proc, Commit(p) PROVE LockInv'
  BY <1>20 DEF Commit, Goto
<1>21. ASSUME NEW p \in Proc, Rollback(p) PROVE LockInv'
  BY <1>21 DEF Rollback, Goto
<1>22. ASSUME NEW p \in Proc, Release(p) PROVE LockInv'
  BY <1>22 DEF Release, Call, Goto
<1>23. ASSUME NEW p \in Proc, RequestRestart(p) PROVE LockInv'
  BY <1>23 DEF RequestRestart, Call, Goto
<1>24. ASSUME NEW p \in Proc, CommitJob(p) PROVE LockInv'
  BY <1>24 DEF CommitJob, Goto
<1>25. ASSUME NEW p \in Proc, GiveUp(p) PROVE LockInv'
  BY <1>25 DEF GiveUp, Call, Goto
<1>26. ASSUME NEW p \in Proc, Tick(p) PROVE LockInv'
  BY <1>26 DEF Tick, Call, Goto
<1>27. ASSUME NEW p \in Proc, Press(p) PROVE LockInv'
  BY <1>27 DEF Press, Call, Goto
<1>28. ASSUME NEW p \in Proc, SetFlag(p) PROVE LockInv'
  BY <1>28 DEF SetFlag, Call, Goto
<1>29. ASSUME NEW p \in Proc, Retire(p) PROVE LockInv'
  BY <1>29 DEF Retire, Call, Goto
<1>30. ASSUME NEW p \in Proc, Reclaim(p) PROVE LockInv'
  BY <1>30 DEF Reclaim, Call, Goto
<1>31. ASSUME NEW p \in Proc, NEW on \in BOOLEAN, SetRow(p, on) PROVE LockInv'
  BY <1>31 DEF SetRow, Goto
<1> QED
  BY <1>1, <1>2, <1>3, <1>4, <1>5, <1>6, <1>7, <1>8, <1>9, <1>10, <1>11, <1>12, <1>13, <1>14, <1>15, <1>16, <1>17, <1>18, <1>19, <1>20, <1>21, <1>22, <1>23, <1>24, <1>25, <1>26, <1>27, <1>28, <1>29, <1>30, <1>31 DEF Next, Lifecycle, Write, Demand

\* A box is published, or being closed, or there is none.
LEMMA BoxStep ==
  ASSUME TypeOK, RoleInv, LockInv, BoxInv, [Next]_vars
  PROVE  BoxInv'
<1> USE DEF TypeOK, LockInv, BoxInv, OneBox, Proc, Writer, Saver, Job, Hot, Critical, Holding, Outside, lockVars, coreVars, saveVars, flagVars
<1>1. CASE UNCHANGED vars
  BY <1>1 DEF vars
<1>2. CASE CooldownPasses
  BY <1>2 DEF CooldownPasses
<1>3. ASSUME NEW p \in Proc, Gate(p) PROVE BoxInv'
  BY <1>3 DEF Gate, Return, Goto
<1>4. ASSUME NEW p \in Proc, TryLock(p) PROVE BoxInv'
  BY <1>4 DEF TryLock, Return, Goto
<1>5. ASSUME NEW p \in Proc, Announce(p) PROVE BoxInv'
  BY <1>5 DEF Announce, Goto
<1>6. ASSUME NEW p \in Proc, Acquire(p) PROVE BoxInv'
  BY <1>6 DEF Acquire, Goto
<1>7. ASSUME NEW p \in Proc, Enter(p) PROVE BoxInv'
  <2>1. CASE EnterStart(p)
    BY <1>7, <2>1 DEF Enter, EnterStart, UnlockAndReturn, Return, Goto
  <2>2. CASE EnterRestart(p)
    BY <1>7, <2>2 DEF Enter, EnterRestart, StopLocked, Unpublish, UnlockAndReturn, Return, Goto
  <2>3. CASE EnterQueued(p)
    BY <1>7, <2>3 DEF Enter, EnterQueued, StopLocked, Unpublish, UnlockAndReturn, Return, Goto
  <2>4. CASE EnterStop(p)
    BY <1>7, <2>4 DEF Enter, EnterStop, StopLocked, Unpublish, UnlockAndReturn, Return, Goto
  <2> QED BY <1>7, <2>1, <2>2, <2>3, <2>4 DEF Enter
<1>8. ASSUME NEW p \in Proc, Close(p) PROVE BoxInv'
  BY <1>8 DEF Close, UnlockAndReturn, Return, Goto
<1>9. ASSUME NEW p \in Proc, Begin(p) PROVE BoxInv'
  BY <1>9 DEF Begin, UnlockAndReturn, Return, Goto
<1>10. ASSUME NEW p \in Proc, StartBox(p) PROVE BoxInv'
  BY <1>10 DEF StartBox, UnlockAndReturn, Return, Goto
<1>11. ASSUME NEW p \in Proc, CheckMaintenance(p) PROVE BoxInv'
  BY <1>11 DEF CheckMaintenance, Unpublish, UnlockAndReturn, Return, Goto
<1>12. ASSUME NEW p \in Proc, Undo(p) PROVE BoxInv'
  BY <1>12 DEF Undo, UnlockAndReturn, Return, Goto
<1>13. ASSUME NEW p \in Proc, Hold(p) PROVE BoxInv'
  BY <1>13 DEF Hold, Goto
<1>14. ASSUME NEW p \in Proc, BeginTx(p) PROVE BoxInv'
  BY <1>14 DEF BeginTx, Goto
<1>15. ASSUME NEW p \in Proc, WriteObject(p) PROVE BoxInv'
  BY <1>15 DEF WriteObject, Goto
<1>16. ASSUME NEW p \in Proc, ReadUsers(p) PROVE BoxInv'
  BY <1>16 DEF ReadUsers, Goto
<1>17. ASSUME NEW p \in Proc, ApplyUsers(p) PROVE BoxInv'
  BY <1>17 DEF ApplyUsers, Goto
<1>18. ASSUME NEW p \in Proc, UsersDone(p) PROVE BoxInv'
  BY <1>18 DEF UsersDone, Goto
<1>19. ASSUME NEW p \in Proc, WriteRow(p) PROVE BoxInv'
  BY <1>19 DEF WriteRow, Goto
<1>20. ASSUME NEW p \in Proc, Commit(p) PROVE BoxInv'
  BY <1>20 DEF Commit, Goto
<1>21. ASSUME NEW p \in Proc, Rollback(p) PROVE BoxInv'
  BY <1>21 DEF Rollback, Goto
<1>22. ASSUME NEW p \in Proc, Release(p) PROVE BoxInv'
  BY <1>22 DEF Release, Call, Goto
<1>23. ASSUME NEW p \in Proc, RequestRestart(p) PROVE BoxInv'
  BY <1>23 DEF RequestRestart, Call, Goto
<1>24. ASSUME NEW p \in Proc, CommitJob(p) PROVE BoxInv'
  BY <1>24 DEF CommitJob, Goto
<1>25. ASSUME NEW p \in Proc, GiveUp(p) PROVE BoxInv'
  BY <1>25 DEF GiveUp, Call, Goto
<1>26. ASSUME NEW p \in Proc, Tick(p) PROVE BoxInv'
  BY <1>26 DEF Tick, Call, Goto
<1>27. ASSUME NEW p \in Proc, Press(p) PROVE BoxInv'
  BY <1>27 DEF Press, Call, Goto
<1>28. ASSUME NEW p \in Proc, SetFlag(p) PROVE BoxInv'
  BY <1>28 DEF SetFlag, Call, Goto
<1>29. ASSUME NEW p \in Proc, Retire(p) PROVE BoxInv'
  BY <1>29 DEF Retire, Call, Goto
<1>30. ASSUME NEW p \in Proc, Reclaim(p) PROVE BoxInv'
  BY <1>30 DEF Reclaim, Call, Goto
<1>31. ASSUME NEW p \in Proc, NEW on \in BOOLEAN, SetRow(p, on) PROVE BoxInv'
  BY <1>31 DEF SetRow, Goto
<1> QED
  BY <1>1, <1>2, <1>3, <1>4, <1>5, <1>6, <1>7, <1>8, <1>9, <1>10, <1>11, <1>12, <1>13, <1>14, <1>15, <1>16, <1>17, <1>18, <1>19, <1>20, <1>21, <1>22, <1>23, <1>24, <1>25, <1>26, <1>27, <1>28, <1>29, <1>30, <1>31 DEF Next, Lifecycle, Write, Demand

\* Maintenance cannot be outrun by a start.
LEMMA MaintenanceStep ==
  ASSUME TypeOK, LockInv, MaintenanceHolds, [Next]_vars
  PROVE  MaintenanceHolds'
<1> USE DEF TypeOK, LockInv, MaintenanceHolds, Stopping, Proc, Writer, Saver, Job, Hot, Critical, Holding, Outside, lockVars, coreVars, saveVars, flagVars
<1>1. CASE UNCHANGED vars
  BY <1>1 DEF vars
<1>2. CASE CooldownPasses
  BY <1>2 DEF CooldownPasses
<1>3. ASSUME NEW p \in Proc, Gate(p) PROVE MaintenanceHolds'
  BY <1>3 DEF Gate, Return, Goto
<1>4. ASSUME NEW p \in Proc, TryLock(p) PROVE MaintenanceHolds'
  BY <1>4 DEF TryLock, Return, Goto
<1>5. ASSUME NEW p \in Proc, Announce(p) PROVE MaintenanceHolds'
  BY <1>5 DEF Announce, Goto
<1>6. ASSUME NEW p \in Proc, Acquire(p) PROVE MaintenanceHolds'
  BY <1>6 DEF Acquire, Goto
<1>7. ASSUME NEW p \in Proc, Enter(p) PROVE MaintenanceHolds'
  <2>1. CASE EnterStart(p)
    BY <1>7, <2>1 DEF Enter, EnterStart, UnlockAndReturn, Return, Goto
  <2>2. CASE EnterRestart(p) /\ retired
    <3>1. pc[p] = "in" /\ op[p] = "restart" /\ maint' = maint /\ running' = running
      BY <1>7, <2>2 DEF Enter, EnterRestart
    <3>2. \A q \in Proc \ {p} : pc'[q] = pc[q] /\ op'[q] = op[q]
      BY <1>7, <2>2 DEF Enter, EnterRestart, UnlockAndReturn, Return, Goto
    <3> QED BY <3>1, <3>2
  <2>5. CASE EnterRestart(p) /\ ~retired
    BY <1>7, <2>5 DEF Enter, EnterRestart, StopLocked, Unpublish, UnlockAndReturn, Return, Goto
  <2>3. CASE EnterQueued(p)
    BY <1>7, <2>3 DEF Enter, EnterQueued, StopLocked, Unpublish, UnlockAndReturn, Return, Goto
  <2>4. CASE EnterStop(p)
    BY <1>7, <2>4 DEF Enter, EnterStop, StopLocked, Unpublish, UnlockAndReturn, Return, Goto
  <2> QED BY <1>7, <2>1, <2>2, <2>3, <2>4, <2>5 DEF Enter
<1>8. ASSUME NEW p \in Proc, Close(p) PROVE MaintenanceHolds'
  BY <1>8 DEF Close, UnlockAndReturn, Return, Goto
<1>9. ASSUME NEW p \in Proc, Begin(p) PROVE MaintenanceHolds'
  BY <1>9 DEF Begin, UnlockAndReturn, Return, Goto
<1>10. ASSUME NEW p \in Proc, StartBox(p) PROVE MaintenanceHolds'
  BY <1>10 DEF StartBox, UnlockAndReturn, Return, Goto
<1>11. ASSUME NEW p \in Proc, CheckMaintenance(p) PROVE MaintenanceHolds'
  BY <1>11 DEF CheckMaintenance, Unpublish, UnlockAndReturn, Return, Goto
<1>12. ASSUME NEW p \in Proc, Undo(p) PROVE MaintenanceHolds'
  BY <1>12 DEF Undo, UnlockAndReturn, Return, Goto
<1>13. ASSUME NEW p \in Proc, Hold(p) PROVE MaintenanceHolds'
  BY <1>13 DEF Hold, Goto
<1>14. ASSUME NEW p \in Proc, BeginTx(p) PROVE MaintenanceHolds'
  BY <1>14 DEF BeginTx, Goto
<1>15. ASSUME NEW p \in Proc, WriteObject(p) PROVE MaintenanceHolds'
  BY <1>15 DEF WriteObject, Goto
<1>16. ASSUME NEW p \in Proc, ReadUsers(p) PROVE MaintenanceHolds'
  BY <1>16 DEF ReadUsers, Goto
<1>17. ASSUME NEW p \in Proc, ApplyUsers(p) PROVE MaintenanceHolds'
  BY <1>17 DEF ApplyUsers, Goto
<1>18. ASSUME NEW p \in Proc, UsersDone(p) PROVE MaintenanceHolds'
  BY <1>18 DEF UsersDone, Goto
<1>19. ASSUME NEW p \in Proc, WriteRow(p) PROVE MaintenanceHolds'
  BY <1>19 DEF WriteRow, Goto
<1>20. ASSUME NEW p \in Proc, Commit(p) PROVE MaintenanceHolds'
  BY <1>20 DEF Commit, Goto
<1>21. ASSUME NEW p \in Proc, Rollback(p) PROVE MaintenanceHolds'
  BY <1>21 DEF Rollback, Goto
<1>22. ASSUME NEW p \in Proc, Release(p) PROVE MaintenanceHolds'
  BY <1>22 DEF Release, Call, Goto
<1>23. ASSUME NEW p \in Proc, RequestRestart(p) PROVE MaintenanceHolds'
  BY <1>23 DEF RequestRestart, Call, Goto
<1>24. ASSUME NEW p \in Proc, CommitJob(p) PROVE MaintenanceHolds'
  BY <1>24 DEF CommitJob, Goto
<1>25. ASSUME NEW p \in Proc, GiveUp(p) PROVE MaintenanceHolds'
  BY <1>25 DEF GiveUp, Call, Goto
<1>26. ASSUME NEW p \in Proc, Tick(p) PROVE MaintenanceHolds'
  BY <1>26 DEF Tick, Call, Goto
<1>27. ASSUME NEW p \in Proc, Press(p) PROVE MaintenanceHolds'
  BY <1>27 DEF Press, Call, Goto
<1>28. ASSUME NEW p \in Proc, SetFlag(p) PROVE MaintenanceHolds'
  BY <1>28 DEF SetFlag, Call, Goto
<1>29. ASSUME NEW p \in Proc, Retire(p) PROVE MaintenanceHolds'
  BY <1>29 DEF Retire, Call, Goto
<1>30. ASSUME NEW p \in Proc, Reclaim(p) PROVE MaintenanceHolds'
  BY <1>30 DEF Reclaim, Call, Goto
<1>31. ASSUME NEW p \in Proc, NEW on \in BOOLEAN, SetRow(p, on) PROVE MaintenanceHolds'
  BY <1>31 DEF SetRow, Goto
<1> QED
  BY <1>1, <1>2, <1>3, <1>4, <1>5, <1>6, <1>7, <1>8, <1>9, <1>10, <1>11, <1>12, <1>13, <1>14, <1>15, <1>16, <1>17, <1>18, <1>19, <1>20, <1>21, <1>22, <1>23, <1>24, <1>25, <1>26, <1>27, <1>28, <1>29, <1>30, <1>31 DEF Next, Lifecycle, Write, Demand

\* Neither can the retirement of the core.
LEMMA RetireStep ==
  ASSUME TypeOK, RoleInv, LockInv, BoxInv, RetireInv, [Next]_vars
  PROVE  RetireInv'
<1> USE DEF TypeOK, LockInv, BoxInv, RetireInv, Stopping, Proc, Writer, Saver, Job, Hot, Critical, Holding, Outside, lockVars, coreVars, saveVars, flagVars
<1>1. CASE UNCHANGED vars
  BY <1>1 DEF vars
<1>2. CASE CooldownPasses
  BY <1>2 DEF CooldownPasses
<1>3. ASSUME NEW p \in Proc, Gate(p) PROVE RetireInv'
  BY <1>3 DEF Gate, Return, Goto
<1>4. ASSUME NEW p \in Proc, TryLock(p) PROVE RetireInv'
  BY <1>4 DEF TryLock, Return, Goto
<1>5. ASSUME NEW p \in Proc, Announce(p) PROVE RetireInv'
  BY <1>5 DEF Announce, Goto
<1>6. ASSUME NEW p \in Proc, Acquire(p) PROVE RetireInv'
  BY <1>6 DEF Acquire, Goto
<1>7. ASSUME NEW p \in Proc, Enter(p) PROVE RetireInv'
  <2>1. CASE EnterStart(p)
    BY <1>7, <2>1 DEF Enter, EnterStart, UnlockAndReturn, Return, Goto
  <2>2. CASE EnterRestart(p)
    BY <1>7, <2>2 DEF Enter, EnterRestart, StopLocked, Unpublish, UnlockAndReturn, Return, Goto
  <2>3. CASE EnterQueued(p)
    BY <1>7, <2>3 DEF Enter, EnterQueued, StopLocked, Unpublish, UnlockAndReturn, Return, Goto
  <2>4. CASE EnterStop(p)
    BY <1>7, <2>4 DEF Enter, EnterStop, StopLocked, Unpublish, UnlockAndReturn, Return, Goto
  <2> QED BY <1>7, <2>1, <2>2, <2>3, <2>4 DEF Enter
<1>8. ASSUME NEW p \in Proc, Close(p) PROVE RetireInv'
  BY <1>8 DEF Close, UnlockAndReturn, Return, Goto
<1>9. ASSUME NEW p \in Proc, Begin(p) PROVE RetireInv'
  BY <1>9 DEF Begin, UnlockAndReturn, Return, Goto
<1>10. ASSUME NEW p \in Proc, StartBox(p) PROVE RetireInv'
  BY <1>10 DEF StartBox, UnlockAndReturn, Return, Goto
<1>11. ASSUME NEW p \in Proc, CheckMaintenance(p) PROVE RetireInv'
  BY <1>11 DEF CheckMaintenance, Unpublish, UnlockAndReturn, Return, Goto
<1>12. ASSUME NEW p \in Proc, Undo(p) PROVE RetireInv'
  BY <1>12 DEF Undo, UnlockAndReturn, Return, Goto
<1>13. ASSUME NEW p \in Proc, Hold(p) PROVE RetireInv'
  BY <1>13 DEF Hold, Goto
<1>14. ASSUME NEW p \in Proc, BeginTx(p) PROVE RetireInv'
  BY <1>14 DEF BeginTx, Goto
<1>15. ASSUME NEW p \in Proc, WriteObject(p) PROVE RetireInv'
  BY <1>15 DEF WriteObject, Goto
<1>16. ASSUME NEW p \in Proc, ReadUsers(p) PROVE RetireInv'
  BY <1>16 DEF ReadUsers, Goto
<1>17. ASSUME NEW p \in Proc, ApplyUsers(p) PROVE RetireInv'
  BY <1>17 DEF ApplyUsers, Goto
<1>18. ASSUME NEW p \in Proc, UsersDone(p) PROVE RetireInv'
  BY <1>18 DEF UsersDone, Goto
<1>19. ASSUME NEW p \in Proc, WriteRow(p) PROVE RetireInv'
  BY <1>19 DEF WriteRow, Goto
<1>20. ASSUME NEW p \in Proc, Commit(p) PROVE RetireInv'
  BY <1>20 DEF Commit, Goto
<1>21. ASSUME NEW p \in Proc, Rollback(p) PROVE RetireInv'
  BY <1>21 DEF Rollback, Goto
<1>22. ASSUME NEW p \in Proc, Release(p) PROVE RetireInv'
  BY <1>22 DEF Release, Call, Goto
<1>23. ASSUME NEW p \in Proc, RequestRestart(p) PROVE RetireInv'
  BY <1>23 DEF RequestRestart, Call, Goto
<1>24. ASSUME NEW p \in Proc, CommitJob(p) PROVE RetireInv'
  BY <1>24 DEF CommitJob, Goto
<1>25. ASSUME NEW p \in Proc, GiveUp(p) PROVE RetireInv'
  BY <1>25 DEF GiveUp, Call, Goto
<1>26. ASSUME NEW p \in Proc, Tick(p) PROVE RetireInv'
  BY <1>26 DEF Tick, Call, Goto
<1>27. ASSUME NEW p \in Proc, Press(p) PROVE RetireInv'
  BY <1>27 DEF Press, Call, Goto
<1>28. ASSUME NEW p \in Proc, SetFlag(p) PROVE RetireInv'
  BY <1>28 DEF SetFlag, Call, Goto
<1>29. ASSUME NEW p \in Proc, Retire(p) PROVE RetireInv'
  BY <1>29 DEF Retire, Call, Goto
<1>30. ASSUME NEW p \in Proc, Reclaim(p) PROVE RetireInv'
  BY <1>30 DEF Reclaim, Call, Goto
<1>31. ASSUME NEW p \in Proc, NEW on \in BOOLEAN, SetRow(p, on) PROVE RetireInv'
  BY <1>31 DEF SetRow, Goto
<1> QED
  BY <1>1, <1>2, <1>3, <1>4, <1>5, <1>6, <1>7, <1>8, <1>9, <1>10, <1>11, <1>12, <1>13, <1>14, <1>15, <1>16, <1>17, <1>18, <1>19, <1>20, <1>21, <1>22, <1>23, <1>24, <1>25, <1>26, <1>27, <1>28, <1>29, <1>30, <1>31 DEF Next, Lifecycle, Write, Demand

\* A queued restart has not read its configuration; a start under way has read all of it.
LEMMA RequestStep ==
  ASSUME TypeOK, RoleInv, LockInv, BoxInv, RequestInv, [Next]_vars
  PROVE  RequestInv'
<1> USE DEF TypeOK, RoleInv, LockInv, BoxInv, RequestInv, Requeued, Proc, Writer, Saver, Job, Hot, Critical, Holding, Outside, lockVars, coreVars, saveVars, flagVars
<1>1. CASE UNCHANGED vars
  BY <1>1 DEF vars
<1>2. CASE CooldownPasses
  BY <1>2 DEF CooldownPasses
<1>3. ASSUME NEW p \in Proc, Gate(p) PROVE RequestInv'
  BY <1>3 DEF Gate, Return, Goto
<1>4. ASSUME NEW p \in Proc, TryLock(p) PROVE RequestInv'
  BY <1>4 DEF TryLock, Return, Goto
<1>5. ASSUME NEW p \in Proc, Announce(p) PROVE RequestInv'
  BY <1>5 DEF Announce, Goto
<1>6. ASSUME NEW p \in Proc, Acquire(p) PROVE RequestInv'
  BY <1>6 DEF Acquire, Goto
<1>7. ASSUME NEW p \in Proc, Enter(p) PROVE RequestInv'
  <2>1. CASE EnterStart(p)
    BY <1>7, <2>1 DEF Enter, EnterStart, UnlockAndReturn, Return, Goto
  <2>2. CASE EnterRestart(p)
    BY <1>7, <2>2 DEF Enter, EnterRestart, StopLocked, Unpublish, UnlockAndReturn, Return, Goto
  <2>3. CASE EnterQueued(p)
    BY <1>7, <2>3 DEF Enter, EnterQueued, StopLocked, Unpublish, UnlockAndReturn, Return, Goto
  <2>4. CASE EnterStop(p)
    BY <1>7, <2>4 DEF Enter, EnterStop, StopLocked, Unpublish, UnlockAndReturn, Return, Goto
  <2> QED BY <1>7, <2>1, <2>2, <2>3, <2>4 DEF Enter
<1>8. ASSUME NEW p \in Proc, Close(p) PROVE RequestInv'
  BY <1>8 DEF Close, UnlockAndReturn, Return, Goto
<1>9. ASSUME NEW p \in Proc, Begin(p) PROVE RequestInv'
  BY <1>9 DEF Begin, UnlockAndReturn, Return, Goto
<1>10. ASSUME NEW p \in Proc, StartBox(p) PROVE RequestInv'
  BY <1>10 DEF StartBox, UnlockAndReturn, Return, Goto
<1>11. ASSUME NEW p \in Proc, CheckMaintenance(p) PROVE RequestInv'
  BY <1>11 DEF CheckMaintenance, Unpublish, UnlockAndReturn, Return, Goto
<1>12. ASSUME NEW p \in Proc, Undo(p) PROVE RequestInv'
  BY <1>12 DEF Undo, UnlockAndReturn, Return, Goto
<1>13. ASSUME NEW p \in Proc, Hold(p) PROVE RequestInv'
  BY <1>13 DEF Hold, Goto
<1>14. ASSUME NEW p \in Proc, BeginTx(p) PROVE RequestInv'
  BY <1>14 DEF BeginTx, Goto
<1>15. ASSUME NEW p \in Proc, WriteObject(p) PROVE RequestInv'
  BY <1>15 DEF WriteObject, Goto
<1>16. ASSUME NEW p \in Proc, ReadUsers(p) PROVE RequestInv'
  BY <1>16 DEF ReadUsers, Goto
<1>17. ASSUME NEW p \in Proc, ApplyUsers(p) PROVE RequestInv'
  BY <1>17 DEF ApplyUsers, Goto
<1>18. ASSUME NEW p \in Proc, UsersDone(p) PROVE RequestInv'
  BY <1>18 DEF UsersDone, Goto
<1>19. ASSUME NEW p \in Proc, WriteRow(p) PROVE RequestInv'
  BY <1>19 DEF WriteRow, Goto
<1>20. ASSUME NEW p \in Proc, Commit(p) PROVE RequestInv'
  BY <1>20 DEF Commit, Goto
<1>21. ASSUME NEW p \in Proc, Rollback(p) PROVE RequestInv'
  BY <1>21 DEF Rollback, Goto
<1>22. ASSUME NEW p \in Proc, Release(p) PROVE RequestInv'
  BY <1>22 DEF Release, Call, Goto
<1>23. ASSUME NEW p \in Proc, RequestRestart(p) PROVE RequestInv'
  BY <1>23 DEF RequestRestart, Call, Goto
<1>24. ASSUME NEW p \in Proc, CommitJob(p) PROVE RequestInv'
  BY <1>24 DEF CommitJob, Goto
<1>25. ASSUME NEW p \in Proc, GiveUp(p) PROVE RequestInv'
  BY <1>25 DEF GiveUp, Call, Goto
<1>26. ASSUME NEW p \in Proc, Tick(p) PROVE RequestInv'
  BY <1>26 DEF Tick, Call, Goto
<1>27. ASSUME NEW p \in Proc, Press(p) PROVE RequestInv'
  BY <1>27 DEF Press, Call, Goto
<1>28. ASSUME NEW p \in Proc, SetFlag(p) PROVE RequestInv'
  BY <1>28 DEF SetFlag, Call, Goto
<1>29. ASSUME NEW p \in Proc, Retire(p) PROVE RequestInv'
  BY <1>29 DEF Retire, Call, Goto
<1>30. ASSUME NEW p \in Proc, Reclaim(p) PROVE RequestInv'
  BY <1>30 DEF Reclaim, Call, Goto
<1>31. ASSUME NEW p \in Proc, NEW on \in BOOLEAN, SetRow(p, on) PROVE RequestInv'
  BY <1>31 DEF SetRow, Goto
<1> QED
  BY <1>1, <1>2, <1>3, <1>4, <1>5, <1>6, <1>7, <1>8, <1>9, <1>10, <1>11, <1>12, <1>13, <1>14, <1>15, <1>16, <1>17, <1>18, <1>19, <1>20, <1>21, <1>22, <1>23, <1>24, <1>25, <1>26, <1>27, <1>28, <1>29, <1>30, <1>31 DEF Next, Lifecycle, Write, Demand

\* No committed change is left behind.
LEMMA RestartStep ==
  ASSUME TypeOK, RoleInv, LockInv, BoxInv, MaintenanceHolds, RequestInv, RestartNotLost, [Next]_vars
  PROVE  RestartNotLost'
<1> USE DEF TypeOK, RoleInv, LockInv, BoxInv, MaintenanceHolds, RequestInv, RestartNotLost, Stopping, Requeued, Proc, Writer, Saver, Job, Hot, Critical, Holding, Outside, lockVars, coreVars, saveVars, flagVars
<1>1. CASE UNCHANGED vars
  BY <1>1 DEF vars
<1>2. CASE CooldownPasses
  BY <1>2 DEF CooldownPasses
<1>3. ASSUME NEW p \in Proc, Gate(p) PROVE RestartNotLost'
  BY <1>3 DEF Gate, Return, Goto
<1>4. ASSUME NEW p \in Proc, TryLock(p) PROVE RestartNotLost'
  BY <1>4 DEF TryLock, Return, Goto
<1>5. ASSUME NEW p \in Proc, Announce(p) PROVE RestartNotLost'
  BY <1>5 DEF Announce, Goto
<1>6. ASSUME NEW p \in Proc, Acquire(p) PROVE RestartNotLost'
  BY <1>6 DEF Acquire, Goto
<1>7. ASSUME NEW p \in Proc, Enter(p) PROVE RestartNotLost'
  <2>1. CASE EnterStart(p)
    BY <1>7, <2>1 DEF Enter, EnterStart, UnlockAndReturn, Return, Goto
  <2>2. CASE EnterRestart(p) /\ retired
    <3>1. pc[p] = "in" /\ op[p] = "restart" /\ db' = db /\ running' = running /\ base' = base
      BY <1>7, <2>2 DEF Enter, EnterRestart
    <3>2. \A q \in Proc \ {p} : pc'[q] = pc[q] /\ op'[q] = op[q]
      BY <1>7, <2>2 DEF Enter, EnterRestart, UnlockAndReturn, Return, Goto
    <3> QED BY <3>1, <3>2
  <2>5. CASE EnterRestart(p) /\ ~retired
    BY <1>7, <2>5 DEF Enter, EnterRestart, StopLocked, Unpublish, UnlockAndReturn, Return, Goto
  <2>3. CASE EnterQueued(p)
    BY <1>7, <2>3 DEF Enter, EnterQueued, StopLocked, Unpublish, UnlockAndReturn, Return, Goto
  <2>4. CASE EnterStop(p)
    BY <1>7, <2>4 DEF Enter, EnterStop, StopLocked, Unpublish, UnlockAndReturn, Return, Goto
  <2> QED BY <1>7, <2>1, <2>2, <2>3, <2>4, <2>5 DEF Enter
<1>8. ASSUME NEW p \in Proc, Close(p) PROVE RestartNotLost'
  BY <1>8 DEF Close, UnlockAndReturn, Return, Goto
<1>9. ASSUME NEW p \in Proc, Begin(p) PROVE RestartNotLost'
  BY <1>9 DEF Begin, UnlockAndReturn, Return, Goto
<1>10. ASSUME NEW p \in Proc, StartBox(p) PROVE RestartNotLost'
  BY <1>10 DEF StartBox, UnlockAndReturn, Return, Goto
<1>11. ASSUME NEW p \in Proc, CheckMaintenance(p) PROVE RestartNotLost'
  BY <1>11 DEF CheckMaintenance, Unpublish, UnlockAndReturn, Return, Goto
<1>12. ASSUME NEW p \in Proc, Undo(p) PROVE RestartNotLost'
  BY <1>12 DEF Undo, UnlockAndReturn, Return, Goto
<1>13. ASSUME NEW p \in Proc, Hold(p) PROVE RestartNotLost'
  BY <1>13 DEF Hold, Goto
<1>14. ASSUME NEW p \in Proc, BeginTx(p) PROVE RestartNotLost'
  BY <1>14 DEF BeginTx, Goto
<1>15. ASSUME NEW p \in Proc, WriteObject(p) PROVE RestartNotLost'
  BY <1>15 DEF WriteObject, Goto
<1>16. ASSUME NEW p \in Proc, ReadUsers(p) PROVE RestartNotLost'
  BY <1>16 DEF ReadUsers, Goto
<1>17. ASSUME NEW p \in Proc, ApplyUsers(p) PROVE RestartNotLost'
  BY <1>17 DEF ApplyUsers, Goto
<1>18. ASSUME NEW p \in Proc, UsersDone(p) PROVE RestartNotLost'
  BY <1>18 DEF UsersDone, Goto
<1>19. ASSUME NEW p \in Proc, WriteRow(p) PROVE RestartNotLost'
  BY <1>19 DEF WriteRow, Goto
<1>20. ASSUME NEW p \in Proc, Commit(p) PROVE RestartNotLost'
  BY <1>20 DEF Commit, Goto
<1>21. ASSUME NEW p \in Proc, Rollback(p) PROVE RestartNotLost'
  BY <1>21 DEF Rollback, Goto
<1>22. ASSUME NEW p \in Proc, Release(p) PROVE RestartNotLost'
  BY <1>22, RolesAreDisjoint DEF Release, Call, Goto
<1>23. ASSUME NEW p \in Proc, RequestRestart(p) PROVE RestartNotLost'
  BY <1>23 DEF RequestRestart, Call, Goto
<1>24. ASSUME NEW p \in Proc, CommitJob(p) PROVE RestartNotLost'
  BY <1>24, RolesAreDisjoint DEF CommitJob, Goto
<1>25. ASSUME NEW p \in Proc, GiveUp(p) PROVE RestartNotLost'
  BY <1>25 DEF GiveUp, Call, Goto
<1>26. ASSUME NEW p \in Proc, Tick(p) PROVE RestartNotLost'
  BY <1>26 DEF Tick, Call, Goto
<1>27. ASSUME NEW p \in Proc, Press(p) PROVE RestartNotLost'
  BY <1>27 DEF Press, Call, Goto
<1>28. ASSUME NEW p \in Proc, SetFlag(p) PROVE RestartNotLost'
  BY <1>28 DEF SetFlag, Call, Goto
<1>29. ASSUME NEW p \in Proc, Retire(p) PROVE RestartNotLost'
  BY <1>29 DEF Retire, Call, Goto
<1>30. ASSUME NEW p \in Proc, Reclaim(p) PROVE RestartNotLost'
  BY <1>30 DEF Reclaim, Call, Goto
<1>31. ASSUME NEW p \in Proc, NEW on \in BOOLEAN, SetRow(p, on) PROVE RestartNotLost'
  BY <1>31 DEF SetRow, Goto
<1> QED
  BY <1>1, <1>2, <1>3, <1>4, <1>5, <1>6, <1>7, <1>8, <1>9, <1>10, <1>11, <1>12, <1>13, <1>14, <1>15, <1>16, <1>17, <1>18, <1>19, <1>20, <1>21, <1>22, <1>23, <1>24, <1>25, <1>26, <1>27, <1>28, <1>29, <1>30, <1>31 DEF Next, Lifecycle, Write, Demand

-----------------------------------------------------------------------------
(* The theorems.                                                            *)

\* The program starts inside the invariant.
LEMMA InitIInv == Init => IInv
<1> SUFFICES ASSUME Init PROVE IInv
  OBVIOUS
<1> USE DEF Init, Proc, Writer, Saver, Job, Hot, Critical, Holding, Outside
<1>1. TypeOK
  <2>1. maint \in BOOLEAN /\ row \in BOOLEAN /\ retired \in BOOLEAN
        /\ queued \in BOOLEAN /\ cooling \in BOOLEAN /\ running \in BOOLEAN
    OBVIOUS
  <2>2. pc \in [Proc -> Critical \cup Holding \cup Outside] /\ op \in [Proc -> Ops]
    BY DEF Ops
  <2>3. want \in [Toggle -> BOOLEAN]
    OBVIOUS
  <2>4. todo \in [Hot -> SUBSET Inbound] /\ cur \in [Hot -> Inbound \cup {None}]
        /\ view \in [Proc -> SUBSET Writer] /\ users \in [Inbound -> SUBSET Hot]
    OBVIOUS
  <2> QED
    BY <2>1, <2>2, <2>3, <2>4 DEF TypeOK
<1>2. LockInv /\ RoleInv /\ RetireInv /\ MaintenanceHolds
  BY DEF LockInv, RoleInv, RetireInv, MaintenanceHolds
<1>3. BoxInv
  BY DEF BoxInv, OneBox
<1>4. RequestInv /\ RestartNotLost
  BY DEF RequestInv, RestartNotLost
<1> QED
  BY <1>1, <1>2, <1>3, <1>4 DEF IInv

\* Every step of every goroutine stays inside it.
LEMMA NextIInv == IInv /\ [Next]_vars => IInv'
<1> SUFFICES ASSUME IInv, [Next]_vars PROVE IInv'
  OBVIOUS
<1>1. TypeOK' /\ RoleInv' /\ LockInv'
  BY TypeStep, RoleStep, LockStep DEF IInv
<1>2. BoxInv' /\ MaintenanceHolds' /\ RetireInv'
  BY BoxStep, MaintenanceStep, RetireStep DEF IInv
<1>3. RequestInv' /\ RestartNotLost'
  BY RequestStep, RestartStep DEF IInv
<1> QED
  BY <1>1, <1>2, <1>3 DEF IInv

\* Every reachable state satisfies the inductive invariant.
THEOREM Invariance == Spec => []IInv
<1>1. QED
  BY InitIInv, NextIInv, PTL DEF Spec

\* Type correctness, for every number of goroutines and inbounds.
THEOREM TypeCorrect == Spec => []TypeOK
<1>1. IInv => TypeOK
  BY DEF IInv
<1> QED
  BY Invariance, <1>1, PTL

\* There is never a second box, however starts, stops, restarts, maintenance
\* switches and panel restarts interleave and whichever of them fail.
THEOREM NeverTwoBoxes == Spec => []OneBox
<1>1. IInv => OneBox
  BY DEF IInv, BoxInv
<1> QED
  BY Invariance, <1>1, PTL

\* A core running under maintenance is about to be stopped.
THEOREM MaintenanceIsASwitch == Spec => []MaintenanceHolds
<1>1. IInv => MaintenanceHolds
  BY DEF IInv
<1> QED
  BY Invariance, <1>1, PTL

\* A retired core stays down (app.Stop, the exec of an update).
THEOREM RetiredStaysDown == Spec => []RetiredHolds
<1>1. IInv => RetiredHolds
  BY DEF IInv, RetireInv, RetiredHolds
<1> QED
  BY Invariance, <1>1, PTL

\* No committed change that needs a restart is lost to the folding of restart
\* requests, the watchdog, the restart button or the maintenance switch.
THEOREM NoRestartIsLost == Spec => []RestartNotLost
<1>1. IInv => RestartNotLost
  BY DEF IInv
<1> QED
  BY Invariance, <1>1, PTL
-----------------------------------------------------------------------------
(* The users an inbound serves.  Both results are about a core whose in-place *)
(* updates by a save do not fail: one that does is rolled back in the         *)
(* database and leaves its inbound as the failure left it.                    *)

\* In the transaction of a save, its goroutine has SQLite's write lock.
TxInv ==
  \A p \in Saver : pc[p] \in {"write", "users", "apply", "row", "commit", "rollback"} => tx = p

\* What a save is about to apply is the committed users and its own change;
\* what a job is about to apply may be older, but has its own change.
AppliedView ==
  /\ \A p \in HotSaver : pc[p] = "apply" => view[p] = (db \cap Hot) \cup {p}
  /\ \A p \in Job \cap db : pc[p] = "apply" => p \in view[p]

Served(i) == i \in serving /\ db \cap Hot \subseteq users[i]

\* A box that was just published serves all that is committed.
FreshInv == \A p \in Proc : pc[p] = "check" => \A i \in Inbound : Served(i)

NoJobs == \A p \in DepleteRun \cup ResetRun : pc[p] = "idle"

\* Until a job writes, every inbound is current even while saves are under way,
\* and carries the change of a save that has been there.
CurrentInv ==
  NoJobs /\ running =>
    /\ \A i \in Inbound : Served(i)
    /\ \A p \in HotSaver :
         /\ pc[p] = "users" => \A i \in Inbound \ todo[p] : p \in users[i]
         /\ pc[p] = "apply" => \A i \in Inbound \ (todo[p] \cup {cur[p]}) : p \in users[i]
         /\ pc[p] \in {"row", "commit"} => \A i \in Inbound : p \in users[i]

\* A reset's goroutine is still applying it, or has given up and restarts.
Arriving(c) ==
  \/ pc[c] = "users" /\ \A i \in Inbound \ todo[c] : c \in users[i]
  \/ /\ pc[c] = "apply"
     /\ \A i \in Inbound \ (todo[c] \cup {cur[c]}) : c \in users[i]
  \/ pc[c] = "giveup"
  \/ op[c] = "restart" /\ pc[c] \in {"gate", "lock", "drain", "in"}

\* A committed reset is in every inbound, or arriving, or the core is about to
\* be stopped.
ResetInv ==
  \A c \in ResetRun \cap db : running =>
    \/ \A i \in Inbound : c \in users[i]
    \/ Arriving(c)
    \/ \E p \in Proc : Stopping(p)

\* One save at a time is inside a transaction.
LEMMA TxStep ==
  ASSUME TypeOK, RoleInv, TxInv, [Next]_vars
  PROVE  TxInv'
<1> USE DEF TypeOK, RoleInv, TxInv, Proc, Writer, Saver, Job, Hot, Critical, Holding, Outside, lockVars, coreVars, saveVars, flagVars
<1>1. CASE UNCHANGED vars
  BY <1>1 DEF vars
<1>2. CASE CooldownPasses
  BY <1>2 DEF CooldownPasses
<1>3. ASSUME NEW p \in Proc, Gate(p) PROVE TxInv'
  BY <1>3 DEF Gate, Return, Goto
<1>4. ASSUME NEW p \in Proc, TryLock(p) PROVE TxInv'
  BY <1>4 DEF TryLock, Return, Goto
<1>5. ASSUME NEW p \in Proc, Announce(p) PROVE TxInv'
  BY <1>5 DEF Announce, Goto
<1>6. ASSUME NEW p \in Proc, Acquire(p) PROVE TxInv'
  BY <1>6 DEF Acquire, Goto
<1>7. ASSUME NEW p \in Proc, Enter(p) PROVE TxInv'
  <2>1. CASE EnterStart(p)
    BY <1>7, <2>1 DEF Enter, EnterStart, UnlockAndReturn, Return, Goto
  <2>2. CASE EnterRestart(p)
    BY <1>7, <2>2 DEF Enter, EnterRestart, StopLocked, Unpublish, UnlockAndReturn, Return, Goto
  <2>3. CASE EnterQueued(p)
    BY <1>7, <2>3 DEF Enter, EnterQueued, StopLocked, Unpublish, UnlockAndReturn, Return, Goto
  <2>4. CASE EnterStop(p)
    BY <1>7, <2>4 DEF Enter, EnterStop, StopLocked, Unpublish, UnlockAndReturn, Return, Goto
  <2> QED BY <1>7, <2>1, <2>2, <2>3, <2>4 DEF Enter
<1>8. ASSUME NEW p \in Proc, Close(p) PROVE TxInv'
  BY <1>8 DEF Close, UnlockAndReturn, Return, Goto
<1>9. ASSUME NEW p \in Proc, Begin(p) PROVE TxInv'
  BY <1>9 DEF Begin, UnlockAndReturn, Return, Goto
<1>10. ASSUME NEW p \in Proc, StartBox(p) PROVE TxInv'
  BY <1>10 DEF StartBox, UnlockAndReturn, Return, Goto
<1>11. ASSUME NEW p \in Proc, CheckMaintenance(p) PROVE TxInv'
  BY <1>11 DEF CheckMaintenance, Unpublish, UnlockAndReturn, Return, Goto
<1>12. ASSUME NEW p \in Proc, Undo(p) PROVE TxInv'
  BY <1>12 DEF Undo, UnlockAndReturn, Return, Goto
<1>13. ASSUME NEW p \in Proc, Hold(p) PROVE TxInv'
  BY <1>13, RolesAreDisjoint DEF Hold, Goto
<1>14. ASSUME NEW p \in Proc, BeginTx(p) PROVE TxInv'
  BY <1>14, RolesAreDisjoint DEF BeginTx, Goto
<1>15. ASSUME NEW p \in Proc, WriteObject(p) PROVE TxInv'
  BY <1>15, RolesAreDisjoint DEF WriteObject, Goto
<1>16. ASSUME NEW p \in Proc, ReadUsers(p) PROVE TxInv'
  BY <1>16 DEF ReadUsers, Goto
<1>17. ASSUME NEW p \in Proc, ApplyUsers(p) PROVE TxInv'
  BY <1>17 DEF ApplyUsers, Goto
<1>18. ASSUME NEW p \in Proc, UsersDone(p) PROVE TxInv'
  BY <1>18, RolesAreDisjoint DEF UsersDone, Goto
<1>19. ASSUME NEW p \in Proc, WriteRow(p) PROVE TxInv'
  BY <1>19 DEF WriteRow, Goto
<1>20. ASSUME NEW p \in Proc, Commit(p) PROVE TxInv'
  BY <1>20, RolesAreDisjoint DEF Commit, Goto
<1>21. ASSUME NEW p \in Proc, Rollback(p) PROVE TxInv'
  BY <1>21, RolesAreDisjoint DEF Rollback, Goto
<1>22. ASSUME NEW p \in Proc, Release(p) PROVE TxInv'
  BY <1>22, RolesAreDisjoint DEF Release, Call, Goto
<1>23. ASSUME NEW p \in Proc, RequestRestart(p) PROVE TxInv'
  BY <1>23 DEF RequestRestart, Call, Goto
<1>24. ASSUME NEW p \in Proc, CommitJob(p) PROVE TxInv'
  BY <1>24, RolesAreDisjoint DEF CommitJob, Goto
<1>25. ASSUME NEW p \in Proc, GiveUp(p) PROVE TxInv'
  BY <1>25 DEF GiveUp, Call, Goto
<1>26. ASSUME NEW p \in Proc, Tick(p) PROVE TxInv'
  BY <1>26 DEF Tick, Call, Goto
<1>27. ASSUME NEW p \in Proc, Press(p) PROVE TxInv'
  BY <1>27 DEF Press, Call, Goto
<1>28. ASSUME NEW p \in Proc, SetFlag(p) PROVE TxInv'
  BY <1>28 DEF SetFlag, Call, Goto
<1>29. ASSUME NEW p \in Proc, Retire(p) PROVE TxInv'
  BY <1>29 DEF Retire, Call, Goto
<1>30. ASSUME NEW p \in Proc, Reclaim(p) PROVE TxInv'
  BY <1>30 DEF Reclaim, Call, Goto
<1>31. ASSUME NEW p \in Proc, NEW on \in BOOLEAN, SetRow(p, on) PROVE TxInv'
  BY <1>31 DEF SetRow, Goto
<1> QED
  BY <1>1, <1>2, <1>3, <1>4, <1>5, <1>6, <1>7, <1>8, <1>9, <1>10, <1>11, <1>12, <1>13, <1>14, <1>15, <1>16, <1>17, <1>18, <1>19, <1>20, <1>21, <1>22, <1>23, <1>24, <1>25, <1>26, <1>27, <1>28, <1>29, <1>30, <1>31 DEF Next, Lifecycle, Write, Demand

\* Nobody commits between a save's look at the users and its use of it.
LEMMA ViewStep ==
  ASSUME TypeOK, RoleInv, TxInv, AppliedView, [Next]_vars
  PROVE  AppliedView'
<1> USE DEF TypeOK, RoleInv, TxInv, AppliedView, Proc, Writer, Saver, Job, Hot, Critical, Holding, Outside, lockVars, coreVars, saveVars, flagVars
<1>1. CASE UNCHANGED vars
  BY <1>1 DEF vars
<1>2. CASE CooldownPasses
  BY <1>2 DEF CooldownPasses
<1>3. ASSUME NEW p \in Proc, Gate(p) PROVE AppliedView'
  BY <1>3 DEF Gate, Return, Goto
<1>4. ASSUME NEW p \in Proc, TryLock(p) PROVE AppliedView'
  BY <1>4 DEF TryLock, Return, Goto
<1>5. ASSUME NEW p \in Proc, Announce(p) PROVE AppliedView'
  BY <1>5 DEF Announce, Goto
<1>6. ASSUME NEW p \in Proc, Acquire(p) PROVE AppliedView'
  BY <1>6 DEF Acquire, Goto
<1>7. ASSUME NEW p \in Proc, Enter(p) PROVE AppliedView'
  <2>1. CASE EnterStart(p)
    BY <1>7, <2>1 DEF Enter, EnterStart, UnlockAndReturn, Return, Goto
  <2>2. CASE EnterRestart(p)
    BY <1>7, <2>2 DEF Enter, EnterRestart, StopLocked, Unpublish, UnlockAndReturn, Return, Goto
  <2>3. CASE EnterQueued(p)
    BY <1>7, <2>3 DEF Enter, EnterQueued, StopLocked, Unpublish, UnlockAndReturn, Return, Goto
  <2>4. CASE EnterStop(p)
    BY <1>7, <2>4 DEF Enter, EnterStop, StopLocked, Unpublish, UnlockAndReturn, Return, Goto
  <2> QED BY <1>7, <2>1, <2>2, <2>3, <2>4 DEF Enter
<1>8. ASSUME NEW p \in Proc, Close(p) PROVE AppliedView'
  BY <1>8 DEF Close, UnlockAndReturn, Return, Goto
<1>9. ASSUME NEW p \in Proc, Begin(p) PROVE AppliedView'
  BY <1>9, RolesAreDisjoint DEF Begin, UnlockAndReturn, Return, Goto
<1>10. ASSUME NEW p \in Proc, StartBox(p) PROVE AppliedView'
  BY <1>10, RolesAreDisjoint DEF StartBox, UnlockAndReturn, Return, Goto
<1>11. ASSUME NEW p \in Proc, CheckMaintenance(p) PROVE AppliedView'
  BY <1>11 DEF CheckMaintenance, Unpublish, UnlockAndReturn, Return, Goto
<1>12. ASSUME NEW p \in Proc, Undo(p) PROVE AppliedView'
  BY <1>12 DEF Undo, UnlockAndReturn, Return, Goto
<1>13. ASSUME NEW p \in Proc, Hold(p) PROVE AppliedView'
  BY <1>13 DEF Hold, Goto
<1>14. ASSUME NEW p \in Proc, BeginTx(p) PROVE AppliedView'
  BY <1>14 DEF BeginTx, Goto
<1>15. ASSUME NEW p \in Proc, WriteObject(p) PROVE AppliedView'
  BY <1>15 DEF WriteObject, Goto
<1>16. ASSUME NEW p \in Proc, ReadUsers(p) PROVE AppliedView'
  BY <1>16, RolesAreDisjoint DEF ReadUsers, Goto
<1>17. ASSUME NEW p \in Proc, ApplyUsers(p) PROVE AppliedView'
  BY <1>17, RolesAreDisjoint DEF ApplyUsers, Goto
<1>18. ASSUME NEW p \in Proc, UsersDone(p) PROVE AppliedView'
  BY <1>18 DEF UsersDone, Goto
<1>19. ASSUME NEW p \in Proc, WriteRow(p) PROVE AppliedView'
  BY <1>19 DEF WriteRow, Goto
<1>20. ASSUME NEW p \in Proc, Commit(p) PROVE AppliedView'
  BY <1>20, RolesAreDisjoint DEF Commit, Goto
<1>21. ASSUME NEW p \in Proc, Rollback(p) PROVE AppliedView'
  BY <1>21 DEF Rollback, Goto
<1>22. ASSUME NEW p \in Proc, Release(p) PROVE AppliedView'
  BY <1>22 DEF Release, Call, Goto
<1>23. ASSUME NEW p \in Proc, RequestRestart(p) PROVE AppliedView'
  BY <1>23 DEF RequestRestart, Call, Goto
<1>24. ASSUME NEW p \in Proc, CommitJob(p) PROVE AppliedView'
  BY <1>24, RolesAreDisjoint DEF CommitJob, Goto
<1>25. ASSUME NEW p \in Proc, GiveUp(p) PROVE AppliedView'
  BY <1>25 DEF GiveUp, Call, Goto
<1>26. ASSUME NEW p \in Proc, Tick(p) PROVE AppliedView'
  BY <1>26 DEF Tick, Call, Goto
<1>27. ASSUME NEW p \in Proc, Press(p) PROVE AppliedView'
  BY <1>27 DEF Press, Call, Goto
<1>28. ASSUME NEW p \in Proc, SetFlag(p) PROVE AppliedView'
  BY <1>28 DEF SetFlag, Call, Goto
<1>29. ASSUME NEW p \in Proc, Retire(p) PROVE AppliedView'
  BY <1>29 DEF Retire, Call, Goto
<1>30. ASSUME NEW p \in Proc, Reclaim(p) PROVE AppliedView'
  BY <1>30 DEF Reclaim, Call, Goto
<1>31. ASSUME NEW p \in Proc, NEW on \in BOOLEAN, SetRow(p, on) PROVE AppliedView'
  BY <1>31 DEF SetRow, Goto
<1> QED
  BY <1>1, <1>2, <1>3, <1>4, <1>5, <1>6, <1>7, <1>8, <1>9, <1>10, <1>11, <1>12, <1>13, <1>14, <1>15, <1>16, <1>17, <1>18, <1>19, <1>20, <1>21, <1>22, <1>23, <1>24, <1>25, <1>26, <1>27, <1>28, <1>29, <1>30, <1>31 DEF Next, Lifecycle, Write, Demand

\* A box is built from all that is committed, and no writer is inside until it is checked.
LEMMA FreshStep ==
  ASSUME TypeOK, RoleInv, LockInv, RequestInv, FreshInv, [Next]_vars
  PROVE  FreshInv'
<1> USE DEF TypeOK, RoleInv, LockInv, RequestInv, FreshInv, Served, Proc, Writer, Saver, Job, Hot, Critical, Holding, Outside, lockVars, coreVars, saveVars, flagVars
<1>1. CASE UNCHANGED vars
  BY <1>1 DEF vars
<1>2. CASE CooldownPasses
  BY <1>2 DEF CooldownPasses
<1>3. ASSUME NEW p \in Proc, Gate(p) PROVE FreshInv'
  BY <1>3 DEF Gate, Return, Goto
<1>4. ASSUME NEW p \in Proc, TryLock(p) PROVE FreshInv'
  BY <1>4 DEF TryLock, Return, Goto
<1>5. ASSUME NEW p \in Proc, Announce(p) PROVE FreshInv'
  BY <1>5 DEF Announce, Goto
<1>6. ASSUME NEW p \in Proc, Acquire(p) PROVE FreshInv'
  BY <1>6 DEF Acquire, Goto
<1>7. ASSUME NEW p \in Proc, Enter(p) PROVE FreshInv'
  <2>1. CASE EnterStart(p)
    BY <1>7, <2>1 DEF Enter, EnterStart, UnlockAndReturn, Return, Goto
  <2>2. CASE EnterRestart(p)
    BY <1>7, <2>2 DEF Enter, EnterRestart, StopLocked, Unpublish, UnlockAndReturn, Return, Goto
  <2>3. CASE EnterQueued(p)
    BY <1>7, <2>3 DEF Enter, EnterQueued, StopLocked, Unpublish, UnlockAndReturn, Return, Goto
  <2>4. CASE EnterStop(p)
    BY <1>7, <2>4 DEF Enter, EnterStop, StopLocked, Unpublish, UnlockAndReturn, Return, Goto
  <2> QED BY <1>7, <2>1, <2>2, <2>3, <2>4 DEF Enter
<1>8. ASSUME NEW p \in Proc, Close(p) PROVE FreshInv'
  BY <1>8 DEF Close, UnlockAndReturn, Return, Goto
<1>9. ASSUME NEW p \in Proc, Begin(p) PROVE FreshInv'
  <2>1. CASE pc'[p] = "built"
    BY <1>9, <2>1 DEF Begin, UnlockAndReturn, Return, Goto
  <2>2. CASE pc'[p] # "built"
    BY <1>9, <2>2 DEF Begin, UnlockAndReturn, Return, Goto
  <2> QED BY <2>1, <2>2
<1>10. ASSUME NEW p \in Proc, StartBox(p) PROVE FreshInv'
  BY <1>10 DEF StartBox, UnlockAndReturn, Return, Goto
<1>11. ASSUME NEW p \in Proc, CheckMaintenance(p) PROVE FreshInv'
  BY <1>11 DEF CheckMaintenance, Unpublish, UnlockAndReturn, Return, Goto
<1>12. ASSUME NEW p \in Proc, Undo(p) PROVE FreshInv'
  BY <1>12 DEF Undo, UnlockAndReturn, Return, Goto
<1>13. ASSUME NEW p \in Proc, Hold(p) PROVE FreshInv'
  BY <1>13 DEF Hold, Goto
<1>14. ASSUME NEW p \in Proc, BeginTx(p) PROVE FreshInv'
  BY <1>14 DEF BeginTx, Goto
<1>15. ASSUME NEW p \in Proc, WriteObject(p) PROVE FreshInv'
  BY <1>15 DEF WriteObject, Goto
<1>16. ASSUME NEW p \in Proc, ReadUsers(p) PROVE FreshInv'
  BY <1>16 DEF ReadUsers, Goto
<1>17. ASSUME NEW p \in Proc, ApplyUsers(p) PROVE FreshInv'
  BY <1>17 DEF ApplyUsers, Goto
<1>18. ASSUME NEW p \in Proc, UsersDone(p) PROVE FreshInv'
  BY <1>18 DEF UsersDone, Goto
<1>19. ASSUME NEW p \in Proc, WriteRow(p) PROVE FreshInv'
  BY <1>19 DEF WriteRow, Goto
<1>20. ASSUME NEW p \in Proc, Commit(p) PROVE FreshInv'
  BY <1>20 DEF Commit, Goto
<1>21. ASSUME NEW p \in Proc, Rollback(p) PROVE FreshInv'
  BY <1>21 DEF Rollback, Goto
<1>22. ASSUME NEW p \in Proc, Release(p) PROVE FreshInv'
  BY <1>22 DEF Release, Call, Goto
<1>23. ASSUME NEW p \in Proc, RequestRestart(p) PROVE FreshInv'
  BY <1>23 DEF RequestRestart, Call, Goto
<1>24. ASSUME NEW p \in Proc, CommitJob(p) PROVE FreshInv'
  BY <1>24 DEF CommitJob, Goto
<1>25. ASSUME NEW p \in Proc, GiveUp(p) PROVE FreshInv'
  BY <1>25 DEF GiveUp, Call, Goto
<1>26. ASSUME NEW p \in Proc, Tick(p) PROVE FreshInv'
  BY <1>26 DEF Tick, Call, Goto
<1>27. ASSUME NEW p \in Proc, Press(p) PROVE FreshInv'
  BY <1>27 DEF Press, Call, Goto
<1>28. ASSUME NEW p \in Proc, SetFlag(p) PROVE FreshInv'
  BY <1>28 DEF SetFlag, Call, Goto
<1>29. ASSUME NEW p \in Proc, Retire(p) PROVE FreshInv'
  BY <1>29 DEF Retire, Call, Goto
<1>30. ASSUME NEW p \in Proc, Reclaim(p) PROVE FreshInv'
  BY <1>30 DEF Reclaim, Call, Goto
<1>31. ASSUME NEW p \in Proc, NEW on \in BOOLEAN, SetRow(p, on) PROVE FreshInv'
  BY <1>31 DEF SetRow, Goto
<1> QED
  BY <1>1, <1>2, <1>3, <1>4, <1>5, <1>6, <1>7, <1>8, <1>9, <1>10, <1>11, <1>12, <1>13, <1>14, <1>15, <1>16, <1>17, <1>18, <1>19, <1>20, <1>21, <1>22, <1>23, <1>24, <1>25, <1>26, <1>27, <1>28, <1>29, <1>30, <1>31 DEF Next, Lifecycle, Write, Demand

\* Until a job writes, no step leaves an inbound without a committed user.
LEMMA CurrentStep ==
  ASSUME "users" \notin Fault, TypeOK, RoleInv, LockInv, BoxInv, RequestInv, TxInv, AppliedView, CurrentInv, [Next]_vars
  PROVE  CurrentInv'
<1> USE DEF TypeOK, RoleInv, LockInv, BoxInv, RequestInv, TxInv, AppliedView, CurrentInv, NoJobs, Served, Proc, Writer, Saver, Job, Hot, Critical, Holding, Outside, lockVars, coreVars, saveVars, flagVars
<1>1. CASE UNCHANGED vars
  BY <1>1 DEF vars
<1>2. CASE CooldownPasses
  BY <1>2 DEF CooldownPasses
<1>3. ASSUME NEW p \in Proc, Gate(p) PROVE CurrentInv'
  BY <1>3 DEF Gate, Return, Goto
<1>4. ASSUME NEW p \in Proc, TryLock(p) PROVE CurrentInv'
  BY <1>4 DEF TryLock, Return, Goto
<1>5. ASSUME NEW p \in Proc, Announce(p) PROVE CurrentInv'
  BY <1>5 DEF Announce, Goto
<1>6. ASSUME NEW p \in Proc, Acquire(p) PROVE CurrentInv'
  BY <1>6 DEF Acquire, Goto
<1>7. ASSUME NEW p \in Proc, Enter(p) PROVE CurrentInv'
  <2>1. CASE EnterStart(p)
    BY <1>7, <2>1 DEF Enter, EnterStart, UnlockAndReturn, Return, Goto
  <2>2. CASE EnterRestart(p) /\ retired
    <3>1. pc' = [pc EXCEPT ![p] = IF p \in Writer THEN "done" ELSE "idle"]
      BY <1>7, <2>2 DEF Enter, EnterRestart, UnlockAndReturn, Return, Goto
    <3>2. UNCHANGED <<db, coreVars, todo, cur>>
      BY <1>7, <2>2 DEF Enter, EnterRestart
    <3>3. pc[p] = "in"
      BY <1>7 DEF Enter
    <3>4. NoJobs' => NoJobs
      BY <3>1, <3>3
    <3> QED BY <3>1, <3>2, <3>3, <3>4
  <2>5. CASE EnterRestart(p) /\ ~retired
    BY <1>7, <2>5 DEF Enter, EnterRestart, StopLocked, Unpublish, UnlockAndReturn, Return, Goto
  <2>3. CASE EnterQueued(p)
    BY <1>7, <2>3 DEF Enter, EnterQueued, StopLocked, Unpublish, UnlockAndReturn, Return, Goto
  <2>4. CASE EnterStop(p)
    BY <1>7, <2>4 DEF Enter, EnterStop, StopLocked, Unpublish, UnlockAndReturn, Return, Goto
  <2> QED BY <1>7, <2>1, <2>2, <2>3, <2>4, <2>5 DEF Enter
<1>8. ASSUME NEW p \in Proc, Close(p) PROVE CurrentInv'
  BY <1>8 DEF Close, UnlockAndReturn, Return, Goto
<1>9. ASSUME NEW p \in Proc, Begin(p) PROVE CurrentInv'
  <2>1. CASE pc'[p] = "built"
    BY <1>9, <2>1 DEF Begin, UnlockAndReturn, Return, Goto
  <2>2. CASE pc'[p] # "built"
    BY <1>9, <2>2 DEF Begin, UnlockAndReturn, Return, Goto
  <2> QED BY <2>1, <2>2
<1>10. ASSUME NEW p \in Proc, StartBox(p) PROVE CurrentInv'
  BY <1>10 DEF StartBox, UnlockAndReturn, Return, Goto
<1>11. ASSUME NEW p \in Proc, CheckMaintenance(p) PROVE CurrentInv'
  <2>1. CASE maint
    BY <1>11, <2>1 DEF CheckMaintenance, Unpublish, UnlockAndReturn, Return, Goto
  <2>2. CASE ~maint
    BY <1>11, <2>2 DEF CheckMaintenance, Unpublish, UnlockAndReturn, Return, Goto
  <2> QED BY <2>1, <2>2
<1>12. ASSUME NEW p \in Proc, Undo(p) PROVE CurrentInv'
  BY <1>12 DEF Undo, UnlockAndReturn, Return, Goto
<1>13. ASSUME NEW p \in Proc, Hold(p) PROVE CurrentInv'
  BY <1>13 DEF Hold, Goto
<1>14. ASSUME NEW p \in Proc, BeginTx(p) PROVE CurrentInv'
  BY <1>14 DEF BeginTx, Goto
<1>15. ASSUME NEW p \in Proc, WriteObject(p) PROVE CurrentInv'
  BY <1>15, RolesAreDisjoint DEF WriteObject, Goto
<1>16. ASSUME NEW p \in Proc, ReadUsers(p) PROVE CurrentInv'
  BY <1>16 DEF ReadUsers, Goto
<1>17. ASSUME NEW p \in Proc, ApplyUsers(p) PROVE CurrentInv'
  BY <1>17 DEF ApplyUsers, Goto
<1>18. ASSUME NEW p \in Proc, UsersDone(p) PROVE CurrentInv'
  BY <1>18 DEF UsersDone, Goto
<1>19. ASSUME NEW p \in Proc, WriteRow(p) PROVE CurrentInv'
  BY <1>19 DEF WriteRow, Goto
<1>20. ASSUME NEW p \in Proc, Commit(p) PROVE CurrentInv'
  BY <1>20 DEF Commit, Goto
<1>21. ASSUME NEW p \in Proc, Rollback(p) PROVE CurrentInv'
  BY <1>21 DEF Rollback, Goto
<1>22. ASSUME NEW p \in Proc, Release(p) PROVE CurrentInv'
  BY <1>22 DEF Release, Call, Goto
<1>23. ASSUME NEW p \in Proc, RequestRestart(p) PROVE CurrentInv'
  BY <1>23 DEF RequestRestart, Call, Goto
<1>24. ASSUME NEW p \in Proc, CommitJob(p) PROVE CurrentInv'
  BY <1>24 DEF CommitJob, Goto
<1>25. ASSUME NEW p \in Proc, GiveUp(p) PROVE CurrentInv'
  BY <1>25 DEF GiveUp, Call, Goto
<1>26. ASSUME NEW p \in Proc, Tick(p) PROVE CurrentInv'
  BY <1>26 DEF Tick, Call, Goto
<1>27. ASSUME NEW p \in Proc, Press(p) PROVE CurrentInv'
  BY <1>27 DEF Press, Call, Goto
<1>28. ASSUME NEW p \in Proc, SetFlag(p) PROVE CurrentInv'
  BY <1>28 DEF SetFlag, Call, Goto
<1>29. ASSUME NEW p \in Proc, Retire(p) PROVE CurrentInv'
  BY <1>29 DEF Retire, Call, Goto
<1>30. ASSUME NEW p \in Proc, Reclaim(p) PROVE CurrentInv'
  BY <1>30 DEF Reclaim, Call, Goto
<1>31. ASSUME NEW p \in Proc, NEW on \in BOOLEAN, SetRow(p, on) PROVE CurrentInv'
  BY <1>31 DEF SetRow, Goto
<1> QED
  BY <1>1, <1>2, <1>3, <1>4, <1>5, <1>6, <1>7, <1>8, <1>9, <1>10, <1>11, <1>12, <1>13, <1>14, <1>15, <1>16, <1>17, <1>18, <1>19, <1>20, <1>21, <1>22, <1>23, <1>24, <1>25, <1>26, <1>27, <1>28, <1>29, <1>30, <1>31 DEF Next, Lifecycle, Write, Demand

\* When no other job runs, no step undoes a committed reset or drops one under way.
LEMMA ResetStep ==
  ASSUME "users" \notin Fault,
         \A p, q \in Job : p = q,
         TypeOK, RoleInv, LockInv, BoxInv, MaintenanceHolds, RetireInv, RequestInv,
         TxInv, AppliedView, FreshInv, ResetInv, [Next]_vars
  PROVE  ResetInv'
<1> USE DEF TypeOK, RoleInv, LockInv, BoxInv, MaintenanceHolds, RetireInv, RequestInv, TxInv, AppliedView, FreshInv, Served, ResetInv, Arriving, Stopping, Proc, Writer, Saver, Job, Hot, Critical, Holding, Outside, lockVars, coreVars, saveVars, flagVars
<1>1. CASE UNCHANGED vars
  BY <1>1 DEF vars
<1>2. CASE CooldownPasses
  BY <1>2 DEF CooldownPasses
<1>3. ASSUME NEW p \in Proc, Gate(p) PROVE ResetInv'
  BY <1>3 DEF Gate, Return, Goto
<1>4. ASSUME NEW p \in Proc, TryLock(p) PROVE ResetInv'
  BY <1>4 DEF TryLock, Return, Goto
<1>5. ASSUME NEW p \in Proc, Announce(p) PROVE ResetInv'
  BY <1>5 DEF Announce, Goto
<1>6. ASSUME NEW p \in Proc, Acquire(p) PROVE ResetInv'
  BY <1>6 DEF Acquire, Goto
<1>7. ASSUME NEW p \in Proc, Enter(p) PROVE ResetInv'
  <2>1. CASE EnterStart(p)
    BY <1>7, <2>1 DEF Enter, EnterStart, UnlockAndReturn, Return, Goto
  <2>2. CASE EnterRestart(p) /\ retired
    <3>1. pc[p] = "in" /\ op[p] = "restart" /\ db' = db /\ running' = running /\ users' = users
      BY <1>7, <2>2 DEF Enter, EnterRestart
    <3>2. \A q \in Proc \ {p} : pc'[q] = pc[q] /\ op'[q] = op[q]
      BY <1>7, <2>2 DEF Enter, EnterRestart, UnlockAndReturn, Return, Goto
    <3>3. CASE running
      <4>1. PICK a \in App : Stopping(a)
        BY <2>2, <3>3
      <4>2. Stopping(a)'
        BY <4>1, <3>1, <3>2
      <4> QED BY <4>2
    <3> QED BY <3>1, <3>3
  <2>5. CASE EnterRestart(p) /\ ~retired
    BY <1>7, <2>5 DEF Enter, EnterRestart, StopLocked, Unpublish, UnlockAndReturn, Return, Goto
  <2>3. CASE EnterQueued(p)
    BY <1>7, <2>3 DEF Enter, EnterQueued, StopLocked, Unpublish, UnlockAndReturn, Return, Goto
  <2>4. CASE EnterStop(p)
    BY <1>7, <2>4 DEF Enter, EnterStop, StopLocked, Unpublish, UnlockAndReturn, Return, Goto
  <2> QED BY <1>7, <2>1, <2>2, <2>3, <2>4, <2>5 DEF Enter
<1>8. ASSUME NEW p \in Proc, Close(p) PROVE ResetInv'
  BY <1>8 DEF Close, UnlockAndReturn, Return, Goto
<1>9. ASSUME NEW p \in Proc, Begin(p) PROVE ResetInv'
  <2>1. CASE pc'[p] = "built"
    BY <1>9, <2>1 DEF Begin, UnlockAndReturn, Return, Goto
  <2>2. CASE pc'[p] # "built"
    BY <1>9, <2>2 DEF Begin, UnlockAndReturn, Return, Goto
  <2> QED BY <2>1, <2>2
<1>10. ASSUME NEW p \in Proc, StartBox(p) PROVE ResetInv'
  BY <1>10 DEF StartBox, UnlockAndReturn, Return, Goto
<1>11. ASSUME NEW p \in Proc, CheckMaintenance(p) PROVE ResetInv'
  BY <1>11 DEF CheckMaintenance, Unpublish, UnlockAndReturn, Return, Goto
<1>12. ASSUME NEW p \in Proc, Undo(p) PROVE ResetInv'
  BY <1>12 DEF Undo, UnlockAndReturn, Return, Goto
<1>13. ASSUME NEW p \in Proc, Hold(p) PROVE ResetInv'
  BY <1>13 DEF Hold, Goto
<1>14. ASSUME NEW p \in Proc, BeginTx(p) PROVE ResetInv'
  BY <1>14 DEF BeginTx, Goto
<1>15. ASSUME NEW p \in Proc, WriteObject(p) PROVE ResetInv'
  BY <1>15 DEF WriteObject, Goto
<1>16. ASSUME NEW p \in Proc, ReadUsers(p) PROVE ResetInv'
  BY <1>16 DEF ReadUsers, Goto
<1>17. ASSUME NEW p \in Proc, ApplyUsers(p) PROVE ResetInv'
  <2>1. CASE p \in Saver
    BY <1>17, <2>1, RolesAreDisjoint DEF ApplyUsers, Goto
  <2>2. CASE p \in Job
    <3> SUFFICES ASSUME NEW c \in ResetRun \cap db, running,
                        ~ \E q \in Proc : Stopping(q)
                 PROVE  (\A i \in Inbound : c \in users'[i]) \/ Arriving(c)'
      BY <1>17 DEF ApplyUsers, Goto
    <3>1. c = p /\ pc[p] = "apply"
      BY <1>17, <2>2 DEF ApplyUsers
    <3>2. CASE pc'[p] = "giveup"
      BY <3>1, <3>2
    <3>3. CASE pc'[p] # "giveup"
      <4>1. users' = [users EXCEPT ![cur[p]] = view[p]] /\ pc'[p] = "users" /\ todo' = todo
        BY <1>17, <2>2, <3>3, RolesAreDisjoint DEF ApplyUsers, Goto
      <4>2. c \in view[p]
        BY <3>1
      <4>3. \A i \in Inbound \ (todo[p] \cup {cur[p]}) : c \in users[i]
        BY <3>1
      <4> QED BY <3>1, <4>1, <4>2, <4>3
    <3> QED BY <3>2, <3>3
  <2> QED BY <1>17, <2>1, <2>2 DEF ApplyUsers
<1>18. ASSUME NEW p \in Proc, UsersDone(p) PROVE ResetInv'
  BY <1>18 DEF UsersDone, Goto
<1>19. ASSUME NEW p \in Proc, WriteRow(p) PROVE ResetInv'
  BY <1>19 DEF WriteRow, Goto
<1>20. ASSUME NEW p \in Proc, Commit(p) PROVE ResetInv'
  BY <1>20, RolesAreDisjoint DEF Commit, Goto
<1>21. ASSUME NEW p \in Proc, Rollback(p) PROVE ResetInv'
  BY <1>21 DEF Rollback, Goto
<1>22. ASSUME NEW p \in Proc, Release(p) PROVE ResetInv'
  BY <1>22 DEF Release, Call, Goto
<1>23. ASSUME NEW p \in Proc, RequestRestart(p) PROVE ResetInv'
  BY <1>23 DEF RequestRestart, Call, Goto
<1>24. ASSUME NEW p \in Proc, CommitJob(p) PROVE ResetInv'
  BY <1>24 DEF CommitJob, Goto
<1>25. ASSUME NEW p \in Proc, GiveUp(p) PROVE ResetInv'
  BY <1>25, RolesAreDisjoint DEF GiveUp, Call, Goto
<1>26. ASSUME NEW p \in Proc, Tick(p) PROVE ResetInv'
  BY <1>26 DEF Tick, Call, Goto
<1>27. ASSUME NEW p \in Proc, Press(p) PROVE ResetInv'
  BY <1>27 DEF Press, Call, Goto
<1>28. ASSUME NEW p \in Proc, SetFlag(p) PROVE ResetInv'
  BY <1>28 DEF SetFlag, Call, Goto
<1>29. ASSUME NEW p \in Proc, Retire(p) PROVE ResetInv'
  BY <1>29 DEF Retire, Call, Goto
<1>30. ASSUME NEW p \in Proc, Reclaim(p) PROVE ResetInv'
  BY <1>30 DEF Reclaim, Call, Goto
<1>31. ASSUME NEW p \in Proc, NEW on \in BOOLEAN, SetRow(p, on) PROVE ResetInv'
  BY <1>31 DEF SetRow, Goto
<1> QED
  BY <1>1, <1>2, <1>3, <1>4, <1>5, <1>6, <1>7, <1>8, <1>9, <1>10, <1>11, <1>12, <1>13, <1>14, <1>15, <1>16, <1>17, <1>18, <1>19, <1>20, <1>21, <1>22, <1>23, <1>24, <1>25, <1>26, <1>27, <1>28, <1>29, <1>30, <1>31 DEF Next, Lifecycle, Write, Demand

\* The users part of the invariant, from the start on.
LEMMA InitUsers == Init => TxInv /\ AppliedView /\ FreshInv /\ CurrentInv /\ ResetInv
<1> SUFFICES ASSUME Init PROVE TxInv /\ AppliedView /\ FreshInv /\ CurrentInv /\ ResetInv
  OBVIOUS
<1> USE DEF Init, Proc, Writer, Saver, Job, Hot
<1>1. TxInv /\ AppliedView /\ FreshInv
  BY DEF TxInv, AppliedView, FreshInv
<1>2. CurrentInv /\ ResetInv
  BY DEF CurrentInv, ResetInv
<1> QED
  BY <1>1, <1>2

\* While no in-place update of a save fails, every inbound of a running core
\* serves every committed user whenever no writer is inside (until a job
\* writes): Save changes the core inside startMu's read side and SQLite's write
\* lock, so no start, restart or other save comes between its two halves.
THEOREM SavesReachCore == "users" \notin Fault => (Spec => []UsersCurrent)
<1> SUFFICES ASSUME "users" \notin Fault PROVE Spec => []UsersCurrent
  OBVIOUS
<1> DEFINE Inv == IInv /\ TxInv /\ AppliedView /\ CurrentInv
<1>1. Init => Inv
  BY InitIInv, InitUsers
<1>2. Inv /\ [Next]_vars => Inv'
  <2> SUFFICES ASSUME Inv, [Next]_vars PROVE Inv'
    OBVIOUS
  <2>1. IInv'
    BY NextIInv
  <2>2. TxInv' /\ AppliedView'
    BY TxStep, ViewStep DEF IInv
  <2>3. CurrentInv'
    BY CurrentStep DEF IInv
  <2> QED BY <2>1, <2>2, <2>3
<1>3. Inv => UsersCurrent
  BY DEF CurrentInv, NoJobs, Served, UsersCurrent
<1> QED
  BY <1>1, <1>2, <1>3, PTL DEF Spec

\* ResetTraffic reaches the core, if no in-place update of a save fails and no
\* other job runs (a second one may put back the users it read before the
\* reset): once it has returned, the running core has every re-enabled client
\* in every inbound, or is about to be stopped -- also when its own in-place
\* update failed half-way and the restart it falls back on met maintenance or
\* the retirement of the core.
THEOREM ResetArrives ==
  "users" \notin Fault /\ (\A p, q \in Job : p = q) => (Spec => []ResetReachesCore)
<1> SUFFICES ASSUME "users" \notin Fault, \A p, q \in Job : p = q
             PROVE  Spec => []ResetReachesCore
  OBVIOUS
<1> DEFINE Inv == IInv /\ TxInv /\ AppliedView /\ FreshInv /\ ResetInv
<1>1. Init => Inv
  BY InitIInv, InitUsers
<1>2. Inv /\ [Next]_vars => Inv'
  <2> SUFFICES ASSUME Inv, [Next]_vars PROVE Inv'
    OBVIOUS
  <2>1. IInv'
    BY NextIInv
  <2>2. TxInv' /\ AppliedView' /\ FreshInv'
    BY TxStep, ViewStep, FreshStep DEF IInv
  <2>3. ResetInv'
    BY ResetStep DEF IInv
  <2> QED BY <2>1, <2>2, <2>3
<1>3. Inv => ResetReachesCore
  BY DEF ResetInv, Arriving, ResetReachesCore
<1> QED
  BY <1>1, <1>2, <1>3, PTL DEF Spec

=============================================================================

----------------------------- MODULE FilesProofs -----------------------------
(***************************************************************************)
(* Proofs about what the panel does to files: the binary it replaces       *)
(* (SelfUpdate), the database it imports (DbImport) and the blocks it      *)
(* writes for nginx (VhostSync), for any number of releases, uploads,      *)
(* domains, failures and kills.                                            *)
(***************************************************************************)
EXTENDS SelfUpdate, DbImport, VhostSync, SequenceTheorems, TLAPS

-----------------------------------------------------------------------------
(* The update. *)

\* The steps from which a run can still reach the rename.
Chosen == {"download", "verify", "extract", "unback", "back", "backing", "stage", "staging", "rename"}
Checked == Chosen \ {"download", "verify"}

\* What a run knows at each of its steps: what it is to install is newer than the
\* process, from the checksum on the download is just that, and what is renamed is whole.
RunInv ==
  /\ updRunning <=> updStep # "none"
  /\ updStep \in Chosen => updTarget \in Release /\ running < updTarget
  /\ updStep \in Checked => fetched = updTarget
  /\ updStep = "rename" => image["new"] = fetched

\* While .bak is rewritten the binary is still the process's own, unless an earlier swap was
\* not followed by a restart; and before the new one is staged the copy is complete.
BackInv ==
  ~retried =>
    /\ updStep \in {"back", "backing", "stage", "staging", "rename"} => image["exe"] = running
    /\ updStep \in {"stage", "staging", "rename"} => image["bak"] = running

UpdateInv == UpdateSafety /\ RunInv /\ BackInv

\* The names of versions that are not releases are told apart from the releases.
LEMMA NotReleases ==
  /\ MaxRelease \in Nat /\ UpdateTries \in Nat /\ UpdateFaults \in Nat /\ UpdateKills \in Nat
  /\ NoImage \notin Release /\ Partial \notin Release /\ Corrupt \notin Release
  /\ Release \subseteq Nat
BY UpdateAssumption DEF NoImage, Partial, Corrupt, Release

\* A counter below its bound may be raised.
LEMMA Raised ==
  ASSUME NEW n \in Nat, NEW k \in 0 .. n, k < n
  PROVE  k + 1 \in 0 .. n
OBVIOUS

\* A step that fails ends the run and changes at most a file that is not the binary.
LEMMA FailKeeps ==
  ASSUME UpdateInv, fail, coreRetired' => updStep \in {"exec", "restore"}, coreUp' \in BOOLEAN,
         coreRetired' = coreRetired, updStep \notin {"exec", "restore"},
         image' \in [{"exe", "bak", "new"} -> Release \cup {NoImage, Partial}],
         image'["exe"] = image["exe"], image'["bak"] = image["bak"] \/ retried \/ image["exe"] = running
  PROVE  UpdateInv'
<1> USE DEF UpdateInv, UpdateSafety, UpdateTypeOK, fail, RunEnds
<1>1. updFaults' \in 0 .. UpdateFaults
  BY NotReleases, Raised
<1>2. UpdateTypeOK'
  BY <1>1 DEF UpdPhases, Steps
<1>3. ExeIsWhole' /\ NeverOlder' /\ CoreReclaimed' /\ BackupReverts'
  BY DEF ExeIsWhole, NeverOlder, CoreReclaimed, BackupReverts
<1>4. RunInv' /\ BackInv'
  BY DEF RunInv, BackInv, Chosen, Checked
<1> QED
  BY <1>2, <1>3, <1>4

\* A process started from the binary knows nothing of an update and is what the binary is.
LEMMA BootsKeeps ==
  ASSUME UpdateInv, Boots(image["exe"]), UNCHANGED <<latest, image, docker, tries>>, unit' \in BOOLEAN,
         updFaults' \in 0 .. UpdateFaults, kills' \in 0 .. UpdateKills
  PROVE  UpdateInv'
<1> USE DEF UpdateInv, UpdateSafety, UpdateTypeOK, Boots, ExeIsWhole
<1>1. UpdateTypeOK'
  BY DEF UpdPhases, Steps
<1>2. ExeIsWhole' /\ NeverOlder' /\ CoreReclaimed' /\ BackupReverts'
  BY NotReleases DEF NeverOlder, CoreReclaimed, BackupReverts
<1>3. RunInv' /\ BackInv'
  BY DEF RunInv, BackInv, Chosen, Checked
<1> QED
  BY <1>1, <1>2, <1>3

\* Every step of an update, of a restart and of the world outside keeps the invariant.
LEMMA UpdateStep ==
  ASSUME UpdateInv, [UpdateNext]_updVars
  PROVE  UpdateInv'
<1> USE NotReleases DEF UpdateInv, UpdateSafety, UpdateTypeOK, UpdPhases, Steps, ExeIsWhole, NeverOlder,
        CoreReclaimed, BackupReverts, RunInv, BackInv, Chosen, Checked
<1>1. CASE UNCHANGED updVars
  BY <1>1 DEF updVars
<1>2. CASE Published
  BY <1>2 DEF Published
<1>3. CASE StartUpdate
  BY <1>3 DEF StartUpdate
<1>4. CASE ResolveLatest
  <2>1. CASE fail /\ UNCHANGED <<image, coreUp, coreRetired>>
    BY <1>4, <2>1, FailKeeps DEF ResolveLatest
  <2>2. CASE /\ latest # 0 /\ updTarget' = latest
             /\ IF shouldInstall(latest, running)
                THEN updPhase' = "downloading" /\ updStep' = "download" /\ UNCHANGED updRunning
                ELSE updPhase' = "done" /\ RunEnds
             /\ UNCHANGED <<latest, image, running, docker, fetched, coreUp, coreRetired, unit, tries,
                            updFaults, kills, retried>>
    BY <1>4, <2>2 DEF ResolveLatest, RunEnds, shouldInstall
  <2>3. CASE /\ latest = 0 /\ updPhase' = "failed" /\ RunEnds
             /\ UNCHANGED <<latest, image, running, docker, updTarget, fetched, coreUp, coreRetired,
                            unit, tries, updFaults, kills, retried>>
    BY <1>4, <2>3 DEF ResolveLatest, RunEnds
  <2> QED BY <1>4, <2>1, <2>2, <2>3 DEF ResolveLatest
<1>5. CASE download
  <2>1. CASE fail /\ UNCHANGED <<image, coreUp, coreRetired>>
    BY <1>5, <2>1, FailKeeps DEF download
  <2>2. CASE updStep' = "verify"
    <3>1. updFaults' \in 0 .. UpdateFaults
      BY <1>5, <2>2 DEF download, fail, RunEnds
    <3> QED BY <1>5, <2>2, <3>1 DEF download, fail, RunEnds
  <2> QED BY <1>5, <2>1, <2>2 DEF download
<1>6. CASE VerifyChecksum
  <2>1. CASE fail /\ UNCHANGED <<image, coreUp, coreRetired>>
    BY <1>6, <2>1, FailKeeps DEF VerifyChecksum
  <2>2. CASE /\ Verified
             /\ updPhase' = "extracting" /\ updStep' = "extract"
             /\ UNCHANGED <<latest, image, running, docker, updRunning, updTarget, fetched, coreUp,
                            coreRetired, unit, tries, updFaults, kills, retried>>
    BY <1>6, <2>2 DEF VerifyChecksum, Verified
  <2>3. CASE /\ ~ Verified /\ updPhase' = "failed" /\ RunEnds
             /\ UNCHANGED <<latest, image, running, docker, updTarget, fetched, coreUp, coreRetired,
                            unit, tries, updFaults, kills, retried>>
    BY <1>6, <2>3 DEF VerifyChecksum, RunEnds
  <2> QED BY <1>6, <2>1, <2>2, <2>3 DEF VerifyChecksum
<1>7. CASE ExtractAndTest
  <2>1. CASE fail /\ UNCHANGED <<image, coreUp, coreRetired>>
    BY <1>7, <2>1, FailKeeps DEF ExtractAndTest
  <2>2. CASE updStep' = "unback"
    BY <1>7, <2>2 DEF ExtractAndTest, fail, RunEnds
  <2> QED BY <1>7, <2>1, <2>2 DEF ExtractAndTest
<1>8. CASE swapBinary
  <2> USE DEF SwapMove, CopyFails, StageFile
  <2>1. CASE SwapMove("unback", "back", "bak", NoImage) /\ retried' = (retried \/ image["exe"] # running)
    BY <2>1
  <2>2. CASE SwapMove("back", "backing", "bak", Partial) /\ UNCHANGED retried
    BY <2>2
  <2>3. CASE updStep = "backing" /\ CopyFails("bak")
    BY <2>3, FailKeeps
  <2>4. CASE SwapMove("backing", "stage", "bak", Backed) /\ UNCHANGED retried
    BY <2>4 DEF Backed
  <2>5. CASE SwapMove("stage", "staging", StageFile, Partial) /\ UNCHANGED retried
    BY <2>5
  <2>6. CASE updStep = "staging" /\ CopyFails(StageFile)
    BY <2>6, FailKeeps
  <2>7. CASE SwapMove("staging", "rename", StageFile, Staged) /\ UNCHANGED retried
    BY <2>7 DEF Staged
  <2>8. CASE updStep = "rename" /\ fail /\ image' = [image EXCEPT !["new"] = NoImage] /\ UNCHANGED <<coreUp, coreRetired>>
    BY <2>8, FailKeeps
  <2>9. CASE updStep = "rename" /\ updStep' = "restart"
    BY <1>8, <2>9 DEF swapBinary, fail, RunEnds
  <2> QED
    BY <1>8, <2>1, <2>2, <2>3, <2>4, <2>5, <2>6, <2>7, <2>8, <2>9 DEF swapBinary
<1>9. CASE stopCoreForExec
  BY <1>9 DEF stopCoreForExec
<1>10. CASE execRestart
  <2>1. CASE Boots(image["exe"])
    BY <1>10, <2>1, BootsKeeps DEF execRestart, Boots
  <2>2. CASE updFaults < UpdateFaults /\ updFaults' = updFaults + 1 /\ updStep' = "restore"
    BY <1>10, <2>2, Raised DEF execRestart, Boots
  <2> QED BY <1>10, <2>1, <2>2 DEF execRestart
<1>11. CASE startCoreAfterFailedExec
  BY <1>11 DEF startCoreAfterFailedExec, Reclaimed, RunEnds
<1>12. CASE detachedRestart
  <2>1. CASE fail /\ UNCHANGED <<image, coreUp, coreRetired>>
    BY <1>12, <2>1, FailKeeps DEF detachedRestart
  <2>2. CASE /\ unit' = TRUE /\ RunEnds
             /\ UNCHANGED <<latest, image, running, docker, updPhase, updTarget, fetched, coreUp,
                            coreRetired, tries, updFaults, kills, retried>>
    BY <1>12, <2>2 DEF detachedRestart, RunEnds
  <2> QED BY <1>12, <2>1, <2>2 DEF detachedRestart
<1>13. CASE UnitRestarts
  <2>1. CASE Boots(image["exe"]) /\ UNCHANGED updFaults
    BY <1>13, <2>1, BootsKeeps DEF UnitRestarts
  <2>2. CASE /\ updFaults < UpdateFaults /\ updFaults' = updFaults + 1
             /\ UNCHANGED <<running, coreUp, coreRetired, retried, updRunning, updPhase, updTarget,
                            updStep, fetched>>
    <3>1. updFaults' \in 0 .. UpdateFaults
      BY <2>2, Raised
    <3>2. UNCHANGED <<latest, image, docker, tries, kills>> /\ unit' = FALSE
      BY <1>13 DEF UnitRestarts
    <3>3. UNCHANGED <<running, coreUp, coreRetired, retried, updRunning, updPhase, updTarget,
                      updStep, fetched>>
      BY <2>2
    <3>4. UpdateTypeOK'
      BY <3>1, <3>2, <3>3
    <3>5. ExeIsWhole' /\ NeverOlder' /\ CoreReclaimed' /\ BackupReverts' /\ RunInv' /\ BackInv'
      BY <3>2, <3>3
    <3> QED BY <3>4, <3>5
  <2> QED BY <1>13, <2>1, <2>2 DEF UnitRestarts
<1>14. CASE Killed
  <2>1. kills' \in 0 .. UpdateKills
    BY <1>14, Raised DEF Killed
  <2> QED BY <1>14, <2>1, BootsKeeps DEF Killed
<1> QED
  BY <1>1, <1>2, <1>3, <1>4, <1>5, <1>6, <1>7, <1>8, <1>9, <1>10, <1>11, <1>12, <1>13, <1>14
     DEF UpdateNext, RunSteps

\* The update (service/update.go), for any number of releases, runs, failures and kills: at
\* every moment the binary is a whole release not older than the process, .bak can take the
\* process's version back, and no update leaves the core stopped and retired.
THEOREM UpdateIsSafe == UpdateSpec => []UpdateSafety
<1>1. UpdateInit => UpdateInv
  <2> SUFFICES ASSUME UpdateInit PROVE UpdateInv
    OBVIOUS
  <2>1. UpdateTypeOK
    <3>1. image \in [{"exe", "bak", "new"} -> Release \cup {NoImage, Partial}]
      BY DEF UpdateInit
    <3>2. tries \in 0 .. UpdateTries /\ updFaults \in 0 .. UpdateFaults /\ kills \in 0 .. UpdateKills
      BY NotReleases DEF UpdateInit
    <3> QED BY <3>1, <3>2 DEF UpdateInit, UpdateTypeOK, UpdPhases, Steps
  <2>2. ExeIsWhole /\ NeverOlder /\ CoreReclaimed /\ BackupReverts
    BY NotReleases DEF UpdateInit, ExeIsWhole, NeverOlder, CoreReclaimed, BackupReverts
  <2>3. RunInv /\ BackInv
    BY DEF UpdateInit, RunInv, BackInv, Chosen, Checked
  <2> QED BY <2>1, <2>2, <2>3 DEF UpdateInv, UpdateSafety
<1>2. UpdateInv /\ [UpdateNext]_updVars => UpdateInv'
  BY UpdateStep
<1>3. UpdateInv => UpdateSafety
  BY DEF UpdateInv
<1> QED
  BY <1>1, <1>2, <1>3, PTL DEF UpdateSpec

-----------------------------------------------------------------------------
(* The import. *)

DbContents == [who : Whos, tabs : [SavedTables -> Nat]]
ImportSteppers == {"copy", "archive", "aside", "place", "migrate", "deferred"}

\* A file that came from an upload: never the operator's own lineage, and unusable only
\* when it is the file no migration gets through.
Uploaded(c) == c.who \in {"foreign", "rotten", "export"} /\ (c.who = "rotten" => c = Rotten)

ImportTypes ==
  /\ path \in [{"db", "temp", "backup"} -> DbContents \cup {None}]
  /\ archives \in Seq(DbContents)
  /\ pool \in DbContents \cup {Shut, Dead}
  /\ imp = NoImport \/ imp \in [step : ImportSteppers, original : BOOLEAN, file : offered]
  /\ exp = NoExport \/ exp \in [at : Nat \ {0}, from : Whos, begun : [SavedTables -> Nat],
                                got : [SavedTables -> Nat]]
  /\ \A e \in offered : Uploaded(e) /\ e.tabs \in [SavedTables -> Nat]
  /\ commits \in Nat /\ again \in BOOLEAN /\ {owner, legit} \subseteq Whos
  /\ ioFaults \in 0 .. ImportFaults /\ downs \in 0 .. ImportKills

\* Where the files are at each step.  The handle is closed as long as an import is under
\* way, and otherwise serves just what is at the path; only the copy at .backup that this
\* import made is ever moved back.
FileInv ==
  /\ imp.step # "idle" => pool = Shut
  /\ Up => pool = path["db"]
  /\ path["temp"] # None => Uploaded(path["temp"])
  /\ imp.step \in {"archive", "aside", "place"} => path["temp"] # None
  /\ imp.step = "aside" => path["backup"] = None
  /\ imp.step = "place" => path["db"] = None
  /\ imp.step \in {"place", "migrate"} => path["backup"] # None
  /\ imp.step = "migrate" => path["db"] # None /\ Uploaded(path["db"])

\* Whose the database is that a failed import falls back to, unless one was begun with
\* no database open.
LegitInv ==
  ~again =>
    /\ imp.step \in {"copy", "archive", "aside"} => path["db"].who \in {"none", legit}
    /\ imp.step \in {"place", "migrate"} => path["backup"].who = legit
    /\ imp.step = "deferred" /\ imp.original => path["db"].who \in {"none", legit}
    /\ Up => pool.who = legit

\* As long as nothing failed and nothing was restarted there is a usable way back.
UsableInv ==
  ioFaults = 0 /\ downs = 0 =>
    /\ imp.step = "idle" => Up
    /\ imp.step \in {"idle", "copy", "archive", "aside"} => path["db"].who \notin {"none", "rotten"}
    /\ imp.step \in {"place", "migrate"} => path["backup"].who \notin {"none", "rotten"}
    /\ imp.step = "deferred" => imp.original /\ path["db"].who \notin {"none", "rotten"}

\* What can be served, now or after a fallback.
Servable == {path["db"]} \cup (IF imp.step \in {"place", "migrate"} THEN {path["backup"]} ELSE {})

\* No table of such a version is behind what it was when the export under way began, and
\* what the export has read is not behind either.
ExportInv ==
  /\ \A c \in Servable : c.who = "own" => \A t \in SavedTables : c.tabs[t] <= commits
  /\ exp # NoExport /\ exp.from = "own" =>
       /\ \A t \in SavedTables : exp.begun[t] <= commits
       /\ \A c \in Servable : c.who = "own" =>
             \A t \in SavedTables : exp.begun[t] <= c.tabs[t]
       /\ \A i \in 1 .. Len(BackupTables) : i < exp.at /\ BackupTables[i] \in SavedTables =>
             exp.begun[BackupTables[i]] <= exp.got[BackupTables[i]]

ImportInv ==
  /\ ImportTypes /\ FileInv /\ LegitInv /\ UsableInv /\ ExportInv
  /\ OperatorDataKept /\ RestoreKeepsSaves

\* The contents and the marks that stand for no content are told apart by their lineage.
LEMMA ContentFacts ==
  /\ None.who = "none" /\ Shut.who = "shut" /\ Dead.who = "dead"
  /\ {Fresh, Foreign, Rotten, Content("own", Empty)} \subseteq DbContents
  /\ Fresh.who = "fresh" /\ Foreign.who = "foreign" /\ Rotten.who = "rotten" /\ Content("own", Empty).who = "own"
  /\ \A c \in DbContents : /\ c.who \in Whos /\ c.tabs \in [SavedTables -> Nat]
                         /\ c # None /\ c # Shut /\ c # Dead
<1>1. Empty \in [SavedTables -> Nat]
  BY DEF Empty
<1> QED
  BY <1>1 DEF None, Shut, Dead, Content, Empty, Fresh, Foreign, Rotten, DbContents, Whos

\* A saved table is one of those the model tells apart.
LEMMA SavedContent ==
  ASSUME NEW c \in DbContents, NEW t \in SavedTables, NEW n \in Nat
  PROVE  /\ [c EXCEPT !.tabs[t] = n] \in DbContents
         /\ [c EXCEPT !.tabs[t] = n].who = c.who
         /\ [c EXCEPT !.tabs[t] = n].tabs = [c.tabs EXCEPT ![t] = n]
BY DEF DbContents

\* The dated copies keep every earlier one.
LEMMA Archived ==
  ASSUME NEW S, NEW a \in Seq(S), NEW x \in S
  PROVE  Append(a, x) \in Seq(S) /\ ToSet(Append(a, x)) = ToSet(a) \cup {x}
<1>1. Append(a, x) \in Seq(S) /\ Len(Append(a, x)) = Len(a) + 1 /\ Len(a) \in Nat
  OBVIOUS
<1>2. \A i \in 1 .. Len(a) : Append(a, x)[i] = a[i]
  OBVIOUS
<1>3. Append(a, x)[Len(a) + 1] = x
  OBVIOUS
<1>4. DOMAIN a = 1 .. Len(a) /\ DOMAIN Append(a, x) = 1 .. Len(a) + 1
  BY <1>1
<1>5. 1 .. Len(a) + 1 = 1 .. Len(a) \cup {Len(a) + 1}
  BY <1>1
<1> QED
  BY <1>2, <1>3, <1>4, <1>5 DEF ToSet

\* An import that goes from one step to the next keeps its file; one that fails is counted.
LEMMA ImportMoves ==
  ASSUME NEW S, NEW i \in [step : ImportSteppers, original : BOOLEAN, file : S],
         NEW s \in ImportSteppers, NEW o \in BOOLEAN
  PROVE  /\ [i EXCEPT !.step = s] \in [step : ImportSteppers, original : BOOLEAN, file : S]
         /\ [i EXCEPT !.step = s, !.original = o] \in [step : ImportSteppers, original : BOOLEAN, file : S]
         /\ [i EXCEPT !.step = s].step = s /\ [i EXCEPT !.step = s].original = i.original
         /\ [i EXCEPT !.step = s, !.original = o].step = s
         /\ [i EXCEPT !.step = s, !.original = o].original = o
OBVIOUS

LEMMA StepMoves ==
  ASSUME NEW S, NEW i \in [step : ImportSteppers, original : BOOLEAN, file : S], NEW s \in ImportSteppers
  PROVE  [i EXCEPT !.step = s] \in [step : ImportSteppers, original : BOOLEAN, file : S]
OBVIOUS

LEMMA ExportMoves ==
  ASSUME NEW e \in [at : Nat \ {0}, from : Whos, begun : [SavedTables -> Nat], got : [SavedTables -> Nat]],
         NEW g \in [SavedTables -> Nat]
  PROVE  /\ [e EXCEPT !.at = @ + 1, !.got = g] \in
              [at : Nat \ {0}, from : Whos, begun : [SavedTables -> Nat], got : [SavedTables -> Nat]]
         /\ [e EXCEPT !.at = @ + 1, !.got = g].at = e.at + 1
         /\ [e EXCEPT !.at = @ + 1, !.got = g].got = g
         /\ [e EXCEPT !.at = @ + 1, !.got = g].from = e.from
         /\ [e EXCEPT !.at = @ + 1, !.got = g].begun = e.begun
<1>1. e.at + 1 \in Nat \ {0}
  OBVIOUS
<1> QED
  BY <1>1

\* Every step keeps the types.
LEMMA ImportTypesStep ==
  ASSUME ImportTypes, FileInv, [ImportNext]_impVars
  PROVE  ImportTypes'
<1> USE ContentFacts DEF ImportTypes, At, Goes, ImportFault
<1>0. /\ ImportFaults \in Nat /\ ImportKills \in Nat
      /\ ImportFault => ioFaults' \in 0 .. ImportFaults
  BY ImportAssumption, Raised
<1>a. {"copy", "archive", "aside", "place", "migrate", "deferred"} \subseteq ImportSteppers
  BY DEF ImportSteppers
<1>1. CASE UNCHANGED impVars
  BY <1>1 DEF impVars
<1>2. ASSUME NEW t \in SavedTables, CommitSave(t) PROVE ImportTypes'
  <2>1. pool \in DbContents /\ commits' \in Nat
    BY <1>2 DEF CommitSave, Up
  <2>2. pool' \in DbContents
    BY <1>2, <2>1, SavedContent DEF CommitSave
  <2> QED BY <1>2, <2>1, <2>2 DEF CommitSave
<1>3. CASE BeginExport
  <2>1. pool \in DbContents /\ Empty \in [SavedTables -> Nat]
    BY <1>3 DEF BeginExport, Up, Empty
  <2> QED BY <1>3, <2>1 DEF BeginExport
<1>4. CASE ScanTable
  <2>1. exp \in [at : Nat \ {0}, from : Whos, begun : [SavedTables -> Nat], got : [SavedTables -> Nat]]
    BY <1>4 DEF ScanTable, NoExport
  <2> DEFINE t == BackupTables[exp.at]
             got == IF t \in SavedTables THEN [exp.got EXCEPT ![t] = pool.tabs[t]] ELSE exp.got
             new == [who |-> "export", tabs |-> got, begun |-> exp.begun]
  <2>2. CASE ~Up
    BY <1>4, <2>2 DEF ScanTable
  <2>3. CASE Up
    <3>1. pool \in DbContents
      BY <2>3 DEF Up
    <3>2. got \in [SavedTables -> Nat]
      BY <2>1, <3>1
    <3>3. exp' = NoExport \/ exp' = [exp EXCEPT !.at = @ + 1, !.got = got]
      BY <1>4, <2>3 DEF ScanTable
    <3>4. offered' = offered \/ offered' = offered \cup {new}
      BY <1>4, <2>3 DEF ScanTable
    <3>5. new.who = "export" /\ new.tabs = got
      OBVIOUS
    <3>6. Uploaded(new) /\ new.tabs \in [SavedTables -> Nat]
      BY <3>2, <3>5 DEF Uploaded
    <3> HIDE DEF got, new
    <3>7. exp' = NoExport \/ exp' \in [at : Nat \ {0}, from : Whos, begun : [SavedTables -> Nat], got : [SavedTables -> Nat]]
      BY <2>1, <3>2, <3>3, ExportMoves
    <3>8. \A e \in offered' : Uploaded(e) /\ e.tabs \in [SavedTables -> Nat]
      BY <3>4, <3>6
    <3>9. imp = NoImport \/ imp \in [step : ImportSteppers, original : BOOLEAN, file : offered']
      BY <3>4
    <3> QED BY <1>4, <3>7, <3>8, <3>9 DEF ScanTable, Uploaded
  <2> QED BY <2>2, <2>3
<1>5. ASSUME NEW f \in offered, BeginImport(f) PROVE ImportTypes'
  BY <1>5 DEF BeginImport, ImportSteppers
<1>6. CASE CopyUpload
  <2>1. imp \in [step : ImportSteppers, original : BOOLEAN, file : offered]
    BY <1>6 DEF CopyUpload, NoImport
  <2>2. Content(imp.file.who, imp.file.tabs) \in DbContents
    BY <2>1 DEF Content, DbContents, Uploaded, Whos
  <2>3. imp' \in [step : ImportSteppers, original : BOOLEAN, file : offered']
    <3>1. offered' = offered /\ \E s \in ImportSteppers : imp' = [imp EXCEPT !.step = s]
      BY <1>6, <1>a DEF CopyUpload
    <3>2. PICK s \in ImportSteppers : imp' = [imp EXCEPT !.step = s]
      BY <3>1
    <3>3. [imp EXCEPT !.step = s] \in [step : ImportSteppers, original : BOOLEAN, file : offered]
      BY <2>1, StepMoves, Zenon
    <3> QED BY ONLY <3>1, <3>2, <3>3, Zenon
  <2>4. path' \in [{"db", "temp", "backup"} -> DbContents \cup {None}]
    BY <1>6, <2>2 DEF CopyUpload
  <2>5. ioFaults' \in 0 .. ImportFaults
    BY <1>0, <1>6 DEF CopyUpload
  <2> QED BY <1>6, <2>3, <2>4, <2>5 DEF CopyUpload, Uploaded
<1>7. CASE ArchiveBackup
  <2>1. imp \in [step : ImportSteppers, original : BOOLEAN, file : offered]
    BY <1>7 DEF ArchiveBackup, NoImport
  <2>2. path["backup"] # None => ArchiveLeft \in Seq(DbContents)
    BY Archived DEF ArchiveLeft
  <2>3. imp' \in [step : ImportSteppers, original : BOOLEAN, file : offered']
    <3>1. offered' = offered /\ \E s \in ImportSteppers : imp' = [imp EXCEPT !.step = s]
      BY <1>7, <1>a DEF ArchiveBackup
    <3>2. PICK s \in ImportSteppers : imp' = [imp EXCEPT !.step = s]
      BY <3>1
    <3>3. [imp EXCEPT !.step = s] \in [step : ImportSteppers, original : BOOLEAN, file : offered]
      BY <2>1, StepMoves, Zenon
    <3> QED BY ONLY <3>1, <3>2, <3>3, Zenon
  <2>4. path' \in [{"db", "temp", "backup"} -> DbContents \cup {None}] /\ archives' \in Seq(DbContents)
    BY <1>7, <2>2 DEF ArchiveBackup
  <2>5. ioFaults' \in 0 .. ImportFaults
    BY <1>0, <1>7 DEF ArchiveBackup
  <2> QED BY <1>7, <2>3, <2>4, <2>5 DEF ArchiveBackup, Uploaded
<1>8. CASE MoveAside
  <2>1. imp \in [step : ImportSteppers, original : BOOLEAN, file : offered]
    BY <1>8 DEF MoveAside, NoImport
  <2>3. imp' \in [step : ImportSteppers, original : BOOLEAN, file : offered']
    <3>1. offered' = offered /\ \E s \in ImportSteppers : imp' = [imp EXCEPT !.step = s]
      BY <1>8, <1>a DEF MoveAside
    <3>2. PICK s \in ImportSteppers : imp' = [imp EXCEPT !.step = s]
      BY <3>1
    <3>3. [imp EXCEPT !.step = s] \in [step : ImportSteppers, original : BOOLEAN, file : offered]
      BY <2>1, StepMoves, Zenon
    <3> QED BY ONLY <3>1, <3>2, <3>3, Zenon
  <2>4. path' \in [{"db", "temp", "backup"} -> DbContents \cup {None}]
    BY <1>8 DEF MoveAside
  <2>5. ioFaults' \in 0 .. ImportFaults
    BY <1>0, <1>8 DEF MoveAside
  <2> QED BY <1>8, <2>3, <2>4, <2>5 DEF MoveAside, Uploaded
<1>9. CASE PutInPlace
  <2>1. imp \in [step : ImportSteppers, original : BOOLEAN, file : offered]
    BY <1>9 DEF PutInPlace, NoImport
  <2>3. imp' \in [step : ImportSteppers, original : BOOLEAN, file : offered']
    <3>1. offered' = offered /\ \E s \in ImportSteppers, o \in BOOLEAN :
                                    imp' = [imp EXCEPT !.step = s] \/ imp' = [imp EXCEPT !.step = s, !.original = o]
      BY <1>9, <1>a DEF PutInPlace
    <3>2. PICK s \in ImportSteppers, o \in BOOLEAN :
             imp' = [imp EXCEPT !.step = s] \/ imp' = [imp EXCEPT !.step = s, !.original = o]
      BY <3>1
    <3>3. CASE imp' = [imp EXCEPT !.step = s]
      BY ONLY <2>1, <3>1, <3>2, <3>3, ImportMoves
    <3>4. CASE imp' = [imp EXCEPT !.step = s, !.original = o]
      BY ONLY <2>1, <3>1, <3>2, <3>4, ImportMoves
    <3> QED BY <3>2, <3>3, <3>4
  <2>4. path' \in [{"db", "temp", "backup"} -> DbContents \cup {None}]
    BY <1>9 DEF PutInPlace, RestoreFallback
  <2>5. ioFaults' \in 0 .. ImportFaults
    BY <1>0, <1>9 DEF PutInPlace
  <2> QED BY <1>9, <2>3, <2>4, <2>5 DEF PutInPlace, Uploaded
<1>10. CASE Migrate
  <2>1. imp \in [step : ImportSteppers, original : BOOLEAN, file : offered]
    BY <1>10 DEF Migrate, NoImport
  <2>2. CASE Accept
    BY <1>10, <2>2 DEF Migrate, Accept, FileInv
  <2>3. CASE RollBack
    <3>1. imp' \in [step : ImportSteppers, original : BOOLEAN, file : offered']
      <4>1. offered' = offered /\ \E s \in ImportSteppers, o \in BOOLEAN :
                                      imp' = [imp EXCEPT !.step = s, !.original = o]
        BY <1>10, <1>a, <2>3 DEF Migrate, RollBack
      <4>2. PICK s \in ImportSteppers, o \in BOOLEAN : imp' = [imp EXCEPT !.step = s, !.original = o]
        BY <4>1
      <4> QED BY ONLY <2>1, <4>1, <4>2, ImportMoves
    <3>2. path' \in [{"db", "temp", "backup"} -> DbContents \cup {None}]
      BY <2>3 DEF RollBack, RestoreFallback
    <3>3. ioFaults' \in 0 .. ImportFaults
      BY <1>0, <2>3 DEF RollBack
    <3> QED BY <1>10, <2>3, <3>1, <3>2, <3>3 DEF Migrate, RollBack, Uploaded
  <2> QED BY <1>10, <2>2, <2>3 DEF Migrate
<1>11. CASE Deferred
  BY <1>0, <1>11 DEF Deferred, ReopenAllowed
<1>12. CASE RestartImported
  BY <1>0, <1>12 DEF RestartImported, Fresh, Content, Whos
<1> QED
  BY <1>1, <1>2, <1>3, <1>4, <1>5, <1>6, <1>7, <1>8, <1>9, <1>10, <1>11, <1>12 DEF ImportNext, ImportSteps

\* An import's record at its steps, and after it moves on.
LEMMA ImportShape ==
  ASSUME ImportTypes
  PROVE  /\ imp.step \in ImportSteppers \cup {"idle"} /\ imp.original \in BOOLEAN
         /\ NoImport.step = "idle" /\ NoImport.original = TRUE
         /\ imp.step # "idle" => imp \in [step : ImportSteppers, original : BOOLEAN, file : offered]
         /\ \A s \in ImportSteppers : imp.step # "idle" /\ imp' = [imp EXCEPT !.step = s]
                => imp'.step = s /\ imp'.original = imp.original
         /\ \A s \in ImportSteppers, o \in BOOLEAN :
                imp.step # "idle" /\ imp' = [imp EXCEPT !.step = s, !.original = o]
                => imp'.step = s /\ imp'.original = o
<1>1. NoImport.step = "idle" /\ NoImport.original = TRUE
  BY DEF NoImport
<1>2. imp.step \in ImportSteppers \cup {"idle"} /\ imp.original \in BOOLEAN
  BY <1>1 DEF ImportTypes
<1>3. imp.step # "idle" => imp \in [step : ImportSteppers, original : BOOLEAN, file : offered]
  BY <1>1 DEF ImportTypes
<1>4. ASSUME NEW s \in ImportSteppers, imp.step # "idle", imp' = [imp EXCEPT !.step = s]
      PROVE  imp'.step = s /\ imp'.original = imp.original
  BY <1>3, <1>4, ImportMoves
<1>5. ASSUME NEW s \in ImportSteppers, NEW o \in BOOLEAN, imp.step # "idle",
             imp' = [imp EXCEPT !.step = s, !.original = o]
      PROVE  imp'.step = s /\ imp'.original = o
  BY <1>3, <1>5, ImportMoves
<1> QED
  BY <1>1, <1>2, <1>3, <1>4, <1>5

\* What a save does: the handle serves the file at the path, and both get the new rows.
LEMMA SaveEffect ==
  ASSUME ImportTypes, FileInv, NEW t \in SavedTables, CommitSave(t)
  PROVE  /\ pool \in DbContents /\ pool' \in DbContents /\ pool'.who = pool.who
         /\ pool'.tabs = [pool.tabs EXCEPT ![t] = commits'] /\ commits' = commits + 1 /\ commits' \in Nat
         /\ path["db"] = pool /\ path' = [path EXCEPT !["db"] = pool'] /\ imp.step = "idle"
         /\ UNCHANGED <<archives, imp, exp, offered, ioFaults, downs, owner, again, legit>>
<1>1. Up /\ commits' = commits + 1 /\ commits \in Nat
  BY DEF CommitSave, ImportTypes
<1>2. commits' \in Nat
  BY <1>1
<1>3. pool \in DbContents
  BY <1>1, ContentFacts DEF Up, ImportTypes
<1>4. path["db"] = pool /\ imp.step = "idle"
  BY <1>1, ContentFacts DEF FileInv, Up
<1>5. pool' = [pool EXCEPT !.tabs[t] = commits']
  BY DEF CommitSave
<1>6. pool' \in DbContents /\ pool'.who = pool.who /\ pool'.tabs = [pool.tabs EXCEPT ![t] = commits']
  BY ONLY <1>2, <1>3, <1>5, SavedContent
<1> QED
  BY <1>1, <1>2, <1>3, <1>4, <1>6 DEF CommitSave

\* The file an upload leaves at .temp.
LEMMA UploadEffect ==
  ASSUME ImportTypes, imp.step # "idle"
  PROVE  Content(imp.file.who, imp.file.tabs) \in DbContents /\ Uploaded(Content(imp.file.who, imp.file.tabs))
<1> DEFINE c == Content(imp.file.who, imp.file.tabs)
<1>1. imp.file \in offered
  BY ImportShape
<1>2. c \in DbContents /\ c.who = imp.file.who /\ c.tabs = imp.file.tabs
  BY <1>1 DEF Content, DbContents, Uploaded, Whos, ImportTypes
<1>3. c.who = "rotten" => c = Rotten
  BY <1>1, <1>2 DEF Uploaded, ImportTypes, Rotten, Content
<1> QED
  BY <1>1, <1>2, <1>3 DEF Uploaded, ImportTypes

\* The names of the steps.
LEMMA StepNames == {"copy", "archive", "aside", "place", "migrate", "deferred"} \subseteq ImportSteppers
BY DEF ImportSteppers

\* CopyUpload: the upload is at .temp, or the import is given up.
LEMMA CopyEffect ==
  ASSUME ImportTypes, FileInv, CopyUpload
  PROVE  /\ imp.step = "copy" /\ UNCHANGED <<pool, archives, imp.original, downs, owner, again, legit>>
         /\ \/ /\ path' = [path EXCEPT !["temp"] = Content(imp.file.who, imp.file.tabs)]
               /\ imp'.step = "archive" /\ ioFaults' = ioFaults
            \/ path' = path /\ imp'.step = "deferred" /\ ImportFault
BY ImportShape, StepNames DEF At, Goes, CopyUpload

\* ArchiveBackup: an earlier .backup is kept among the dated copies.
LEMMA ArchiveEffect ==
  ASSUME ImportTypes, FileInv, ArchiveBackup
  PROVE  /\ imp.step = "archive" /\ UNCHANGED <<pool, imp.original, downs, owner, again, legit>>
         /\ \/ path' = path /\ archives' = archives /\ path["backup"] = None /\ imp'.step = "aside" /\ ioFaults' = ioFaults
            \/ /\ path' = [path EXCEPT !["backup"] = None] /\ path["backup"] # None
               /\ archives' = Append(archives, path["backup"]) /\ imp'.step = "aside" /\ ioFaults' = ioFaults
            \/ path' = path /\ archives' = archives /\ imp'.step = "deferred" /\ ImportFault
BY ImportShape, StepNames DEF At, Goes, ArchiveBackup, ArchiveLeft

\* MoveAside: the database is at .backup.
LEMMA AsideEffect ==
  ASSUME ImportTypes, FileInv, MoveAside
  PROVE  /\ imp.step = "aside" /\ UNCHANGED <<pool, archives, imp.original, downs, owner, again, legit>>
         /\ \/ /\ path' = [path EXCEPT !["backup"] = path["db"], !["db"] = None]
               /\ path["db"] # None /\ imp'.step = "place" /\ ioFaults' = ioFaults
            \/ path' = path /\ path["db"] = None /\ imp'.step = "deferred" /\ ioFaults' = ioFaults
            \/ path' = path /\ imp'.step = "deferred" /\ ImportFault
BY ImportShape, StepNames DEF At, Goes, MoveAside

\* PutInPlace: the upload is the database, or what was moved aside is back.
LEMMA PlaceEffect ==
  ASSUME ImportTypes, FileInv, PutInPlace
  PROVE  /\ imp.step = "place" /\ UNCHANGED <<pool, archives, downs, owner, again, legit>>
         /\ \/ /\ path' = [path EXCEPT !["db"] = path["temp"], !["temp"] = None]
               /\ imp'.step = "migrate" /\ ioFaults' = ioFaults
            \/ path' \in {path, RestoreFallback} /\ imp'.step = "deferred" /\ ImportFault
BY ImportShape, StepNames DEF At, Goes, PutInPlace

\* Migrate: the upload is accepted, or rolled back, or stays with nothing reopened.
LEMMA MigrateEffect ==
  ASSUME ImportTypes, FileInv, Migrate
  PROVE  /\ imp.step = "migrate" /\ UNCHANGED <<archives, downs, again>>
         /\ \/ /\ path["db"] # Rotten /\ pool' = path["db"] /\ owner' = path["db"].who /\ legit' = path["db"].who
               /\ path' = [path EXCEPT !["backup"] = None] /\ imp'.step = "idle" /\ ioFaults' = ioFaults
            \/ /\ imp'.step = "deferred" /\ pool' = Shut /\ UNCHANGED <<owner, legit>>
               /\ \/ path' = path /\ ~imp'.original /\ ioFaults' # 0
                  \/ /\ path' = RestoreFallback /\ imp'.original
                     /\ (ioFaults' # 0 \/ (path["db"] = Rotten /\ ioFaults' = ioFaults))
<1> USE DEF At, Goes
<1>1. CASE Accept
  BY <1>1, ImportShape DEF Migrate, Accept
<1>2. CASE RollBack
  <2>1. PICK lost \in BOOLEAN :
          /\ ioFaults' = ioFaults + (IF path["db"] = Rotten THEN 0 ELSE 1) + (IF lost THEN 1 ELSE 0)
          /\ path' = IF lost THEN path ELSE RestoreFallback
          /\ imp' = [imp EXCEPT !.step = "deferred", !.original = ~ lost]
    BY <1>2 DEF RollBack
  <2>2. ioFaults \in Nat
    BY ImportAssumption DEF ImportTypes
  <2>3. IF lost THEN ioFaults' # 0 ELSE ioFaults' # 0 \/ (path["db"] = Rotten /\ ioFaults' = ioFaults)
    BY <2>1, <2>2
  <2>4. imp.step = "migrate" /\ UNCHANGED <<archives, downs, again>> /\ pool' = Shut /\ UNCHANGED <<owner, legit>>
    BY <1>2 DEF Migrate, RollBack
  <2>5. imp'.step = "deferred" /\ imp'.original = ~lost
    BY StepNames, ImportShape, <2>1, <2>4
  <2> QED BY <2>1, <2>3, <2>4, <2>5
<1> QED BY <1>1, <1>2 DEF Migrate

\* Deferred: .temp is gone and the handle serves the database, if it is the panel's own.
LEMMA DeferredEffect ==
  ASSUME ImportTypes, FileInv, Deferred
  PROVE  /\ imp.step = "deferred" /\ UNCHANGED <<archives, downs, owner, again, legit>>
         /\ imp'.step = "idle" /\ path' = [path EXCEPT !["temp"] = None]
         /\ \/ ~(imp.original /\ path["db"] # None) /\ pool' = pool /\ ioFaults' = ioFaults
            \/ /\ imp.original /\ path["db"] # None /\ ioFaults' = ioFaults
               /\ pool' = IF path["db"] = Rotten THEN Shut ELSE path["db"]
            \/ pool' = pool /\ ImportFault
BY ImportShape DEF At, Goes, Deferred, ReopenAllowed
\* A failed operation is counted.
LEMMA FaultCounts ==
  ASSUME ImportTypes, ImportFault
  PROVE  ioFaults' # 0
BY ImportAssumption DEF ImportTypes, ImportFault

\* Every step keeps each file in its place.
LEMMA FileStep ==
  ASSUME ImportTypes, FileInv, [ImportNext]_impVars
  PROVE  FileInv'
<1> USE ContentFacts DEF FileInv, Up
<1>t. path \in [{"db", "temp", "backup"} -> DbContents \cup {None}] /\ pool \in DbContents \cup {Shut, Dead}
  BY DEF ImportTypes
<1>1. CASE UNCHANGED impVars
  BY <1>1 DEF impVars, Uploaded
<1>2. ASSUME NEW t \in SavedTables, CommitSave(t) PROVE FileInv'
  BY <1>2, <1>t, SaveEffect DEF Uploaded
<1>3. CASE BeginExport
  BY <1>3 DEF BeginExport, Uploaded
<1>4. CASE ScanTable
  BY <1>4 DEF ScanTable, Uploaded
<1>5. ASSUME NEW f \in offered, BeginImport(f) PROVE FileInv'
  BY <1>5, <1>t DEF BeginImport, Uploaded
<1>6. CASE CopyUpload
  BY <1>6, <1>t, CopyEffect, UploadEffect DEF Uploaded
<1>7. CASE ArchiveBackup
  BY <1>7, <1>t, ArchiveEffect DEF Uploaded
<1>8. CASE MoveAside
  BY <1>8, <1>t, AsideEffect DEF Uploaded
<1>9. CASE PutInPlace
  BY <1>9, <1>t, PlaceEffect DEF Uploaded, RestoreFallback
<1>10. CASE Migrate
  BY <1>10, <1>t, MigrateEffect DEF Uploaded, RestoreFallback
<1>11. CASE Deferred
  BY <1>11, <1>t, DeferredEffect DEF Uploaded
<1>12. CASE RestartImported
  <2>1. imp'.step = "idle" /\ path'["temp"] = path["temp"]
    BY <1>12, <1>t DEF RestartImported, NoImport
  <2>2. pool' \in {path'["db"], Dead}
    BY <1>12, <1>t DEF RestartImported
  <2> QED BY <1>t, <2>1, <2>2 DEF Uploaded
<1> QED
  BY <1>1, <1>2, <1>3, <1>4, <1>5, <1>6, <1>7, <1>8, <1>9, <1>10, <1>11, <1>12 DEF ImportNext, ImportSteps

\* Every step keeps the database to fall back to the one the panel was started on or accepted.
LEMMA LegitStep ==
  ASSUME ImportTypes, FileInv, LegitInv, [ImportNext]_impVars
  PROVE  LegitInv'
<1> USE ContentFacts DEF LegitInv, Up
<1>t. path \in [{"db", "temp", "backup"} -> DbContents \cup {None}] /\ pool \in DbContents \cup {Shut, Dead}
  BY DEF ImportTypes
<1>1. CASE UNCHANGED impVars
  BY <1>1 DEF impVars
<1>2. ASSUME NEW t \in SavedTables, CommitSave(t) PROVE LegitInv'
  BY <1>2, <1>t, SaveEffect
<1>3. CASE BeginExport
  BY <1>3 DEF BeginExport
<1>4. CASE ScanTable
  BY <1>4 DEF ScanTable
<1>5. ASSUME NEW f \in offered, BeginImport(f) PROVE LegitInv'
  BY <1>5, <1>t DEF BeginImport, FileInv
<1>6. CASE CopyUpload
  BY <1>6, <1>t, CopyEffect
<1>7. CASE ArchiveBackup
  BY <1>7, <1>t, ArchiveEffect
<1>8. CASE MoveAside
  <2>1. pool' = Shut /\ legit' = legit /\ again' = again /\ (path["db"].who = "none" => path["db"] = None)
    BY <1>8, <1>t, AsideEffect DEF FileInv, Whos
  <2> QED BY <1>8, <1>t, <2>1, AsideEffect DEF FileInv
<1>9. CASE PutInPlace
  BY <1>9, <1>t, PlaceEffect DEF RestoreFallback, FileInv
<1>10. CASE Migrate
  BY <1>10, <1>t, MigrateEffect DEF RestoreFallback, FileInv
<1>11. CASE Deferred
  <2>1. path["db"] # None => path["db"].who # "none"
    BY <1>t DEF Whos
  <2>2. imp.step = "deferred" /\ imp'.step = "idle" /\ legit' = legit /\ again' = again
    BY <1>11, DeferredEffect
  <2>3. pool' = Shut \/ (pool' = path["db"] /\ imp.original /\ path["db"] # None)
    BY <1>11, DeferredEffect DEF FileInv
  <2> QED BY <1>t, <2>1, <2>2, <2>3
<1>12. CASE RestartImported
  <2>1. imp'.step = "idle"
    BY <1>12 DEF RestartImported, NoImport
  <2>2. pool' = Dead \/ pool'.who = legit'
    BY <1>12, <1>t DEF RestartImported
  <2> QED BY <2>1, <2>2
<1> QED
  BY <1>1, <1>2, <1>3, <1>4, <1>5, <1>6, <1>7, <1>8, <1>9, <1>10, <1>11, <1>12 DEF ImportNext, ImportSteps

\* As long as nothing failed, every step keeps a usable way back.
LEMMA UsableStep ==
  ASSUME ImportTypes, FileInv, UsableInv, [ImportNext]_impVars
  PROVE  UsableInv'
<1> USE ContentFacts DEF UsableInv, Up
<1>t. path \in [{"db", "temp", "backup"} -> DbContents \cup {None}] /\ pool \in DbContents \cup {Shut, Dead}
  BY DEF ImportTypes
<1>1. CASE UNCHANGED impVars
  BY <1>1 DEF impVars
<1>2. ASSUME NEW t \in SavedTables, CommitSave(t) PROVE UsableInv'
  BY <1>2, <1>t, SaveEffect
<1>3. CASE BeginExport
  BY <1>3 DEF BeginExport
<1>4. CASE ScanTable
  BY <1>4 DEF ScanTable
<1>5. ASSUME NEW f \in offered, BeginImport(f) PROVE UsableInv'
  BY <1>5, <1>t DEF BeginImport, FileInv, At
<1>6. CASE CopyUpload
  BY <1>6, <1>t, CopyEffect, FaultCounts
<1>7. CASE ArchiveBackup
  BY <1>7, <1>t, ArchiveEffect, FaultCounts
<1>8. CASE MoveAside
  BY <1>8, <1>t, AsideEffect, FaultCounts
<1>9. CASE PutInPlace
  BY <1>9, <1>t, PlaceEffect, FaultCounts DEF RestoreFallback, FileInv
<1>10. CASE Migrate
  BY <1>10, <1>t, MigrateEffect, FaultCounts DEF RestoreFallback, FileInv, Uploaded
<1>11. CASE Deferred
  BY <1>11, <1>t, DeferredEffect, FaultCounts DEF FileInv
<1>12. CASE RestartImported
  <2>1. downs' # 0
    BY <1>12, ImportAssumption DEF RestartImported, ImportTypes
  <2> QED BY <2>1
<1> QED
  BY <1>1, <1>2, <1>3, <1>4, <1>5, <1>6, <1>7, <1>8, <1>9, <1>10, <1>11, <1>12 DEF ImportNext, ImportSteps

\* Until an import is accepted every step leaves the operator's database in some file.
LEMMA KeptStep ==
  ASSUME ImportTypes, FileInv, OperatorDataKept, [ImportNext]_impVars
  PROVE  OperatorDataKept'
<1> USE ContentFacts DEF OperatorDataKept, Held
<1>t. path \in [{"db", "temp", "backup"} -> DbContents \cup {None}] /\ archives \in Seq(DbContents)
  BY DEF ImportTypes
<1>e. path["temp"].who # "own"
  BY <1>t DEF FileInv, Uploaded
<1>1. CASE UNCHANGED impVars
  BY <1>1 DEF impVars
<1>2. ASSUME NEW t \in SavedTables, CommitSave(t) PROVE OperatorDataKept'
  <2>1. /\ path["db"] = pool /\ path' = [path EXCEPT !["db"] = pool'] /\ pool'.who = pool.who
        /\ archives' = archives /\ owner' = owner
    BY <1>2, SaveEffect
  <2>2. path'["db"].who = path["db"].who /\ path'["temp"] = path["temp"] /\ path'["backup"] = path["backup"]
    BY <1>t, <2>1
  <2> QED BY <2>1, <2>2
<1>3. CASE BeginExport
  BY <1>3 DEF BeginExport
<1>4. CASE ScanTable
  BY <1>4 DEF ScanTable
<1>5. ASSUME NEW f \in offered, BeginImport(f) PROVE OperatorDataKept'
  BY <1>5, <1>t, <1>e DEF BeginImport
<1>6. CASE CopyUpload
  BY <1>6, <1>t, <1>e, CopyEffect
<1>7. CASE ArchiveBackup
  <2>1. path["backup"] # None => ToSet(Append(archives, path["backup"])) = ToSet(archives) \cup {path["backup"]}
    BY <1>t, Archived
  <2>2. owner' = owner
    BY <1>7, ArchiveEffect
  <2>3. CASE path' = path /\ archives' = archives
    BY <2>2, <2>3
  <2>4. CASE path' = [path EXCEPT !["backup"] = None] /\ path["backup"] # None /\ archives' = Append(archives, path["backup"])
    <3>1. ToSet(archives') = ToSet(archives) \cup {path["backup"]}
      BY <2>1, <2>4
    <3>2. path'["db"] = path["db"] /\ path'["temp"] = path["temp"]
      BY <1>t, <2>4
    <3>3. Held \subseteq Held'
      BY <3>1, <3>2
    <3> QED BY <2>2, <3>3
  <2> QED BY <1>7, <2>3, <2>4, ArchiveEffect
<1>8. CASE MoveAside
  BY <1>8, <1>t, AsideEffect DEF FileInv
<1>9. CASE PutInPlace
  BY <1>9, <1>t, <1>e, PlaceEffect DEF RestoreFallback, FileInv
<1>10. CASE Migrate
  BY <1>10, <1>t, MigrateEffect DEF RestoreFallback, FileInv, Uploaded
<1>11. CASE Deferred
  BY <1>11, <1>t, <1>e, DeferredEffect
<1>12. CASE RestartImported
  <2>1. path' = [path EXCEPT !["db"] = IF path["db"] = None THEN Fresh ELSE path["db"]]
        /\ archives' = archives /\ owner' = owner
    BY <1>12 DEF RestartImported
  <2> QED BY <1>t, <2>1
<1> QED
  BY <1>1, <1>2, <1>3, <1>4, <1>5, <1>6, <1>7, <1>8, <1>9, <1>10, <1>11, <1>12 DEF ImportNext, ImportSteps

\* The export reads the saved tables at these places of its list.
LEMMA TablePlaces ==
  /\ Len(BackupTables) = 14 /\ BackupTables[3] = "inbounds" /\ BackupTables[8] = "tokens"
  /\ \A i \in 1 .. 14 : BackupTables[i] \in SavedTables => i = 3 \/ i = 8
BY DEF BackupTables, DbTables, SavedTables

\* A file is only served, or fallen back to, at a version the export under way does not precede.
LEMMA ExportStep ==
  ASSUME ImportTypes, FileInv, ExportInv, [ImportNext]_impVars
  PROVE  ExportInv'
<1> USE ContentFacts DEF ExportInv, Servable
<1>t. path \in [{"db", "temp", "backup"} -> DbContents \cup {None}]
  BY DEF ImportTypes
<1>1. CASE UNCHANGED impVars
  BY <1>1 DEF impVars
<1>2. ASSUME NEW t \in SavedTables, CommitSave(t) PROVE ExportInv'
  <2>1. /\ pool \in DbContents /\ path["db"] = pool /\ path' = [path EXCEPT !["db"] = pool'] /\ pool'.who = pool.who
        /\ pool'.tabs = [pool.tabs EXCEPT ![t] = commits'] /\ imp.step = "idle" /\ imp' = imp /\ exp' = exp
        /\ commits \in Nat /\ commits' = commits + 1
    BY <1>2, SaveEffect DEF ImportTypes
  <2>2. Servable = {pool} /\ Servable' = {pool'}
    BY <1>t, <2>1
  <2>3. pool.tabs \in [SavedTables -> Nat]
    BY <2>1
  <2>4. exp # NoExport => exp.begun \in [SavedTables -> Nat]
    BY DEF ImportTypes
  <2>5. pool.who = "own" => \A u \in SavedTables : pool'.tabs[u] <= commits'
    BY ONLY ExportInv, <2>1, <2>2, <2>3 DEF ExportInv
  <2>6. exp # NoExport /\ exp.from = "own" => \A u \in SavedTables : exp.begun[u] <= commits'
    BY ONLY ExportInv, <2>1, <2>4 DEF ExportInv
  <2>7. exp # NoExport /\ exp.from = "own" /\ pool.who = "own" => \A u \in SavedTables : exp.begun[u] <= pool'.tabs[u]
    BY ONLY ExportInv, <2>1, <2>2, <2>3, <2>4, <2>6 DEF ExportInv
  <2>8. exp # NoExport /\ exp.from = "own" =>
          \A i \in 1 .. Len(BackupTables) : i < exp.at /\ BackupTables[i] \in SavedTables =>
             exp.begun[BackupTables[i]] <= exp.got[BackupTables[i]]
    BY ONLY ExportInv DEF ExportInv
  <2>9. exp' = exp /\ pool'.who = pool.who /\ Servable' = {pool'}
    BY ONLY <2>1, <2>2
  <2> QED BY ONLY <2>5, <2>6, <2>7, <2>8, <2>9 DEF ExportInv
<1>3. CASE BeginExport
  BY <1>3 DEF BeginExport, FileInv, ImportTypes
<1>4. CASE ScanTable
  <2> DEFINE t == BackupTables[exp.at]
             got == IF t \in SavedTables THEN [exp.got EXCEPT ![t] = pool.tabs[t]] ELSE exp.got
  <2>1. UNCHANGED <<path, pool, imp, commits>>
    BY <1>4 DEF ScanTable
  <2>2. Servable' = Servable
    BY <2>1
  <2>3. CASE exp' = NoExport
    BY <2>1, <2>2, <2>3
  <2>4. CASE Up /\ exp' = [exp EXCEPT !.at = @ + 1, !.got = got] /\ pool.who = exp.from
    <3>1. /\ exp \in [at : Nat \ {0}, from : Whos, begun : [SavedTables -> Nat], got : [SavedTables -> Nat]]
          /\ exp.at \in 1 .. Len(BackupTables) /\ exp # NoExport
      BY <1>4 DEF ScanTable, ImportTypes, NoExport
    <3>2. pool \in DbContents /\ pool = path["db"]
      BY <2>4 DEF Up, FileInv, ImportTypes
    <3>3. got \in [SavedTables -> Nat]
      BY <3>1, <3>2
    <3>4. exp.from = "own" => \A u \in SavedTables : exp.begun[u] <= pool.tabs[u]
      BY <2>4, <3>1, <3>2
    <3>5. /\ exp'.at = exp.at + 1 /\ exp'.got = got /\ exp'.from = exp.from /\ exp'.begun = exp.begun
      BY <2>4, <3>1, <3>3, ExportMoves
    <3>6. ASSUME NEW i \in 1 .. Len(BackupTables), i < exp'.at, BackupTables[i] \in SavedTables, exp.from = "own"
          PROVE  exp.begun[BackupTables[i]] <= got[BackupTables[i]]
      <4>1. CASE i = exp.at
        BY <3>1, <3>4, <3>6, <4>1
      <4>2. CASE i # exp.at /\ BackupTables[i] = t
        BY <3>1, <3>4, <3>6, <4>2
      <4>3. CASE i # exp.at /\ BackupTables[i] # t
        <5>1. i < exp.at
          BY <3>1, <3>5, <3>6, <4>3, TablePlaces
        <5>2. got[BackupTables[i]] = exp.got[BackupTables[i]]
          BY <3>1, <3>6, <4>3
        <5> QED BY <3>1, <3>6, <5>1, <5>2
      <4> QED BY <4>1, <4>2, <4>3
    <3> HIDE DEF got
    <3> QED BY <2>1, <2>2, <3>1, <3>5, <3>6
  <2> QED BY <1>4, <2>3, <2>4 DEF ScanTable
<1>5. ASSUME NEW f \in offered, BeginImport(f) PROVE ExportInv'
  BY <1>5, <1>t DEF BeginImport
<1>6. CASE CopyUpload
  BY <1>6, <1>t, CopyEffect DEF CopyUpload
<1>7. CASE ArchiveBackup
  BY <1>7, <1>t, ArchiveEffect DEF ArchiveBackup
<1>8. CASE MoveAside
  BY <1>8, <1>t, AsideEffect DEF MoveAside
<1>9. CASE PutInPlace
  BY <1>9, <1>t, PlaceEffect DEF RestoreFallback, FileInv, Uploaded, PutInPlace
<1>10. CASE Migrate
  BY <1>10, <1>t, MigrateEffect DEF RestoreFallback, Migrate
<1>11. CASE Deferred
  BY <1>11, <1>t, DeferredEffect DEF Deferred
<1>12. CASE RestartImported
  BY <1>12, <1>t DEF RestartImported, NoImport
<1> QED
  BY <1>1, <1>2, <1>3, <1>4, <1>5, <1>6, <1>7, <1>8, <1>9, <1>10, <1>11, <1>12 DEF ImportNext, ImportSteps

\* A finished export has read every saved table at least as it was when it began.
LEMMA RestoreStep ==
  ASSUME ImportTypes, FileInv, ExportInv, RestoreKeepsSaves, [ImportNext]_impVars
  PROVE  RestoreKeepsSaves'
<1>1. CASE offered' = offered
  BY <1>1 DEF RestoreKeepsSaves
<1>2. CASE offered' # offered
  <2> DEFINE t == BackupTables[exp.at]
             got == IF t \in SavedTables THEN [exp.got EXCEPT ![t] = pool.tabs[t]] ELSE exp.got
             new == [who |-> "export", tabs |-> got, begun |-> exp.begun]
  <2>1. ScanTable
    BY <1>2 DEF ImportNext, ImportSteps, impVars, CommitSave, BeginExport, BeginImport, CopyUpload, ArchiveBackup,
       MoveAside, PutInPlace, Migrate, Deferred, RestartImported
  <2>2. /\ exp.at = Len(BackupTables) /\ exp.from = "own" /\ pool.who = exp.from /\ Up
        /\ offered' = offered \cup {new}
    BY <1>2, <2>1 DEF ScanTable
  <2>3. /\ exp \in [at : Nat \ {0}, from : Whos, begun : [SavedTables -> Nat], got : [SavedTables -> Nat]]
        /\ exp # NoExport
    BY <2>1 DEF ScanTable, ImportTypes, NoExport
  <2>4. pool \in DbContents /\ pool = path["db"]
    BY <2>2 DEF Up, FileInv, ImportTypes
  <2>5. \A u \in SavedTables : exp.begun[u] <= pool.tabs[u]
    BY <2>2, <2>3, <2>4 DEF ExportInv, Servable
  <2>6. exp.begun["inbounds"] <= got["inbounds"] /\ exp.begun["tokens"] <= got["tokens"]
    <3>1. exp.begun["inbounds"] <= exp.got["inbounds"] /\ exp.begun["tokens"] <= exp.got["tokens"]
      BY <2>2, <2>3, TablePlaces DEF ExportInv, SavedTables
    <3>2. ASSUME NEW u \in SavedTables, exp.begun[u] <= exp.got[u] PROVE exp.begun[u] <= got[u]
      BY <2>3, <2>5, <3>2
    <3> QED BY <3>1, <3>2 DEF SavedTables
  <2>7. new.tabs = got /\ new.begun = exp.begun
    OBVIOUS
  <2> HIDE DEF got
  <2>8. \A u \in SavedTables \ {"loginAttempts"} : new.tabs[u] >= new.begun[u]
    <3>1. got \in [SavedTables -> Nat]
      BY <2>3, <2>4, ContentFacts DEF got
    <3> QED BY <2>3, <2>6, <2>7, <3>1 DEF SavedTables
  <2> HIDE DEF new
  <2> QED BY <2>2, <2>8 DEF RestoreKeepsSaves
<1> QED
  BY <1>1, <1>2

\* What the panel promises of its database follows from what is at each path at each step.
LEMMA ImportInvSuffices ==
  ASSUME ImportInv
  PROVE  ImportSafety
<1> USE ContentFacts DEF ImportInv, ImportTypes
<1>1. ImportTypeOK
  BY DEF ImportTypeOK
<1>2. NeverServesRefused
  BY DEF NeverServesRefused, LegitInv
<1>3. ReopenedAfterImport
  BY ImportAssumption DEF ReopenedAfterImport, UsableInv, At
<1> QED
  BY <1>1, <1>2, <1>3 DEF ImportSafety

\* The import (database/backup.go) and the start (database/db.go), for any number of saves,
\* exports, imports, failures and kills: the operator's database is in some file until an
\* import was accepted, the panel serves only what it was started on or accepted, a failed
\* import leaves it with its database, and a restored export keeps what was saved.
THEOREM ImportIsSafe == ImportSpec => []ImportSafety
<1>1. ImportInit => ImportInv
  <2> SUFFICES ASSUME ImportInit PROVE ImportInv
    OBVIOUS
  <2> USE ContentFacts DEF ImportInit
  <2>0. path["db"] = Content("own", Empty) /\ path["temp"] = None /\ path["backup"] = None
    OBVIOUS
  <2>1. ImportTypes
    <3>1. path \in [{"db", "temp", "backup"} -> DbContents \cup {None}] /\ pool \in DbContents
      OBVIOUS
    <3>2. archives \in Seq(DbContents)
      OBVIOUS
    <3>3. \A e \in offered : Uploaded(e) /\ e.tabs \in [SavedTables -> Nat]
      BY DEF Uploaded
    <3>4. ioFaults \in 0 .. ImportFaults /\ downs \in 0 .. ImportKills
      BY ImportAssumption
    <3> QED BY <3>1, <3>2, <3>3, <3>4 DEF ImportTypes, Whos
  <2>2. FileInv /\ LegitInv /\ UsableInv
    BY <2>0 DEF FileInv, LegitInv, UsableInv, Up, NoImport
  <2>3. OperatorDataKept /\ RestoreKeepsSaves
    BY <2>0 DEF OperatorDataKept, RestoreKeepsSaves, Held
  <2>4. ExportInv
    BY <2>0 DEF ExportInv, Servable, Content, Empty, NoImport
  <2> QED BY <2>1, <2>2, <2>3, <2>4 DEF ImportInv
<1>2. ImportInv /\ [ImportNext]_impVars => ImportInv'
  BY ImportTypesStep, FileStep, LegitStep, UsableStep, ExportStep, KeptStep, RestoreStep DEF ImportInv
<1>3. ImportInv => ImportSafety
  BY ImportInvSuffices
<1> QED
  BY <1>1, <1>2, <1>3, PTL DEF ImportSpec

-----------------------------------------------------------------------------
(* The reverse proxy: what its invariant says. *)

Block == [eps : Seq(Sides \X Nat), cert : CertPath \cup {Unset, "-"}]
VhostSpecs == [dom : Domain, cert : CertPath \cup {Unset}, eps : Seq(Sides \X Nat)]
Syncing == sync.phase # "idle"
\* The fields of a sync under way.
SyncShape(s) ==
  s = [phase |-> s.phase, org |-> s.org, specs |-> s.specs, todo |-> s.todo, applied |-> s.applied,
       removed |-> s.removed, conf0 |-> s.conf0, loaded0 |-> s.loaded0, valid0 |-> s.valid0, clean |-> s.clean]

VhostTypes ==
  /\ conf \in [ConfFile -> Block] /\ loaded \in [ConfFile -> Block]
  /\ saved \in VhostForms /\ served \in VhostForms
  /\ certs \subseteq Domain /\ managed \subseteq Domain
  /\ manual \in [Domain -> CertPath \cup {Unset}]
  /\ faults \in 0..VhostFaults
  /\ excused \in BOOLEAN /\ raced \in BOOLEAN
  /\ page \in {Idle, [phase |-> "reconcile"]} \cup [phase : {"save", "restart", "sync"}, form : VhostForms]
  /\ sync = Idle \/ (sync.phase \in {"ensure", "undo"} /\ SyncShape(sync) /\ sync.org \in {"form", "start"})
  /\ issue = Idle \/ (issue.phase = "acme" /\ issue.dom \in Domain)
  /\ removal \in {NoRemoval} \cup [dom : Domain, managed : BOOLEAN]

\* The page waits for its sync, and the start for its own.
PageInv ==
  Syncing => page.phase = IF sync.org = "form" THEN "sync" ELSE "reconcile"

\* No generated block stands beside one of the administrator's, nor would a rollback
\* bring one back; and what nginx has of the validation blocks is on disk.
SiteInv ==
  /\ \A p \in ProxyFile : p[2] \in OwnBlock =>
       conf[p] = NoFile /\ loaded[p] = NoFile /\ (Syncing => sync.conf0[p] = NoFile)
  /\ \A d \in Domain : loaded[<<"acme", d>>] # NoFile => conf[<<"acme", d>>] # NoFile
  /\ issue.phase = "acme" /\ issue.how = "nginx" => loaded[<<"acme", issue.dom>>] # NoFile

\* What a sync remembers and what it has not touched are what it found.
UndoInv ==
  Syncing =>
    /\ sync.conf0 \in [ConfFile -> Block]
    /\ DOMAIN sync.applied \subseteq ProxyFile
    /\ \A p \in DOMAIN sync.applied : sync.applied[p] = sync.conf0[p]
    /\ \A p \in ProxyFile : p \notin DOMAIN sync.applied => conf[p] = sync.conf0[p]
    /\ DOMAIN sync.applied = {} => \A p \in ProxyFile : loaded[p] \in {sync.loaded0[p], sync.conf0[p]}

\* The block of a specification is there, on disk and in nginx.
Made(s) ==
  LET p == proxyConfPath(s.dom) IN conf[p] # NoFile /\ conf[p].eps = s.eps /\ loaded[p] = conf[p]
MadeInv ==
  Syncing =>
    /\ sync.specs \in Seq(VhostSpecs) /\ sync.todo \in Seq(VhostSpecs)
    /\ ToSet(sync.todo) \subseteq ToSet(sync.specs)
    /\ \A s, t \in ToSet(sync.specs) : s.dom = t.dom => s = t
    /\ sync.phase = "ensure" =>
         /\ \A d \in Wanted(sync.specs) : conf[<<"panel", d>>] = NoFile
         /\ \A s \in ToSet(sync.specs) : s \in ToSet(sync.todo) \/ Made(s)

\* A certificate about to be deleted is none the settings name.
DeleteInv ==
  removal # NoRemoval /\ ~ raced => \A s \in Sides : saved[s].dom # removal.dom /\ saved[s].cert # removal.dom

\* The way in to the panel: it is on disk and in nginx while nothing is under way, the
\* specifications of a start have it, and a page's own sync finds the panel without one.
HasEntry(c, p) == <<"web", served["web"].port>> \in ToSet(c[p].eps)
Entry == \E p \in ProxyFile : p[2] = served["web"].dom /\ HasEntry(conf, p) /\ HasEntry(loaded, p)
EntryInv ==
  /\ ~ excused /\ page.phase \in {"idle", "save", "sync"} => served = saved
  /\ page.phase = "reconcile" => served = saved
  /\ ~ excused /\ page.phase = "sync" => ~ served["web"].on
  /\ ~ excused /\ page.phase \in {"idle", "save"} /\ served["web"].on => Entry
  /\ Syncing /\ sync.org = "start" /\ served["web"].on =>
       \E s \in ToSet(sync.specs) : s.dom = served["web"].dom /\ <<"web", served["web"].port>> \in ToSet(s.eps)

VhostInv == VhostTypes /\ PageInv /\ SiteInv /\ UndoInv /\ MadeInv /\ DeleteInv /\ EntryInv

-----------------------------------------------------------------------------
(* Sequences, paths and specifications. *)

\* A member of a sequence stands at one of its places.
LEMMA InSeq ==
  ASSUME NEW s, NEW x
  PROVE  x \in ToSet(s) <=> \E i \in DOMAIN s : x = s[i]
BY DEF ToSet

\* The first and the others.
LEMMA HeadAndTail ==
  ASSUME NEW S, NEW s \in Seq(S), s # <<>>
  PROVE  /\ Head(s) \in ToSet(s) /\ Head(s) \in S /\ Tail(s) \in Seq(S)
         /\ ToSet(Tail(s)) \subseteq ToSet(s)
         /\ \A x \in ToSet(s) : x = Head(s) \/ x \in ToSet(Tail(s))
<1>1. Len(s) \in Nat /\ Len(s) >= 1 /\ DOMAIN s = 1..Len(s) /\ Head(s) = s[1]
  OBVIOUS
<1>2. /\ Tail(s) \in Seq(S) /\ DOMAIN Tail(s) = 1..(Len(s) - 1)
      /\ \A i \in 1..(Len(s) - 1) : Tail(s)[i] = s[i + 1]
  OBVIOUS
<1>3. Head(s) \in ToSet(s) /\ Head(s) \in S
  BY <1>1, InSeq
<1>4. ASSUME NEW x \in ToSet(Tail(s)) PROVE x \in ToSet(s)
  <2>1. \E i \in DOMAIN Tail(s) : x = Tail(s)[i]
    BY InSeq
  <2>3. PICK i \in 1..(Len(s) - 1) : x = Tail(s)[i]
    BY <1>2, <2>1
  <2>2. i + 1 \in DOMAIN s /\ x = s[i + 1]
    BY <1>1, <1>2, <2>3
  <2> QED
    BY <2>2, InSeq
<1>5. ASSUME NEW x \in ToSet(s), x # Head(s) PROVE x \in ToSet(Tail(s))
  <2>1. PICK i \in 1..Len(s) : x = s[i]
    BY <1>1, InSeq
  <2>2. i # 1 /\ i - 1 \in 1..(Len(s) - 1) /\ i - 1 + 1 = i
    BY <1>1, <1>5, <2>1
  <2>3. x = Tail(s)[i - 1] /\ i - 1 \in DOMAIN Tail(s)
    BY <1>2, <2>1, <2>2
  <2> QED
    BY <2>3, InSeq
<1> QED
  BY <1>2, <1>3, <1>4, <1>5

\* Short sequences put together.
LEMMA Joined ==
  ASSUME NEW x, NEW y
  PROVE  <<x>> \o <<y>> = <<x, y>> /\ <<x>> \o <<>> = <<x>> /\ <<>> \o <<y>> = <<y>>
<1>1. <<x>> \in Seq({x, y}) /\ <<y>> \in Seq({x, y}) /\ <<>> \in Seq({x, y})
  OBVIOUS
<1>2. <<x>> \o <<y>> = <<x, y>>
  <2> DEFINE a == <<x>>
             b == <<y>>
             c == <<x, y>>
             S == {x, y}
  <2>1. /\ a \in Seq(S) /\ b \in Seq(S) /\ c \in Seq(S) /\ Len(a) = 1 /\ Len(b) = 1 /\ Len(c) = 2
        /\ a[1] = x /\ b[1] = y /\ c[1] = x /\ c[2] = y
    OBVIOUS
  <2> HIDE DEF a, b, c, S
  <2>2. a \o b \in Seq(S) /\ Len(a \o b) = 2 /\ (a \o b)[1] = x /\ (a \o b)[2] = y
    BY <2>1, ConcatProperties
  <2>3. \A i \in 1..2 : i = 1 \/ i = 2
    OBVIOUS
  <2>4. a \o b = c
    BY <2>1, <2>2, <2>3, SeqEqual
  <2> QED
    BY <2>4 DEF a, b, c
<1>3. <<x>> \o <<>> = <<x>>
  BY <1>1
<1>4. <<>> \o <<y>> = <<y>>
  BY <1>1
<1> QED
  BY <1>2, <1>3, <1>4

\* The domains asked for, from the specifications themselves.
LEMMA WantedIs == ASSUME NEW specs PROVE Wanted(specs) = {s.dom : s \in ToSet(specs)}
BY DEF Wanted, ToSet

\* The files of one domain.
LEMMA Paths ==
  /\ \A d \in Domain : /\ <<"proxy", d>> \in ProxyFile /\ <<"panel", d>> \in ProxyFile /\ <<"acme", d>> \in ConfFile
                       /\ <<"acme", d>> \notin ProxyFile
  /\ ProxyFile \subseteq ConfFile
  /\ \A p \in ProxyFile : p[2] \in Domain /\ (p = <<"proxy", p[2]>> \/ p = <<"panel", p[2]>>)
  /\ \A p \in ConfFile : p \in ProxyFile \/ \E d \in Domain : p = <<"acme", d>>
BY DEF ProxyFile, ConfFile

\* What a form holds.
LEMMA Forms ==
  ASSUME NEW f \in VhostForms, NEW s \in Sides
  PROVE  /\ f[s].on \in BOOLEAN /\ f[s].port \in Nat /\ f[s].dom \in Domain \cup {Unset}
         /\ f[s].cert \in CertPath \cup {Unset}
BY VhostAssumption

\* What a side adds to a block is a sequence of locations.
LEMMA Locations ==
  ASSUME NEW f \in VhostForms, NEW s \in Sides, NEW d
  PROVE  Location(f, s, d) \in Seq(Sides \X Nat)
<1>1. <<s, f[s].port>> \in Sides \X Nat
  BY Forms
<1> QED
  BY <1>1 DEF Location

\* A side's block is a specification of its domain, and the panel's has its entry.
LEMMA BlocksAre ==
  ASSUME NEW f \in VhostForms, NEW s \in Sides, f[s].dom # Unset
  PROVE  /\ BlockOf(f, s) \in VhostSpecs /\ BlockOf(f, s).dom = f[s].dom
         /\ f["web"].on /\ s = "web" => <<"web", f["web"].port>> \in ToSet(BlockOf(f, s).eps)
<1> DEFINE a == Location(f, "web", f[s].dom)
           b == Location(f, "sub", f[s].dom)
<1>1. a \in Seq(Sides \X Nat) /\ b \in Seq(Sides \X Nat)
  BY Locations DEF Sides
<1> HIDE DEF a, b
<1>2. a \o b \in Seq(Sides \X Nat)
  BY <1>1
<1>3. f[s].dom \in Domain /\ f[s].cert \in CertPath \cup {Unset}
  BY Forms
<1>4. BlockOf(f, s) = [dom |-> f[s].dom, cert |-> f[s].cert, eps |-> a \o b]
  BY DEF BlockOf, a, b
<1>5. f["web"].on /\ s = "web" => <<"web", f["web"].port>> \in ToSet(a \o b)
  <2>1. SUFFICES ASSUME f["web"].on, s = "web" PROVE <<"web", f["web"].port>> \in ToSet(a \o b)
    OBVIOUS
  <2>2. a = << <<"web", f["web"].port>> >>
    BY <2>1 DEF a, Location
  <2>3. Len(a) = 1 /\ a[1] = <<"web", f["web"].port>>
    BY <2>2
  <2>4. 1 \in DOMAIN (a \o b) /\ (a \o b)[1] = a[1]
    <3>1. Len(b) \in Nat /\ Len(a \o b) = 1 + Len(b) /\ DOMAIN (a \o b) = 1..Len(a \o b)
      <4>1. Len(b) \in Nat
        BY <1>1, LenProperties
      <4>2. DOMAIN (a \o b) = 1..Len(a \o b)
        BY <1>2, LenProperties
      <4>3. Len(a \o b) = Len(a) + Len(b)
        BY <1>1, ConcatProperties
      <4> QED
        BY <2>3, <4>1, <4>2, <4>3
    <3>2. (a \o b)[1] = a[1]
      BY <1>1, <2>3, ConcatProperties
    <3> QED
      BY <3>1, <3>2
  <2> QED
    BY <2>3, <2>4, InSeq
<1> QED
  BY <1>2, <1>3, <1>4, <1>5 DEF VhostSpecs

\* The specifications of a form: a block for each domain that is on, the panel's
\* entry in the one of its own.
Named(f, s) == f[s].on /\ f[s].dom # Unset
LEMMA SpecsAre ==
  ASSUME NEW f \in VhostForms, NEW specs, specs = BuildVhostSpecs(f)
  PROVE  /\ specs \in Seq(VhostSpecs)
         /\ \A s, t \in ToSet(specs) : s.dom = t.dom => s = t
         /\ \A s \in ToSet(specs) : \E i \in Sides : Named(f, i) /\ s.dom = f[i].dom
         /\ Named(f, "web") =>
              \E s \in ToSet(specs) : s.dom = f["web"].dom /\ <<"web", f["web"].port>> \in ToSet(s.eps)
<1> DEFINE w == BlockOf(f, "web")
           u == BlockOf(f, "sub")
           Merged == Named(f, "web") /\ f["web"].dom = f["sub"].dom
<1>1. Named(f, "web") => w \in VhostSpecs /\ w.dom = f["web"].dom /\ <<"web", f["web"].port>> \in ToSet(w.eps)
  BY BlocksAre DEF Named, Sides
<1>2. Named(f, "sub") => u \in VhostSpecs /\ u.dom = f["sub"].dom
  BY BlocksAre DEF Named, Sides
<1>3. specs = (IF Named(f, "web") THEN <<w>> ELSE <<>>) \o (IF Named(f, "sub") /\ ~ Merged THEN <<u>> ELSE <<>>)
  BY DEF BuildVhostSpecs, Named
<1> HIDE DEF w, u
<1>4. CASE Named(f, "web") /\ Named(f, "sub") /\ ~ Merged
  <2>1. specs = <<w, u>>
    BY <1>3, <1>4, Joined
  <2>2. specs \in Seq(VhostSpecs) /\ ToSet(specs) = {w, u}
    BY <1>1, <1>2, <1>4, <2>1 DEF ToSet
  <2>3. w.dom # u.dom
    BY <1>1, <1>2, <1>4
  <2> QED
    BY <1>1, <1>2, <1>4, <2>2, <2>3 DEF Sides
<1>5. CASE Named(f, "web") /\ ~ (Named(f, "sub") /\ ~ Merged)
  <2>1. specs = <<w>>
    BY <1>3, <1>5, Joined
  <2>2. specs \in Seq(VhostSpecs) /\ ToSet(specs) = {w}
    BY <1>1, <1>5, <2>1 DEF ToSet
  <2> QED
    BY <1>1, <1>5, <2>2 DEF Sides
<1>6. CASE ~ Named(f, "web") /\ Named(f, "sub")
  <2>1. specs = <<u>>
    BY <1>3, <1>6
  <2>2. specs \in Seq(VhostSpecs) /\ ToSet(specs) = {u}
    BY <1>2, <1>6, <2>1 DEF ToSet
  <2> QED
    BY <1>2, <1>6, <2>2 DEF Sides
<1>7. CASE ~ Named(f, "web") /\ ~ Named(f, "sub")
  <2>1. specs = <<>>
    BY <1>3, <1>7
  <2>2. specs \in Seq(VhostSpecs) /\ ToSet(specs) = {}
    BY <2>1 DEF ToSet
  <2> QED
    BY <1>7, <2>2
<1> QED
  BY <1>4, <1>5, <1>6, <1>7

\* What is generated.
LEMMA GeneratedIs ==
  ASSUME VhostTypes, NEW spec \in VhostSpecs, precheckVhost(spec)
  PROVE  /\ buildVhostConf(spec) \in Block /\ buildVhostConf(spec).eps = spec.eps
         /\ buildVhostConf(spec) # NoFile
<1>1. resolveDomainCert(spec) \in CertPath /\ resolveDomainCert(spec) # Unset
  BY DEF precheckVhost, resolveDomainCert, VhostSpecs, CertPath, VhostTypes
<1>2. buildVhostConf(spec) = [eps |-> spec.eps, cert |-> resolveDomainCert(spec)] /\ spec.eps \in Seq(Sides \X Nat)
  BY DEF buildVhostConf, VhostSpecs
<1> QED
  BY <1>1, <1>2 DEF Block, NoFile

\* No file, read as contents, has no locations.
LEMMA NoFileIs == NoFile \in Block /\ NoFile.eps = <<>>
BY DEF NoFile, Block

\* The validation block is a file.
LEMMA DashIs == [eps |-> <<>>, cert |-> "-"] \in Block /\ [eps |-> <<>>, cert |-> "-"] # NoFile
<1>1. "-" # Unset
  BY Zenon DEF Unset
<1> QED
  BY <1>1 DEF NoFile, Block

\* Nothing under way is a phase of its own.
LEMMA IdleIs == Idle.phase = "idle"
BY DEF Idle

-----------------------------------------------------------------------------
(* The invariant holds at first. *)

\* An installation, old or new, starts in the invariant.
LEMMA VhostInitial == VhostInit => VhostInv
<1> SUFFICES ASSUME VhostInit PROVE VhostInv
  OBVIOUS
<1>1. PICK f \in VhostForms :
        /\ excused = (\E s \in Sides : f[s].on /\ f[s].dom = Unset)
        /\ \A s \in Sides : f[s].on => f[s].dom \notin OwnBlock
        /\ saved = f /\ served = f
        /\ certs = {f[s].dom : s \in {s2 \in Sides : f[s2].dom # Unset}}
        /\ \E old \in BOOLEAN :
              conf = [p \in ConfFile |->
                  LET at == {i \in DOMAIN BuildVhostSpecs(f) : BuildVhostSpecs(f)[i].dom = p[2]} IN
                  IF p[1] = (IF old THEN "panel" ELSE "proxy") /\ at # {}
                  THEN [eps |-> BuildVhostSpecs(f)[CHOOSE i \in at : TRUE].eps, cert |-> p[2]]
                  ELSE NoFile]
  BY DEF VhostInit
<1>2. /\ loaded = conf /\ managed = certs /\ manual = [d \in Domain |-> Unset]
      /\ page = Idle /\ sync = Idle /\ issue = Idle /\ removal = NoRemoval
      /\ faults = 0 /\ raced = FALSE
  BY DEF VhostInit
<1>3. PICK specs : specs = BuildVhostSpecs(f)
  OBVIOUS
<1> DEFINE Asked(p) == {i \in DOMAIN specs : specs[i].dom = p[2]}
<1>4. PICK name \in {"panel", "proxy"} :
        conf = [p \in ConfFile |->
                  IF p[1] = name /\ Asked(p) # {}
                  THEN [eps |-> specs[CHOOSE i \in Asked(p) : TRUE].eps, cert |-> p[2]] ELSE NoFile]
  <2>1. PICK old \in BOOLEAN :
          conf = [p \in ConfFile |->
                  LET at == {i \in DOMAIN BuildVhostSpecs(f) : BuildVhostSpecs(f)[i].dom = p[2]} IN
                  IF p[1] = (IF old THEN "panel" ELSE "proxy") /\ at # {}
                  THEN [eps |-> BuildVhostSpecs(f)[CHOOSE i \in at : TRUE].eps, cert |-> p[2]]
                  ELSE NoFile]
    BY <1>1
  <2>2. (IF old THEN "panel" ELSE "proxy") \in {"panel", "proxy"}
    OBVIOUS
  <2> QED
    BY <1>3, <2>1, <2>2
<1>5. /\ specs \in Seq(VhostSpecs)
      /\ \A s, t \in ToSet(specs) : s.dom = t.dom => s = t
      /\ \A s \in ToSet(specs) : \E i \in Sides : Named(f, i) /\ s.dom = f[i].dom
      /\ Named(f, "web") =>
           \E s \in ToSet(specs) : s.dom = f["web"].dom /\ <<"web", f["web"].port>> \in ToSet(s.eps)
  BY <1>3, SpecsAre
<1>6. ASSUME NEW p \in ConfFile, p[1] = name, Asked(p) # {}
      PROVE  \E s \in ToSet(specs) : s.dom = p[2] /\ conf[p] = [eps |-> s.eps, cert |-> p[2]]
  <2> DEFINE i == CHOOSE i \in Asked(p) : TRUE
  <2>1. i \in Asked(p)
    BY <1>6
  <2>2. conf[p] = [eps |-> specs[i].eps, cert |-> p[2]]
    BY <1>4, <1>6
  <2> HIDE DEF i
  <2>3. specs[i] \in ToSet(specs) /\ specs[i].dom = p[2]
    BY <2>1, InSeq
  <2> QED
    BY <2>2, <2>3
<1>7. ASSUME NEW p \in ConfFile, ~ (p[1] = name /\ Asked(p) # {})
      PROVE  conf[p] = NoFile
  BY <1>4, <1>7
<1>8. \A s \in ToSet(specs) : s \in VhostSpecs
  BY <1>5, InSeq
<1>9. conf \in [ConfFile -> Block]
  <2>1. ASSUME NEW p \in ConfFile PROVE conf[p] \in Block
    <3>1. CASE p[1] = name /\ Asked(p) # {}
      <4>1. PICK s \in ToSet(specs) : s.dom = p[2] /\ conf[p] = [eps |-> s.eps, cert |-> p[2]]
        BY <1>6, <3>1
      <4>2. s.eps \in Seq(Sides \X Nat) /\ p[2] \in CertPath
        BY <1>8, <4>1 DEF VhostSpecs, CertPath
      <4> QED
        BY <4>1, <4>2 DEF Block
    <3>2. CASE ~ (p[1] = name /\ Asked(p) # {})
      BY <1>7, <3>2, NoFileIs
    <3> QED
      BY <3>1, <3>2
  <2> QED
    BY <1>4, <2>1
<1>10. VhostTypes
  <2>1. certs \subseteq Domain
    BY <1>1, Forms
  <2>2. excused \in BOOLEAN
    BY <1>1
  <2>3. manual \in [Domain -> CertPath \cup {Unset}] /\ faults \in 0..VhostFaults
    BY <1>2, VhostAssumption
  <2> QED
    BY <1>1, <1>2, <1>9, <2>1, <2>2, <2>3 DEF VhostTypes
<1>11. SiteInv
  <2>1. ASSUME NEW p \in ProxyFile, p[2] \in OwnBlock PROVE conf[p] = NoFile
    <3>1. p \in ConfFile
      BY Paths
    <3>2. Asked(p) = {}
      <4>1. SUFFICES ASSUME NEW i \in DOMAIN specs, specs[i].dom = p[2] PROVE FALSE
        OBVIOUS
      <4>2. PICK s \in Sides : Named(f, s) /\ specs[i].dom = f[s].dom
        BY <1>5, InSeq
      <4> QED
        BY <1>1, <2>1, <4>1, <4>2 DEF Named
    <3> QED
      BY <1>7, <3>1, <3>2
  <2> QED
    BY <1>2, <2>1, IdleIs DEF SiteInv, Syncing
<1>12. EntryInv
  <2>1. SUFFICES ASSUME ~ excused, served["web"].on PROVE Entry
    BY <1>1, <1>2, IdleIs DEF EntryInv, Syncing
  <2>2. Named(f, "web")
    BY <1>1, <2>1 DEF Named, Sides
  <2>3. PICK s \in ToSet(specs) : s.dom = f["web"].dom /\ <<"web", f["web"].port>> \in ToSet(s.eps)
    BY <1>5, <2>2
  <2>4. PICK i \in DOMAIN specs : s = specs[i]
    BY InSeq
  <2>5. f["web"].dom \in Domain
    BY <1>8, <2>3 DEF VhostSpecs
  <2>6. PICK p \in ProxyFile : p[1] = name /\ p[2] = f["web"].dom
    <3>1. <<name, f["web"].dom>> \in ProxyFile
      BY <2>5 DEF ProxyFile
    <3>2. <<name, f["web"].dom>>[1] = name /\ <<name, f["web"].dom>>[2] = f["web"].dom
      OBVIOUS
    <3> QED
      BY <3>1, <3>2
  <2>7. Asked(p) # {} /\ p \in ConfFile
    BY <2>3, <2>4, <2>6, Paths
  <2>8. PICK t \in ToSet(specs) : t.dom = p[2] /\ conf[p] = [eps |-> t.eps, cert |-> p[2]]
    BY <1>6, <2>6, <2>7
  <2>9. t = s
    BY <1>5, <2>3, <2>6, <2>8
  <2>10. conf[p].eps = s.eps
    BY <2>8, <2>9
  <2> QED
    BY <1>1, <1>2, <2>3, <2>6, <2>10 DEF Entry, HasEntry
<1> QED
  BY <1>2, <1>10, <1>11, <1>12, IdleIs DEF VhostInv, PageInv, UndoInv, MadeInv, DeleteInv, Syncing

-----------------------------------------------------------------------------
(* A sync begins. *)

\* What holds once a sync has begun.
Begun(org) ==
  /\ conf' \in [ConfFile -> Block]
  /\ \A p \in ConfFile : conf'[p] \in {conf[p], NoFile} /\ (p \notin ProxyFile => conf'[p] = conf[p])
  /\ sync'.phase = "ensure" /\ sync'.org = org /\ SyncShape(sync') /\ sync'.conf0 = conf
  /\ UndoInv' /\ MadeInv'

\* Leftovers are remembered as they go, and nothing is made yet.
LEMMA SyncBegins ==
  ASSUME VhostTypes, NEW f \in VhostForms, NEW org, BeginSync(f, org), loaded' = loaded
  PROVE  Begun(org) /\ sync'.specs = BuildVhostSpecs(f)
<1>1. PICK specs : specs = BuildVhostSpecs(f)
  OBVIOUS
<1>2. PICK left : left = {<<"panel", d>> : d \in Wanted(specs)}
  OBVIOUS
<1>3. PICK gone : gone = {p \in left : conf[p] # NoFile}
  OBVIOUS
<1>4. PICK applied : applied = [p \in gone |-> conf[p]]
  OBVIOUS
<1>5. /\ conf' = [p \in ConfFile |-> IF p \in left THEN NoFile ELSE conf[p]]
      /\ sync' = [phase |-> "ensure", org |-> org, specs |-> specs, todo |-> specs,
                  applied |-> applied, removed |-> gone # {},
                  conf0 |-> conf, loaded0 |-> loaded, valid0 |-> Valid(conf), clean |-> TRUE]
  BY <1>1, <1>2, <1>3, <1>4 DEF BeginSync
<1>6. /\ sync'.phase = "ensure" /\ sync'.org = org /\ sync'.specs = specs /\ sync'.todo = specs
      /\ sync'.applied = applied /\ sync'.conf0 = conf /\ sync'.loaded0 = loaded /\ SyncShape(sync')
  <2>1. PICK a, b : a = (gone # {}) /\ b = Valid(conf)
    OBVIOUS
  <2>2. sync' = [phase |-> "ensure", org |-> org, specs |-> specs, todo |-> specs,
                  applied |-> applied, removed |-> a,
                  conf0 |-> conf, loaded0 |-> loaded, valid0 |-> b, clean |-> TRUE]
    BY <1>5, <2>1
  <2> QED
    BY <2>2 DEF SyncShape
<1>7. /\ specs \in Seq(VhostSpecs) /\ \A s, t \in ToSet(specs) : s.dom = t.dom => s = t
  BY <1>1, SpecsAre
<1>8. \A s \in ToSet(specs) : s \in VhostSpecs /\ s.dom \in Domain
  <2>1. \A s \in ToSet(specs) : s \in VhostSpecs
    BY <1>7, InSeq
  <2> QED
    BY <2>1 DEF VhostSpecs
<1>9. Wanted(specs) \subseteq Domain
  BY <1>8, WantedIs
<1>10. left \subseteq ProxyFile
  BY <1>2, <1>9, Paths
<1>11. conf \in [ConfFile -> Block]
  BY DEF VhostTypes
<1>12. conf' \in [ConfFile -> Block]
  BY <1>5, <1>11, NoFileIs
<1>13. \A p \in ConfFile : conf'[p] \in {conf[p], NoFile} /\ (p \notin ProxyFile => conf'[p] = conf[p])
  BY <1>5, <1>10
<1>14. UndoInv'
  <2>1. DOMAIN applied \subseteq ProxyFile /\ \A p \in DOMAIN applied : applied[p] = conf[p]
    BY <1>3, <1>4, <1>10
  <2>2. \A p \in ProxyFile : p \notin DOMAIN applied => conf'[p] = conf[p]
    BY <1>3, <1>4, <1>5, Paths
  <2> QED
    BY <1>6, <1>11, <2>1, <2>2 DEF UndoInv, Syncing
<1>15. MadeInv'
  <2>1. \A d \in Wanted(specs) : conf'[<<"panel", d>>] = NoFile
    BY <1>2, <1>5, <1>9, Paths
  <2>2. Wanted(sync'.specs) = Wanted(specs)
    BY <1>6
  <2> QED
    BY <1>6, <1>7, <2>1, <2>2 DEF MadeInv, Syncing
<1> QED
  BY <1>1, <1>6, <1>12, <1>13, <1>14, <1>15 DEF Begun

\* What a generation does: nothing on disk and at most a reload of it, or the block is made.
Generated(spec, r) ==
  LET file == proxyConfPath(spec.dom) IN
  \/ ~ r.ok /\ r.conf = conf /\ r.loaded \in {loaded, conf}
  \/ /\ r.ok /\ precheckVhost(spec)
     /\ r.conf = [conf EXCEPT ![file] = buildVhostConf(spec)]
     /\ \/ r.loaded = r.conf /\ spec.dom \notin OwnBlock
        \/ r.conf = conf /\ r.loaded = loaded /\ loaded[file] = conf[file]

\* EnsureVhost ends in one of those ways, whatever command fails.
LEMMA EnsureIs ==
  ASSUME NEW spec, NEW fault, NEW r, r = EnsureVhost(spec, fault)
  PROVE  Generated(spec, r)
<1> DEFINE file == proxyConfPath(spec.dom)
           new  == [conf EXCEPT ![file] = buildVhostConf(spec)]
           back == IF fault = "reload" THEN loaded ELSE Reloaded(conf)
<1>1. back \in {loaded, conf}
  BY DEF Reloaded
<1>2. r = CASE ~ precheckVhost(spec) \/ fault = "down" -> Failed(conf, loaded)
            [] precheckVhost(spec) /\ fault = "none" /\ new = conf /\ loaded[file] = conf[file]
                  -> Done(conf, loaded)
            [] OTHER ->
                  IF \/ fault # "none" \/ ~ Valid(new) \/ conflictsOnPort(new, spec.dom)
                  THEN Failed(conf, back)
                  ELSE Done(new, new)
  BY DEF EnsureVhost
<1> HIDE DEF back, new, file
<1>3. CASE ~ precheckVhost(spec) \/ fault = "down"
  <2>1. r = Failed(conf, loaded)
    BY <1>2, <1>3
  <2> QED
    BY <2>1 DEF Failed, Generated
<1>4. CASE precheckVhost(spec) /\ fault = "none" /\ new = conf /\ loaded[file] = conf[file]
  <2>1. r = Done(conf, loaded)
    BY <1>2, <1>4
  <2>2. r.ok /\ r.conf = new /\ r.conf = conf /\ r.loaded = loaded
    BY <1>4, <2>1 DEF Done
  <2> QED
    BY <1>4, <2>2 DEF Generated, new, file
<1>5. CASE /\ ~ (~ precheckVhost(spec) \/ fault = "down")
           /\ ~ (precheckVhost(spec) /\ fault = "none" /\ new = conf /\ loaded[file] = conf[file])
  <2>1. r = IF fault # "none" \/ ~ Valid(new) \/ conflictsOnPort(new, spec.dom)
            THEN Failed(conf, back) ELSE Done(new, new)
    BY <1>2, <1>5
  <2>2. CASE fault # "none" \/ ~ Valid(new) \/ conflictsOnPort(new, spec.dom)
    <3>1. r = Failed(conf, back)
      BY <2>1, <2>2
    <3> QED
      BY <1>1, <3>1 DEF Failed, Generated
  <2>3. CASE ~ (fault # "none" \/ ~ Valid(new) \/ conflictsOnPort(new, spec.dom))
    <3>1. r = Done(new, new)
      BY <2>1, <2>3
    <3>2. spec.dom \notin OwnBlock
      BY <2>3 DEF conflictsOnPort
    <3>3. r.ok /\ r.conf = new /\ r.loaded = new
      BY <3>1 DEF Done
    <3> QED
      BY <1>5, <3>2, <3>3 DEF Generated, new, file
  <2> QED
    BY <2>2, <2>3
<1> QED
  BY <1>3, <1>4, <1>5

-----------------------------------------------------------------------------
(* A block is generated. *)

\* A command that fails is counted, and the count stays in its bound.
LEMMA FaultCount ==
  ASSUME VhostTypes, NEW x, Fault(x)
  PROVE  faults' \in 0..VhostFaults /\ (faults' = faults => x = "none")
BY VhostAssumption DEF VhostTypes, Fault

\* The members of a sequence of specifications and the domains they ask for.
LEMMA SpecsTyped ==
  ASSUME NEW specs \in Seq(VhostSpecs)
  PROVE  /\ \A s \in ToSet(specs) : s \in VhostSpecs /\ s.dom \in Domain
         /\ Wanted(specs) \subseteq Domain
<1>1. \A s \in ToSet(specs) : s \in VhostSpecs
  BY InSeq
<1>2. \A s \in ToSet(specs) : s \in VhostSpecs /\ s.dom \in Domain
  BY <1>1 DEF VhostSpecs
<1> QED
  BY <1>2, WantedIs

\* One block more, or the way back.
LEMMA KeepsEnsure ==
  ASSUME VhostInv, NEW fault, EnsureStep(fault)
  PROVE  VhostInv'
<1>1. /\ VhostTypes /\ PageInv /\ SiteInv /\ UndoInv /\ MadeInv /\ DeleteInv /\ EntryInv
      /\ sync.phase = "ensure" /\ sync.todo # <<>> /\ Fault(fault)
      /\ UNCHANGED <<saved, served, certs, managed, manual, page, issue, removal, excused, raced>>
  BY DEF VhostInv, EnsureStep
<1>2. PICK spec : spec = Head(sync.todo)
  OBVIOUS
<1>3. PICK file : file = proxyConfPath(spec.dom)
  OBVIOUS
<1>4. PICK r : r = EnsureVhost(spec, fault)
  OBVIOUS
<1>5. PICK applied : applied = IF r.ok /\ file \notin DOMAIN sync.applied
                      THEN [p \in DOMAIN sync.applied \cup {file} |->
                              IF p = file THEN conf[p] ELSE sync.applied[p]]
                      ELSE sync.applied
  OBVIOUS
<1>6. /\ conf' = r.conf /\ loaded' = r.loaded
      /\ sync' = [sync EXCEPT !.phase = IF r.ok THEN "ensure" ELSE "undo", !.todo = Tail(@),
                              !.clean = @ /\ fault = "none", !.applied = applied]
  BY <1>2, <1>3, <1>4, <1>5 DEF EnsureStep
<1>7. SyncShape(sync) /\ Syncing /\ sync.org \in {"form", "start"}
  BY <1>1, IdleIs DEF VhostTypes, Syncing
<1>8. /\ sync'.phase = (IF r.ok THEN "ensure" ELSE "undo") /\ sync'.todo = Tail(sync.todo)
      /\ sync'.applied = applied /\ sync'.org = sync.org /\ sync'.specs = sync.specs
      /\ sync'.conf0 = sync.conf0 /\ sync'.loaded0 = sync.loaded0 /\ SyncShape(sync')
  <2>1. PICK a, b : a = (IF r.ok THEN "ensure" ELSE "undo") /\ b = (sync.clean /\ fault = "none")
    OBVIOUS
  <2>2. PICK t : t = Tail(sync.todo)
    OBVIOUS
  <2>3. sync' = [sync EXCEPT !.phase = a, !.todo = t, !.clean = b, !.applied = applied]
    BY <1>6, <1>7, <2>1, <2>2 DEF SyncShape
  <2>4. sync' = [phase |-> a, org |-> sync.org, specs |-> sync.specs, todo |-> t, applied |-> applied,
                 removed |-> sync.removed, conf0 |-> sync.conf0, loaded0 |-> sync.loaded0,
                 valid0 |-> sync.valid0, clean |-> b]
    BY <1>7, <2>3 DEF SyncShape
  <2> QED
    BY <2>1, <2>2, <2>4 DEF SyncShape
<1>9. /\ sync.specs \in Seq(VhostSpecs) /\ sync.todo \in Seq(VhostSpecs)
      /\ ToSet(sync.todo) \subseteq ToSet(sync.specs)
      /\ \A s, t \in ToSet(sync.specs) : s.dom = t.dom => s = t
      /\ \A d \in Wanted(sync.specs) : conf[<<"panel", d>>] = NoFile
      /\ \A s \in ToSet(sync.specs) : s \in ToSet(sync.todo) \/ Made(s)
  BY <1>1, <1>7 DEF MadeInv
<1>10. /\ spec \in ToSet(sync.todo) /\ spec \in VhostSpecs /\ Tail(sync.todo) \in Seq(VhostSpecs)
       /\ ToSet(Tail(sync.todo)) \subseteq ToSet(sync.todo)
       /\ \A x \in ToSet(sync.todo) : x = spec \/ x \in ToSet(Tail(sync.todo))
  BY <1>1, <1>2, <1>9, HeadAndTail
<1>11. spec.dom \in Domain /\ file = <<"proxy", spec.dom>> /\ file \in ProxyFile /\ file \in ConfFile
       /\ file[2] = spec.dom
  <2>1. spec.dom \in Domain
    BY <1>10 DEF VhostSpecs
  <2>2. file = <<"proxy", spec.dom>>
    BY <1>3 DEF proxyConfPath
  <2> QED
    BY <2>1, <2>2, Paths
<1>12. Generated(spec, r)
  BY <1>4, EnsureIs
<1>13. conf \in [ConfFile -> Block] /\ loaded \in [ConfFile -> Block]
  BY <1>1 DEF VhostTypes
\* the three outcomes
<1>14. CASE ~ r.ok /\ conf' = conf /\ loaded' \in {loaded, conf}
  <2>1. sync'.phase = "undo" /\ applied = sync.applied
    BY <1>5, <1>8, <1>14
  <2>2. VhostTypes'
    <3>1. faults' \in 0..VhostFaults /\ loaded' \in [ConfFile -> Block] /\ conf' \in [ConfFile -> Block]
      BY <1>1, <1>13, <1>14, FaultCount
    <3>2. sync'.phase \in {"ensure", "undo"} /\ SyncShape(sync') /\ sync'.org \in {"form", "start"}
      BY <1>7, <1>8, <2>1
    <3> QED
      BY <1>1, <3>1, <3>2 DEF VhostTypes
  <2>3. PageInv'
    BY <1>1, <1>7, <1>8 DEF PageInv, Syncing
  <2>4. SiteInv'
    <3>1. \A p \in ProxyFile : p[2] \in OwnBlock =>
            conf'[p] = NoFile /\ loaded'[p] = NoFile /\ sync'.conf0[p] = NoFile
      BY <1>1, <1>7, <1>8, <1>14 DEF SiteInv
    <3>2. \A d \in Domain : loaded'[<<"acme", d>>] # NoFile => conf'[<<"acme", d>>] # NoFile
      BY <1>1, <1>14 DEF SiteInv
    <3>3. issue.phase = "acme" /\ issue.how = "nginx" => loaded'[<<"acme", issue.dom>>] # NoFile
      <4>1. issue.phase = "acme" => issue.dom \in Domain
        BY <1>1, IdleIs DEF VhostTypes
      <4> QED
        BY <1>1, <1>14, <4>1 DEF SiteInv
    <3> QED
      BY <1>1, <3>1, <3>2, <3>3 DEF SiteInv
  <2>5. UndoInv'
    BY <1>1, <1>7, <1>8, <1>14, <2>1 DEF UndoInv
  <2>6. MadeInv'
    BY <1>8, <1>9, <1>10, <2>1 DEF MadeInv
  <2> QED
    BY <1>1, <1>7, <1>8, <2>2, <2>3, <2>4, <2>5, <2>6 DEF VhostInv, DeleteInv, EntryInv, PageInv
<1>15. CASE /\ r.ok /\ precheckVhost(spec)
            /\ conf' = [conf EXCEPT ![file] = buildVhostConf(spec)]
            /\ \/ loaded' = conf' /\ spec.dom \notin OwnBlock
               \/ conf' = conf /\ loaded' = loaded /\ loaded[file] = conf[file]
  <2>1. PICK g \in Block : g = buildVhostConf(spec) /\ g.eps = spec.eps /\ g # NoFile
    BY <1>1, <1>10, <1>15, GeneratedIs
  <2>2. /\ conf' \in [ConfFile -> Block] /\ conf'[file] = g /\ loaded'[file] = g
        /\ \A p \in ConfFile : p # file => conf'[p] = conf[p] /\ loaded'[p] \in {loaded[p], conf[p]}
        /\ loaded' \in [ConfFile -> Block]
        /\ \A p \in ConfFile : p # file => loaded'[p] = conf'[p] \/ (loaded'[p] = loaded[p])
    BY <1>11, <1>13, <1>15, <2>1
  <2>3. spec.dom \notin OwnBlock
    <3>1. CASE conf' = conf
      BY <1>1, <1>11, <2>1, <2>2, <3>1 DEF SiteInv
    <3> QED
      BY <1>15, <3>1
  <2>4. sync'.phase = "ensure"
    BY <1>8, <1>15
  <2>5. VhostTypes'
    <3>1. faults' \in 0..VhostFaults
      BY <1>1, FaultCount
    <3>2. sync'.phase \in {"ensure", "undo"} /\ SyncShape(sync') /\ sync'.org \in {"form", "start"}
      BY <1>7, <1>8, <2>4
    <3> QED
      BY <1>1, <2>2, <3>1, <3>2 DEF VhostTypes
  <2>6. PageInv'
    BY <1>1, <1>7, <1>8 DEF PageInv, Syncing
  <2>7. SiteInv'
    <3>1. ASSUME NEW p \in ProxyFile, p[2] \in OwnBlock
          PROVE  conf'[p] = NoFile /\ loaded'[p] = NoFile /\ sync'.conf0[p] = NoFile
      <4>1. p # file /\ p \in ConfFile
        BY <1>11, <2>3, <3>1, Paths
      <4> QED
        BY <1>1, <1>7, <1>8, <2>2, <3>1, <4>1 DEF SiteInv
    <3>2. \A d \in Domain : <<"acme", d>> \in ConfFile /\ <<"acme", d>> # file
      BY <1>11, Paths
    <3>3. \A d \in Domain : loaded'[<<"acme", d>>] # NoFile => conf'[<<"acme", d>>] # NoFile
      BY <1>1, <2>2, <3>2 DEF SiteInv
    <3>4. issue.phase = "acme" /\ issue.how = "nginx" => loaded'[<<"acme", issue.dom>>] # NoFile
      <4>1. issue.phase = "acme" => issue.dom \in Domain
        BY <1>1, IdleIs DEF VhostTypes
      <4> QED
        BY <1>1, <2>2, <3>2, <4>1 DEF SiteInv
    <3> QED
      BY <1>1, <3>1, <3>3, <3>4 DEF SiteInv
  <2>8. UndoInv'
    <3>1. /\ sync.conf0 \in [ConfFile -> Block] /\ DOMAIN sync.applied \subseteq ProxyFile
          /\ \A p \in DOMAIN sync.applied : sync.applied[p] = sync.conf0[p]
          /\ \A p \in ProxyFile : p \notin DOMAIN sync.applied => conf[p] = sync.conf0[p]
      BY <1>1, <1>7 DEF UndoInv
    <3>2. /\ DOMAIN applied = DOMAIN sync.applied \cup {file}
          /\ \A p \in DOMAIN applied : applied[p] = sync.conf0[p]
      <4>1. CASE file \in DOMAIN sync.applied
        BY <1>5, <3>1, <4>1
      <4>2. CASE file \notin DOMAIN sync.applied
        <5>1. applied = [p \in DOMAIN sync.applied \cup {file} |->
                              IF p = file THEN conf[p] ELSE sync.applied[p]]
          BY <1>5, <1>15, <4>2
        <5> QED
          BY <1>11, <3>1, <4>2, <5>1
      <4> QED
        BY <4>1, <4>2
    <3>3. \A p \in ProxyFile : p \notin DOMAIN applied => conf'[p] = sync.conf0[p]
      BY <2>2, <3>1, <3>2, Paths
    <3> QED
      BY <1>8, <1>11, <3>1, <3>2, <3>3 DEF UndoInv
  <2>9. MadeInv'
    <3>1. \A d \in Wanted(sync.specs) : conf'[<<"panel", d>>] = NoFile
      <4>1. Wanted(sync.specs) \subseteq Domain
        BY <1>9, SpecsTyped
      <4>2. \A d \in Domain : <<"panel", d>> \in ConfFile /\ <<"panel", d>> # file
        BY <1>11, Paths
      <4> QED
        BY <1>9, <2>2, <4>1, <4>2
    <3>2. ASSUME NEW s \in ToSet(sync.specs), s \notin ToSet(Tail(sync.todo))
          PROVE  Made(s)'
      <4>1. CASE s = spec
        BY <1>3, <2>1, <2>2, <4>1 DEF Made
      <4>2. CASE s # spec
        <5>1. Made(s) /\ s.dom # spec.dom /\ s.dom \in Domain
          BY <1>9, <1>10, <3>2, <4>2, SpecsTyped
        <5>2. PICK q : q = proxyConfPath(s.dom)
          OBVIOUS
        <5>3. q = <<"proxy", s.dom>> /\ q # file /\ q \in ConfFile
          BY <1>11, <5>1, <5>2, Paths DEF proxyConfPath
        <5>4. conf[q] # NoFile /\ conf[q].eps = s.eps /\ loaded[q] = conf[q]
          BY <5>1, <5>2 DEF Made
        <5>5. conf'[q] = conf[q] /\ loaded'[q] = conf[q]
          BY <2>2, <5>3, <5>4
        <5> QED
          BY <5>2, <5>4, <5>5 DEF Made
      <4> QED
        BY <4>1, <4>2
    <3>3. Wanted(sync'.specs) = Wanted(sync.specs)
      BY <1>8
    <3> QED
      BY <1>8, <1>9, <1>10, <3>1, <3>2, <3>3 DEF MadeInv
  <2> QED
    BY <1>1, <1>7, <1>8, <2>5, <2>6, <2>7, <2>8, <2>9 DEF VhostInv, DeleteInv, EntryInv, PageInv
<1> QED
  BY <1>3, <1>6, <1>12, <1>14, <1>15 DEF Generated

-----------------------------------------------------------------------------
(* A sync ends. *)

\* Who waits for a sync under way.
LEMMA Phases ==
  ASSUME VhostTypes, PageInv, Syncing
  PROVE  /\ sync.org \in {"form", "start"} /\ SyncShape(sync) /\ sync.phase \in {"ensure", "undo"}
         /\ sync.org = "form" => page.phase = "sync" /\ page \in [phase : {"save", "restart", "sync"}, form : VhostForms]
         /\ sync.org = "start" => page.phase = "reconcile"
<1>1. sync.org \in {"form", "start"} /\ SyncShape(sync) /\ sync.phase \in {"ensure", "undo"}
  BY IdleIs DEF VhostTypes, Syncing
<1>2. page.phase = IF sync.org = "form" THEN "sync" ELSE "reconcile"
  BY DEF PageInv
<1>3. page.phase = "sync" => page \in [phase : {"save", "restart", "sync"}, form : VhostForms]
  BY DEF VhostTypes, Idle
<1> QED
  BY <1>1, <1>2, <1>3

\* A sync that fails puts back what it found, and nginx runs with that or with what it ran.
LEMMA Restores ==
  ASSUME VhostInv, sync.phase = "undo"
  PROVE  /\ RolledBack \in [ConfFile -> Block]
         /\ \A p \in ProxyFile : RolledBack[p] = sync.conf0[p]
         /\ \A p \in ConfFile : p \notin ProxyFile => RolledBack[p] = conf[p]
<1>1. VhostTypes /\ UndoInv /\ Syncing
  BY DEF VhostInv, Syncing
<1>2. /\ sync.conf0 \in [ConfFile -> Block]
      /\ DOMAIN sync.applied \subseteq ProxyFile
      /\ \A p \in DOMAIN sync.applied : sync.applied[p] = sync.conf0[p]
      /\ \A p \in ProxyFile : p \notin DOMAIN sync.applied => conf[p] = sync.conf0[p]
  BY <1>1 DEF UndoInv
<1>3. conf \in [ConfFile -> Block] /\ ProxyFile \subseteq ConfFile
  BY <1>1, Paths DEF VhostTypes
<1>4. RolledBack = [p \in ConfFile |-> IF p \in DOMAIN sync.applied THEN sync.applied[p] ELSE conf[p]]
  BY DEF RolledBack
<1>5. RolledBack \in [ConfFile -> Block]
  BY <1>2, <1>3, <1>4
<1>6. \A p \in ProxyFile : RolledBack[p] = sync.conf0[p]
  BY <1>2, <1>3, <1>4
<1> QED
  BY <1>2, <1>4, <1>5, <1>6

\* A sync that failed.
LEMMA KeepsUndo ==
  ASSUME VhostInv, NEW fault, Undo(fault)
  PROVE  VhostInv'
<1>1. /\ VhostTypes /\ PageInv /\ SiteInv /\ UndoInv /\ MadeInv /\ DeleteInv /\ EntryInv
      /\ sync.phase = "undo" /\ Fault(fault) /\ conf' = RolledBack /\ Ends(FALSE, fault)
      /\ UNCHANGED <<saved, served, certs, managed, manual, issue, removal, raced>>
  BY DEF VhostInv, Undo
<1>2. loaded' \in {loaded, conf'}
  BY DEF Undo, Reloaded
<1>3. Syncing
  BY <1>1 DEF Syncing
<1>4. /\ sync.org \in {"form", "start"}
      /\ sync.org = "form" => page.phase = "sync"
  BY <1>1, <1>3, Phases
<1>5. sync' = Idle /\ page' = Idle
  BY <1>1, <1>4 DEF Ends
<1>6. excused' \in BOOLEAN /\ (~ excused' => sync.org = "form" /\ ~ excused)
  BY <1>1, <1>4, Zenon DEF Ends
<1>7. /\ conf' \in [ConfFile -> Block]
      /\ \A p \in ProxyFile : conf'[p] = sync.conf0[p]
      /\ \A p \in ConfFile : p \notin ProxyFile => conf'[p] = conf[p]
  BY <1>1, Restores
<1>8. VhostTypes'
  <2>1. faults' \in 0..VhostFaults /\ loaded' \in [ConfFile -> Block]
    BY <1>1, <1>2, <1>7, FaultCount DEF VhostTypes
  <2> QED
    BY <1>1, <1>5, <1>6, <1>7, <2>1 DEF VhostTypes
<1>9. SiteInv'
  <2>1. \A p \in ProxyFile : p[2] \in OwnBlock => conf'[p] = NoFile /\ loaded'[p] = NoFile
    BY <1>1, <1>2, <1>3, <1>7 DEF SiteInv
  <2>2. \A d \in Domain : conf'[<<"acme", d>>] = conf[<<"acme", d>>]
    BY <1>7, Paths
  <2>3. \A d \in Domain : loaded'[<<"acme", d>>] # NoFile => conf'[<<"acme", d>>] # NoFile
    BY <1>1, <1>2, <2>2 DEF SiteInv
  <2>4. issue.phase = "acme" /\ issue.how = "nginx" => loaded'[<<"acme", issue.dom>>] # NoFile
    <3>1. issue.phase = "acme" => issue.dom \in Domain
      BY <1>1, IdleIs DEF VhostTypes
    <3> QED
      BY <1>1, <1>2, <2>2, <3>1 DEF SiteInv
  <2> QED
    BY <1>1, <1>5, <2>1, <2>3, <2>4, IdleIs DEF SiteInv, Syncing
<1>10. EntryInv'
  <2>1. ~ excused' => served' = saved' /\ ~ served'["web"].on
    BY <1>1, <1>4, <1>6 DEF EntryInv
  <2> QED
    BY <1>5, <2>1, IdleIs DEF EntryInv, Syncing
<1> QED
  BY <1>1, <1>5, <1>8, <1>9, <1>10, IdleIs DEF VhostInv, PageInv, UndoInv, MadeInv, DeleteInv, Syncing

\* Once every block is made, the sweep leaves these and no other.
Swept(c) ==
  LET specs == ToSet(sync.specs) IN
  /\ c \in [ConfFile -> Block]
  /\ \A p \in ConfFile : p \notin ProxyFile => c[p] = conf[p]
  /\ \A p \in ProxyFile : c[p] # NoFile => \E s \in specs : p = <<"proxy", s.dom>> /\ c[p].eps = s.eps
  /\ \A s \in specs : LET p == <<"proxy", s.dom>> IN
       /\ p \in ProxyFile /\ c[p] # NoFile /\ c[p].eps = s.eps /\ loaded[p] = c[p]
  /\ \A p \in ProxyFile : c[p] \in {conf[p], NoFile}

\* The sweep does just that, and nginx keeps what it had or takes what is on disk.
LEMMA Sweeps ==
  ASSUME VhostInv, NEW fault, SweepStep(fault)
  PROVE  Swept(conf') /\ loaded' \in {loaded, conf'}
<1>1. /\ VhostTypes /\ UndoInv /\ MadeInv /\ Syncing /\ sync.phase = "ensure" /\ sync.todo = <<>>
  BY DEF VhostInv, SweepStep, Syncing
<1>2. loaded' \in {loaded, conf'}
  BY DEF SweepStep, Reloaded
<1>3. PICK stale : stale = {p \in ConfFile : /\ conf[p] # NoFile /\ vhostDomainOf(p) # Unset
                                      /\ vhostDomainOf(p) \notin Wanted(sync.specs)}
  OBVIOUS
<1>4. conf' = [p \in ConfFile |-> IF p \in stale THEN NoFile ELSE conf[p]]
  BY <1>3 DEF SweepStep
<1>5. conf \in [ConfFile -> Block] /\ ProxyFile \subseteq ConfFile
  BY <1>1, Paths DEF VhostTypes
<1>6. \A p \in ProxyFile : vhostDomainOf(p) = p[2] /\ p[2] # Unset
  BY VhostAssumption DEF vhostDomainOf, ProxyFile, CertPath
<1>7. \A p \in ConfFile : p \notin ProxyFile => vhostDomainOf(p) = Unset
  BY DEF vhostDomainOf, ProxyFile, ConfFile
<1>8. /\ sync.specs \in Seq(VhostSpecs)
      /\ \A d \in Wanted(sync.specs) : conf[<<"panel", d>>] = NoFile
      /\ \A s \in ToSet(sync.specs) : s \in ToSet(sync.todo) \/ Made(s)
  BY <1>1 DEF MadeInv
<1>9. ToSet(sync.todo) = {}
  BY <1>1 DEF ToSet
<1>10. conf' \in [ConfFile -> Block]
  BY <1>4, <1>5, NoFileIs
<1>11. ASSUME NEW p \in ProxyFile, conf'[p] # NoFile
       PROVE  \E s \in ToSet(sync.specs) : p = <<"proxy", s.dom>> /\ conf'[p].eps = s.eps
  <2>1. conf'[p] = conf[p] /\ p[2] \in Wanted(sync.specs)
    BY <1>3, <1>4, <1>5, <1>6, <1>11
  <2>2. p = <<"proxy", p[2]>>
    BY <1>8, <1>11, <2>1, Paths
  <2>3. PICK s \in ToSet(sync.specs) : s.dom = p[2]
    BY <2>1, WantedIs
  <2> QED
    BY <1>8, <1>9, <2>1, <2>2, <2>3 DEF Made, proxyConfPath
<1>12. ASSUME NEW s \in ToSet(sync.specs)
       PROVE  LET p == <<"proxy", s.dom>> IN
                p \in ProxyFile /\ conf'[p] # NoFile /\ conf'[p].eps = s.eps /\ loaded[p] = conf'[p]
  <2>1. PICK p : p = <<"proxy", s.dom>>
    OBVIOUS
  <2>2. s.dom \in Domain /\ p \in ProxyFile /\ p[2] = s.dom
    BY <1>8, <2>1, SpecsTyped, Paths
  <2>3. s.dom \in Wanted(sync.specs)
    BY WantedIs
  <2>4. conf'[p] = conf[p]
    BY <1>3, <1>4, <1>5, <1>6, <2>2, <2>3
  <2> QED
    BY <1>8, <1>9, <2>1, <2>2, <2>4 DEF Made, proxyConfPath
<1>13. \A p \in ConfFile : p \notin ProxyFile => conf'[p] = conf[p]
  BY <1>3, <1>4, <1>7
<1>14. \A p \in ProxyFile : conf'[p] \in {conf[p], NoFile}
  BY <1>4, <1>5
<1> QED
  BY <1>2, <1>10, <1>11, <1>12, <1>13, <1>14 DEF Swept

\* A sync that succeeded.
LEMMA KeepsSweep ==
  ASSUME VhostInv, NEW fault, SweepStep(fault)
  PROVE  VhostInv'
<1>1. /\ VhostTypes /\ PageInv /\ SiteInv /\ UndoInv /\ MadeInv /\ DeleteInv /\ EntryInv
      /\ sync.phase = "ensure" /\ Fault(fault) /\ Ends(TRUE, fault)
      /\ UNCHANGED <<saved, served, certs, managed, manual, issue, removal, raced>>
  BY DEF VhostInv, SweepStep
<1>2. Swept(conf') /\ loaded' \in {loaded, conf'} /\ Syncing
  BY <1>1, Sweeps DEF Syncing
<1>3. /\ sync.org \in {"form", "start"}
      /\ sync.org = "form" => page.phase = "sync" /\ page \in [phase : {"save", "restart", "sync"}, form : VhostForms]
      /\ sync.org = "start" => page.phase = "reconcile"
  BY <1>1, <1>2, Phases
<1>4. /\ sync' = Idle
      /\ sync.org = "form" => page' = [page EXCEPT !.phase = "save"]
      /\ sync.org = "start" => page' = Idle
  BY <1>1, <1>3 DEF Ends
<1>5. sync.org = "form" => page'.phase = "save" /\ page' \in [phase : {"save", "restart", "sync"}, form : VhostForms]
  BY <1>3, <1>4
<1>6. excused' \in BOOLEAN /\ (~ excused' => sync.org = "start" \/ ~ excused)
  BY <1>1, <1>3, Zenon DEF Ends
<1>7. VhostTypes'
  <2>1. conf' \in [ConfFile -> Block]
    BY <1>2 DEF Swept
  <2>2. faults' \in 0..VhostFaults /\ loaded' \in [ConfFile -> Block]
    BY <1>1, <1>2, <2>1, FaultCount DEF VhostTypes
  <2>3. page' \in {Idle, [phase |-> "reconcile"]} \cup [phase : {"save", "restart", "sync"}, form : VhostForms]
    BY <1>3, <1>4, <1>5
  <2> QED
    BY <1>1, <1>4, <1>6, <2>1, <2>2, <2>3 DEF VhostTypes
<1>8. SiteInv'
  <2>1. \A p \in ProxyFile : p[2] \in OwnBlock => conf'[p] = NoFile /\ loaded'[p] = NoFile
    BY <1>1, <1>2 DEF SiteInv, Swept
  <2>2. \A d \in Domain : conf'[<<"acme", d>>] = conf[<<"acme", d>>]
    BY <1>2, Paths DEF Swept
  <2>3. \A d \in Domain : loaded'[<<"acme", d>>] # NoFile => conf'[<<"acme", d>>] # NoFile
    BY <1>1, <1>2, <2>2 DEF SiteInv
  <2>4. issue.phase = "acme" /\ issue.how = "nginx" => loaded'[<<"acme", issue.dom>>] # NoFile
    <3>1. issue.phase = "acme" => issue.dom \in Domain
      BY <1>1, IdleIs DEF VhostTypes
    <3> QED
      BY <1>1, <1>2, <2>2, <3>1 DEF SiteInv
  <2> QED
    BY <1>1, <1>4, <2>1, <2>3, <2>4, IdleIs DEF SiteInv, Syncing
<1>9. EntryInv'
  <2>1. CASE sync.org = "form"
    <3>1. ~ excused' => served' = saved' /\ ~ served'["web"].on
      BY <1>1, <1>3, <1>6, <2>1 DEF EntryInv
    <3> QED
      BY <1>4, <1>5, <2>1, <3>1, IdleIs DEF EntryInv, Syncing
  <2>2. CASE sync.org = "start"
    <3>1. ~ excused' => served' = saved'
      BY <1>1, <1>3, <2>2 DEF EntryInv
    <3>2. served["web"].on => Entry'
      <4>1. SUFFICES ASSUME served["web"].on PROVE Entry'
        OBVIOUS
      <4>2. PICK s \in ToSet(sync.specs) : /\ s.dom = served["web"].dom
                                           /\ <<"web", served["web"].port>> \in ToSet(s.eps)
        BY <1>1, <1>2, <2>2, <4>1 DEF EntryInv
      <4>3. PICK p \in ProxyFile : p = <<"proxy", s.dom>> /\ conf'[p].eps = s.eps /\ loaded[p] = conf'[p]
        BY <1>2 DEF Swept
      <4>4. loaded'[p].eps = s.eps /\ p[2] = s.dom
        BY <1>2, <4>3
      <4> QED
        BY <1>1, <4>2, <4>3, <4>4 DEF Entry, HasEntry
    <3> QED
      BY <1>1, <1>4, <2>2, <3>1, <3>2, IdleIs DEF EntryInv, Syncing
  <2> QED
    BY <1>3, <2>1, <2>2
<1> QED
  BY <1>1, <1>4, <1>7, <1>8, <1>9, IdleIs DEF VhostInv, PageInv, UndoInv, MadeInv, DeleteInv, Syncing

-----------------------------------------------------------------------------
(* The settings page and the restart. *)

\* What the disk, nginx and the sync have carries over while they stay.
LEMMA DiskKept ==
  ASSUME VhostInv, UNCHANGED <<conf, loaded, sync>>
  PROVE  UndoInv' /\ MadeInv'
<1>1. UndoInv'
  BY DEF VhostInv, UndoInv, Syncing
<1>2. (\A s : Made(s) => Made(s)') /\ Wanted(sync'.specs) = Wanted(sync.specs)
  BY DEF Made
<1>3. MadeInv'
  BY <1>2 DEF VhostInv, MadeInv, Syncing
<1> QED
  BY <1>1, <1>3

\* The page asks for a check, for a sync, or for neither.
LEMMA KeepsSave ==
  ASSUME VhostInv, NEW f \in VhostForms, SavePage(f)
  PROVE  VhostInv'
<1>1. /\ VhostTypes /\ PageInv /\ SiteInv /\ UndoInv /\ MadeInv /\ DeleteInv /\ EntryInv
      /\ page.phase = "idle" /\ sync.phase = "idle"
      /\ UNCHANGED <<loaded, saved, served, certs, managed, manual, issue, removal, faults, excused, raced>>
  BY DEF VhostInv, SavePage
<1>2. CASE page' = [phase |-> "save", form |-> f] /\ UNCHANGED <<conf, sync>>
  <2>1. VhostTypes'
    BY <1>1, <1>2 DEF VhostTypes
  <2>2. SiteInv' /\ PageInv' /\ DeleteInv'
    BY <1>1, <1>2 DEF SiteInv, PageInv, DeleteInv, Syncing
  <2>3. EntryInv'
    BY <1>1, <1>2 DEF EntryInv, Entry, HasEntry, Syncing
  <2> QED
    BY <1>1, <1>2, <2>1, <2>2, <2>3, DiskKept DEF VhostInv
<1>3. CASE ~ saved["web"].on /\ page' = [phase |-> "sync", form |-> f] /\ BeginSync(f, "form")
  <2>1. Begun("form")
    BY <1>1, <1>3, SyncBegins
  <2>2. VhostTypes'
    <3>1. /\ conf' \in [ConfFile -> Block]
          /\ sync'.phase \in {"ensure", "undo"} /\ SyncShape(sync') /\ sync'.org \in {"form", "start"}
      BY <2>1 DEF Begun
    <3> QED
      BY <1>1, <1>3, <3>1 DEF VhostTypes
  <2>3. PageInv'
    BY <1>3, <2>1 DEF PageInv, Begun
  <2>4. SiteInv'
    <3>1. \A p \in ProxyFile : p[2] \in OwnBlock =>
            conf'[p] = NoFile /\ loaded'[p] = NoFile /\ sync'.conf0[p] = NoFile
      BY <1>1, <2>1, Paths DEF SiteInv, Begun
    <3>2. \A d \in Domain : conf'[<<"acme", d>>] = conf[<<"acme", d>>]
      BY <2>1, Paths DEF Begun
    <3> QED
      BY <1>1, <3>1, <3>2 DEF SiteInv
  <2>5. EntryInv'
    BY <1>1, <1>3, <2>1 DEF EntryInv, Begun
  <2> QED
    BY <1>1, <2>1, <2>2, <2>3, <2>4, <2>5 DEF VhostInv, DeleteInv, Begun
<1> QED
  BY <1>2, <1>3 DEF SavePage

\* The settings are stored.
LEMMA KeepsStore ==
  ASSUME VhostInv, StoreSettings
  PROVE  VhostInv'
<1>1. /\ VhostTypes /\ PageInv /\ SiteInv /\ DeleteInv /\ EntryInv
      /\ page.phase = "save" /\ saved' = page.form /\ page' = [page EXCEPT !.phase = "restart"]
      /\ raced' = (raced \/ removal # NoRemoval)
      /\ UNCHANGED <<conf, loaded, served, certs, managed, manual, sync, issue, removal, faults, excused>>
  BY DEF VhostInv, StoreSettings
<1>2. ~ Syncing /\ ~ Syncing'
  <2>1. ~ Syncing
    BY <1>1 DEF PageInv
  <2> QED
    BY <1>1, <2>1 DEF Syncing
<1>3. page \in [phase : {"save", "restart", "sync"}, form : VhostForms]
  BY <1>1 DEF VhostTypes, Idle
<1>4. page' \in [phase : {"save", "restart", "sync"}, form : VhostForms] /\ page'.phase = "restart"
      /\ saved' \in VhostForms
  BY <1>1, <1>3
<1>5. raced' \in BOOLEAN
  BY <1>1, Zenon DEF VhostTypes
<1>6. VhostTypes'
  BY <1>1, <1>4, <1>5 DEF VhostTypes
<1>7. SiteInv'
  BY <1>1 DEF SiteInv, Syncing
<1>8. DeleteInv'
  BY <1>1 DEF DeleteInv
<1>9. EntryInv' /\ PageInv'
  BY <1>2, <1>4 DEF EntryInv, PageInv
<1> QED
  BY <1>1, <1>6, <1>7, <1>8, <1>9, DiskKept DEF VhostInv

\* The page is gone.
LEMMA KeepsLost ==
  ASSUME VhostInv, PageLost
  PROVE  VhostInv'
<1>1. /\ VhostTypes /\ PageInv /\ SiteInv /\ DeleteInv /\ EntryInv
      /\ page.phase \in {"save", "restart"} /\ page' = Idle /\ excused' = (excused \/ page.phase = "restart")
      /\ UNCHANGED <<conf, loaded, saved, served, certs, managed, manual, sync, issue, removal, faults, raced>>
  BY DEF VhostInv, PageLost
<1>2. ~ Syncing /\ ~ Syncing'
  <2>1. ~ Syncing
    BY <1>1 DEF PageInv
  <2> QED
    BY <1>1, <2>1 DEF Syncing
<1>3. excused' \in BOOLEAN
  BY <1>1, Zenon DEF VhostTypes
<1>4. VhostTypes'
  BY <1>1, <1>3 DEF VhostTypes
<1>5. SiteInv' /\ DeleteInv' /\ PageInv'
  BY <1>1, <1>2 DEF SiteInv, DeleteInv, PageInv, Syncing
<1>6. EntryInv'
  <2>1. ~ excused' => ~ excused /\ page.phase = "save"
    BY <1>1
  <2> QED
    BY <1>1, <1>2, <2>1, IdleIs DEF EntryInv, Entry, HasEntry
<1> QED
  BY <1>1, <1>4, <1>5, <1>6, DiskKept DEF VhostInv

\* The panel restarts, in the middle of anything.
LEMMA KeepsRestart ==
  ASSUME VhostInv, NEW unread, RestartApp(unread)
  PROVE  VhostInv'
<1>1. /\ VhostTypes /\ SiteInv
      /\ served' = saved /\ manual' = ArchiveLegacy /\ issue' = Idle /\ removal' = NoRemoval
      /\ UNCHANGED <<loaded, saved, certs, managed, raced>>
  BY DEF VhostInv, RestartApp
<1>2. faults' \in 0..VhostFaults
  <2>1. faults \in 0..VhostFaults /\ VhostFaults \in Nat
    BY <1>1, VhostAssumption DEF VhostTypes
  <2>2. PICK hit \in BOOLEAN : hit = (unread \/ sync.phase # "idle")
    OBVIOUS
  <2>3. (hit => faults < VhostFaults) /\ faults' = IF hit THEN faults + 1 ELSE faults
    BY <2>2, Zenon DEF RestartApp
  <2> QED
    BY <2>1, <2>3
<1>3. manual' \in [Domain -> CertPath \cup {Unset}]
  <2>1. manual \in [Domain -> CertPath \cup {Unset}] /\ saved \in VhostForms
    BY <1>1 DEF VhostTypes
  <2>2. saved["web"].cert \in CertPath \cup {Unset} /\ saved["sub"].cert \in CertPath \cup {Unset}
    BY <2>1, Forms DEF Sides
  <2>3. ASSUME NEW d \in Domain, NEW ready
        PROVE  (IF manual[d] = Unset /\ d \notin managed /\ ready # {}
                THEN saved[IF "web" \in ready THEN "web" ELSE "sub"].cert ELSE manual[d]) \in CertPath \cup {Unset}
    BY <2>1, <2>2
  <2> QED
    BY <1>1, <2>3 DEF ArchiveLegacy
<1>4. PageInv' /\ UndoInv' /\ MadeInv' /\ VhostTypes' /\ SiteInv' /\ EntryInv'
  <2>1. CASE unread \/ SpecsRefused(ProxyVhostSpecs)
    <3>1. UNCHANGED conf /\ sync' = Idle /\ page' = Idle /\ excused' = TRUE
      BY <2>1 DEF RestartApp
    <3>2. VhostTypes'
      BY <1>1, <1>2, <1>3, <3>1 DEF VhostTypes
    <3> QED
      BY <1>1, <3>1, <3>2, IdleIs DEF PageInv, UndoInv, MadeInv, SiteInv, EntryInv, Syncing
  <2>2. CASE ~ (unread \/ SpecsRefused(ProxyVhostSpecs))
    <3>1. BeginSync(saved, "start") /\ page' = [phase |-> "reconcile"] /\ excused' = FALSE
          /\ ~ SpecsRefused(saved)
      BY <2>2 DEF RestartApp, ProxyVhostSpecs
    <3>2. saved \in VhostForms
      BY <1>1 DEF VhostTypes
    <3>3. Begun("start") /\ sync'.specs = BuildVhostSpecs(saved)
      BY <1>1, <3>1, <3>2, SyncBegins
    <3>4. VhostTypes'
      <4>1. /\ conf' \in [ConfFile -> Block]
            /\ sync'.phase \in {"ensure", "undo"} /\ SyncShape(sync') /\ sync'.org \in {"form", "start"}
        BY <3>3 DEF Begun
      <4> QED
        BY <1>1, <1>2, <1>3, <3>1, <4>1 DEF VhostTypes
    <3>5. PageInv'
      BY <3>1, <3>3 DEF PageInv, Begun
    <3>6. SiteInv'
      <4>1. \A p \in ProxyFile : p[2] \in OwnBlock =>
              conf'[p] = NoFile /\ loaded'[p] = NoFile /\ sync'.conf0[p] = NoFile
        BY <1>1, <3>3, Paths DEF SiteInv, Begun
      <4>2. \A d \in Domain : conf'[<<"acme", d>>] = conf[<<"acme", d>>]
        BY <3>3, Paths DEF Begun
      <4> QED
        BY <1>1, <4>1, <4>2, IdleIs DEF SiteInv
    <3>7. EntryInv'
      <4>1. saved["web"].on => Named(saved, "web")
        BY <3>1 DEF SpecsRefused, Named, Sides
      <4>2. saved["web"].on =>
              \E s \in ToSet(sync'.specs) : s.dom = saved["web"].dom /\ <<"web", saved["web"].port>> \in ToSet(s.eps)
        BY <3>2, <3>3, <4>1, SpecsAre
      <4> QED
        BY <1>1, <3>1, <4>2 DEF EntryInv
    <3> QED
      BY <3>3, <3>4, <3>5, <3>6, <3>7 DEF Begun
  <2> QED
    BY <2>1, <2>2
<1> QED
  BY <1>1, <1>4 DEF VhostInv, DeleteInv

-----------------------------------------------------------------------------
(* Certificates. *)

\* A validation block is written, found or refused.
LEMMA KeepsBeginIssue ==
  ASSUME VhostInv, NEW d \in Domain, NEW how, NEW fault, BeginIssue(d, how, fault)
  PROVE  VhostInv'
<1>1. /\ VhostTypes /\ PageInv /\ SiteInv /\ UndoInv /\ MadeInv /\ DeleteInv /\ EntryInv /\ Fault(fault)
      /\ UNCHANGED <<saved, served, certs, managed, manual, page, sync, removal, excused, raced>>
  BY DEF VhostInv, BeginIssue
<1>2. PICK file \in ConfFile : file = <<"acme", d>> /\ file \notin ProxyFile
  BY Paths
<1>3. PICK g \in Block : g = [eps |-> <<>>, cert |-> "-"] /\ g # NoFile
  BY DashIs
<1>4. PICK new : new = [conf EXCEPT ![file] = g]
  OBVIOUS
<1>5. PICK ready \in BOOLEAN : ready = (how = "standalone" \/ BlockReady(d))
  OBVIOUS
<1>6. PICK made \in BOOLEAN : made = (fault = "none" /\ Valid(new))
  OBVIOUS
<1>7. /\ conf' = IF ready \/ ~ made THEN conf ELSE new
      /\ loaded' = IF ready \/ ~ made THEN loaded ELSE new
      /\ issue' = IF ready \/ made THEN [phase |-> "acme", dom |-> d, how |-> how] ELSE Idle
  BY <1>2, <1>3, <1>4, <1>5, <1>6 DEF BeginIssue
<1>8. conf \in [ConfFile -> Block] /\ loaded \in [ConfFile -> Block]
  BY <1>1 DEF VhostTypes
<1>9. new \in [ConfFile -> Block] /\ new[file] = g /\ \A p \in ConfFile : p # file => new[p] = conf[p]
  BY <1>4, <1>8
\* the proxy blocks on disk stay, and nginx has what it had or what is on disk
<1>10. /\ conf' \in [ConfFile -> Block] /\ loaded' \in [ConfFile -> Block]
       /\ \A p \in ProxyFile : conf'[p] = conf[p] /\ loaded'[p] \in {loaded[p], conf[p]}
  <2>1. \A p \in ProxyFile : p # file /\ p \in ConfFile
    BY <1>2, Paths
  <2> QED
    BY <1>7, <1>8, <1>9, <2>1
<1>11. VhostTypes'
  <2>1. faults' \in 0..VhostFaults
    BY <1>1, FaultCount
  <2>2. issue' = Idle \/ (issue'.phase = "acme" /\ issue'.dom \in Domain)
    BY <1>7
  <2> QED
    BY <1>1, <1>10, <2>1, <2>2 DEF VhostTypes
<1>12. SiteInv'
  <2>1. \A p \in ProxyFile : p[2] \in OwnBlock =>
          conf'[p] = NoFile /\ loaded'[p] = NoFile /\ (Syncing' => sync'.conf0[p] = NoFile)
    BY <1>1, <1>10 DEF SiteInv, Syncing
  <2>2. \A e \in Domain : loaded'[<<"acme", e>>] # NoFile => conf'[<<"acme", e>>] # NoFile
    BY <1>1, <1>7 DEF SiteInv
  <2>3. issue'.phase = "acme" /\ issue'.how = "nginx" => loaded'[<<"acme", issue'.dom>>] # NoFile
    <3>1. SUFFICES ASSUME issue'.phase = "acme", issue'.how = "nginx" PROVE loaded'[<<"acme", issue'.dom>>] # NoFile
      OBVIOUS
    <3>2. (ready \/ made) /\ issue'.dom = d /\ how = "nginx"
      BY <1>7, <3>1, IdleIs
    <3>3. ready => loaded[<<"acme", d>>] # NoFile
      BY <1>5, <3>2 DEF BlockReady, nginxFilesServing
    <3> QED
      BY <1>2, <1>3, <1>7, <1>9, <3>2, <3>3
  <2> QED
    BY <2>1, <2>2, <2>3 DEF SiteInv
<1>13. UndoInv'
  BY <1>1, <1>10 DEF UndoInv, Syncing
<1>14. MadeInv'
  <2>1. SUFFICES ASSUME Syncing PROVE MadeInv'
    BY <1>1 DEF MadeInv, Syncing
  <2>2. /\ sync.specs \in Seq(VhostSpecs) /\ sync.todo \in Seq(VhostSpecs)
        /\ ToSet(sync.todo) \subseteq ToSet(sync.specs)
        /\ \A s, t \in ToSet(sync.specs) : s.dom = t.dom => s = t
        /\ sync.phase = "ensure" =>
             /\ \A e \in Wanted(sync.specs) : conf[<<"panel", e>>] = NoFile
             /\ \A s \in ToSet(sync.specs) : s \in ToSet(sync.todo) \/ Made(s)
    BY <1>1, <2>1 DEF MadeInv
  <2>3. \A e \in Wanted(sync.specs) : conf'[<<"panel", e>>] = conf[<<"panel", e>>]
    BY <1>10, <2>2, SpecsTyped, Paths
  <2>4. ASSUME NEW s \in ToSet(sync.specs), Made(s) PROVE Made(s)'
    <3>1. PICK p \in ProxyFile : p = proxyConfPath(s.dom)
      BY <2>2, SpecsTyped, Paths DEF proxyConfPath
    <3> QED
      BY <1>10, <2>4, <3>1 DEF Made
  <2>5. Wanted(sync'.specs) = Wanted(sync.specs)
    BY <1>1
  <2> QED
    BY <1>1, <2>2, <2>3, <2>4, <2>5 DEF MadeInv
<1>15. EntryInv'
  <2>1. Entry => Entry'
    <3>1. SUFFICES ASSUME NEW p \in ProxyFile, p[2] = served["web"].dom, HasEntry(conf, p), HasEntry(loaded, p)
                   PROVE  Entry'
      BY DEF Entry
    <3> QED
      BY <1>1, <1>10, <3>1 DEF Entry, HasEntry
  <2> QED
    BY <1>1, <2>1 DEF EntryInv, Syncing
<1> QED
  BY <1>1, <1>11, <1>12, <1>13, <1>14, <1>15 DEF VhostInv, PageInv, DeleteInv, Syncing

\* Steps that touch neither the disk, nor nginx, nor the settings.
LEMMA RestKept ==
  ASSUME VhostInv, UNCHANGED <<conf, loaded, saved, served, page, sync, excused>>
  PROVE  PageInv' /\ UndoInv' /\ MadeInv' /\ EntryInv'
         /\ (UNCHANGED issue => SiteInv')
         /\ (issue' = Idle => SiteInv')
<1>1. PageInv /\ SiteInv /\ EntryInv
  BY DEF VhostInv
<1>2. PageInv' /\ EntryInv'
  BY <1>1 DEF PageInv, EntryInv, Entry, HasEntry, Syncing
<1>3. (UNCHANGED issue => SiteInv') /\ (issue' = Idle => SiteInv')
  BY <1>1, IdleIs DEF SiteInv, Syncing
<1> QED
  BY <1>2, <1>3, DiskKept

\* acme.sh answers: certificates are only added.
LEMMA KeepsEndIssue ==
  ASSUME VhostInv, NEW r, EndIssue(r)
  PROVE  VhostInv' /\ certs \subseteq certs'
<1>1. /\ VhostTypes /\ DeleteInv /\ issue.phase = "acme" /\ issue' = Idle
      /\ managed' = (IF r = "refused" THEN managed ELSE managed \cup {issue.dom})
      /\ certs' = (IF r = "installed" THEN certs \cup {issue.dom} ELSE certs)
      /\ UNCHANGED <<conf, loaded, saved, served, manual, page, sync, removal, faults, excused, raced>>
  BY DEF VhostInv, EndIssue
<1>2. issue.dom \in Domain
  BY <1>1, IdleIs DEF VhostTypes
<1>3. VhostTypes'
  BY <1>1, <1>2 DEF VhostTypes
<1> QED
  BY <1>1, <1>3, RestKept DEF VhostInv, DeleteInv

\* The in-use test.
LEMMA KeepsBeginDelete ==
  ASSUME VhostInv, NEW d \in Domain, BeginDelete(d)
  PROVE  VhostInv'
<1>1. /\ VhostTypes /\ ~ InUse(d) /\ removal' = [dom |-> d, managed |-> d \in managed]
      /\ UNCHANGED <<conf, loaded, saved, served, certs, managed, manual, page, sync, issue,
                     faults, excused, raced>>
  BY DEF VhostInv, BeginDelete
<1>2. PICK b \in BOOLEAN : b = (d \in managed)
  <2>1. CASE d \in managed
    BY <2>1, Zenon
  <2>2. CASE d \notin managed
    <3>1. (d \in managed) <=> FALSE
      BY <2>2
    <3>2. (d \in managed) = FALSE
      BY <3>1
    <3> QED
      BY <3>2
  <2> QED
    BY <2>1, <2>2
<1>3. removal' \in [dom : Domain, managed : BOOLEAN] /\ removal'.dom = d
  BY <1>1, <1>2
<1>4. VhostTypes'
  BY <1>1, <1>3 DEF VhostTypes
<1>5. DeleteInv'
  BY <1>1, <1>3 DEF DeleteInv, InUse
<1> QED
  BY <1>1, <1>4, <1>5, RestKept DEF VhostInv

\* What a deletion takes away is the domain it asked about.
LEMMA KeepsEndDelete ==
  ASSUME VhostInv, EndDelete
  PROVE  VhostInv' /\ certs \ certs' \subseteq {removal.dom} /\ removal # NoRemoval
<1>1. /\ VhostTypes /\ removal # NoRemoval /\ removal' = NoRemoval
      /\ managed' = (IF removal.managed THEN managed \ {removal.dom} ELSE managed)
      /\ certs' = (IF removal.managed THEN certs \ {removal.dom} ELSE certs)
      /\ manual' = [manual EXCEPT ![removal.dom] = Unset]
      /\ UNCHANGED <<conf, loaded, saved, served, page, sync, issue, faults, excused, raced>>
  BY DEF VhostInv, EndDelete
<1>2. VhostTypes'
  BY <1>1 DEF VhostTypes
<1> QED
  BY <1>1, <1>2, RestKept DEF VhostInv, DeleteInv

\* A certificate of the operator's own.
LEMMA KeepsManual ==
  ASSUME VhostInv, NEW d \in Domain, NEW p \in CertPath, SaveManualCert(d, p)
  PROVE  VhostInv'
<1>1. /\ VhostTypes /\ DeleteInv /\ manual' = [manual EXCEPT ![d] = p]
      /\ UNCHANGED <<conf, loaded, saved, served, certs, managed, page, sync, issue, removal,
                     faults, excused, raced>>
  BY DEF VhostInv, SaveManualCert
<1>2. VhostTypes'
  BY <1>1 DEF VhostTypes
<1> QED
  BY <1>1, <1>2, RestKept DEF VhostInv, DeleteInv

-----------------------------------------------------------------------------
(* Every step, and what follows. *)

\* The invariant is inductive.
LEMMA VhostStep == VhostInv /\ [VhostNext]_vhostVars => VhostInv'
<1> SUFFICES ASSUME VhostInv, [VhostNext]_vhostVars PROVE VhostInv'
  OBVIOUS
<1>1. CASE UNCHANGED vhostVars
  <2>1. UNCHANGED <<conf, loaded, saved, served, certs, managed, manual, page, sync, issue, removal,
                    faults, excused, raced>>
    BY <1>1 DEF vhostVars
  <2> QED
    BY <2>1, RestKept DEF VhostInv, VhostTypes, DeleteInv
<1>2. ASSUME NEW f \in VhostForms, SavePage(f) PROVE VhostInv'
  BY <1>2, KeepsSave
<1>3. CASE StoreSettings
  BY <1>3, KeepsStore
<1>4. CASE PageLost
  BY <1>4, KeepsLost
<1>5. ASSUME NEW unread, RestartApp(unread) PROVE VhostInv'
  BY <1>5, KeepsRestart
<1>6. ASSUME NEW x, EnsureStep(x) PROVE VhostInv'
  BY <1>6, KeepsEnsure
<1>7. ASSUME NEW x, Undo(x) PROVE VhostInv'
  BY <1>7, KeepsUndo
<1>8. ASSUME NEW x, SweepStep(x) PROVE VhostInv'
  BY <1>8, KeepsSweep
<1>9. ASSUME NEW d \in Domain, NEW how, NEW x, BeginIssue(d, how, x) PROVE VhostInv'
  BY <1>9, KeepsBeginIssue
<1>10. ASSUME NEW r, EndIssue(r) PROVE VhostInv'
  BY <1>10, KeepsEndIssue
<1>11. ASSUME NEW d \in Domain, BeginDelete(d) PROVE VhostInv'
  BY <1>11, KeepsBeginDelete
<1>12. CASE EndDelete
  BY <1>12, KeepsEndDelete
<1>13. ASSUME NEW d \in Domain, NEW p \in CertPath, SaveManualCert(d, p) PROVE VhostInv'
  BY <1>13, KeepsManual
<1> QED
  BY <1>1, <1>2, <1>3, <1>4, <1>5, <1>6, <1>7, <1>8, <1>9, <1>10, <1>11, <1>12, <1>13 DEF VhostNext

\* It implies what holds in every state.
LEMMA VhostImplies == VhostInv => VhostTypeOK /\ EntryAnswers /\ UserSiteKept /\ ValidationHasBlock
<1> SUFFICES ASSUME VhostInv PROVE VhostTypeOK /\ EntryAnswers /\ UserSiteKept /\ ValidationHasBlock
  OBVIOUS
<1>1. VhostTypes /\ SiteInv /\ EntryInv
  BY DEF VhostInv
<1>2. VhostTypeOK
  <2>1. page.phase \in {"idle", "sync", "save", "restart", "reconcile"}
    BY <1>1 DEF VhostTypes, Idle
  <2>2. sync.phase \in {"idle", "ensure", "undo"} /\ issue.phase \in {"idle", "acme"}
    BY <1>1, IdleIs DEF VhostTypes
  <2>3. removal.dom \in Domain \cup {Unset}
    BY <1>1 DEF VhostTypes, NoRemoval
  <2> QED
    BY <1>1, <2>1, <2>2, <2>3 DEF VhostTypeOK, VhostTypes, Contents, Block
<1>3. EntryAnswers
  BY <1>1 DEF EntryAnswers, EntryInv, Entry, HasEntry
<1>4. UserSiteKept
  BY <1>1 DEF UserSiteKept, SiteInv
<1>5. ValidationHasBlock
  <2>1. issue.phase = "acme" => issue.dom \in Domain
    BY <1>1, IdleIs DEF VhostTypes
  <2> QED
    BY <1>1, <2>1 DEF ValidationHasBlock, SiteInv
<1> QED
  BY <1>2, <1>3, <1>4, <1>5

\* The step that FailedSyncRestores allows.
RestoresStep ==
  (\E x \in {"none", "reload"} : Undo(x)) =>
     /\ \A p \in ProxyFile : conf'[p] = sync.conf0[p]
     /\ sync.clean /\ faults' = faults /\ sync.valid0 /\ Valid(sync.conf0)
           => \A p \in ProxyFile : loaded'[p] \in {sync.loaded0[p], conf'[p]}

\* A rollback restores.
LEMMA UndoneStep == VhostInv => RestoresStep
<1> SUFFICES ASSUME VhostInv, NEW x \in {"none", "reload"}, Undo(x)
             PROVE  /\ \A p \in ProxyFile : conf'[p] = sync.conf0[p]
                    /\ faults' = faults /\ Valid(sync.conf0)
                          => \A p \in ProxyFile : loaded'[p] \in {sync.loaded0[p], conf'[p]}
  BY DEF RestoresStep
<1>1. VhostTypes /\ UndoInv /\ sync.phase = "undo" /\ Fault(x) /\ conf' = RolledBack /\ Syncing
  BY DEF VhostInv, Undo, Syncing
<1>2. \A p \in ProxyFile : conf'[p] = sync.conf0[p]
  BY <1>1, Restores
<1>3. ASSUME faults' = faults, Valid(sync.conf0), NEW p \in ProxyFile
      PROVE  loaded'[p] \in {sync.loaded0[p], conf'[p]}
  <2>1. x = "none"
    BY <1>1, <1>3, FaultCount
  <2>2. CASE DOMAIN sync.applied = {}
    <3>1. loaded' = loaded
      BY <2>2 DEF Undo
    <3> QED
      BY <1>1, <1>2, <2>2, <3>1 DEF UndoInv
  <2>3. CASE DOMAIN sync.applied # {}
    <3>1. loaded' = Reloaded(conf')
      BY <2>1, <2>3 DEF Undo
    <3>2. Valid(conf')
      <4>1. PICK c : c = conf'
        OBVIOUS
      <4>2. \A q \in ProxyFile : c[q] = sync.conf0[q]
        BY <1>2, <4>1
      <4>3. Valid(c)
        BY <1>3, <4>2 DEF Valid
      <4> QED
        BY <4>1, <4>3
    <3> QED
      BY <3>1, <3>2 DEF Reloaded
  <2> QED
    BY <2>2, <2>3
<1> QED
  BY <1>2, <1>3

\* The step that SyncedExactly allows.
ExactStep ==
  (\E x \in {"none", "reload"} : SweepStep(x)) =>
     {<<p[2], conf'[p].eps>> : p \in {q \in ProxyFile : conf'[q] # NoFile}}
        = {<<sync.specs[i].dom, sync.specs[i].eps>> : i \in DOMAIN sync.specs}

\* A sweep leaves the blocks asked for.
LEMMA SweptStep == VhostInv => ExactStep
<1> SUFFICES ASSUME VhostInv, NEW x, SweepStep(x)
             PROVE  {<<p[2], conf'[p].eps>> : p \in {q \in ProxyFile : conf'[q] # NoFile}}
                      = {<<sync.specs[i].dom, sync.specs[i].eps>> : i \in DOMAIN sync.specs}
  BY DEF ExactStep
<1>1. Swept(conf')
  BY Sweeps
<1>2. ASSUME NEW p \in ProxyFile, conf'[p] # NoFile
      PROVE  \E i \in DOMAIN sync.specs : <<p[2], conf'[p].eps>> = <<sync.specs[i].dom, sync.specs[i].eps>>
  <2>1. PICK s \in ToSet(sync.specs) : p = <<"proxy", s.dom>> /\ conf'[p].eps = s.eps
    BY <1>1, <1>2 DEF Swept
  <2>2. PICK i \in DOMAIN sync.specs : s = sync.specs[i]
    BY InSeq
  <2> QED
    BY <2>1, <2>2
<1>3. ASSUME NEW i \in DOMAIN sync.specs
      PROVE  \E p \in ProxyFile : conf'[p] # NoFile
               /\ <<p[2], conf'[p].eps>> = <<sync.specs[i].dom, sync.specs[i].eps>>
  <2>1. PICK s \in ToSet(sync.specs) : s = sync.specs[i]
    BY InSeq
  <2>2. PICK p \in ProxyFile : p = <<"proxy", s.dom>> /\ conf'[p] # NoFile /\ conf'[p].eps = s.eps
    BY <1>1 DEF Swept
  <2> QED
    BY <2>1, <2>2
<1> QED
  BY <1>2, <1>3

\* The step that SettingsKeepTheirFiles allows.
KeepsFilesStep ==
  ~ raced => \A s \in Sides : {saved[s].cert, saved[s].dom} \cap (certs \ certs') = {}

\* Only a deletion takes certificates away, and never one the settings name.
LEMMA FilesKeptStep == VhostInv /\ [VhostNext]_vhostVars => KeepsFilesStep
<1> SUFFICES ASSUME VhostInv, [VhostNext]_vhostVars PROVE KeepsFilesStep
  OBVIOUS
<1>1. CASE EndDelete
  BY <1>1, KeepsEndDelete DEF KeepsFilesStep, VhostInv, DeleteInv
<1>2. CASE certs \subseteq certs'
  BY <1>2 DEF KeepsFilesStep
<1>3. CASE certs' = certs
  BY <1>3 DEF KeepsFilesStep
<1>4. ASSUME NEW r, EndIssue(r) PROVE certs \subseteq certs'
  BY <1>4, KeepsEndIssue
<1>5. \/ EndDelete \/ (\E r : EndIssue(r)) \/ certs' = certs
  BY DEF VhostNext, vhostVars, SavePage, StoreSettings, PageLost, RestartApp, EnsureStep, Undo, SweepStep,
         BeginIssue, BeginDelete, SaveManualCert
<1> QED
  BY <1>1, <1>2, <1>3, <1>4, <1>5

\* The reverse proxy is safe for any domains, forms, saves, failing commands and
\* certificate requests, and for a restart in the middle of any of it (acme.go
\* SyncVhosts, EnsureVhost, IssueWeb; app.go; Settings.vue): the panel's entry answers
\* whenever the page is at rest, the administrator's site and a validation under way keep
\* their blocks, a failed sync is undone to what it found, one that succeeds leaves the
\* blocks asked for and no others, and no certificate in use is deleted.
THEOREM ReverseProxyIsSafe == VhostSpec => VhostSafety
<1>1. VhostSpec => []VhostInv
  BY VhostInitial, VhostStep, PTL DEF VhostSpec
<1>2. VhostInv => VhostTypeOK /\ EntryAnswers /\ UserSiteKept /\ ValidationHasBlock
  BY VhostImplies
<1>3. VhostInv => [RestoresStep]_vhostVars /\ [ExactStep]_vhostVars
  BY UndoneStep, SweptStep
<1>4. VhostInv /\ [VhostNext]_vhostVars => [KeepsFilesStep]_vhostVars
  BY FilesKeptStep
<1>5. VhostSpec => [](VhostTypeOK /\ EntryAnswers /\ UserSiteKept /\ ValidationHasBlock)
  BY <1>1, <1>2, PTL
<1>6. VhostSpec => [][RestoresStep]_vhostVars /\ [][ExactStep]_vhostVars
  BY <1>1, <1>3, PTL
<1>7. VhostSpec => [][KeepsFilesStep]_vhostVars
  BY <1>1, <1>4, PTL DEF VhostSpec
<1> QED
  BY <1>5, <1>6, <1>7, PTL DEF VhostSafety, FailedSyncRestores, SyncedExactly, SettingsKeepTheirFiles,
                              RestoresStep, ExactStep, KeepsFilesStep
==============================================================================

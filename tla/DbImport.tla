------------------------------- MODULE DbImport -------------------------------
(***************************************************************************)
(* The database file: start-up (app.Init, database/db.go), the export      *)
(* GetDb and the import ImportDB (database/backup.go) that replaces the    *)
(* file under the running panel.  The paths are the database, the upload's *)
(* .temp, the .backup the import keeps its way back at, and the dated      *)
(* archives of earlier ones.  Any file operation, migration or opening     *)
(* may fail, and the process may be killed between any two steps.  One     *)
(* import is under way at a time.                                          *)
(***************************************************************************)
EXTENDS Naturals, Sequences, SequencesExt

CONSTANTS
    MaxCommitted,   \* bound: saves
    MaxImports,     \* bound: imports
    MaxExports,     \* bound: exports
    ImportFaults,   \* bound: operations that fail
    ImportKills     \* bound: times the process is killed

ASSUME ImportAssumption ==
    {MaxCommitted, MaxImports, MaxExports, ImportFaults, ImportKills} \subseteq Nat

VARIABLES
    path,       \* contents of the database, .temp and .backup paths
    archives,   \* contents of the dated copies
    pool,       \* content the package's handle serves, Shut when its pool is closed, Dead when no process runs
    imp,        \* the import under way
    exp,        \* the export under way: the tables scanned, and what it read
    offered,    \* the files an operator may upload
    commits, imports, exports, ioFaults, downs,
    owner,      \* ghost: the lineage of the operator's accepted data
    again,      \* ghost: an import began with no database open
    legit       \* ghost: the lineage the process was started on or last accepted

impVars == <<path, archives, pool, imp, exp, offered, commits, imports, exports, ioFaults,
             downs, owner, again, legit>>

(***************************************************************************)
(* A content is a lineage and the save number each table was last written  *)
(* by.  Fresh is what InitDB makes of a missing file: the seeded admin.    *)
(***************************************************************************)
DbTables == <<"settings", "tls", "inbounds", "outbounds", "services", "endpoints", "users",
              "tokens", "clients", "nodes", "certs", "stats", "targetStats", "changes">>
SavedTables == {"inbounds", "tokens", "loginAttempts"}     \* the tables saves touch here

None == [who |-> "none"]
Shut == [who |-> "shut"]
Dead == [who |-> "dead"]
Content(who, tabs) == [who |-> who, tabs |-> tabs]
Empty == [t \in SavedTables |-> 0]
Fresh == Content("fresh", Empty)
Foreign == Content("foreign", Empty)    \* somebody else's valid database
Rotten == Content("rotten", Empty)      \* a SQLite file no migration gets through
Whos == {"own", "fresh", "foreign", "rotten", "export"}

ImportTypeOK ==
    /\ \A f \in {"db", "temp", "backup"} :
          path[f] = None \/ (path[f].who \in Whos /\ DOMAIN path[f].tabs = SavedTables)
    /\ pool \in {Shut, Dead} \/ pool.who \in Whos
    /\ again \in BOOLEAN /\ {owner, legit} \subseteq Whos
    /\ ioFaults \in 0 .. ImportFaults /\ downs \in 0 .. ImportKills

NoImport == [step |-> "idle", original |-> TRUE]
NoExport == [at |-> 0]

ImportInit ==
    /\ path = [f \in {"db", "temp", "backup"} |-> IF f = "db" THEN Content("own", Empty) ELSE None]
    /\ archives = <<>> /\ pool = path["db"]
    /\ imp = NoImport /\ exp = NoExport
    /\ offered = {Foreign, Rotten}
    /\ commits = 0 /\ imports = 0 /\ exports = 0 /\ ioFaults = 0 /\ downs = 0
    /\ owner = "own" /\ again = FALSE /\ legit = "own"

Up == pool \notin {Shut, Dead}

-----------------------------------------------------------------------------
(* Saves, while the pool is open, go to the file it was opened on. *)
CommitSave(t) ==
    /\ Up /\ commits < MaxCommitted /\ commits' = commits + 1
    /\ pool' = [pool EXCEPT !.tabs[t] = commits']
    /\ path' = IF path["db"].who = pool.who THEN [path EXCEPT !["db"] = pool'] ELSE path
    /\ UNCHANGED <<archives, imp, exp, offered, imports, exports, ioFaults, downs, owner,
                   again, legit>>

-----------------------------------------------------------------------------
(* GetDb: one query after another, each on whatever the handle serves then. *)

\* The tables of the export, in the order they are read: all but the login attempts.
BackupTables == DbTables

BeginExport ==
    /\ Up /\ exp = NoExport /\ exports < MaxExports /\ exports' = exports + 1
    /\ exp' = [at |-> 1, from |-> pool.who, begun |-> pool.tabs, got |-> Empty]
    /\ UNCHANGED <<path, archives, pool, imp, offered, commits, imports, ioFaults, downs, owner,
                   again, legit>>

\* The scans up to the next table that a save can have touched.
ScanTable ==
    /\ exp.at \in 1 .. Len(BackupTables)
    /\ LET t == BackupTables[exp.at]
       IN  IF ~ Up
           THEN exp' = NoExport /\ UNCHANGED offered
           ELSE LET got == IF t \in SavedTables THEN [exp.got EXCEPT ![t] = pool.tabs[t]]
                                                ELSE exp.got
                    same == pool.who = exp.from
                IN  IF exp.at < Len(BackupTables)
                    THEN /\ exp' = IF same THEN [exp EXCEPT !.at = @ + 1, !.got = got] ELSE NoExport
                         /\ UNCHANGED offered
                    ELSE /\ exp' = NoExport
                         /\ offered' = IF same /\ exp.from = "own"
                                       THEN offered \cup {[who |-> "export", tabs |-> got,
                                                           begun |-> exp.begun]}
                                       ELSE offered
    /\ UNCHANGED <<path, archives, pool, imp, commits, imports, exports, ioFaults, downs, owner,
                   again, legit>>

-----------------------------------------------------------------------------
(* ImportDB. *)
At(s) == imp.step = s
Goes(s) == imp' = [imp EXCEPT !.step = s]
ImportFault == ioFaults < ImportFaults /\ ioFaults' = ioFaults + 1

\* The upload is checked, .temp is made afresh and the pool is closed.
BeginImport(file) ==
    /\ pool # Dead /\ At("idle") /\ imports < MaxImports /\ imports' = imports + 1
    /\ imp' = [step |-> "copy", original |-> TRUE, file |-> file]
    /\ path' = [path EXCEPT !["temp"] = Rotten] /\ pool' = Shut
    /\ again' = (again \/ ~ Up)
    /\ UNCHANGED <<archives, exp, offered, commits, exports, ioFaults, downs, owner, legit>>

\* The upload is copied to .temp and opened once.
CopyUpload ==
    /\ At("copy")
    /\ \/ /\ path' = [path EXCEPT !["temp"] = Content(imp.file.who, imp.file.tabs)]
          /\ Goes("archive") /\ UNCHANGED ioFaults
       \/ ImportFault /\ Goes("deferred") /\ UNCHANGED path
    /\ UNCHANGED <<archives, pool, exp, offered, commits, imports, exports, downs, owner,
                   again, legit>>

\* A .backup an earlier import left is kept under a dated name.
ArchiveLeft == Append(archives, path["backup"])

ArchiveBackup ==
    /\ At("archive")
    /\ \/ /\ IF path["backup"] = None
             THEN UNCHANGED <<path, archives>>
             ELSE archives' = ArchiveLeft /\ path' = [path EXCEPT !["backup"] = None]
          /\ Goes("aside") /\ UNCHANGED ioFaults
       \/ ImportFault /\ Goes("deferred") /\ UNCHANGED <<path, archives>>
    /\ UNCHANGED <<pool, exp, offered, commits, imports, exports, downs, owner, again, legit>>

MoveAside ==
    /\ At("aside")
    /\ \/ /\ path["db"] # None
          /\ path' = [path EXCEPT !["backup"] = path["db"], !["db"] = None]
          /\ Goes("place") /\ UNCHANGED ioFaults
       \/ path["db"] = None /\ Goes("deferred") /\ UNCHANGED <<path, ioFaults>>
       \/ ImportFault /\ Goes("deferred") /\ UNCHANGED path
    /\ UNCHANGED <<archives, pool, exp, offered, commits, imports, exports, downs, owner,
                   again, legit>>

\* os.Rename of .backup onto the database.
RestoreFallback == [path EXCEPT !["db"] = path["backup"], !["backup"] = None]

PutInPlace ==
    /\ At("place")
    /\ \/ /\ path' = [path EXCEPT !["db"] = path["temp"], !["temp"] = None]
          /\ imp' = [imp EXCEPT !.step = "migrate", !.original = FALSE]
          /\ UNCHANGED ioFaults
       \/ ImportFault /\ path' \in {RestoreFallback, path} /\ Goes("deferred")
    /\ UNCHANGED <<archives, pool, exp, offered, commits, imports, exports, downs, owner,
                   again, legit>>

\* MigrateDb and InitDB on the upload.
Accept ==
    LET c == path["db"]
    IN  /\ c # Rotten
        /\ pool' = c /\ owner' = c.who /\ legit' = c.who
        /\ path' = [path EXCEPT !["backup"] = None]
        /\ imp' = NoImport
        /\ UNCHANGED <<ioFaults, archives>>

\* The pool InitDB may have opened is released and the fallback is put back; when that
\* fails too, the import's database stays in place and nothing is reopened.
RollBack ==
    /\ path["db"] = Rotten \/ ioFaults < ImportFaults
    /\ \E lost \in BOOLEAN :
          /\ ioFaults' = ioFaults + (IF path["db"] = Rotten THEN 0 ELSE 1) + (IF lost THEN 1 ELSE 0)
          /\ ioFaults' <= ImportFaults
          /\ path' = IF lost THEN path ELSE RestoreFallback
          /\ imp' = [imp EXCEPT !.step = "deferred", !.original = ~ lost]
    /\ pool' = Shut /\ UNCHANGED <<owner, legit, archives>>

Migrate ==
    /\ At("migrate")
    /\ Accept \/ RollBack
    /\ UNCHANGED <<exp, offered, commits, imports, exports, downs, again>>

\* ReopenAllowed, without asking whether the database is still the panel's own
ReopenAnyway == path["db"] # None

\* The deferred function reopens only the panel's own database, and only one that is there.
ReopenAllowed == imp.original /\ path["db"] # None

\* The deferred functions: .temp is removed, the database reopened.
Deferred ==
    /\ At("deferred") /\ imp' = NoImport
    /\ IF ~ ReopenAllowed
       THEN path' = [path EXCEPT !["temp"] = None] /\ UNCHANGED <<pool, ioFaults>>
       ELSE \/ /\ path' = [path EXCEPT !["temp"] = None] /\ UNCHANGED ioFaults
               /\ pool' = IF path["db"] = Rotten THEN Shut ELSE path["db"]
            \/ ImportFault /\ path' = [path EXCEPT !["temp"] = None] /\ UNCHANGED pool
    /\ UNCHANGED <<archives, exp, offered, commits, imports, exports, downs, owner, again, legit>>

-----------------------------------------------------------------------------
(* The process is killed, or restarted by hand, at any moment; app.Init    *)
(* migrates and opens whatever is at the path, and seeds a missing file.   *)
(* A database InitDB refuses keeps the panel from starting.                *)
RestartImported ==
    /\ downs < ImportKills /\ downs' = downs + 1
    /\ imp' = NoImport /\ exp' = NoExport
    /\ LET c == IF path["db"] = None THEN Fresh ELSE path["db"]
       IN  /\ path' = [path EXCEPT !["db"] = c]
           /\ pool' = IF c = Rotten THEN Dead ELSE c
           /\ legit' = c.who
    /\ UNCHANGED <<archives, offered, commits, imports, exports, ioFaults, owner, again>>

ImportSteps == CopyUpload \/ ArchiveBackup \/ MoveAside \/ PutInPlace
                  \/ Migrate \/ Deferred
ImportNext ==
    \/ \E t \in SavedTables : CommitSave(t)
    \/ BeginExport \/ ScanTable
    \/ ImportSteps \/ \E f \in offered : BeginImport(f)
    \/ RestartImported
ImportSpec == ImportInit /\ [][ImportNext]_impVars

-----------------------------------------------------------------------------
(* Properties. *)
Held == {path[f] : f \in {"db", "temp", "backup"}} \cup ToSet(archives)

\* Until an import has been accepted the operator's database is in some file,
\* through failed moves, failed rollbacks, kills and retries: the .backup that
\* an import leaves behind is the last copy and a retry must not destroy it.
OperatorDataKept == owner = "own" => \E c \in Held : c.who = "own"

\* The panel serves the database it was started on or has accepted since: no
\* failed import leaves it on the upload, whose users are not the operator's,
\* or on a freshly seeded admin.  An import tried again after one that could not
\* roll back takes the upload at the path for the panel's own, and is excepted.
NeverServesRefused == (Up /\ ~ again) => pool.who = legit

\* Once no import is under way the panel has its database open again, unless
\* an operation failed on the way back or a restart found an unusable file.
ReopenedAfterImport ==
    At("idle") => (Up \/ ioFaults > 0 \/ downs > 0)

\* A restored export has, of every table but the login attempts, everything
\* saved before the export began.
RestoreKeepsSaves ==
    \A e \in offered : e.who = "export" =>
        \A t \in SavedTables \ {"loginAttempts"} : e.tabs[t] >= e.begun[t]

\* The import, in one: no data of the operator is lost, no refused file is served, an
\* import that failed leaves the panel with its database, and a restore keeps what was saved.
ImportSafety ==
    ImportTypeOK /\ RestoreKeepsSaves /\ OperatorDataKept /\ NeverServesRefused /\ ReopenedAfterImport
=============================================================================

------------------------------ MODULE SelfUpdate ------------------------------
(***************************************************************************)
(* The in-panel update (service/update.go, update_restart_linux.go): one   *)
(* background run at a time resolves the latest release, downloads and     *)
(* verifies it, swaps the binary file by file and restarts, by re-exec in  *)
(* a container or through a detached systemd unit on bare metal.  Releases *)
(* are published and withdrawn meanwhile, every step fails, and the        *)
(* process is killed between any two of them.                              *)
(***************************************************************************)
EXTENDS Naturals

CONSTANTS
    MaxRelease,     \* releases are 1 .. MaxRelease
    UpdateTries,    \* bound: calls of StartUpdate
    UpdateFaults,   \* bound: steps that fail
    UpdateKills     \* bound: times the process is killed

ASSUME UpdateAssumption == {MaxRelease, UpdateTries, UpdateFaults, UpdateKills} \subseteq Nat

VARIABLES
    latest,     \* tag of the newest published release, 0 while there is none
    image,      \* the binary, its .bak and its .new beside it
    running,    \* version of the process, fixed when it was started
    docker,     \* whether the process lives in a container
    updRunning, updPhase, updTarget,
    updStep,    \* where the background run is
    fetched,    \* the tarball it downloaded: a version, or Corrupt
    coreUp, coreRetired,
    unit,       \* a detached systemctl restart is waiting
    tries, updFaults, kills,
    retried     \* ghost: a swap began while the binary was no longer the running one

updVars == <<latest, image, running, docker, updRunning, updPhase, updTarget, updStep,
             fetched, coreUp, coreRetired, unit, tries, updFaults, kills, retried>>

NoImage == 0
Partial == MaxRelease + 1       \* a file a copy has not finished
Corrupt == MaxRelease + 2       \* a download that is not what was published
Release == 1 .. MaxRelease
UpdPhases == {"idle", "checking", "downloading", "verifying", "extracting", "swapping",
              "restarting", "done", "failed"}
Steps == {"none", "resolve", "download", "verify", "extract", "unback", "back", "backing",
          "stage", "staging", "rename", "restart", "stopcore", "exec", "restore"}

UpdateTypeOK ==
    /\ latest \in Release \cup {0}
    /\ image \in [{"exe", "bak", "new"} -> Release \cup {NoImage, Partial}]
    /\ running \in Release
    /\ {docker, updRunning, coreUp, coreRetired, unit, retried} \subseteq BOOLEAN
    /\ updPhase \in UpdPhases /\ updStep \in Steps /\ updTarget \in Release \cup {0}
    /\ fetched \in Release \cup {0, Corrupt}
    /\ tries \in 0 .. UpdateTries /\ updFaults \in 0 .. UpdateFaults /\ kills \in 0 .. UpdateKills

UpdateInit ==
    /\ latest \in Release \cup {0} /\ docker \in BOOLEAN
    /\ running \in Release /\ image = [f \in {"exe", "bak", "new"} |-> IF f = "exe" THEN running ELSE NoImage]
    /\ updRunning = FALSE /\ updPhase = "idle" /\ updTarget = 0 /\ updStep = "none"
    /\ fetched = 0 /\ coreUp = TRUE /\ coreRetired = FALSE /\ unit = FALSE
    /\ tries = 0 /\ updFaults = 0 /\ kills = 0 /\ retried = FALSE

-----------------------------------------------------------------------------
(* GitHub: a release is published, or the newest one is withdrawn. *)
Published ==
    /\ latest' \in Release \cup {0} /\ latest' \in {latest + 1, latest - 1}
    /\ UNCHANGED <<image, running, docker, updRunning, updPhase, updTarget, updStep, fetched,
                   coreUp, coreRetired, unit, tries, updFaults, kills, retried>>

-----------------------------------------------------------------------------
(* StartUpdate and the steps of run(). *)

shouldInstall(tag, current) == current < tag

StartUpdate ==
    /\ ~ updRunning /\ tries < UpdateTries
    /\ tries' = tries + 1 /\ updRunning' = TRUE
    /\ updPhase' = "checking" /\ updTarget' = 0 /\ updStep' = "resolve" /\ fetched' = 0
    /\ UNCHANGED <<latest, image, running, docker, coreUp, coreRetired, unit, updFaults, kills,
                   retried>>

\* The run is over: its deferred function lets the next one in.
RunEnds == updRunning' = FALSE /\ updStep' = "none"

\* fail: the step went wrong and the run returns.
fail ==
    /\ updFaults < UpdateFaults /\ updFaults' = updFaults + 1
    /\ updPhase' = "failed" /\ RunEnds
    /\ UNCHANGED <<latest, running, docker, updTarget, fetched, unit, tries, kills, retried>>

ResolveLatest ==
    /\ updStep = "resolve"
    /\ \/ fail /\ UNCHANGED <<image, coreUp, coreRetired>>
       \/ /\ latest # 0 /\ updTarget' = latest
          /\ IF shouldInstall(latest, running)
             THEN updPhase' = "downloading" /\ updStep' = "download" /\ UNCHANGED updRunning
             ELSE updPhase' = "done" /\ RunEnds
          /\ UNCHANGED <<latest, image, running, docker, fetched, coreUp, coreRetired, unit, tries,
                         updFaults, kills, retried>>
       \/ /\ latest = 0 /\ updPhase' = "failed" /\ RunEnds
          /\ UNCHANGED <<latest, image, running, docker, updTarget, fetched, coreUp, coreRetired,
                         unit, tries, updFaults, kills, retried>>

\* download: the tarball and the checksums; what arrives may not be what was published.
download ==
    /\ updStep = "download"
    /\ \/ fail /\ UNCHANGED <<image, coreUp, coreRetired>>
       \/ /\ fetched' \in {updTarget, Corrupt}
          /\ updFaults' = IF fetched' = Corrupt THEN updFaults + 1 ELSE updFaults
          /\ updFaults' <= UpdateFaults
          /\ updPhase' = "verifying" /\ updStep' = "verify"
          /\ UNCHANGED <<latest, image, running, docker, updRunning, updTarget, coreUp,
                         coreRetired, unit, tries, kills, retried>>

\* The sum of the download is the one SHA256SUMS has for the asset.
Verified == fetched = updTarget

VerifyChecksum ==
    /\ updStep = "verify"
    /\ \/ fail /\ UNCHANGED <<image, coreUp, coreRetired>>
       \/ /\ Verified
          /\ updPhase' = "extracting" /\ updStep' = "extract"
          /\ UNCHANGED <<latest, image, running, docker, updRunning, updTarget, fetched, coreUp,
                         coreRetired, unit, tries, updFaults, kills, retried>>
       \/ /\ ~ Verified /\ updPhase' = "failed" /\ RunEnds
          /\ UNCHANGED <<latest, image, running, docker, updTarget, fetched, coreUp, coreRetired,
                         unit, tries, updFaults, kills, retried>>

\* The binary the verified archive holds.
Staged == fetched

\* The archive is unpacked and its binary made executable and run once.
ExtractAndTest ==
    /\ updStep = "extract"
    /\ \/ fail /\ UNCHANGED <<image, coreUp, coreRetired>>
       \/ /\ updPhase' = "swapping" /\ updStep' = "unback"
          /\ UNCHANGED <<latest, image, running, docker, updRunning, updTarget, fetched, coreUp,
                         coreRetired, unit, tries, updFaults, kills, retried>>

-----------------------------------------------------------------------------
(* swapBinary, one file operation at a time: remove the old backup, copy   *)
(* the binary to it, copy the new one beside it, rename it into place.     *)
\* SwapMove: from one step to the next, writing one file.
SwapMove(from, to, file, value) ==
    /\ updStep = from /\ updStep' = to
    /\ image' = [image EXCEPT ![file] = value]
    /\ UNCHANGED <<latest, running, docker, updRunning, updPhase, updTarget, fetched, coreUp,
                   coreRetired, unit, tries, updFaults, kills>>

\* copyFile opens its target truncated and writes; a copy that fails leaves what it wrote.
CopyFails(file) ==
    /\ fail /\ image' = [image EXCEPT ![file] = Partial] /\ UNCHANGED <<coreUp, coreRetired>>

\* swapBinary's staging, copying straight onto the binary
StageInPlace == "exe"

\* The new binary is copied beside the old one and only renamed onto it when whole.
StageFile == "new"

\* The backup is a copy of the binary in place, taken before it is replaced.
Backed == image["exe"]

swapBinary ==
    \/ SwapMove("unback", "back", "bak", NoImage)
         /\ retried' = (retried \/ image["exe"] # running)
    \/ SwapMove("back", "backing", "bak", Partial) /\ UNCHANGED retried
    \/ updStep = "backing" /\ CopyFails("bak")
    \/ SwapMove("backing", "stage", "bak", Backed) /\ UNCHANGED retried
    \/ SwapMove("stage", "staging", StageFile, Partial) /\ UNCHANGED retried
    \/ updStep = "staging" /\ CopyFails(StageFile)
    \/ SwapMove("staging", "rename", StageFile, Staged) /\ UNCHANGED retried
    \/ /\ updStep = "rename" /\ fail /\ image' = [image EXCEPT !["new"] = NoImage]
       /\ UNCHANGED <<coreUp, coreRetired>>
    \/ /\ updStep = "rename" /\ updStep' = "restart" /\ updPhase' = "restarting"
       /\ image' = [image EXCEPT !["exe"] = image[StageFile], !["new"] = NoImage]
       /\ UNCHANGED <<latest, running, docker, updRunning, updTarget, fetched, coreUp,
                      coreRetired, unit, tries, updFaults, kills, retried>>

-----------------------------------------------------------------------------
(* The restart. *)

\* A process started from the binary: everything it keeps in memory is new.
Boots(version) ==
    /\ running' = version /\ coreUp' = TRUE /\ coreRetired' = FALSE /\ retried' = FALSE
    /\ updRunning' = FALSE /\ updPhase' = "idle" /\ updTarget' = 0 /\ updStep' = "none"
    /\ fetched' = 0

\* In a container, after the pause: the core is stopped and retired, as at a shutdown.
stopCoreForExec ==
    /\ docker /\ updStep = "restart" /\ updStep' = "exec"
    /\ coreUp' = FALSE /\ coreRetired' = TRUE
    /\ UNCHANGED <<latest, image, running, docker, updRunning, updPhase, updTarget, fetched,
                   unit, tries, updFaults, kills, retried>>

execRestart ==
    /\ updStep = "exec"
    /\ \/ /\ image["exe"] \in Release /\ Boots(image["exe"])
          /\ UNCHANGED <<latest, image, docker, unit, tries, updFaults, kills>>
       \/ /\ updFaults < UpdateFaults /\ updFaults' = updFaults + 1 /\ updStep' = "restore"
          /\ UNCHANGED <<latest, image, running, docker, updRunning, updPhase, updTarget, fetched,
                         coreUp, coreRetired, unit, tries, kills, retried>>

\* ReclaimCore comes before StartCore, which does nothing on a retired core.
Reclaimed == FALSE

\* The exec did not happen: take the core back, start it, report the failure.
startCoreAfterFailedExec ==
    /\ updStep = "restore"
    /\ coreRetired' = Reclaimed /\ coreUp' = ~ coreRetired'
    /\ updPhase' = "failed" /\ RunEnds
    /\ UNCHANGED <<latest, image, running, docker, updTarget, fetched, unit, tries, updFaults,
                   kills, retried>>

\* On bare metal systemd-run is started and not waited for; the run is over.
detachedRestart ==
    /\ ~ docker /\ updStep = "restart"
    /\ \/ fail /\ UNCHANGED <<image, coreUp, coreRetired>>
       \/ /\ unit' = TRUE /\ RunEnds
          /\ UNCHANGED <<latest, image, running, docker, updPhase, updTarget, fetched, coreUp,
                         coreRetired, tries, updFaults, kills, retried>>

\* The unit restarts the service, whatever the panel is doing by then, or fails.
UnitRestarts ==
    /\ unit /\ unit' = FALSE
    /\ \/ image["exe"] \in Release /\ Boots(image["exe"]) /\ UNCHANGED updFaults
       \/ /\ updFaults < UpdateFaults /\ updFaults' = updFaults + 1
          /\ UNCHANGED <<running, coreUp, coreRetired, retried, updRunning, updPhase, updTarget,
                         updStep, fetched>>
    /\ UNCHANGED <<latest, image, docker, tries, kills>>

\* The process is killed and the supervisor starts the binary there is.
Killed ==
    /\ kills < UpdateKills /\ kills' = kills + 1
    /\ image["exe"] \in Release /\ Boots(image["exe"])
    /\ UNCHANGED <<latest, image, docker, unit, tries, updFaults>>

RunSteps == \/ ResolveLatest \/ download \/ VerifyChecksum \/ ExtractAndTest \/ swapBinary
            \/ stopCoreForExec \/ execRestart \/ startCoreAfterFailedExec \/ detachedRestart
UpdateNext == Published \/ StartUpdate \/ RunSteps \/ UnitRestarts \/ Killed
UpdateSpec == UpdateInit /\ [][UpdateNext]_updVars

-----------------------------------------------------------------------------
(* Properties. *)

\* The binary a supervisor would start is a whole, verified release at every
\* moment of the swap, also when a copy fails or the process is killed in it.
ExeIsWhole == image["exe"] \in Release

\* An update never leaves a binary older than the running process, although
\* releases are withdrawn and a swap may follow one whose restart failed.
NeverOlder == image["exe"] >= running

\* Outside the exec itself the core is never left stopped and retired by an
\* update: a retired core stays down for the life of the process.
CoreReclaimed == coreRetired => updStep \in {"exec", "restore"}

\* As soon as the binary is not the running process's any more, .bak holds
\* that process's version, so that the update can be taken back by hand (the
\* comment in swapBinary), unless a later run swapped again before a restart.
BackupReverts == (image["exe"] # running /\ ~ retried) => image["bak"] = running

\* A run that began ends: the button is not locked by an update that hangs.
RunSettles == updRunning ~> ~ updRunning

\* The update, in one: at every moment, a kill included, there is a whole binary that is
\* not older than the process and a backup of the process, and the core is not left down.
UpdateSafety == UpdateTypeOK /\ ExeIsWhole /\ NeverOlder /\ CoreReclaimed /\ BackupReverts
=============================================================================

------------------------------- MODULE Updater -------------------------------
(* Self-update on Unix: back up, download, replace the running executable,     *)
(* verify the new one, undo. The updater is a process of its own that may die  *)
(* between any two moves, while the server goes on writing the database. What  *)
(* current_exe answers after the executable was replaced is the system's.      *)
EXTENDS Integers

CONSTANTS MaxUpRuns, MaxUpFaults, MaxUpWrites   \* bounds: commands, failed moves and kills, rows written
ASSUME UpAssumption == MaxUpRuns \in Nat /\ MaxUpFaults \in Nat /\ MaxUpWrites \in Nat

VARIABLES
  upAt,             \* what the updater does next
  upLinux,          \* the path of a replaced executable is answered with " (deleted)", a running one cannot be written
  upGood,           \* the release can be started
  upFiles,          \* exe, the file current_exe names instead, backup, download: "old", "new", "partial", "none"
  upManifest,       \* .update_manifest.json exists
  upUnit,           \* the path in the service's unit file is that of the executable
  upRows, upRowsBackup,  \* rows in the database and in its backup; -1 is none
  upKnown,          \* ghost: the old executable was lost in one of the two ways OldExecutableIsKept names
  upRuns, upFaults
upVars == <<upAt, upLinux, upGood, upFiles, upManifest, upUnit, upRows, upRowsBackup, upKnown, upRuns, upFaults>>

UpdaterInit ==
  /\ upAt = "idle" /\ upLinux \in BOOLEAN /\ upGood \in BOOLEAN
  /\ upFiles = [exe |-> "old", stray |-> "none", backup |-> "none", download |-> "none"]
  /\ upManifest = FALSE /\ upUnit = TRUE /\ upRows = 0 /\ upRowsBackup = -1 /\ upKnown = FALSE /\ upRuns = 0 /\ upFaults = 0

UpFault == upFaults < MaxUpFaults /\ upFaults' = upFaults + 1
Replaced == upFiles.exe = "new"
\* The file that current_exe names, asked by the process that runs the update.
CurrentExe == IF upLinux /\ Replaced THEN "stray" ELSE "exe"

\* cleanup_artifacts, and the removal of the manifest that follows it.
CleanedUp == upManifest' = FALSE /\ upRowsBackup' = -1
NoBackup(files) == [files EXCEPT !.backup = "none", !.download = "none"]

\* A newer release, upgradable from this version; no container, no development
\* build; anything else changes nothing.
UpCheck ==
  /\ upAt = "idle" /\ upFiles.exe = "old" /\ upRuns < MaxUpRuns /\ upRuns' = upRuns + 1 /\ upAt' = "backup"
  /\ UNCHANGED <<upLinux, upGood, upFiles, upManifest, upUnit, upRows, upRowsBackup, upKnown, upFaults>>

\* Executable, database (if that can be copied, and without the rows its log
\* still holds) and manifest. A failed copy of the executable writes no
\* manifest; a failed manifest leaves the copies.
UpBackup ==
  /\ upAt = "backup" /\ UNCHANGED <<upLinux, upGood, upUnit, upRows, upKnown, upRuns>>
  /\ \/ upFiles' = [upFiles EXCEPT !.backup = "old"] /\ upRowsBackup' \in -1..upRows /\ upManifest' = TRUE /\ upAt' = "download" /\ UNCHANGED upFaults
     \/ UpFault /\ upFiles' = [upFiles EXCEPT !.backup = "partial"] /\ upAt' = "idle" /\ UNCHANGED <<upRowsBackup, upManifest>>
     \/ UpFault /\ upFiles' = [upFiles EXCEPT !.backup = "old"] /\ upRowsBackup' = upRows /\ upAt' = "idle" /\ UNCHANGED upManifest

\* The release is asked for again, and an error returned as it is; then the
\* file and its checksum, if the release has one.
UpDownload ==
  /\ upAt = "download" /\ UNCHANGED <<upLinux, upGood, upUnit, upRows, upKnown, upRuns>>
  /\ \/ upFiles' = [upFiles EXCEPT !.download = "new"] /\ upAt' = "replace" /\ UNCHANGED <<upManifest, upRowsBackup, upFaults>>
     \/ UpFault /\ upAt' = "idle" /\ UNCHANGED <<upFiles, upManifest, upRowsBackup>>
     \/ UpFault /\ upAt' = "idle" /\ upFiles' = NoBackup(upFiles) /\ CleanedUp

\* The executable is backed up once more, the download moved beside it and over
\* it. If that move fails the backup is moved back; if the permissions cannot
\* be set the new file stays. Every failure cleans up.
UpReplace ==
  /\ upAt = "replace" /\ UNCHANGED <<upLinux, upGood, upUnit, upRows, upRuns>>
  /\ \/ upFiles' = [upFiles EXCEPT !.backup = "old", !.exe = "new", !.download = "none"] /\ upAt' = "service" /\ UNCHANGED <<upManifest, upRowsBackup, upKnown, upFaults>>
     \/ UpFault /\ upAt' = "idle" /\ upFiles' = NoBackup(upFiles) /\ CleanedUp /\ UNCHANGED upKnown
     \/ UpFault /\ upAt' = "idle" /\ upFiles' = NoBackup([upFiles EXCEPT !.exe = "new"]) /\ CleanedUp /\ upKnown' = TRUE

\* The unit file gets the path current_exe answers; a failure is ignored.
UpService ==
  /\ upAt = "service" /\ upAt' = "verify" /\ upUnit' \in {CurrentExe = "exe", upUnit}
  /\ UNCHANGED <<upLinux, upGood, upFiles, upManifest, upRows, upRowsBackup, upKnown, upRuns, upFaults>>

\* The new executable is run; success keeps the backups for a rollback.
UpVerify ==
  /\ upAt = "verify" /\ upAt' \in IF upGood THEN {"idle", "undo"} ELSE {"undo"}
  /\ UNCHANGED <<upLinux, upGood, upFiles, upManifest, upUnit, upRows, upRowsBackup, upKnown, upRuns, upFaults>>

Restored == IF upRowsBackup = -1 THEN upRows ELSE upRowsBackup

\* Mutant: the backups go whether or not they could be restored.
UpUndo_CleansAlways ==
  /\ upAt = "undo" /\ upAt' = "idle" /\ UNCHANGED <<upLinux, upGood, upUnit, upKnown, upRuns>>
  /\ \/ upFiles' = NoBackup([upFiles EXCEPT ![CurrentExe] = upFiles.backup]) /\ upRows' = Restored /\ CleanedUp /\ UNCHANGED upFaults
     \/ UpFault /\ upFiles' = NoBackup([upFiles EXCEPT ![CurrentExe] = "partial"]) /\ upRows' \in {upRows, Restored} /\ CleanedUp

\* Verification failed: the executable is copied back, then the database. Only
\* if both went well the backups and the manifest go.
UpUndo ==
  /\ upAt = "undo" /\ upAt' = "idle" /\ UNCHANGED <<upLinux, upGood, upUnit, upKnown, upRuns>>
  /\ \/ upFiles' = NoBackup([upFiles EXCEPT ![CurrentExe] = upFiles.backup]) /\ upRows' = Restored /\ CleanedUp /\ UNCHANGED upFaults
     \/ UpFault /\ upFiles' = [upFiles EXCEPT ![CurrentExe] = "partial"] /\ upRows' \in {upRows, Restored} /\ UNCHANGED <<upManifest, upRowsBackup>>
     \/ UpFault /\ upFiles' = [upFiles EXCEPT ![CurrentExe] = upFiles.backup] /\ upRows' = upRows /\ UNCHANGED <<upManifest, upRowsBackup>>

\* `easybot rollback`, run from the installed executable: a copy over it, which
\* Linux refuses while it runs, then the database, the manifest, the backups.
UpRollback ==
  /\ upAt = "idle" /\ upManifest /\ (Replaced => upGood) /\ upFiles.exe # "partial" /\ upRuns < MaxUpRuns /\ upRuns' = upRuns + 1
  /\ \/ ~upLinux /\ upFiles.backup # "none" /\ upFiles' = NoBackup([upFiles EXCEPT !.exe = upFiles.backup]) /\ upRows' = Restored /\ CleanedUp /\ UNCHANGED upFaults
     \/ ~upLinux /\ UpFault /\ upFiles.backup # "none" /\ upFiles' = [upFiles EXCEPT !.exe = "partial"] /\ UNCHANGED <<upRows, upManifest, upRowsBackup>>
     \/ (upLinux \/ upFiles.backup = "none") /\ UNCHANGED <<upFiles, upRows, upManifest, upRowsBackup, upFaults>>
  /\ upKnown' = (upKnown \/ (~upLinux /\ upFiles.backup = "partial"))
  /\ UNCHANGED <<upAt, upLinux, upGood, upUnit>>

\* The updater dies: before a replacement all it wrote may be half written.
UpKill ==
  /\ upAt \notin {"idle"} /\ UpFault /\ upAt' = "idle"
  /\ \/ UNCHANGED upFiles
     \/ upAt = "replace" /\ upFiles' = [upFiles EXCEPT !.backup = "partial"]
     \/ upAt = "undo" /\ upFiles' = [upFiles EXCEPT ![CurrentExe] = "partial"]
  /\ UNCHANGED <<upLinux, upGood, upManifest, upUnit, upRows, upRowsBackup, upKnown, upRuns>>

\* The server, meanwhile.
UpWrite == upRows < MaxUpWrites /\ upRows' = upRows + 1 /\ UNCHANGED <<upAt, upLinux, upGood, upFiles, upManifest, upUnit, upRowsBackup, upKnown, upRuns, upFaults>>

UpdaterNext ==
  \/ UpCheck \/ UpBackup \/ UpDownload \/ UpReplace \/ UpService \/ UpVerify \/ UpUndo \/ UpRollback \/ UpKill
  \/ UpWrite

UpdaterTypeOK ==
  /\ upAt \in {"idle", "backup", "download", "replace", "service", "verify", "undo"}
  /\ upFiles \in [{"exe", "stray", "backup", "download"} -> {"old", "new", "partial", "none"}]
  /\ upRows \in 0..MaxUpWrites /\ upRowsBackup \in -1..MaxUpWrites /\ upManifest \in BOOLEAN /\ upUnit \in BOOLEAN

\* Whatever fails, and wherever the updater dies, a whole copy of the
\* executable that was there is left: in place, as the backup, or where the
\* system named it. Two ways to lose it are known: permissions of the new
\* executable could not be set (replace_binary returns that error without
\* moving the backup back, and its caller cleans up); the updater died while
\* it copied the executable a second time, and the manifest of the first copy
\* let `easybot rollback` install the half of it.
OldExecutableIsKept == "old" \in {upFiles.exe, upFiles.backup, upFiles.stray} \/ upKnown
=============================================================================

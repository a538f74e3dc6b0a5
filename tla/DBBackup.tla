------------------------------ MODULE DBBackup -----------------------------
(***************************************************************************)
(* The copy of a database a new version takes before it opens it           *)
(* (control-center/backend/dbbackup/dbbackup.go and its place in startup,  *)
(* control-center/app.go).                                                 *)
(*                                                                         *)
(* The content of the database is named by the version that last had it    *)
(* open.  A program that ends inside a transaction leaves the file Torn    *)
(* until the next open rolls the journal back (SQLite, external); the copy *)
(* takes the file without the journal.                                     *)
(***************************************************************************)
EXTENDS Naturals, Sequences

CONSTANTS
    Versions,
    Absent,         \* no database file; no version running; no such content
    keepBackups,
    MaxStarts       \* bound: starts of the program

(* keepBackups is a constant of the code, 5.                               *)
ASSUME BackupAssumption == Absent \notin Versions /\ keepBackups \in Nat \ {0}

VARIABLES
    content,    \* the database's content
    torn,       \* its file needs the journal beside it
    files,      \* files matching <db>.bak-*, by modification time, oldest first
    running,    \* the version that runs
    startpc,    \* its startup: "off", "checking", "copying", "copied", "opening", "up"
    opener,     \* the version that last opened the database, history
    replaced,   \* the content it found when it first did, if that was backed up; history
    copyFailed, \* this start could not copy, history
    starts      \* bound

backupVars == <<content, torn, files, running, startpc, opener, replaced, copyFailed, starts>>
backupHistory == <<opener, replaced, copyFailed, starts>>

BackupInit ==
    /\ content \in Versions \cup {Absent}
    /\ torn = FALSE
    /\ files = <<>>
    /\ running = Absent
    /\ startpc = "off"
    /\ opener = content
    /\ replaced = Absent
    /\ copyFailed = FALSE
    /\ starts = 0

(* A file is a version's backup or, with tmp, what copyFile works on: its  *)
(* name, <db>.bak-<version>.tmp-<random>, matches the same pattern.        *)
IsBackup(f, v) == f.version = v /\ ~f.tmp
HasBackup(v) == \E i \in DOMAIN files : IsBackup(files[i], v)

----------------------------------------------------------------------------

Starts(v) ==
    /\ running = Absent /\ starts < MaxStarts
    /\ running' = v
    /\ startpc' = "checking"
    /\ starts' = starts + 1
    /\ copyFailed' = FALSE
    /\ UNCHANGED <<content, torn, files, opener, replaced>>

(* BackupBeforeUpgrade has nothing to copy, or has copied already.         *)
SkipsCopy ==
    /\ startpc = "checking"
    /\ content = Absent \/ HasBackup(running)
    /\ startpc' = "opening"
    /\ UNCHANGED <<content, torn, files, running, backupHistory>>

BeginsCopy ==
    /\ startpc = "checking"
    /\ content # Absent /\ ~HasBackup(running)
    /\ startpc' = "copying"
    /\ files' = Append(files, [version |-> running, tmp |-> TRUE, holds |-> content, torn |-> torn])
    /\ UNCHANGED <<content, torn, running, backupHistory>>

(* Any step of copyFile fails: it removes its file, and startup goes on.   *)
FailsCopy ==
    /\ startpc = "copying"
    /\ startpc' = "opening"
    /\ files' = SubSeq(files, 1, Len(files) - 1)
    /\ copyFailed' = TRUE
    /\ UNCHANGED <<content, torn, running, opener, replaced, starts>>

(* The rename, which leaves the modification time alone.                   *)
PublishesCopy ==
    /\ startpc = "copying"
    /\ startpc' = "copied"
    /\ files' = [files EXCEPT ![Len(files)].tmp = FALSE]
    /\ UNCHANGED <<content, torn, running, backupHistory>>

(* Mutant: prune sorts the other way round.                                *)
KeptMutant == IF Len(files) > keepBackups THEN SubSeq(files, 1, keepBackups) ELSE files

(* prune keeps the newest keepBackups files, whatever they are.            *)
Kept ==
    IF Len(files) > keepBackups
    THEN SubSeq(files, Len(files) - keepBackups + 1, Len(files))
    ELSE files

(* History: another version's backup is not that version's to keep.        *)
Prunes ==
    /\ startpc = "copied"
    /\ startpc' = "opening"
    /\ files' = Kept
    /\ replaced' = IF running = opener THEN replaced ELSE Absent
    /\ UNCHANGED <<content, torn, running, opener, copyFailed, starts>>

(* The database is opened, created if need be, and migrated.  History:     *)
(* another version's content is replaced; nothing is promised when the     *)
(* copy failed or was taken of a torn file, or when this version took its  *)
(* only copy on an earlier occasion.                                       *)
OpensDB ==
    /\ startpc = "opening"
    /\ startpc' = "up"
    /\ content' = running
    /\ torn' = FALSE
    /\ opener' = running
    /\ replaced' =
         IF opener = running THEN replaced
         ELSE IF content = Absent \/ copyFailed \/ torn
                 \/ \E i \in DOMAIN files : /\ IsBackup(files[i], running)
                                            /\ files[i].holds # content \/ files[i].torn
         THEN Absent ELSE content
    /\ UNCHANGED <<files, running, copyFailed, starts>>

(* The program is closed, or ends at any point; with the database open     *)
(* maybe inside a transaction.                                             *)
Ends ==
    /\ running # Absent
    /\ running' = Absent
    /\ startpc' = "off"
    /\ torn' \in IF startpc = "up" THEN BOOLEAN ELSE {torn}
    /\ UNCHANGED <<content, files, backupHistory>>

BackupNext ==
    \/ \E v \in Versions : Starts(v)
    \/ SkipsCopy \/ BeginsCopy \/ FailsCopy \/ PublishesCopy \/ Prunes
    \/ OpensDB \/ Ends

BackupSpec == BackupInit /\ [][BackupNext]_backupVars

----------------------------------------------------------------------------

(* An upgrade can be rolled back: from the moment a version opens what     *)
(* another one left behind, and until a third one has taken a backup of    *)
(* its own, its backup holds that content intact, through crashes,         *)
(* restarts and the leftovers of copies that were cut short (app.go:90-99, *)
(* dbbackup.go:22-55, 98-117).  Not when the copy failed, for startup goes *)
(* on; nor when the older version ended inside a transaction.              *)
RollbackPossible ==
    replaced # Absent =>
        \E i \in DOMAIN files :
            IsBackup(files[i], opener) /\ files[i].holds = replaced /\ ~files[i].torn

============================================================================

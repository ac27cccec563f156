---------------------------- MODULE BackupRestore ----------------------------
(***************************************************************************)
(* maintenance/backup.py: a backup set of the database and the environment *)
(* file, and its restore, which puts both in place by renames and undoes   *)
(* them if a later step fails.                                             *)
(*                                                                         *)
(* A database file is a lineage and a content; a write-ahead log holds the *)
(* newer content of the file it was written for.  SQLite reads a log that  *)
(* stands beside a file whatever it was written for: the result of that is *)
(* Mixed, and so is a file whose damage PRAGMA quick_check sees.  A        *)
(* content is the number of the last write, the schema, and how often the  *)
(* storage altered it in a way that only a checksum shows.  The            *)
(* environment file is the number of its edition, which an alteration      *)
(* raises by two.  The files under temporary names are the fields of       *)
(* restore; what it leaves of them no later step reads: it is forgotten.   *)
(***************************************************************************)
EXTENDS Integers

CONSTANTS None, Mixed,
          MaxFaults,   \* bound: steps that raise
          MaxWrites,   \* bound: writes to the database
          MaxRestores  \* bound: restores of an operator that replace it

\* A database file (and its journal), the environment file, a backup set:
\* sound when the files have the sizes and checksums of the manifest.
Content == [data : Nat, schema : {"old", "new"}, altered : Nat]

Database == [lineage : Nat, content : Content]

Environment == Nat \cup {None}

BackupSet == [content : Content \cup {Mixed}, env : Environment, sound : BOOLEAN]

ASSUME BackupAssumption ==
  /\ MaxFaults \in Nat /\ MaxWrites \in Nat /\ MaxRestores \in Nat
  /\ Mixed \notin Content \cup {None}
  /\ None \notin Content \cup Database \cup BackupSet \cup Nat \cup {"ok", "failed", "interrupted"}

VARIABLES
  db,       \* the database file, or None
  wal,      \* its "-wal", or None
  env,      \* the environment file: its edition, or None
  backup,   \* the backup set, or None
  restore,  \* restore_backup and its temporary files
  faults    \* steps that raised so far

files == <<db, wal, env>>

Logical(file, log) ==
  IF file = None THEN None
  ELSE IF log = None THEN file.content
  ELSE IF log.lineage = file.lineage THEN log.content ELSE Mixed

File(lineage, content) == [lineage |-> lineage, content |-> content]

FirstContent == [data |-> 0, schema |-> "old", altered |-> 0]

\* History, read by no step: before, env_before and set are what was there
\* when it began, late are the parts that were damaged between that and
\* their copy.
NoRestore ==
  [pc |-> "idle", result |-> None, copy |-> None, env_copy |-> None, parked |-> None,
   staged |-> None, env_staged |-> None, set |-> None, late |-> {},
   existed |-> FALSE, env_existed |-> FALSE, replaced |-> FALSE,
   env_replaced |-> FALSE, before |-> None, env_before |-> None]

InitBackup ==
  /\ restore = NoRestore
  /\ faults = 0
  /\ \/ /\ db = File(0, FirstContent)
        /\ wal = None /\ env \in {None, 0} /\ backup = None
     \/ /\ db = None /\ wal = None /\ env = None    \* a new host
        /\ backup \in [content : {FirstContent}, env : {None, 0}, sound : {TRUE}]

Restoring == restore.pc # "idle"

Fault == faults < MaxFaults /\ faults' = faults + 1

-----------------------------------------------------------------------------
(* create_backup: the set has its name only when it is complete and        *)
(* verified; if a step fails its directory is removed.                     *)

create_backup ==
  /\ db # None
  /\ backup' = [content |-> Logical(db, wal), env |-> env, sound |-> TRUE]
  /\ UNCHANGED <<files, restore>>

-----------------------------------------------------------------------------
(* restore_backup                                                          *)

\* The manifest, the checksums and the check of the archived database.
verify_backup == backup # None /\ backup.sound /\ backup.content # Mixed

\* The storage loses part of the set: of the database, where the damage is
\* one that quick_check sees or one that it does not, or of the environment.
BackupIsDamaged ==
  /\ backup # None /\ Fault
  /\ \/ /\ backup.content # Mixed
        /\ \E content \in {Mixed, [backup.content EXCEPT !.altered = @ + 1]} :
             backup' = [backup EXCEPT !.content = content, !.sound = FALSE]
        /\ restore' = [restore EXCEPT !.late =
                         IF restore.pc \in {"copy", "stage"}
                         THEN @ \cup {"database"} ELSE @]
     \/ /\ backup.env # None
        /\ backup' = [backup EXCEPT !.env = @ + 2, !.sound = FALSE]
        /\ restore' = [restore EXCEPT !.late =
                         IF restore.pc \in {"copy", "stage", "stage_env"}
                         THEN @ \cup {"environment"} ELSE @]
  /\ UNCHANGED files

\* What is there already is noted.
BeginRestore ==
  /\ ~Restoring /\ verify_backup
  /\ restore' = [NoRestore EXCEPT !.pc = "copy", !.set = backup, !.existed = (db # None),
                   !.env_existed = (env # None), !.before = Logical(db, wal),
                   !.env_before = env]

Goes(pc) == restore.pc = pc /\ UNCHANGED <<backup, faults>>

\* Mutant: the file is copied without its journal.
CopyMainFile ==
  /\ Goes("copy")
  /\ restore' = [restore EXCEPT !.pc = "stage", !.copy = db,
                   !.env_copy = IF restore.set.env # None THEN env ELSE None]
  /\ UNCHANGED files

\* The rollback copies: backup_sqlite merges the journal.
CopyForRollback ==
  /\ Goes("copy")
  /\ restore' = [restore EXCEPT !.pc = "stage",
                   !.copy = IF db = None THEN None
                            ELSE File(db.lineage, Logical(db, wal)),
                   !.env_copy = IF restore.set.env # None THEN env ELSE None]
  /\ UNCHANGED files

\* The database of the set goes under a temporary name, and this copy is
\* checked, by quick_check alone ...
StageDatabase ==
  /\ Goes("stage")
  /\ restore' = IF backup.content = Mixed
                THEN [restore EXCEPT !.pc = "undo", !.result = "failed"]
                ELSE [restore EXCEPT !.staged = backup.content,
                        !.pc = IF restore.set.env # None THEN "stage_env" ELSE "park"]
  /\ UNCHANGED files

\* ... the environment goes under one as it is.
StageEnvironment ==
  /\ Goes("stage_env")
  /\ restore' = [restore EXCEPT !.pc = "park", !.env_staged = backup.env]
  /\ UNCHANGED files

\* Mutant: the journal stays where it is.
LeaveSidecars ==
  /\ Goes("park")
  /\ restore' = [restore EXCEPT !.pc = "replace"]
  /\ UNCHANGED files

\* If one of the sidecars cannot be moved the other one is moved back.
park_database_sidecars ==
  /\ Goes("park")
  /\ restore' = [restore EXCEPT !.pc = "replace", !.parked = wal]
  /\ wal' = None
  /\ UNCHANGED <<db, env>>

\* Mutant: the environment of the set is left out.
ReplaceDatabaseOnly ==
  /\ Goes("replace")
  /\ restore' = [restore EXCEPT !.pc = "check", !.replaced = TRUE]
  /\ db' = File(IF db = None THEN 0 ELSE db.lineage + 1, restore.staged)
  /\ UNCHANGED <<wal, env>>

ReplaceDatabase ==
  /\ Goes("replace")
  /\ restore' = [restore EXCEPT !.replaced = TRUE,
                   !.pc = IF restore.set.env # None THEN "replace_env" ELSE "check"]
  /\ db' = File(IF db = None THEN 0 ELSE db.lineage + 1, restore.staged)
  /\ UNCHANGED <<wal, env>>

ReplaceEnvironment ==
  /\ Goes("replace_env")
  /\ restore' = [restore EXCEPT !.pc = "check", !.env_replaced = TRUE]
  /\ env' = restore.env_staged
  /\ UNCHANGED <<db, wal>>

QuickCheck ==
  /\ Goes("check")
  /\ restore' = IF Logical(db, wal) = Mixed
                THEN [restore EXCEPT !.pc = "undo", !.result = "failed"]
                ELSE [restore EXCEPT !.pc = "finally", !.result = "ok"]
  /\ UNCHANGED files

\* A step raises before it has its effect.
RestoreFails ==
  /\ restore.pc \in {"copy", "stage", "stage_env", "park", "replace", "replace_env",
                     "check"}
  /\ Fault
  /\ restore' = [restore EXCEPT !.pc = "undo", !.result = "failed"]
  /\ UNCHANGED <<files, backup>>

\* Mutant: only the database is put back.
UndoDatabaseOnly ==
  /\ Goes("undo")
  /\ restore' = [restore EXCEPT !.pc = "undo_wal", !.copy = None]
  /\ db' = IF ~restore.replaced THEN db
           ELSE IF restore.existed THEN restore.copy ELSE None
  /\ UNCHANGED <<wal, env>>

\* The exception handler: the database ...
UndoDatabase ==
  /\ Goes("undo")
  /\ restore' = [restore EXCEPT !.pc = "undo_env",
                   !.copy = IF restore.replaced THEN None ELSE @]
  /\ db' = IF ~restore.replaced THEN db
           ELSE IF restore.existed THEN restore.copy ELSE None
  /\ UNCHANGED <<wal, env>>

\* ... the environment ...
UndoEnvironment ==
  /\ Goes("undo_env")
  /\ restore' = [restore EXCEPT !.pc = "undo_wal",
                   !.env_copy = IF restore.env_replaced THEN None ELSE @]
  /\ env' = IF ~restore.env_replaced THEN env
            ELSE IF restore.env_existed THEN restore.env_copy ELSE None
  /\ UNCHANGED <<db, wal>>

\* ... and the journal, beside the copy that already holds its content.
UndoSidecars ==
  /\ Goes("undo_wal")
  /\ restore' = [restore EXCEPT !.pc = "finally", !.parked = None]
  /\ wal' = IF restore.parked # None THEN restore.parked ELSE wal
  /\ UNCHANGED <<db, env>>

\* The handler itself raises: what is left of it does not happen.
UndoFails ==
  /\ restore.pc \in {"undo", "undo_env", "undo_wal"} /\ Fault
  /\ restore' = [restore EXCEPT !.pc = "finally"]
  /\ UNCHANGED <<files, backup>>

\* The finally clause: the temporary files go; the parked journal goes only
\* after a success.
FinishRestore ==
  /\ Goes("finally")
  /\ restore' = [NoRestore EXCEPT !.result = restore.result]
  /\ UNCHANGED files

\* It raises itself, after a success too: what is reported is a failure.
FinishFails ==
  /\ restore.pc = "finally" /\ Fault
  /\ restore' = [NoRestore EXCEPT !.result = "failed"]
  /\ UNCHANGED <<files, backup>>

RestoreSteps ==
  \/ BackupIsDamaged
  \/ CopyForRollback
  \/ StageDatabase
  \/ StageEnvironment
  \/ park_database_sidecars
  \/ ReplaceDatabase
  \/ ReplaceEnvironment
  \/ QuickCheck
  \/ RestoreFails
  \/ UndoDatabase
  \/ UndoEnvironment
  \/ UndoSidecars
  \/ UndoFails
  \/ FinishRestore
  \/ FinishFails

\* KeyboardInterrupt is no Exception: only the finally clause runs, and what
\* is left of that does not if this is what it interrupts.
RestoreInterrupted ==
  IF restore.pc = "finally"
  THEN [NoRestore EXCEPT !.result = "interrupted"]
  ELSE [restore EXCEPT !.pc = "finally", !.result = "interrupted"]

\* SIGKILL, or the host goes down.
RestoreKilled == IF Restoring THEN NoRestore ELSE restore

-----------------------------------------------------------------------------
(* Properties                                                              *)

\* The journal of one database never stands beside another one, and no copy
\* that quick_check would refuse comes into place: with two steps that raise,
\* interrupts, and a restore that is killed anywhere.
NoForeignJournal == Logical(db, wal) # Mixed

\* Until a restore has succeeded - so wherever it is killed - what was there
\* before is in the database, or in it with the journal that was moved aside,
\* or in the rollback copy.  (Not after an interrupt: the finally clause
\* removes the copy.)
PreviousContentIsKept ==
  /\ Restoring /\ restore.result \in {None, "failed"}
  /\ restore.before # None /\ faults <= 1
  => restore.before \in
       {Logical(db, wal),
        IF restore.replaced THEN None ELSE Logical(db, restore.parked),
        IF restore.copy = None THEN None ELSE restore.copy.content}

\* A restore one of whose steps raised (lines 980 to 1109) has changed nothing,
\* unless its handler raised as well: the content of the database, whatever
\* part of it was in the journal, and the environment are those from before.
\* This is not so where the finally clause raises after a success or after an
\* interrupt: that restore is reported as failed and is not undone.
FailedRestoreChangesNothing ==
  [][restore.pc = "finally" /\ restore.result = "failed" /\ restore'.pc = "idle" /\ faults <= 1
       => /\ Logical(db, wal)' = restore.before
          /\ env' = restore.env_before]_<<files, restore>>

\* A restore that has succeeded has put in place, without any journal, each
\* part of the set as it was when the set was verified: except the part that
\* was damaged between the verification and its copy, for the copy of the
\* database is checked by quick_check alone and that of the environment by
\* nothing.  Damage of one part never excuses the other, nor does damage
\* after the copy.
RestoredMeansBackup ==
  [][restore.pc = "finally" /\ restore.result = "ok" /\ restore'.pc = "idle"
       => /\ "database" \notin restore.late => Logical(db, wal)' = restore.set.content
          /\ "environment" \notin restore.late /\ restore.set.env # None
               => env' = restore.set.env]_<<files, restore>>
=============================================================================

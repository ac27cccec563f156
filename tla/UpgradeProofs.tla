---------------------------- MODULE UpgradeProofs ----------------------------
(***************************************************************************)
(* Theorems about the restore of a backup, and about the trees of the      *)
(* upgrade that may run it.  The inductive invariant says that a journal   *)
(* stands beside the database it was written for (FilesFit), that nobody   *)
(* else writes during a restore (OneWriter), and, for each position of the *)
(* restore and of the upgrade, where the previous content and the previous *)
(* tree are (RestoreFits, TreesFit).  VersionInv adds which version each   *)
(* part has, as long as one step has raised at most.                       *)
(***************************************************************************)
EXTENDS Upgrade, TLAPS

RestorePcs ==
  {"idle", "copy", "stage", "stage_env", "park", "replace", "replace_env", "check",
   "undo", "undo_env", "undo_wal", "finally"}

RestoreRecord ==
  [pc : RestorePcs, result : {None, "ok", "failed", "interrupted"},
   copy : Database \cup {None}, env_copy : Environment, parked : Database \cup {None},
   staged : Content \cup {None}, env_staged : Environment, set : BackupSet \cup {None},
   late : SUBSET {"database", "environment"},
   existed : BOOLEAN, env_existed : BOOLEAN, replaced : BOOLEAN, env_replaced : BOOLEAN,
   before : Content \cup {None, Mixed}, env_before : Environment]

RecoverPcs == {"recover_units", "recover_service", "recover_timer"}

RollbackPcs ==
  {"write_rollback", "rb_timer_stop", "rb_job_stop", "rb_service_stop", "rb_aside",
   "rb_place", "rb_units", "rb_restore", "rb_restoring", "rb_service", "rb_timer",
   "rb_clean"}

UpRecord ==
  [pc : TrySteps \cup RecoverPcs \cup RollbackPcs
        \cup {"idle", "switched", "finally", "end", "dead"},
   result : {None, "success", "failed", "interrupted"},
   deployed : BOOLEAN, switched : BOOLEAN, errors : BOOLEAN, between : BOOLEAN]

StoreTypes ==
  /\ db \in Database \cup {None}
  /\ wal \in Database \cup {None}
  /\ env \in Environment
  /\ backup \in BackupSet \cup {None}
  /\ restore \in RestoreRecord
  /\ faults \in Nat

TypeOK == StoreTypes /\ up \in UpRecord

\* A journal belongs to a file.
Paired(file, log) ==
  log # None => file \in Database /\ log \in Database /\ file.lineage = log.lineage

\* A set is damaged by a step that counts as a fault.
FilesFit ==
  /\ Paired(db, wal)
  /\ backup \in BackupSet /\ ~(backup.sound /\ backup.content # Mixed) => faults >= 1

OneWriter == Upgrading /\ Restoring => up.pc = "rb_restoring"

-----------------------------------------------------------------------------
(* The restore, position by position                                       *)

SetFits ==
  /\ restore.set \in BackupSet /\ restore.set.content \in Content
  /\ backup \in BackupSet /\ (backup.env = None <=> restore.set.env = None)
  /\ restore.existed <=> restore.before # None
  /\ restore.env_existed <=> restore.env_before # None
  /\ restore.before # Mixed

\* What is copied, and what was copied, is what was verified, unless it was
\* damaged in between.
Copying ==
  /\ restore.pc \in {"copy", "stage"} /\ "database" \notin restore.late
       => backup.content = restore.set.content
  /\ restore.pc \in {"copy", "stage", "stage_env"} /\ "environment" \notin restore.late
       => backup.env = restore.set.env
  /\ restore.pc \in {"stage_env", "park", "replace"}
       => /\ restore.staged \in Content
          /\ "database" \notin restore.late => restore.staged = restore.set.content
  /\ restore.pc \in {"park", "replace", "replace_env"} /\ restore.set.env # None
       /\ "environment" \notin restore.late
       => restore.env_staged = restore.set.env

\* The content from before is in the file with its journal, wherever this is.
Back ==
  \/ restore.parked = None /\ Logical(db, wal) = restore.before
  \/ /\ wal = None /\ Paired(db, restore.parked)
     /\ Logical(db, restore.parked) = restore.before

\* The rollback copy holds it, and the parked journal fits the copy.
CopyKept ==
  /\ restore.existed =>
       /\ restore.copy \in Database /\ restore.copy.content = restore.before
       /\ restore.parked # None => /\ restore.parked.lineage = restore.copy.lineage
                                   /\ restore.parked.content = restore.before
  /\ ~restore.existed => restore.parked = None

\* The copies before the database is replaced.
Copied ==
  /\ restore.existed => /\ restore.copy \in Database
                        /\ restore.copy.content = restore.before
                        /\ restore.copy.lineage = db.lineage
  /\ restore.set.env # None => restore.env_copy = restore.env_before

Untouched ==
  /\ ~restore.replaced /\ ~restore.env_replaced
  /\ env = restore.env_before /\ Back

Replaced ==
  /\ restore.replaced /\ wal = None
  /\ db \in Database
  /\ "database" \notin restore.late => db.content = restore.set.content
  /\ CopyKept

EnvironmentKept ==
  IF restore.env_replaced
  THEN restore.env_existed => restore.env_copy = restore.env_before
  ELSE env = restore.env_before

AtCopy == Untouched /\ restore.parked = None

AtStage == AtCopy /\ Copied

AtReplace ==
  /\ Untouched /\ Copied /\ wal = None
  /\ Paired(db, restore.parked) /\ Logical(db, restore.parked) = restore.before

AtReplaceEnv ==
  /\ Replaced /\ ~restore.env_replaced /\ restore.set.env # None
  /\ env = restore.env_before /\ restore.env_copy = restore.env_before

AtCheck ==
  /\ Replaced /\ EnvironmentKept
  /\ "environment" \notin restore.late /\ restore.set.env # None
       => env = restore.set.env

AtUndo ==
  /\ EnvironmentKept
  /\ IF restore.replaced THEN wal = None /\ CopyKept ELSE Back

AtUndoEnv ==
  /\ EnvironmentKept /\ Back
  /\ restore.replaced => Logical(db, wal) = restore.before

AtUndoWal ==
  /\ env = restore.env_before /\ Back
  /\ restore.replaced => Logical(db, wal) = restore.before

AtFinally ==
  /\ restore.result \in {"ok", "failed", "interrupted"}
  /\ restore.result = "ok" =>
       /\ db \in Database /\ wal = None
       /\ "database" \notin restore.late => db.content = restore.set.content
       /\ "environment" \notin restore.late /\ restore.set.env # None
            => env = restore.set.env
  /\ restore.result = "failed" /\ faults =< 1 =>
       Logical(db, wal) = restore.before /\ env = restore.env_before

Results ==
  /\ restore.pc \in {"copy", "stage", "stage_env", "park", "replace", "replace_env",
                    "check"}
       => restore.result = None
  /\ restore.pc \in {"undo", "undo_env", "undo_wal"}
       => restore.result = "failed" /\ faults >= 1

At ==
  /\ restore.pc = "copy" => AtCopy
  /\ restore.pc \in {"stage", "stage_env", "park"} => AtStage
  /\ restore.pc = "replace" => AtReplace
  /\ restore.pc = "replace_env" => AtReplaceEnv
  /\ restore.pc = "check" => AtCheck
  /\ restore.pc = "undo" => AtUndo
  /\ restore.pc = "undo_env" => AtUndoEnv
  /\ restore.pc = "undo_wal" => AtUndoWal
  /\ restore.pc = "finally" => AtFinally

RestoreFits == Restoring => SetFits /\ Copying /\ Results /\ At

-----------------------------------------------------------------------------
(* The trees, position by position                                         *)

TreesFit ==
  /\ up.pc \in {"idle", "backup", "transaction", "build", "switching", "stop_timer",
                "stop_job", "stop_service", "units", "aside"}
       => tree = "old" /\ ~up.switched
  /\ up.pc \in {"place", "unplace"} => rollback_root = "old" /\ ~up.switched
  /\ up.pc = "switched" => rollback_root = "old"
  /\ up.pc \in {"validating", "start", "health", "timer", "postflight", "write_rollback",
                "rb_timer_stop", "rb_job_stop", "rb_service_stop", "rb_aside", "rb_place"}
       => rollback_root = "old" /\ up.switched
  /\ up.pc \in {"rb_units", "rb_restore", "rb_restoring", "rb_service", "rb_timer",
                "rb_clean"}
       => "old" \in {tree, rollback_root} /\ up.switched
  /\ up.pc \in RecoverPcs => (tree = "old" \/ up.between) /\ ~up.switched
  /\ up.pc = "finally" /\ up.result # "success" =>
       IF up.switched THEN "old" \in {tree, rollback_root} ELSE tree = "old" \/ up.between
  /\ up.pc \in {"end", "dead"} => PreviousTreeIsKept

FileInv == TypeOK /\ FilesFit /\ OneWriter /\ RestoreFits

IInv == FileInv /\ TreesFit
-----------------------------------------------------------------------------
(* Who writes the files, the set and the restore                           *)

LEMMA LogicalIsContent ==
  ASSUME StoreTypes, FilesFit, db # None
  PROVE  Logical(db, wal) \in Content /\ db \in Database
  BY BackupAssumption DEF StoreTypes, FilesFit, Paired, Logical, Database

Commits ==
  /\ db # None /\ db' = db
  /\ \E c \in Content : wal' = File(db.lineage, c)

Checkpoints ==
  /\ db # None /\ db' = File(db.lineage, Logical(db, wal)) /\ wal' = None

FaultsGrow == faults' \in {faults, faults + 1}

WritesFiles ==
  /\ ~Restoring /\ (Commits \/ Checkpoints)
  /\ FaultsGrow /\ UNCHANGED <<env, backup, restore>>

LeavesStore == FaultsGrow /\ UNCHANGED stored

LEMMA Starts ==
  ASSUME StoreTypes, FilesFit, StartService
  PROVE  Commits
<1>1. Logical(db, wal) \in Content
  BY LogicalIsContent DEF StartService, CanStart
<1>2. [Logical(db, wal) EXCEPT !.schema = IF tree = "new" THEN "new" ELSE @] \in Content
  BY <1>1 DEF Content
<1> QED
  BY <1>2 DEF StartService, CanStart, Commits

LEMMA Stops ==
  ASSUME StopJob \/ StopService
  PROVE  UNCHANGED <<db, wal>> \/ Checkpoints
  BY DEF StopJob, StopService, Checkpointed, Checkpoints

LEMMA Writes ==
  ASSUME StoreTypes, FilesFit, Write
  PROVE  WritesFiles
<1>1. Logical(db, wal) \in Content
  BY LogicalIsContent DEF Write
<1>2. [Logical(db, wal) EXCEPT !.data = @ + 1] \in Content
  BY <1>1 DEF Content
<1> QED
  BY <1>2 DEF Write, Commits, WritesFiles, FaultsGrow

\* A step of an upgrade that writes the files runs while no restore does.
LEMMA UpgradeWrites ==
  ASSUME StoreTypes, FilesFit, OneWriter, Upgrading,
         up.pc \notin {"rb_restoring", "finally"},
         FaultsGrow, UNCHANGED <<backup, restore>>,
         StartService \/ StopJob \/ StopService \/ UNCHANGED files
  PROVE  WritesFiles \/ LeavesStore
<1>1. ~Restoring
  BY DEF OneWriter
<1>2. CASE StartService
  BY <1>1, <1>2, Starts DEF WritesFiles, StartService
<1>3. CASE StopJob \/ StopService
  BY <1>1, <1>3, Stops DEF WritesFiles, LeavesStore, stored, files, StopJob, StopService
<1>4. CASE UNCHANGED files
  BY <1>4 DEF LeavesStore, stored
<1> QED
  BY <1>2, <1>3, <1>4

\* Everything that a step can do to the files, the set and the restore.
LEMMA Kinds ==
  ASSUME TypeOK, FilesFit, OneWriter, [Next]_vars
  PROVE  \/ LeavesStore
         \/ WritesFiles
         \/ ~Restoring /\ create_backup /\ UNCHANGED faults
         \/ ~Restoring /\ BeginRestore /\ UNCHANGED <<files, backup, faults>>
         \/ RestoreSteps
         \/ /\ Restoring /\ restore' \in {RestoreInterrupted, RestoreKilled}
            /\ UNCHANGED <<files, backup, faults>>
         \/ ~Restoring /\ env' = 1 /\ UNCHANGED <<db, wal, backup, restore, faults>>
<1> DEFINE Kind ==
         \/ LeavesStore
         \/ WritesFiles
         \/ ~Restoring /\ create_backup /\ UNCHANGED faults
         \/ ~Restoring /\ BeginRestore /\ UNCHANGED <<files, backup, faults>>
         \/ RestoreSteps
         \/ /\ Restoring /\ restore' \in {RestoreInterrupted, RestoreKilled}
            /\ UNCHANGED <<files, backup, faults>>
         \/ ~Restoring /\ env' = 1 /\ UNCHANGED <<db, wal, backup, restore, faults>>
<1> USE DEF TypeOK
<1>1. CASE Write
  BY <1>1, Writes
<1>2. CASE JobEnds
  <2>1. ~Restoring /\ (UNCHANGED <<db, wal>> \/ Checkpoints)
    BY <1>2, Stops DEF JobEnds
  <2>2. FaultsGrow /\ UNCHANGED <<env, backup, restore>>
    BY <1>2 DEF JobEnds, StopJob, FaultsGrow
  <2> QED
    BY <2>1, <2>2 DEF WritesFiles, LeavesStore, stored, files
<1>3. CASE \/ JobStarts \/ BeginUpgrade \/ BeginTransaction \/ Build \/ BeginDeployment
           \/ InstallTargetUnits \/ PutAside \/ PlaceNewTree \/ PutBack \/ Switched
           \/ WriteValidating \/ Healthy \/ StartTimer \/ Succeeded \/ FinishUpgrade
  BY <1>3 DEF JobStarts, BeginUpgrade, BeginTransaction, Build, BeginDeployment,
       InstallTargetUnits, PutAside, PlaceNewTree, PutBack, Switched,
       WriteValidating, Healthy, StartTimer, Succeeded, FinishUpgrade,
       LeavesStore, FaultsGrow
<1>4. CASE BackUp
  BY <1>4 DEF BackUp, Step, OneWriter, Upgrading
<1>5. CASE StopUnits
  <2>1. Upgrading /\ up.pc \notin {"rb_restoring", "finally"}
    BY <1>5 DEF StopUnits, Step, Upgrading
  <2>2. /\ FaultsGrow /\ UNCHANGED <<backup, restore>>
        /\ StopJob \/ StopService \/ UNCHANGED files
    BY <1>5 DEF StopUnits, FaultsGrow
  <2> QED
    BY <2>1, <2>2, UpgradeWrites
<1>6. CASE StartTarget
  <2>1. Upgrading /\ up.pc \notin {"rb_restoring", "finally"}
    BY <1>6 DEF StartTarget, Step, Upgrading
  <2>2. FaultsGrow /\ UNCHANGED <<backup, restore>> /\ StartService
    BY <1>6 DEF StartTarget, FaultsGrow
  <2> QED
    BY <2>1, <2>2, UpgradeWrites
<1>7. CASE UpgradeFails
  <2>1. Upgrading /\ up.pc \notin {"rb_restoring", "finally"}
    BY <1>7 DEF UpgradeFails, TrySteps, Upgrading
  <2>2. FaultsGrow /\ UNCHANGED <<backup, restore>> /\ (StartService \/ UNCHANGED files)
    BY <1>7 DEF UpgradeFails, FaultsGrow, Fault
  <2> QED
    BY <2>1, <2>2, UpgradeWrites
<1>8. ASSUME NEW pc \in {"recover_units", "rb_units"}, NEW next, RecoverUnits(pc, next)
      PROVE  Kind
  BY <1>8 DEF RecoverUnits, Noted, Fault, LeavesStore, FaultsGrow
<1>9. ASSUME NEW pc \in {"recover_service", "rb_service"}, NEW next, RecoverService(pc, next)
      PROVE  Kind
  <2>1. Upgrading /\ up.pc \notin {"rb_restoring", "finally"}
    BY <1>9 DEF RecoverService, Step, Noted, Upgrading
  <2>2. FaultsGrow /\ UNCHANGED <<backup, restore>> /\ (StartService \/ UNCHANGED files)
    BY <1>9 DEF RecoverService, FaultsGrow, Noted, Fault
  <2> QED
    BY <2>1, <2>2, UpgradeWrites
<1>10. ASSUME NEW pc, NEW next, RecoverTimer(pc, next) PROVE Kind
  BY <1>10 DEF RecoverTimer, Noted, Fault, LeavesStore, FaultsGrow
<1>11. CASE recover_before_switch
  BY <1>8, <1>9, <1>10, <1>11 DEF recover_before_switch
<1>12. CASE WriteRollback \/ RollbackTree \/ RollbackRestored \/ RemoveFailedTree
  BY <1>12 DEF WriteRollback, RollbackTree, RollbackRestored, RemoveFailedTree, Noted,
       Fault, LeavesStore, FaultsGrow
<1>13. CASE StopForRollback
  <2>1. Upgrading /\ up.pc \notin {"rb_restoring", "finally"}
    BY <1>13 DEF StopForRollback, Step, Noted, Upgrading
  <2>2. /\ FaultsGrow /\ UNCHANGED <<backup, restore>>
        /\ StopJob \/ StopService \/ UNCHANGED files
    BY <1>13 DEF StopForRollback, FaultsGrow, Noted, Fault
  <2> QED
    BY <2>1, <2>2, UpgradeWrites
<1>14. CASE RollbackDatabase
  <2>1. ~Restoring
    BY <1>14 DEF RollbackDatabase, Step, OneWriter, Upgrading
  <2> QED
    BY <1>14, <2>1 DEF RollbackDatabase, LeavesStore, FaultsGrow, stored
<1>15. CASE rollback
  BY <1>8, <1>9, <1>10, <1>12, <1>13, <1>14, <1>15 DEF rollback
<1>16. CASE RestoreSteps
  BY <1>16
<1>17. CASE Interrupt \/ Kill
  BY <1>17 DEF Interrupt, Kill, FinishInterrupted, RestoreKilled, LeavesStore, FaultsGrow,
       stored
<1>18. CASE OperatorStops
  <2>1. ~Restoring /\ (UNCHANGED <<db, wal>> \/ Checkpoints)
    BY <1>18, Stops DEF OperatorStops
  <2>2. FaultsGrow /\ UNCHANGED <<env, backup, restore>>
    BY <1>18 DEF OperatorStops, StopService, FaultsGrow
  <2> QED
    BY <2>1, <2>2 DEF WritesFiles, LeavesStore, stored, files
<1>19. CASE OperatorStarts
  BY <1>19, Starts DEF OperatorStarts, StartService, WritesFiles, FaultsGrow
<1>20. CASE OperatorBacksUp
  BY <1>20 DEF OperatorBacksUp
<1>21. CASE OperatorRestores
  BY <1>21 DEF OperatorRestores, BeginRestore
<1>22. CASE OperatorEditsEnvironment
  BY <1>22 DEF OperatorEditsEnvironment
<1>23. CASE UNCHANGED vars
  BY <1>23 DEF vars, LeavesStore, FaultsGrow
<1> QED
  BY <1>1, <1>2, <1>3, <1>4, <1>5, <1>6, <1>7, <1>11, <1>15, <1>16, <1>17, <1>18,
     <1>19, <1>20, <1>21, <1>22, <1>23 DEF Next
-----------------------------------------------------------------------------
(* Outside a restore, and where it begins                                  *)

StoreInv == StoreTypes /\ FilesFit /\ RestoreFits

LEMMA StoreLeft ==
  ASSUME StoreInv, LeavesStore
  PROVE  StoreInv'
<1>1. /\ db' = db /\ wal' = wal /\ env' = env /\ backup' = backup /\ restore' = restore
      /\ faults' \in Nat /\ faults' >= faults /\ faults \in Nat
  BY DEF LeavesStore, FaultsGrow, stored, files, StoreInv, StoreTypes
<1>2. StoreTypes' /\ FilesFit'
  BY <1>1 DEF StoreInv, StoreTypes, FilesFit, Paired
<1>3. (Results => Results') /\ (Copying => Copying')
  BY <1>1 DEF Results, Copying
<1>4. AtFinally => AtFinally'
  BY <1>1 DEF AtFinally, Logical
<1>5. /\ SetFits => SetFits'
      /\ AtCopy => AtCopy'
      /\ AtStage => AtStage'
      /\ AtReplace => AtReplace'
      /\ AtReplaceEnv => AtReplaceEnv'
      /\ AtCheck => AtCheck'
      /\ AtUndo => AtUndo'
      /\ AtUndoEnv => AtUndoEnv'
      /\ AtUndoWal => AtUndoWal'
  BY <1>1 DEF SetFits, AtCopy, AtStage, AtReplace, AtReplaceEnv, AtCheck, AtUndo,
       AtUndoEnv, AtUndoWal, Untouched, Copied, Replaced, CopyKept, EnvironmentKept, Back,
       Paired, Logical
<1>6. RestoreFits'
  BY <1>1, <1>3, <1>4, <1>5 DEF StoreInv, RestoreFits, At, Restoring
<1> QED
  BY <1>2, <1>6 DEF StoreInv

LEMMA FilesWritten ==
  ASSUME StoreInv, WritesFiles
  PROVE  StoreInv'
<1>1. Logical(db, wal) \in Content /\ db \in Database
  BY LogicalIsContent DEF StoreInv, WritesFiles, Commits, Checkpoints
<1>2. CASE Commits
  <2>1. PICK c \in Content : db' = db /\ wal' = File(db.lineage, c)
    BY <1>2 DEF Commits
  <2>2. wal' \in Database /\ wal'.lineage = db.lineage
    BY <1>1, <2>1 DEF File, Database
  <2> QED
    BY <1>1, <2>1, <2>2 DEF StoreInv, StoreTypes, FilesFit, Paired, RestoreFits,
         WritesFiles, Restoring, FaultsGrow
<1>3. CASE Checkpoints
  <2>1. db' \in Database /\ wal' = None
    BY <1>1, <1>3 DEF Checkpoints, File, Database
  <2> QED
    BY <2>1 DEF StoreInv, StoreTypes, FilesFit, Paired, RestoreFits,
         WritesFiles, Restoring, FaultsGrow
<1> QED
  BY <1>2, <1>3 DEF WritesFiles

LEMMA SetCreated ==
  ASSUME StoreInv, ~Restoring, create_backup, UNCHANGED faults
  PROVE  StoreInv'
<1>1. Logical(db, wal) \in Content
  BY LogicalIsContent DEF StoreInv, create_backup
<1>2. backup' \in BackupSet /\ backup'.content # Mixed /\ backup'.sound
  BY <1>1, BackupAssumption DEF create_backup, BackupSet, StoreInv, StoreTypes, Environment
<1> QED
  BY <1>2 DEF StoreInv, StoreTypes, FilesFit, Paired, RestoreFits, create_backup, files,
       Restoring

LEMMA EnvironmentEdited ==
  ASSUME StoreInv, ~Restoring, env' = 1, UNCHANGED <<db, wal, backup, restore, faults>>
  PROVE  StoreInv'
  BY DEF StoreInv, StoreTypes, FilesFit, Paired, RestoreFits, Restoring, Environment

LEMMA LogicalCases ==
  ASSUME StoreTypes, FilesFit
  PROVE  /\ Logical(db, wal) \in Content \cup {None}
         /\ Logical(db, wal) = None <=> db = None
  BY LogicalIsContent, BackupAssumption DEF Logical

LEMMA RestoreBegun ==
  ASSUME StoreInv, BeginRestore, UNCHANGED <<files, backup, faults>>
  PROVE  StoreInv'
<1>1. /\ restore'.pc = "copy" /\ restore'.result = None /\ restore'.parked = None
      /\ restore'.set = backup /\ restore'.existed = (db # None)
      /\ restore'.env_existed = (env # None) /\ restore'.before = Logical(db, wal)
      /\ restore'.env_before = env /\ ~restore'.replaced /\ ~restore'.env_replaced
  BY DEF BeginRestore, NoRestore
<1>2. backup \in BackupSet /\ backup.content \in Content
  BY DEF BeginRestore, verify_backup, StoreInv, StoreTypes, BackupSet
<1>3. Logical(db, wal) \in Content \cup {None} /\ (Logical(db, wal) = None <=> db = None)
  BY LogicalCases DEF StoreInv
<1>4. restore' \in RestoreRecord
  <2>1. NoRestore \in RestoreRecord
    BY DEF NoRestore, RestoreRecord, RestorePcs, Environment
  <2>2. (db # None) \in BOOLEAN /\ (env # None) \in BOOLEAN
    OBVIOUS
  <2>3. env \in Environment
    BY DEF StoreInv, StoreTypes
  <2>4. "copy" \in RestorePcs
    BY DEF RestorePcs
  <2> HIDE DEF NoRestore, Environment, RestorePcs
  <2> QED
    BY <1>2, <1>3, <2>1, <2>2, <2>3, <2>4 DEF BeginRestore, RestoreRecord
<1>5. db' = db /\ wal' = wal /\ env' = env /\ backup' = backup /\ faults' = faults
  BY DEF files
<1>6. SetFits'
  BY <1>1, <1>2, <1>3, <1>5, BackupAssumption DEF SetFits
<1>7. Results' /\ Copying' /\ AtCopy'
  BY <1>1, <1>5 DEF Results, Copying, AtCopy, Untouched, Back
<1> QED
  BY <1>1, <1>4, <1>5, <1>6, <1>7
     DEF StoreInv, StoreTypes, FilesFit, Paired, RestoreFits, At

LEMMA Forgotten ==
  ASSUME StoreInv, NEW result \in {None, "ok", "failed", "interrupted"},
         restore' = NoRestore \/ restore' = [NoRestore EXCEPT !.result = result],
         UNCHANGED files, UNCHANGED backup, faults' \in Nat, faults' >= faults
  PROVE  StoreInv'
<1>1. restore' \in RestoreRecord /\ restore'.pc = "idle"
  <2>1. NoRestore \in RestoreRecord /\ NoRestore.pc = "idle"
    BY DEF NoRestore, RestoreRecord, RestorePcs, Environment
  <2> HIDE DEF NoRestore
  <2> QED
    BY <2>1 DEF RestoreRecord
<1> QED
  BY <1>1 DEF StoreInv, StoreTypes, FilesFit, Paired, RestoreFits, Restoring, files

LEMMA RestoreStopped ==
  ASSUME StoreInv, Restoring, restore' \in {RestoreInterrupted, RestoreKilled},
         UNCHANGED <<files, backup, faults>>
  PROVE  StoreInv'
<1>0. /\ db' = db /\ wal' = wal /\ env' = env /\ backup' = backup /\ faults' = faults
      /\ faults \in Nat
  BY DEF files, StoreInv, StoreTypes
<1>1. restore \in RestoreRecord /\ StoreTypes /\ FilesFit /\ RestoreFits
  BY DEF StoreInv, StoreTypes
<1>2. CASE restore' = NoRestore
  BY <1>0, <1>2, Forgotten DEF files
<1>3. CASE restore' = [NoRestore EXCEPT !.result = "interrupted"]
  BY <1>0, <1>3, Forgotten DEF files
<1>4. CASE restore' = [restore EXCEPT !.pc = "finally", !.result = "interrupted"]
  <2>1. /\ restore' \in RestoreRecord /\ restore'.pc = "finally"
        /\ restore'.result = "interrupted" /\ restore'.set = restore.set
        /\ restore'.existed = restore.existed /\ restore'.env_existed = restore.env_existed
        /\ restore'.before = restore.before /\ restore'.env_before = restore.env_before
    BY <1>1, <1>4 DEF RestoreRecord, RestorePcs
  <2>2. SetFits'
    BY <1>0, <1>1, <2>1 DEF RestoreFits, SetFits
  <2>3. AtFinally' /\ Results' /\ Copying'
    BY <2>1 DEF AtFinally, Results, Copying
  <2> QED
    BY <1>0, <1>1, <2>1, <2>2, <2>3
       DEF StoreInv, StoreTypes, FilesFit, Paired, RestoreFits, At
<1> QED
  BY <1>2, <1>3, <1>4 DEF RestoreInterrupted, RestoreKilled
-----------------------------------------------------------------------------
(* The steps of a restore                                                  *)

\* Fields that no step of a restore writes.
SameGoal ==
  /\ restore'.set = restore.set /\ restore'.existed = restore.existed
  /\ restore'.env_existed = restore.env_existed /\ restore'.before = restore.before
  /\ restore'.env_before = restore.env_before /\ restore'.late = restore.late

SameCopies ==
  /\ restore'.copy = restore.copy /\ restore'.env_copy = restore.env_copy
  /\ restore'.parked = restore.parked /\ restore'.replaced = restore.replaced
  /\ restore'.env_replaced = restore.env_replaced

SameFiles == db' = db /\ wal' = wal /\ env' = env

\* What is left to show of a step, once its types are known.
LEMMA StepOfRestore ==
  ASSUME StoreInv, Restoring, SameGoal, backup' = backup, faults' \in Nat,
         faults' >= faults, restore' \in RestoreRecord,
         db' \in Database \cup {None}, wal' \in Database \cup {None}, env' \in Environment,
         Paired(db, wal)', Restoring' => Copying' /\ Results' /\ At'
  PROVE  StoreInv'
<1>1. SetFits
  BY DEF StoreInv, RestoreFits
<1>2. SetFits'
  BY <1>1 DEF SetFits, SameGoal
<1>3. StoreTypes' /\ FilesFit'
  BY DEF StoreInv, StoreTypes, FilesFit
<1> QED
  BY <1>2, <1>3 DEF StoreInv, RestoreFits, At

LEMMA Facts ==
  ASSUME StoreInv, Restoring
  PROVE  /\ restore \in RestoreRecord /\ SetFits /\ Copying /\ Results /\ Paired(db, wal)
         /\ db \in Database \cup {None} /\ wal \in Database \cup {None}
         /\ env \in Environment /\ backup \in BackupSet /\ faults \in Nat
         /\ Logical(db, wal) \in Content \cup {None}
         /\ Logical(db, wal) = None <=> db = None
  BY LogicalCases DEF StoreInv, StoreTypes, FilesFit, RestoreFits, SetFits

LEMMA Copies == ASSUME StoreInv, CopyForRollback PROVE StoreInv'
<1> USE DEF CopyForRollback, Goes
<1>1. Restoring
  BY DEF Restoring
<1>2. AtCopy
  BY <1>1 DEF StoreInv, RestoreFits, At
<1> DEFINE copied == IF db = None THEN None ELSE File(db.lineage, Logical(db, wal))
<1> DEFINE env_copied == IF restore.set.env # None THEN env ELSE None
<1>3. copied \in Database \cup {None} /\ env_copied \in Environment
  BY <1>1, Facts DEF File, Database, Environment
<1>4. restore' = [restore EXCEPT !.pc = "stage", !.copy = copied, !.env_copy = env_copied]
  OBVIOUS
<1>5. restore.existed => /\ copied \in Database
                         /\ copied.content = restore.before /\ copied.lineage = db.lineage
  <2>1. SUFFICES ASSUME restore.existed
                 PROVE  copied \in Database /\ copied.content = restore.before
                        /\ copied.lineage = db.lineage
    OBVIOUS
  <2>2. restore.before # None /\ Logical(db, wal) = restore.before
    BY <1>1, <1>2, <2>1, Facts, BackupAssumption
       DEF SetFits, AtCopy, Untouched, Back, Logical
  <2>3. db # None
    BY <1>1, <2>2, Facts
  <2> QED
    BY <1>1, <1>3, <2>2, <2>3, Facts DEF File, Database
<1>6. restore.set.env # None => env_copied = restore.env_before
  BY <1>1, <1>2, Facts DEF SetFits, AtCopy, Untouched
<1> HIDE DEF copied, env_copied
<1>7. /\ restore' \in RestoreRecord /\ SameGoal /\ restore'.pc = "stage"
      /\ restore'.copy = copied /\ restore'.env_copy = env_copied
      /\ restore'.parked = restore.parked /\ restore'.result = restore.result
      /\ restore'.replaced = restore.replaced
      /\ restore'.env_replaced = restore.env_replaced
  <2>1. restore \in RestoreRecord /\ "stage" \in RestorePcs
    BY <1>1, Facts DEF RestorePcs
  <2> HIDE DEF CopyForRollback, Goes
  <2>2. restore' \in RestoreRecord
    BY <1>3, <1>4, <2>1 DEF RestoreRecord
  <2> QED
    BY <1>4, <2>1, <2>2 DEF RestoreRecord, SameGoal
<1>8. SameFiles
  BY DEF SameFiles, files
<1>9. AtStage'
  BY <1>2, <1>5, <1>6, <1>7, <1>8
     DEF AtStage, AtCopy, Untouched, Copied, Back, SameGoal, SameFiles, Paired, Logical
<1>10. Results' /\ Copying'
  BY <1>1, <1>7, Facts DEF Results, Copying, SameGoal
<1> QED
  BY <1>1, <1>7, <1>8, <1>9, <1>10, Facts, StepOfRestore DEF At, SameFiles, Paired

LEMMA StagesDatabase == ASSUME StoreInv, StageDatabase PROVE StoreInv'
<1> USE DEF StageDatabase, Goes
<1>1. Restoring
  BY DEF Restoring
<1>2. AtStage
  BY <1>1 DEF StoreInv, RestoreFits, At
<1>3. SameFiles
  BY DEF SameFiles, files
<1>4. CASE backup.content = Mixed
  <2>1. restore' = [restore EXCEPT !.pc = "undo", !.result = "failed"]
    BY <1>4
  <2>2. /\ restore' \in RestoreRecord /\ SameGoal /\ SameCopies
        /\ restore'.pc = "undo" /\ restore'.result = "failed"
    BY <1>1, <2>1, Facts DEF RestoreRecord, RestorePcs, SameGoal, SameCopies
  <2>3. AtUndo'
    BY <1>2, <1>3, <2>2 DEF AtUndo, AtStage, AtCopy, Untouched, EnvironmentKept, Back,
         SameGoal, SameCopies, SameFiles, Paired, Logical
  <2>4. Results' /\ Copying'
    BY <1>1, <1>4, <2>2, Facts DEF Results, Copying, StoreInv, FilesFit
  <2> QED
    BY <1>1, <1>3, <2>2, <2>3, <2>4, Facts, StepOfRestore DEF At, SameFiles, Paired
<1>5. CASE backup.content # Mixed
  <2> DEFINE next == IF restore.set.env # None THEN "stage_env" ELSE "park"
  <2>1. restore' = [restore EXCEPT !.staged = backup.content, !.pc = next]
    BY <1>5
  <2>2. backup.content \in Content
    BY <1>1, <1>5, Facts DEF BackupSet
  <2>3. next \in {"stage_env", "park"} /\ (next = "stage_env" <=> restore.set.env # None)
    OBVIOUS
  <2> HIDE DEF next
  <2>4. /\ restore' \in RestoreRecord /\ SameGoal /\ SameCopies
        /\ restore'.pc = next /\ restore'.result = restore.result
        /\ restore'.staged = backup.content
    BY <1>1, <2>1, <2>2, <2>3, Facts DEF RestoreRecord, RestorePcs, SameGoal, SameCopies
  <2>5. AtStage'
    BY <1>2, <1>3, <2>4 DEF AtStage, AtCopy, Untouched, Copied, Back,
         SameGoal, SameCopies, SameFiles, Paired, Logical
  <2>6. Results' /\ Copying'
    BY <1>1, <2>2, <2>3, <2>4, Facts DEF Results, Copying, SameGoal
  <2> QED
    BY <1>1, <1>3, <2>3, <2>4, <2>5, <2>6, Facts, StepOfRestore DEF At, SameFiles, Paired
<1> QED
  BY <1>4, <1>5

LEMMA StagesEnvironment == ASSUME StoreInv, StageEnvironment PROVE StoreInv'
<1> USE DEF StageEnvironment, Goes
<1>1. Restoring
  BY DEF Restoring
<1>2. AtStage
  BY <1>1 DEF StoreInv, RestoreFits, At
<1>3. SameFiles
  BY DEF SameFiles, files
<1>4. restore' = [restore EXCEPT !.pc = "park", !.env_staged = backup.env]
  OBVIOUS
<1>5. backup.env \in Environment
  BY <1>1, Facts DEF BackupSet
<1>6. /\ restore' \in RestoreRecord /\ SameGoal /\ SameCopies
      /\ restore'.pc = "park" /\ restore'.result = restore.result
      /\ restore'.staged = restore.staged /\ restore'.env_staged = backup.env
  BY <1>1, <1>4, <1>5, Facts DEF RestoreRecord, RestorePcs, SameGoal, SameCopies
<1>7. AtStage'
  BY <1>2, <1>3, <1>6 DEF AtStage, AtCopy, Untouched, Copied, Back,
       SameGoal, SameCopies, SameFiles, Paired, Logical
<1>8. Results' /\ Copying'
  BY <1>1, <1>6, Facts DEF Results, Copying, SameGoal
<1> QED
  BY <1>1, <1>3, <1>6, <1>7, <1>8, Facts, StepOfRestore DEF At, SameFiles, Paired

\* Damage changes the set and notes what is late: nothing else.
LEMMA DamageIs ==
  ASSUME StoreInv, BackupIsDamaged
  PROVE  /\ SameFiles /\ faults \in Nat /\ faults' = faults + 1
         /\ backup \in BackupSet /\ backup' \in BackupSet
         /\ backup'.env = None <=> backup.env = None
         /\ \E late \in SUBSET {"database", "environment"} :
              /\ restore' = [restore EXCEPT !.late = late]
              /\ restore.late \subseteq late
              /\ restore.pc \in {"copy", "stage"} /\ "database" \notin late
                   => backup'.content = backup.content
              /\ restore.pc \in {"copy", "stage", "stage_env"} /\ "environment" \notin late
                   => backup'.env = backup.env
<1>1. /\ SameFiles /\ backup \in BackupSet /\ restore.late \in SUBSET {"database", "environment"}
      /\ faults \in Nat /\ faults' = faults + 1
  BY DEF BackupIsDamaged, SameFiles, files, Fault, StoreInv, StoreTypes, RestoreRecord
<1>2. CASE /\ backup.content # Mixed
           /\ \E content \in {Mixed, [backup.content EXCEPT !.altered = @ + 1]} :
                backup' = [backup EXCEPT !.content = content, !.sound = FALSE]
           /\ restore' = [restore EXCEPT !.late =
                            IF restore.pc \in {"copy", "stage"}
                            THEN @ \cup {"database"} ELSE @]
  <2>1. backup.content \in Content /\ [backup.content EXCEPT !.altered = @ + 1] \in Content
    BY <1>1, <1>2 DEF BackupSet, Content
  <2>2. backup' \in BackupSet /\ backup'.env = backup.env
    BY <1>1, <1>2, <2>1 DEF BackupSet
  <2> DEFINE late == IF restore.pc \in {"copy", "stage"}
                     THEN restore.late \cup {"database"} ELSE restore.late
  <2>3. restore' = [restore EXCEPT !.late = late]
    BY <1>2
  <2>4. /\ late \in SUBSET {"database", "environment"} /\ restore.late \subseteq late
        /\ restore.pc \in {"copy", "stage"} => "database" \in late
    BY <1>1
  <2> HIDE DEF late
  <2> QED
    BY <1>1, <2>2, <2>3, <2>4
<1>3. CASE /\ backup.env # None
           /\ backup' = [backup EXCEPT !.env = @ + 2, !.sound = FALSE]
           /\ restore' = [restore EXCEPT !.late =
                            IF restore.pc \in {"copy", "stage", "stage_env"}
                            THEN @ \cup {"environment"} ELSE @]
  <2>1. backup.env + 2 \in Nat
    BY <1>1, <1>3 DEF BackupSet, Environment
  <2>2. backup' \in BackupSet /\ backup'.env # None /\ backup'.content = backup.content
    BY <1>1, <1>3, <2>1, BackupAssumption DEF BackupSet, Environment
  <2> DEFINE late == IF restore.pc \in {"copy", "stage", "stage_env"}
                     THEN restore.late \cup {"environment"} ELSE restore.late
  <2>3. restore' = [restore EXCEPT !.late = late]
    BY <1>3
  <2>4. /\ late \in SUBSET {"database", "environment"} /\ restore.late \subseteq late
        /\ restore.pc \in {"copy", "stage", "stage_env"} => "environment" \in late
    BY <1>1
  <2> HIDE DEF late
  <2> QED
    BY <1>1, <1>3, <2>2, <2>3, <2>4
<1> QED
  BY <1>2, <1>3 DEF BackupIsDamaged

LEMMA Damages == ASSUME StoreInv, BackupIsDamaged PROVE StoreInv'
<1>1. /\ db' = db /\ wal' = wal /\ env' = env /\ faults \in Nat /\ faults' = faults + 1
      /\ backup \in BackupSet /\ backup' \in BackupSet
      /\ backup'.env = None <=> backup.env = None
  BY DamageIs DEF SameFiles
<1>2. PICK late \in SUBSET {"database", "environment"} :
        /\ restore' = [restore EXCEPT !.late = late]
        /\ restore.late \subseteq late
        /\ restore.pc \in {"copy", "stage"} /\ "database" \notin late
             => backup'.content = backup.content
        /\ restore.pc \in {"copy", "stage", "stage_env"} /\ "environment" \notin late
             => backup'.env = backup.env
  BY DamageIs
<1>3. restore \in RestoreRecord
  BY DEF StoreInv, StoreTypes
<1>4. /\ restore' \in RestoreRecord /\ restore'.late = late /\ restore'.pc = restore.pc
      /\ restore'.result = restore.result /\ restore'.set = restore.set
      /\ restore'.existed = restore.existed /\ restore'.env_existed = restore.env_existed
      /\ restore'.before = restore.before /\ restore'.env_before = restore.env_before
      /\ restore'.staged = restore.staged /\ restore'.env_staged = restore.env_staged
      /\ SameCopies
  BY <1>2, <1>3 DEF RestoreRecord, SameCopies
<1>5. StoreTypes' /\ FilesFit'
  BY <1>1, <1>4 DEF StoreInv, StoreTypes, FilesFit, Paired
<1>6. RestoreFits'
  <2> SUFFICES ASSUME Restoring PROVE SetFits' /\ Copying' /\ Results' /\ At'
    BY <1>4 DEF RestoreFits, Restoring
  <2>1. SetFits'
    BY <1>1, <1>4 DEF StoreInv, RestoreFits, SetFits
  <2>2. Results'
    BY <1>1, <1>4 DEF StoreInv, RestoreFits, Results
  <2>3. Copying'
    BY <1>1, <1>2, <1>4 DEF StoreInv, RestoreFits, Copying
  <2>4. AtFinally => AtFinally'
    BY <1>1, <1>2, <1>4 DEF AtFinally, Logical
  <2>5. /\ AtCopy => AtCopy'
        /\ AtStage => AtStage'
        /\ AtReplace => AtReplace'
        /\ AtReplaceEnv => AtReplaceEnv'
        /\ AtCheck => AtCheck'
        /\ AtUndo => AtUndo'
        /\ AtUndoEnv => AtUndoEnv'
        /\ AtUndoWal => AtUndoWal'
    BY <1>1, <1>2, <1>4 DEF SameCopies, AtCopy, AtStage, AtReplace, AtReplaceEnv, AtCheck,
         AtUndo, AtUndoEnv, AtUndoWal, Untouched, Copied, Replaced, CopyKept,
         EnvironmentKept, Back, Paired, Logical
  <2> QED
    BY <1>4, <2>1, <2>2, <2>3, <2>4, <2>5 DEF StoreInv, RestoreFits, At
<1> QED
  BY <1>5, <1>6 DEF StoreInv

LEMMA Parks == ASSUME StoreInv, park_database_sidecars PROVE StoreInv'
<1> USE DEF park_database_sidecars, Goes
<1>1. Restoring
  BY DEF Restoring
<1>2. AtStage
  BY <1>1 DEF StoreInv, RestoreFits, At
<1>3. restore' = [restore EXCEPT !.pc = "replace", !.parked = wal]
  OBVIOUS
<1>4. /\ restore' \in RestoreRecord /\ SameGoal
      /\ restore'.pc = "replace" /\ restore'.result = restore.result
      /\ restore'.copy = restore.copy /\ restore'.env_copy = restore.env_copy
      /\ restore'.parked = wal /\ restore'.replaced = restore.replaced
      /\ restore'.env_replaced = restore.env_replaced /\ restore'.staged = restore.staged
      /\ restore'.env_staged = restore.env_staged
  BY <1>1, <1>3, Facts DEF RestoreRecord, RestorePcs, SameGoal
<1>5. Logical(db, wal) = restore.before
  BY <1>2 DEF AtStage, AtCopy, Untouched, Back, Logical
<1>6. db' = db /\ wal' = None /\ env' = env
  OBVIOUS
<1>7. Logical(db', restore'.parked) = restore'.before /\ Paired(db', restore'.parked)
  BY <1>1, <1>4, <1>5, <1>6, Facts DEF SameGoal, Logical, Paired
<1>8. AtReplace'
  BY <1>2, <1>4, <1>6, <1>7
     DEF AtReplace, AtStage, AtCopy, Untouched, Copied, Back, SameGoal
<1>9. Results' /\ Copying'
  BY <1>1, <1>4, Facts DEF Results, Copying, SameGoal
<1> QED
  BY <1>1, <1>4, <1>6, <1>8, <1>9, Facts, StepOfRestore DEF At, Paired

LEMMA Replaces == ASSUME StoreInv, ReplaceDatabase PROVE StoreInv'
<1> USE DEF ReplaceDatabase, Goes
<1>1. Restoring
  BY DEF Restoring
<1>2. AtReplace
  BY <1>1 DEF StoreInv, RestoreFits, At
<1> DEFINE next == IF restore.set.env # None THEN "replace_env" ELSE "check"
<1>3. restore' = [restore EXCEPT !.replaced = TRUE, !.pc = next]
  OBVIOUS
<1>4. next \in RestorePcs /\ next \in {"replace_env", "check"}
      /\ (next = "replace_env" <=> restore.set.env # None)
  BY <1>1, Facts DEF RestorePcs, SetFits
<1> HIDE DEF next
<1>5. /\ restore' \in RestoreRecord /\ SameGoal
      /\ restore'.pc = next /\ restore'.result = restore.result
      /\ restore'.copy = restore.copy /\ restore'.env_copy = restore.env_copy
      /\ restore'.parked = restore.parked /\ restore'.replaced = TRUE
      /\ restore'.env_replaced = restore.env_replaced
      /\ restore'.env_staged = restore.env_staged
  BY <1>1, <1>3, <1>4, Facts DEF RestoreRecord, SameGoal
<1>6. wal' = None /\ env' = env
  BY <1>2 DEF AtReplace
<1>7. /\ db' \in Database
      /\ "database" \notin restore.late => db'.content = restore.set.content
  <2>1. /\ restore.staged \in Content
        /\ "database" \notin restore.late => restore.staged = restore.set.content
    BY <1>1, Facts DEF Copying
  <2>2. db # None => db.lineage + 1 \in Nat
    BY <1>1, Facts DEF Database
  <2> QED
    BY <2>1, <2>2 DEF File, Database
<1>8. CopyKept
  <2>1. Logical(db, restore.parked) = restore.before /\ Paired(db, restore.parked)
    BY <1>2 DEF AtReplace
  <2>2. restore.existed => /\ restore.copy \in Database
                           /\ restore.copy.content = restore.before
                           /\ restore.copy.lineage = db.lineage
    BY <1>2 DEF AtReplace, Copied
  <2>3. restore.parked # None => db # None /\ restore.parked.lineage = db.lineage
    BY <2>1, BackupAssumption DEF Paired
  <2>4. restore.parked # None => restore.parked.content = restore.before
    BY <2>1, <2>3 DEF Logical
  <2>5. restore.parked # None => restore.existed
    <3>1. restore.parked # None => restore.parked.content \in Content
      BY <2>1 DEF Paired, Database
    <3> QED
      BY <1>1, <2>4, <3>1, Facts, BackupAssumption DEF SetFits
  <2> QED
    BY <2>2, <2>3, <2>4, <2>5 DEF CopyKept
<1>9. Replaced'
  BY <1>5, <1>6, <1>7, <1>8 DEF Replaced, CopyKept, SameGoal
<1>10. ~restore.env_replaced /\ env = restore.env_before
       /\ (restore.set.env # None => restore.env_copy = restore.env_before)
  BY <1>2 DEF AtReplace, Untouched, Copied
<1>11. CASE next = "replace_env"
  <2>1. AtReplaceEnv'
    BY <1>4, <1>5, <1>6, <1>9, <1>10, <1>11 DEF AtReplaceEnv, SameGoal
  <2>2. Results' /\ Copying'
    BY <1>1, <1>5, <1>11, Facts DEF Results, Copying, SameGoal
  <2> QED
    BY <1>1, <1>5, <1>6, <1>7, <1>11, <2>1, <2>2, Facts, StepOfRestore DEF At, Paired
<1>12. CASE next = "check"
  <2>1. AtCheck'
    BY <1>4, <1>5, <1>6, <1>9, <1>10, <1>12 DEF AtCheck, EnvironmentKept, SameGoal
  <2>2. Results' /\ Copying'
    BY <1>1, <1>5, <1>12, Facts DEF Results, Copying, SameGoal
  <2> QED
    BY <1>1, <1>5, <1>6, <1>7, <1>12, <2>1, <2>2, Facts, StepOfRestore DEF At, Paired
<1> QED
  BY <1>4, <1>11, <1>12

LEMMA ReplacesEnvironment == ASSUME StoreInv, ReplaceEnvironment PROVE StoreInv'
<1> USE DEF ReplaceEnvironment, Goes
<1>1. Restoring
  BY DEF Restoring
<1>2. AtReplaceEnv
  BY <1>1 DEF StoreInv, RestoreFits, At
<1>3. restore' = [restore EXCEPT !.pc = "check", !.env_replaced = TRUE]
  OBVIOUS
<1>4. /\ restore' \in RestoreRecord /\ SameGoal
      /\ restore'.pc = "check" /\ restore'.result = restore.result
      /\ restore'.copy = restore.copy /\ restore'.env_copy = restore.env_copy
      /\ restore'.parked = restore.parked /\ restore'.replaced = restore.replaced
      /\ restore'.env_replaced = TRUE
  BY <1>1, <1>3, Facts DEF RestoreRecord, RestorePcs, SameGoal
<1>5. /\ db' = db /\ wal' = wal /\ env' = restore.env_staged /\ env' \in Environment
      /\ "environment" \notin restore.late => env' = restore.set.env
  BY <1>1, <1>2, Facts DEF Copying, RestoreRecord, AtReplaceEnv
<1>6. AtCheck'
  BY <1>2, <1>4, <1>5
     DEF AtCheck, AtReplaceEnv, Replaced, CopyKept, EnvironmentKept, SameGoal
<1>7. Results' /\ Copying'
  BY <1>1, <1>4, Facts DEF Results, Copying
<1> QED
  BY <1>1, <1>4, <1>5, <1>6, <1>7, Facts, StepOfRestore DEF At, Paired

LEMMA Checks == ASSUME StoreInv, QuickCheck PROVE StoreInv'
<1> USE DEF QuickCheck, Goes
<1>1. Restoring
  BY DEF Restoring
<1>2. AtCheck
  BY <1>1 DEF StoreInv, RestoreFits, At
<1>3. restore' = [restore EXCEPT !.pc = "finally", !.result = "ok"]
  BY <1>1, Facts, BackupAssumption
<1>4. /\ restore' \in RestoreRecord /\ SameGoal
      /\ restore'.pc = "finally" /\ restore'.result = "ok"
  BY <1>1, <1>3, Facts DEF RestoreRecord, RestorePcs, SameGoal
<1>5. SameFiles
  BY DEF SameFiles, files
<1>6. AtFinally' /\ Results' /\ Copying'
  BY <1>2, <1>4, <1>5 DEF AtFinally, Results, Copying, AtCheck, Replaced, SameGoal, SameFiles
<1> QED
  BY <1>1, <1>4, <1>5, <1>6, Facts, StepOfRestore DEF At, SameFiles, Paired

LEMMA Fails == ASSUME StoreInv, RestoreFails PROVE StoreInv'
<1> USE DEF RestoreFails
<1>1. Restoring
  BY DEF Restoring
<1>2. restore' = [restore EXCEPT !.pc = "undo", !.result = "failed"]
  OBVIOUS
<1>3. /\ restore' \in RestoreRecord /\ SameGoal /\ SameCopies
      /\ restore'.pc = "undo" /\ restore'.result = "failed"
  BY <1>1, <1>2, Facts DEF RestoreRecord, RestorePcs, SameGoal, SameCopies
<1>4. SameFiles /\ backup' = backup /\ faults \in Nat /\ faults' = faults + 1
  BY <1>1, Facts DEF SameFiles, files, Fault
<1>5. Results' /\ Copying'
  BY <1>3, <1>4 DEF Results, Copying
<1>6. AtUndo
  <2>1. CASE restore.pc = "copy"
    BY <1>1, <2>1 DEF StoreInv, RestoreFits, At, AtCopy, Untouched, AtUndo, EnvironmentKept
  <2>2. CASE restore.pc \in {"stage", "stage_env", "park"}
    BY <1>1, <2>2 DEF StoreInv, RestoreFits, At, AtStage, AtCopy, Untouched, AtUndo,
         EnvironmentKept
  <2>4. CASE restore.pc = "replace"
    BY <1>1, <2>4 DEF StoreInv, RestoreFits, At, AtReplace, Untouched, AtUndo,
         EnvironmentKept
  <2>5. CASE restore.pc = "replace_env"
    BY <1>1, <2>5 DEF StoreInv, RestoreFits, At, AtReplaceEnv, Replaced, AtUndo,
         EnvironmentKept
  <2>6. CASE restore.pc = "check"
    BY <1>1, <2>6 DEF StoreInv, RestoreFits, At, AtCheck, Replaced, AtUndo
  <2> QED
    BY <2>1, <2>2, <2>4, <2>5, <2>6
<1>7. AtUndo'
  BY <1>3, <1>4, <1>6 DEF AtUndo, EnvironmentKept, CopyKept, Back, Paired, Logical,
       SameGoal, SameCopies, SameFiles
<1> QED
  BY <1>1, <1>3, <1>4, <1>5, <1>7, Facts, StepOfRestore DEF At, SameFiles, Paired

LEMMA UndoesDatabase == ASSUME StoreInv, UndoDatabase PROVE StoreInv'
<1> USE DEF UndoDatabase, Goes
<1>1. Restoring
  BY DEF Restoring
<1>2. AtUndo /\ Results
  BY <1>1 DEF StoreInv, RestoreFits, At
<1> DEFINE copy == IF restore.replaced THEN None ELSE restore.copy
<1>3. restore' = [restore EXCEPT !.pc = "undo_env", !.copy = copy]
  OBVIOUS
<1>4. copy \in Database \cup {None}
  BY <1>1, Facts DEF RestoreRecord
<1> HIDE DEF copy
<1>5. /\ restore' \in RestoreRecord /\ SameGoal
      /\ restore'.pc = "undo_env" /\ restore'.result = restore.result
      /\ restore'.env_copy = restore.env_copy
      /\ restore'.parked = restore.parked /\ restore'.replaced = restore.replaced
      /\ restore'.env_replaced = restore.env_replaced
  BY <1>1, <1>3, <1>4, Facts DEF RestoreRecord, RestorePcs, SameGoal
<1>6. wal' = wal /\ env' = env
  OBVIOUS
<1>7. Results' /\ Copying'
  BY <1>2, <1>5 DEF Results, Copying
<1>8. EnvironmentKept'
  BY <1>2, <1>5, <1>6 DEF AtUndo, EnvironmentKept, SameGoal
<1>9. CASE ~restore.replaced
  <2>1. db' = db
    BY <1>9
  <2>2. AtUndoEnv'
    BY <1>2, <1>5, <1>6, <1>8, <1>9, <2>1
       DEF AtUndo, AtUndoEnv, Back, Paired, Logical, SameGoal
  <2> QED
    BY <1>1, <1>5, <1>6, <1>7, <2>1, <2>2, Facts, StepOfRestore DEF At, Paired
<1>10. CASE restore.replaced /\ restore.existed
  <2>1. db' = restore.copy /\ wal' = None
    BY <1>2, <1>6, <1>10 DEF AtUndo
  <2>2. db' \in Database /\ db'.content = restore.before /\ db' # None
    BY <1>2, <1>10, <2>1, BackupAssumption DEF AtUndo, CopyKept
  <2>3. Logical(db', None) = restore.before
    BY <2>2 DEF Logical
  <2>4. Paired(db', restore.parked) /\ Logical(db', restore.parked) = restore.before
    BY <1>1, <1>2, <1>10, <2>1, <2>2, Facts
       DEF AtUndo, CopyKept, Paired, Logical, RestoreRecord
  <2>5. AtUndoEnv'
    BY <1>5, <1>8, <2>1, <2>3, <2>4 DEF AtUndoEnv, Back, SameGoal
  <2> QED
    BY <1>1, <1>5, <1>6, <1>7, <2>1, <2>2, <2>5, Facts, StepOfRestore DEF At, Paired
<1>11. CASE restore.replaced /\ ~restore.existed
  <2>1. db' = None /\ wal' = None /\ restore.parked = None
    BY <1>2, <1>6, <1>11 DEF AtUndo, CopyKept
  <2>2. restore.before = None
    BY <1>1, <1>11, Facts DEF SetFits
  <2>3. AtUndoEnv'
    BY <1>5, <1>8, <2>1, <2>2 DEF AtUndoEnv, Back, Logical, SameGoal
  <2> QED
    BY <1>1, <1>5, <1>6, <1>7, <2>1, <2>3, Facts, StepOfRestore DEF At, Paired
<1> QED
  BY <1>1, <1>9, <1>10, <1>11, Facts DEF RestoreRecord

LEMMA UndoesEnvironment == ASSUME StoreInv, UndoEnvironment PROVE StoreInv'
<1> USE DEF UndoEnvironment, Goes
<1>1. Restoring
  BY DEF Restoring
<1>2. AtUndoEnv /\ Results
  BY <1>1 DEF StoreInv, RestoreFits, At
<1> DEFINE env_copy == IF restore.env_replaced THEN None ELSE restore.env_copy
<1>3. restore' = [restore EXCEPT !.pc = "undo_wal", !.env_copy = env_copy]
  OBVIOUS
<1>4. env_copy \in Environment
  BY <1>1, Facts DEF RestoreRecord, Environment
<1> HIDE DEF env_copy
<1>5. /\ restore' \in RestoreRecord /\ SameGoal
      /\ restore'.pc = "undo_wal" /\ restore'.result = restore.result
      /\ restore'.parked = restore.parked /\ restore'.replaced = restore.replaced
  BY <1>1, <1>3, <1>4, Facts DEF RestoreRecord, RestorePcs, SameGoal
<1>6. db' = db /\ wal' = wal
  OBVIOUS
<1>7. env' = restore.env_before /\ env' \in Environment
  BY <1>1, <1>2, Facts DEF AtUndoEnv, EnvironmentKept, SetFits, RestoreRecord
<1>8. AtUndoWal' /\ Results' /\ Copying'
  BY <1>2, <1>5, <1>6, <1>7
     DEF AtUndoEnv, AtUndoWal, Results, Copying, Back, Paired, Logical, SameGoal
<1> QED
  BY <1>1, <1>5, <1>6, <1>7, <1>8, Facts, StepOfRestore DEF At, Paired

LEMMA UndoesSidecars == ASSUME StoreInv, UndoSidecars PROVE StoreInv'
<1> USE DEF UndoSidecars, Goes
<1>1. Restoring
  BY DEF Restoring
<1>2. AtUndoWal /\ Results
  BY <1>1 DEF StoreInv, RestoreFits, At
<1>3. restore' = [restore EXCEPT !.pc = "finally", !.parked = None]
  OBVIOUS
<1>4. /\ restore' \in RestoreRecord /\ SameGoal
      /\ restore'.pc = "finally" /\ restore'.result = "failed"
  BY <1>1, <1>2, <1>3, Facts DEF RestoreRecord, RestorePcs, SameGoal, Results
<1>5. db' = db /\ env' = env
  OBVIOUS
<1>6. Logical(db', wal') = restore.before /\ Paired(db, wal)' /\ wal' \in Database \cup {None}
  <2>1. CASE restore.parked = None
    BY <1>1, <1>2, <1>5, <2>1, Facts DEF AtUndoWal, Back, Paired
  <2>2. CASE restore.parked # None
    BY <1>1, <1>2, <1>5, <2>2, Facts DEF AtUndoWal, Back, Paired
  <2> QED
    BY <2>1, <2>2
<1>7. AtFinally' /\ Results' /\ Copying'
  BY <1>2, <1>4, <1>5, <1>6 DEF AtUndoWal, AtFinally, Results, Copying, SameGoal
<1> QED
  BY <1>1, <1>4, <1>5, <1>6, <1>7, Facts, StepOfRestore DEF At

LEMMA HandlerFails == ASSUME StoreInv, UndoFails PROVE StoreInv'
<1> USE DEF UndoFails
<1>1. Restoring
  BY DEF Restoring
<1>2. Results
  BY <1>1 DEF StoreInv, RestoreFits
<1>3. restore' = [restore EXCEPT !.pc = "finally"]
  OBVIOUS
<1>4. /\ restore' \in RestoreRecord /\ SameGoal
      /\ restore'.pc = "finally" /\ restore'.result = "failed"
  BY <1>1, <1>2, <1>3, Facts DEF RestoreRecord, RestorePcs, SameGoal, Results
<1>5. SameFiles /\ backup' = backup /\ faults \in Nat /\ faults' = faults + 1 /\ faults >= 1
  BY <1>1, <1>2, Facts DEF SameFiles, files, Fault, Results
<1>6. AtFinally' /\ Results' /\ Copying'
  BY <1>4, <1>5 DEF AtFinally, Results, Copying
<1> QED
  BY <1>1, <1>4, <1>5, <1>6, Facts, StepOfRestore DEF At, SameFiles, Paired

LEMMA Finishes == ASSUME StoreInv, FinishRestore \/ FinishFails PROVE StoreInv'
<1>1. Restoring
  BY DEF FinishRestore, FinishFails, Goes, Restoring
<1>2. restore.result \in {None, "ok", "failed", "interrupted"} /\ faults \in Nat
  BY <1>1, Facts DEF RestoreRecord
<1>3. PICK result \in {restore.result, "failed"} :
        restore' = [NoRestore EXCEPT !.result = result]
  BY DEF FinishRestore, FinishFails
<1>4. UNCHANGED files /\ UNCHANGED backup /\ faults' \in Nat /\ faults' >= faults
  BY <1>2 DEF FinishRestore, FinishFails, Goes, Fault
<1> QED
  BY <1>2, <1>3, <1>4, Forgotten

LEMMA StoreKept ==
  TypeOK /\ FilesFit /\ OneWriter /\ RestoreFits /\ [Next]_vars => StoreInv'
<1> SUFFICES ASSUME TypeOK, FilesFit, OneWriter, RestoreFits, [Next]_vars PROVE StoreInv'
  OBVIOUS
<1>1. StoreInv
  BY DEF StoreInv, TypeOK
<1>2. CASE RestoreSteps
  BY <1>1, <1>2, Copies, StagesDatabase, StagesEnvironment, Damages, Parks, Replaces, ReplacesEnvironment, Checks,
     Fails, UndoesDatabase, UndoesEnvironment, UndoesSidecars, HandlerFails, Finishes
     DEF RestoreSteps
<1> QED
  BY <1>1, <1>2, Kinds, StoreLeft, FilesWritten, SetCreated, RestoreBegun, RestoreStopped,
     EnvironmentEdited
-----------------------------------------------------------------------------
(* The upgrade                                                             *)

\* What is to be shown of each step of the upgrade.
UpgradeInv == up \in UpRecord /\ TreesFit /\ OneWriter

Pcs == TrySteps \cup RecoverPcs \cup RollbackPcs
       \cup {"idle", "switched", "finally", "end", "dead"}

\* While no restore runs for it, the upgrade moves on, and none begins.
LEMMA Advance ==
  ASSUME UpgradeInv, NEW next \in Pcs, up' = [up EXCEPT !.pc = next],
         up.pc \notin {"rb_restoring", "finally", "idle", "end", "dead"}, UNCHANGED restore
  PROVE  /\ up' \in UpRecord /\ OneWriter' /\ up'.pc = next
         /\ up'.result = up.result /\ up'.switched = up.switched /\ up'.between = up.between
<1>1. /\ up' \in UpRecord /\ up'.pc = next
      /\ up'.result = up.result /\ up'.switched = up.switched /\ up'.between = up.between
  BY DEF UpgradeInv, UpRecord, Pcs
<1> QED
  BY <1>1 DEF UpgradeInv, OneWriter, Upgrading, Restoring

LEMMA AdvanceNoting ==
  ASSUME UpgradeInv, NEW next \in Pcs, up' = [up EXCEPT !.pc = next, !.errors = TRUE],
         up.pc \notin {"rb_restoring", "finally", "idle", "end", "dead"}, UNCHANGED restore
  PROVE  /\ up' \in UpRecord /\ OneWriter' /\ up'.pc = next
         /\ up'.result = up.result /\ up'.switched = up.switched /\ up'.between = up.between
<1>1. /\ up' \in UpRecord /\ up'.pc = next
      /\ up'.result = up.result /\ up'.switched = up.switched /\ up'.between = up.between
  BY DEF UpgradeInv, UpRecord, Pcs
<1> QED
  BY <1>1 DEF UpgradeInv, OneWriter, Upgrading, Restoring

LEMMA TreesKept ==
  ASSUME UpgradeInv, up' = up, UNCHANGED trees, Restoring' => Restoring
  PROVE  UpgradeInv'
  BY DEF UpgradeInv, TreesFit, trees, OneWriter, Upgrading, Restoring,
     PreviousTreeIsKept, Trees

\* The steps of the try.
LEMMA Forward ==
  ASSUME UpgradeInv,
         \/ BackUp \/ BeginTransaction \/ Build \/ StopUnits \/ InstallTargetUnits
         \/ PutAside \/ PlaceNewTree \/ PutBack \/ WriteValidating \/ StartTarget
         \/ Healthy \/ StartTimer
  PROVE  UpgradeInv'
<1> USE DEF Pcs, TrySteps, RecoverPcs
<1>1. CASE BackUp
  <2>1. /\ up.pc = "backup" /\ up' = [up EXCEPT !.pc = "transaction"]
        /\ UNCHANGED <<tree, rollback_root>> /\ UNCHANGED restore
    BY <1>1 DEF Step, BackUp, create_backup, trees
  <2>2. /\ up' \in UpRecord /\ OneWriter' /\ up'.pc = "transaction"
        /\ up'.result = up.result /\ up'.switched = up.switched /\ up'.between = up.between
    BY <2>1, Advance
  <2> QED
    BY <2>1, <2>2 DEF UpgradeInv, TreesFit
<1>2. CASE BeginTransaction
  <2>1. /\ up.pc = "transaction" /\ up' = [up EXCEPT !.pc = "build"]
        /\ UNCHANGED <<tree, rollback_root>> /\ UNCHANGED restore
    BY <1>2 DEF Step, BeginTransaction, stored
  <2>2. /\ up' \in UpRecord /\ OneWriter' /\ up'.pc = "build"
        /\ up'.result = up.result /\ up'.switched = up.switched /\ up'.between = up.between
    BY <2>1, Advance
  <2> QED
    BY <2>1, <2>2 DEF UpgradeInv, TreesFit
<1>3. CASE Build
  <2>1. /\ up.pc = "build" /\ up' = [up EXCEPT !.pc = "switching"]
        /\ UNCHANGED <<tree, rollback_root>> /\ UNCHANGED restore
    BY <1>3 DEF Step, Build, stored
  <2>2. /\ up' \in UpRecord /\ OneWriter' /\ up'.pc = "switching"
        /\ up'.result = up.result /\ up'.switched = up.switched /\ up'.between = up.between
    BY <2>1, Advance
  <2> QED
    BY <2>1, <2>2 DEF UpgradeInv, TreesFit
<1>4. CASE StopUnits
  <2>1. \E next \in {"stop_job", "stop_service", "units"} : up' = [up EXCEPT !.pc = next]
    BY <1>4 DEF Step, StopUnits
  <2>2. /\ up.pc \in {"stop_timer", "stop_job", "stop_service"}
        /\ UNCHANGED <<tree, rollback_root, restore>>
    BY <1>4 DEF Step, StopUnits, trees
  <2>3. /\ up' \in UpRecord /\ OneWriter'
        /\ up'.pc \in {"stop_job", "stop_service", "units"}
        /\ up'.result = up.result /\ up'.switched = up.switched /\ up'.between = up.between
    BY <2>1, <2>2, Advance
  <2> QED
    BY <2>2, <2>3 DEF UpgradeInv, TreesFit
<1>5. CASE InstallTargetUnits
  <2>1. /\ up.pc = "units" /\ up' = [up EXCEPT !.pc = "aside"]
        /\ UNCHANGED <<tree, rollback_root>> /\ UNCHANGED restore
    BY <1>5 DEF Step, InstallTargetUnits, stored, trees
  <2>2. /\ up' \in UpRecord /\ OneWriter' /\ up'.pc = "aside"
        /\ up'.result = up.result /\ up'.switched = up.switched /\ up'.between = up.between
    BY <2>1, Advance
  <2> QED
    BY <2>1, <2>2 DEF UpgradeInv, TreesFit
<1>6. CASE PutAside
  <2>1. /\ up.pc = "aside" /\ up' = [up EXCEPT !.pc = "place"]
        /\ rollback_root' = tree /\ UNCHANGED restore
    BY <1>6 DEF Step, PutAside, stored
  <2>2. /\ up' \in UpRecord /\ OneWriter' /\ up'.pc = "place"
        /\ up'.result = up.result /\ up'.switched = up.switched /\ up'.between = up.between
    BY <2>1, Advance
  <2> QED
    BY <2>1, <2>2 DEF UpgradeInv, TreesFit
<1>7. CASE PlaceNewTree
  <2>1. /\ up.pc = "place" /\ up' = [up EXCEPT !.pc = "switched"]
        /\ UNCHANGED rollback_root /\ UNCHANGED restore
    BY <1>7 DEF Step, PlaceNewTree, stored
  <2>2. /\ up' \in UpRecord /\ OneWriter' /\ up'.pc = "switched"
        /\ up'.result = up.result /\ up'.switched = up.switched /\ up'.between = up.between
    BY <2>1, Advance
  <2> QED
    BY <2>1, <2>2 DEF UpgradeInv, TreesFit
<1>8. CASE PutBack
  <2>1. /\ up.pc = "unplace" /\ up' = [up EXCEPT !.pc = "recover_units"]
        /\ tree' = rollback_root /\ UNCHANGED restore
    BY <1>8 DEF Step, PutBack, stored
  <2>2. /\ up' \in UpRecord /\ OneWriter' /\ up'.pc = "recover_units"
        /\ up'.result = up.result /\ up'.switched = up.switched /\ up'.between = up.between
    BY <2>1, Advance
  <2> QED
    BY <2>1, <2>2 DEF UpgradeInv, TreesFit
<1>9. CASE WriteValidating
  <2>1. /\ up.pc = "validating" /\ up' = [up EXCEPT !.pc = "start"]
        /\ UNCHANGED <<tree, rollback_root>> /\ UNCHANGED restore
    BY <1>9 DEF Step, WriteValidating, stored, trees
  <2>2. /\ up' \in UpRecord /\ OneWriter' /\ up'.pc = "start"
        /\ up'.result = up.result /\ up'.switched = up.switched /\ up'.between = up.between
    BY <2>1, Advance
  <2> QED
    BY <2>1, <2>2 DEF UpgradeInv, TreesFit
<1>10. CASE StartTarget
  <2>1. /\ up.pc = "start" /\ up' = [up EXCEPT !.pc = "health"]
        /\ UNCHANGED <<tree, rollback_root>> /\ UNCHANGED restore
    BY <1>10 DEF Step, StartTarget, trees
  <2>2. /\ up' \in UpRecord /\ OneWriter' /\ up'.pc = "health"
        /\ up'.result = up.result /\ up'.switched = up.switched /\ up'.between = up.between
    BY <2>1, Advance
  <2> QED
    BY <2>1, <2>2 DEF UpgradeInv, TreesFit
<1>11. CASE Healthy
  <2>1. /\ up.pc = "health" /\ up' = [up EXCEPT !.pc = "timer"]
        /\ UNCHANGED <<tree, rollback_root>> /\ UNCHANGED restore
    BY <1>11 DEF Step, Healthy, stored, trees
  <2>2. /\ up' \in UpRecord /\ OneWriter' /\ up'.pc = "timer"
        /\ up'.result = up.result /\ up'.switched = up.switched /\ up'.between = up.between
    BY <2>1, Advance
  <2> QED
    BY <2>1, <2>2 DEF UpgradeInv, TreesFit
<1>12. CASE StartTimer
  <2>1. /\ up.pc = "timer" /\ up' = [up EXCEPT !.pc = "postflight"]
        /\ UNCHANGED <<tree, rollback_root>> /\ UNCHANGED restore
    BY <1>12 DEF Step, StartTimer, stored, trees
  <2>2. /\ up' \in UpRecord /\ OneWriter' /\ up'.pc = "postflight"
        /\ up'.result = up.result /\ up'.switched = up.switched /\ up'.between = up.between
    BY <2>1, Advance
  <2> QED
    BY <2>1, <2>2 DEF UpgradeInv, TreesFit
<1> QED
  BY <1>1, <1>2, <1>3, <1>4, <1>5, <1>6, <1>7, <1>8, <1>9, <1>10, <1>11, <1>12

\* The steps that note what was reached.
LEMMA Marks ==
  ASSUME UpgradeInv, BeginUpgrade \/ BeginDeployment \/ Switched \/ Succeeded
  PROVE  UpgradeInv'
<1> USE DEF UpgradeInv, Pcs, TrySteps
<1>0. restore' = restore /\ tree' = tree /\ rollback_root' = rollback_root
  BY DEF BeginUpgrade, BeginDeployment, Switched, Succeeded, stored, trees
<1>1. CASE BeginUpgrade
  <2>1. up.pc = "idle" /\ up' = [up EXCEPT !.pc = "backup"] /\ ~Restoring
    BY <1>1 DEF BeginUpgrade
  <2>2. up' \in UpRecord /\ up'.pc = "backup" /\ up'.switched = up.switched
    BY <2>1 DEF UpRecord
  <2> QED
    BY <1>0, <2>1, <2>2 DEF TreesFit, OneWriter, Restoring, RecoverPcs
<1>2. CASE BeginDeployment
  <2>1. up.pc = "switching" /\ up' = [up EXCEPT !.pc = "stop_timer", !.deployed = TRUE]
    BY <1>2 DEF BeginDeployment
  <2>2. up' \in UpRecord /\ up'.pc = "stop_timer" /\ up'.switched = up.switched
    BY <2>1 DEF UpRecord
  <2> QED
    BY <1>0, <2>1, <2>2 DEF TreesFit, OneWriter, Upgrading, Restoring, RecoverPcs
<1>3. CASE Switched
  <2>1. up.pc = "switched" /\ up' = [up EXCEPT !.pc = "validating", !.switched = TRUE]
    BY <1>3 DEF Switched
  <2>2. up' \in UpRecord /\ up'.pc = "validating" /\ up'.switched
    BY <2>1 DEF UpRecord
  <2> QED
    BY <1>0, <2>1, <2>2 DEF TreesFit, OneWriter, Upgrading, Restoring, RecoverPcs
<1>4. CASE Succeeded
  <2>1. up.pc = "postflight" /\ up' = [up EXCEPT !.pc = "finally", !.result = "success"]
    BY <1>4 DEF Succeeded
  <2>2. up' \in UpRecord /\ up'.pc = "finally" /\ up'.result = "success"
    BY <2>1 DEF UpRecord
  <2> QED
    BY <1>0, <2>1, <2>2 DEF TreesFit, OneWriter, Upgrading, Restoring, RecoverPcs
<1> QED
  BY <1>1, <1>2, <1>3, <1>4

\* A step of the try raises.
LEMMA Raises == ASSUME UpgradeInv, UpgradeFails PROVE UpgradeInv'
<1> USE DEF UpgradeInv
<1> DEFINE next == Handler(up.pc)
<1>1. /\ up.pc \in TrySteps
      /\ up' = [up EXCEPT !.pc = next, !.result = "failed", !.errors = (up.pc = "unplace"),
                      !.between = (up.pc = "unplace")]
      /\ restore' = restore /\ tree' = tree /\ rollback_root' = rollback_root
  BY DEF UpgradeFails, trees
<1>2. /\ next \in {"end", "finally", "unplace", "recover_units", "write_rollback"}
      /\ next = "end" <=> up.pc \in {"backup", "transaction"}
      /\ next = "finally" <=> up.pc \in {"build", "switching"}
      /\ next = "unplace" <=> up.pc = "place"
      /\ next = "recover_units" => up.pc = "unplace" \/ (tree = "old" /\ ~up.switched)
      /\ next = "write_rollback" => up.pc \in {"validating", "start", "health", "timer",
                                               "postflight"}
  BY <1>1 DEF Handler, TrySteps, TreesFit
<1> HIDE DEF next
<1>3. /\ up' \in UpRecord /\ up'.pc = next /\ up'.result = "failed"
      /\ up'.switched = up.switched /\ up'.between = (up.pc = "unplace")
  BY <1>1, <1>2 DEF UpRecord, TrySteps, RecoverPcs, RollbackPcs
<1>4. OneWriter'
  BY <1>1, <1>3 DEF OneWriter, Upgrading, Restoring, TrySteps
<1>5. TreesFit'
  <2>1. CASE next = "end"
    BY <1>1, <1>2, <1>3, <2>1
       DEF TreesFit, RecoverPcs, PreviousTreeIsKept, Trees
  <2>2. CASE next = "finally"
    BY <1>1, <1>2, <1>3, <2>2 DEF TreesFit, RecoverPcs
  <2>3. CASE next = "unplace"
    BY <1>1, <1>2, <1>3, <2>3 DEF TreesFit, RecoverPcs
  <2>4. CASE next = "recover_units"
    BY <1>1, <1>2, <1>3, <2>4 DEF TreesFit, RecoverPcs
  <2>5. CASE next = "write_rollback"
    BY <1>1, <1>2, <1>3, <2>5 DEF TreesFit, RecoverPcs
  <2> QED
    BY <1>2, <2>1, <2>2, <2>3, <2>4, <2>5
<1> QED
  BY <1>3, <1>4, <1>5

\* A step that goes on whether it raised or not, and leaves the trees.
GoesOn(next) ==
  /\ up' = [up EXCEPT !.pc = next] \/ up' = [up EXCEPT !.pc = next, !.errors = TRUE]
  /\ UNCHANGED <<tree, rollback_root, restore>>

LEMMA GoesOnFrom ==
  ASSUME UpgradeInv, NEW next \in Pcs,
         up' = [up EXCEPT !.pc = next] \/ up' = [up EXCEPT !.pc = next, !.errors = TRUE],
         UNCHANGED <<tree, rollback_root, restore>>,
         up.pc \notin {"rb_restoring", "finally", "idle", "end", "dead"}
  PROVE  /\ up' \in UpRecord /\ OneWriter' /\ up'.pc = next
         /\ up'.result = up.result /\ up'.switched = up.switched
         /\ up'.between = up.between
  BY Advance, AdvanceNoting

LEMMA Recovers == ASSUME UpgradeInv, recover_before_switch PROVE UpgradeInv'
<1> USE DEF UpgradeInv, Pcs, RecoverPcs, GoesOn
<1>1. CASE RecoverUnits("recover_units", "recover_service")
  <2>1. up.pc = "recover_units" /\ GoesOn("recover_service")
    BY <1>1 DEF RecoverUnits, Step, Noted, trees, stored
  <2>2. /\ up' \in UpRecord /\ OneWriter' /\ up'.pc = "recover_service"
        /\ up'.result = up.result /\ up'.switched = up.switched
        /\ up'.between = up.between
    BY <2>1, GoesOnFrom
  <2> QED
    BY <2>1, <2>2 DEF TreesFit
<1>2. CASE RecoverService("recover_service", "recover_timer")
  <2>1. up.pc = "recover_service" /\ GoesOn("recover_timer")
    BY <1>2 DEF RecoverService, Step, Noted, trees
  <2>2. /\ up' \in UpRecord /\ OneWriter' /\ up'.pc = "recover_timer"
        /\ up'.result = up.result /\ up'.switched = up.switched
        /\ up'.between = up.between
    BY <2>1, GoesOnFrom
  <2> QED
    BY <2>1, <2>2 DEF TreesFit
<1>3. CASE RecoverTimer("recover_timer", "finally")
  <2>1. up.pc = "recover_timer" /\ GoesOn("finally")
    BY <1>3 DEF RecoverTimer, Step, Noted, trees, stored
  <2>2. /\ up' \in UpRecord /\ OneWriter' /\ up'.pc = "finally"
        /\ up'.result = up.result /\ up'.switched = up.switched
        /\ up'.between = up.between
    BY <2>1, GoesOnFrom
  <2> QED
    BY <2>1, <2>2 DEF TreesFit
<1> QED
  BY <1>1, <1>2, <1>3 DEF recover_before_switch

\* The rollback: the previous tree is aside until it is back in place.
LEMMA RollsBack == ASSUME UpgradeInv, rollback PROVE UpgradeInv'
<1> USE DEF UpgradeInv, Pcs, RecoverPcs, RollbackPcs
<1>1. CASE WriteRollback
  <2>1. /\ up.pc = "write_rollback"
        /\ \E next \in {"rb_timer_stop", "finally"} : GoesOn(next)
    BY <1>1 DEF WriteRollback, Step, Noted, trees, stored, GoesOn
  <2>2. /\ up' \in UpRecord /\ OneWriter' /\ up'.pc \in {"rb_timer_stop", "finally"}
        /\ up'.switched = up.switched
    BY <2>1, GoesOnFrom DEF GoesOn
  <2> QED
    BY <2>1, <2>2 DEF TreesFit, GoesOn
<1>2. CASE StopForRollback
  <2>1. /\ up.pc \in {"rb_timer_stop", "rb_job_stop", "rb_service_stop"}
        /\ \E next \in {"rb_job_stop", "rb_service_stop", "rb_aside"} : GoesOn(next)
    BY <1>2 DEF StopForRollback, Step, Noted, trees, GoesOn
  <2>2. /\ up' \in UpRecord /\ OneWriter'
        /\ up'.pc \in {"rb_job_stop", "rb_service_stop", "rb_aside"}
        /\ up'.switched = up.switched
    BY <2>1, GoesOnFrom DEF GoesOn
  <2> QED
    BY <2>1, <2>2 DEF TreesFit, GoesOn
<1>3. CASE RollbackTree
  <2>1. restore' = restore
    BY <1>3 DEF RollbackTree, stored
  <2>2. CASE up.pc = "rb_aside" /\ up' = [up EXCEPT !.pc = "rb_place"]
             /\ UNCHANGED rollback_root
    <3>1. up' \in UpRecord /\ OneWriter' /\ up'.pc = "rb_place" /\ up'.switched = up.switched
      BY <2>1, <2>2, Advance
    <3> QED
      BY <2>2, <3>1 DEF TreesFit
  <2>3. CASE up.pc = "rb_place" /\ up' = [up EXCEPT !.pc = "rb_units"]
             /\ tree' = rollback_root
    <3>1. up' \in UpRecord /\ OneWriter' /\ up'.pc = "rb_units" /\ up'.switched = up.switched
      BY <2>1, <2>3, Advance
    <3> QED
      BY <2>3, <3>1 DEF TreesFit
  <2>4. CASE up.pc \in {"rb_aside", "rb_place"} /\ GoesOn("rb_units")
    <3>1. up' \in UpRecord /\ OneWriter' /\ up'.pc = "rb_units" /\ up'.switched = up.switched
      BY <2>4, GoesOnFrom DEF GoesOn
    <3> QED
      BY <2>4, <3>1 DEF TreesFit, GoesOn
  <2> QED
    BY <1>3, <2>1, <2>2, <2>3, <2>4 DEF RollbackTree, Step, Noted, GoesOn
<1>4. CASE RecoverUnits("rb_units", "rb_restore")
  <2>1. up.pc = "rb_units" /\ GoesOn("rb_restore")
    BY <1>4 DEF RecoverUnits, Step, Noted, trees, stored, GoesOn
  <2>2. up' \in UpRecord /\ OneWriter' /\ up'.pc = "rb_restore" /\ up'.switched = up.switched
    BY <2>1, GoesOnFrom DEF GoesOn
  <2> QED
    BY <2>1, <2>2 DEF TreesFit, GoesOn
<1>5. CASE RollbackDatabase
  <2>1. up.pc = "rb_restore" /\ UNCHANGED <<tree, rollback_root>>
    BY <1>5 DEF RollbackDatabase, Step, trees
  <2>2. /\ up' \in UpRecord /\ up'.pc \in {"rb_restoring", "rb_service"}
        /\ up'.switched = up.switched
        /\ up'.pc = "rb_service" => restore' = restore
    BY <1>5 DEF RollbackDatabase, Step, UpRecord
  <2> QED
    BY <2>1, <2>2 DEF TreesFit, OneWriter, Upgrading, Restoring
<1>6. CASE RollbackRestored
  <2>1. /\ up.pc = "rb_restoring" /\ ~Restoring
        /\ UNCHANGED <<tree, rollback_root, restore>>
        /\ up' \in {[up EXCEPT !.pc = "finally", !.result = "interrupted"],
                   [up EXCEPT !.pc = "rb_service", !.errors = (@ \/ restore.result # "ok")]}
    BY <1>6 DEF RollbackRestored, trees, stored
  <2>2. up' \in UpRecord /\ up'.pc \in {"finally", "rb_service"} /\ up'.switched = up.switched
    BY <2>1 DEF UpRecord
  <2> QED
    BY <2>1, <2>2 DEF TreesFit, OneWriter, Restoring
<1>7. CASE RecoverService("rb_service", "rb_timer")
  <2>1. up.pc = "rb_service" /\ GoesOn("rb_timer")
    BY <1>7 DEF RecoverService, Step, Noted, trees, GoesOn
  <2>2. up' \in UpRecord /\ OneWriter' /\ up'.pc = "rb_timer" /\ up'.switched = up.switched
    BY <2>1, GoesOnFrom DEF GoesOn
  <2> QED
    BY <2>1, <2>2 DEF TreesFit, GoesOn
<1>8. CASE RecoverTimer("rb_timer", "rb_clean")
  <2>1. up.pc = "rb_timer" /\ GoesOn("rb_clean")
    BY <1>8 DEF RecoverTimer, Step, Noted, trees, stored, GoesOn
  <2>2. up' \in UpRecord /\ OneWriter' /\ up'.pc = "rb_clean" /\ up'.switched = up.switched
    BY <2>1, GoesOnFrom DEF GoesOn
  <2> QED
    BY <2>1, <2>2 DEF TreesFit, GoesOn
<1>9. CASE RemoveFailedTree
  <2>1. up.pc = "rb_clean" /\ GoesOn("finally")
    BY <1>9 DEF RemoveFailedTree, Step, stored, GoesOn
  <2>2. up' \in UpRecord /\ OneWriter' /\ up'.pc = "finally" /\ up'.switched = up.switched
    BY <2>1, GoesOnFrom DEF GoesOn
  <2> QED
    BY <2>1, <2>2 DEF TreesFit, GoesOn
<1> QED
  BY <1>1, <1>2, <1>3, <1>4, <1>5, <1>6, <1>7, <1>8, <1>9 DEF rollback

\* The finally clause removes the previous tree only where another one is
\* in place, or where the property makes its exception.
LEMMA FinallyRuns == ASSUME UpgradeInv, FinishUpgrade PROVE UpgradeInv'
<1> USE DEF UpgradeInv
<1>1. /\ up.pc = "finally" /\ up' = [up EXCEPT !.pc = "end"]
      /\ restore' = restore /\ tree' = tree
      /\ up.switched /\ up.result # "success" => rollback_root' = rollback_root
  BY DEF FinishUpgrade, Step, stored
<1>2. /\ up' \in UpRecord /\ up'.pc = "end"
      /\ up'.result = up.result /\ up'.switched = up.switched /\ up'.between = up.between
  BY <1>1 DEF UpRecord
<1>3. PreviousTreeIsKept'
  BY <1>1, <1>2 DEF TreesFit, PreviousTreeIsKept, Trees
<1> QED
  BY <1>1, <1>2, <1>3 DEF TreesFit, OneWriter, Upgrading, RecoverPcs

LEMMA TreeIsSomewhere ==
  ASSUME UpgradeInv PROVE PreviousTreeIsKept
  BY DEF UpgradeInv, UpRecord, TreesFit, TrySteps, RecoverPcs, RollbackPcs,
     PreviousTreeIsKept, Trees

LEMMA UpAnywhere ==
  ASSUME UpgradeInv, Upgrading
  PROVE  up.pc \in TrySteps \cup RecoverPcs \cup RollbackPcs \cup {"switched", "finally"}
  BY DEF UpgradeInv, UpRecord, Upgrading

LEMMA Interrupted == ASSUME UpgradeInv, Interrupt PROVE UpgradeInv'
<1> USE DEF UpgradeInv
<1>1. CASE Restoring
  <2>1. up.pc # "finally" /\ (Upgrading => up.pc = "rb_restoring")
    BY <1>1 DEF OneWriter, Upgrading
  <2>2. up' = up /\ UNCHANGED trees
    BY <1>1, <2>1 DEF Interrupt, FinishInterrupted, Step, trees
  <2> QED
    BY <1>1, <2>2, TreesKept
<1>2. CASE ~Restoring /\ up.pc # "finally"
  <2>1. Upgrading /\ UNCHANGED trees /\ restore' = restore
    BY <1>2 DEF Interrupt, FinishInterrupted, Step, trees
  <2> DEFINE next == IF up.pc \in {"backup", "transaction"} THEN "end" ELSE "finally"
             between == up.between \/ up.pc \in {"place", "unplace", "switched"}
  <2>2. up' = [up EXCEPT !.pc = next, !.result = "interrupted", !.between = between]
    BY <1>2 DEF Interrupt, FinishInterrupted, Step
  <2>3. next \in {"end", "finally"} /\ between \in BOOLEAN
    OBVIOUS
  <2>4. between <=> up.between \/ up.pc \in {"place", "unplace", "switched"}
    OBVIOUS
  <2>5. next = "end" <=> up.pc \in {"backup", "transaction"}
    OBVIOUS
  <2> HIDE DEF next, between
  <2>6. /\ up' \in UpRecord /\ up'.pc = next /\ up'.result = "interrupted"
        /\ up'.switched = up.switched /\ up'.between = between
    BY <2>2, <2>3 DEF UpRecord
  <2>7. CASE next = "end"
    BY <2>1, <2>5, <2>6, <2>7
       DEF TreesFit, RecoverPcs, OneWriter, Upgrading, PreviousTreeIsKept, Trees, trees
  <2>8. CASE next = "finally"
    <3>1. IF up.switched THEN "old" \in {tree, rollback_root} ELSE tree = "old" \/ between
      BY <1>2, <2>1, <2>4, <2>5, <2>8, UpAnywhere
         DEF TreesFit, Upgrading, TrySteps, RecoverPcs, RollbackPcs
    <3> QED
      BY <1>2, <2>1, <2>6, <2>8, <3>1 DEF TreesFit, RecoverPcs, OneWriter, Restoring, trees
  <2> QED
    BY <2>3, <2>7, <2>8
<1>3. CASE ~Restoring /\ up.pc = "finally"
  <2>1. /\ up' = [up EXCEPT !.pc = "end"] /\ tree' = tree
        /\ up.switched /\ up.result # "success" => rollback_root' = rollback_root
    BY <1>3 DEF Interrupt, FinishInterrupted, Step
  <2>2. /\ up' \in UpRecord /\ up'.pc = "end"
        /\ up'.result = up.result /\ up'.switched = up.switched /\ up'.between = up.between
    BY <2>1 DEF UpRecord
  <2>3. PreviousTreeIsKept'
    BY <1>3, <2>1, <2>2 DEF TreesFit, PreviousTreeIsKept, Trees
  <2> QED
    BY <2>2, <2>3 DEF TreesFit, RecoverPcs, OneWriter, Upgrading
<1> QED
  BY <1>1, <1>2, <1>3

LEMMA Killed == ASSUME UpgradeInv, Kill PROVE UpgradeInv'
<1> USE DEF UpgradeInv
<1>1. UNCHANGED trees
  BY DEF Kill
<1>2. Restoring' => Restoring
  BY DEF Kill, RestoreKilled, Restoring
<1>3. CASE ~Upgrading
  <2>1. up' = up
    BY <1>3 DEF Kill
  <2> QED
    BY <1>1, <1>2, <2>1, TreesKept
<1>4. CASE Upgrading
  <2>1. up' = [up EXCEPT !.pc = "dead"]
    BY <1>4 DEF Kill
  <2>2. /\ up' \in UpRecord /\ up'.pc = "dead"
        /\ up'.result = up.result /\ up'.switched = up.switched /\ up'.between = up.between
    BY <2>1 DEF UpRecord
  <2>3. PreviousTreeIsKept'
    BY <1>1, <2>2, TreeIsSomewhere DEF PreviousTreeIsKept, Trees, trees
  <2> QED
    BY <2>2, <2>3 DEF TreesFit, RecoverPcs, OneWriter, Upgrading
<1> QED
  BY <1>3, <1>4

LEMMA RestoreGoesOn ==
  restore \in RestoreRecord /\ RestoreSteps /\ Restoring' => Restoring
  BY DEF RestoreRecord, RestoreSteps, Restoring, CopyForRollback, StageDatabase, StageEnvironment, BackupIsDamaged,
     park_database_sidecars, ReplaceDatabase, ReplaceEnvironment, QuickCheck, RestoreFails,
     UndoDatabase, UndoEnvironment, UndoSidecars, UndoFails, FinishRestore, FinishFails, Goes

LEMMA UpgradeKept == restore \in RestoreRecord /\ UpgradeInv /\ [Next]_vars => UpgradeInv'
<1> SUFFICES ASSUME restore \in RestoreRecord, UpgradeInv, [Next]_vars PROVE UpgradeInv'
  OBVIOUS
<1>1. CASE \/ BackUp \/ BeginTransaction \/ Build \/ StopUnits \/ InstallTargetUnits
           \/ PutAside \/ PlaceNewTree \/ PutBack \/ WriteValidating \/ StartTarget
           \/ Healthy \/ StartTimer
  BY <1>1, Forward
<1>2. CASE BeginUpgrade \/ BeginDeployment \/ Switched \/ Succeeded
  BY <1>2, Marks
<1>3. CASE UpgradeFails \/ recover_before_switch \/ rollback \/ FinishUpgrade
  BY <1>3, Raises, Recovers, RollsBack, FinallyRuns
<1>4. CASE Interrupt \/ Kill
  BY <1>4, Interrupted, Killed
<1>5. CASE \/ Write \/ JobStarts \/ JobEnds \/ OperatorStops \/ OperatorStarts
           \/ OperatorBacksUp \/ OperatorEditsEnvironment \/ UNCHANGED vars
  <2>1. up' = up /\ UNCHANGED trees /\ restore' = restore
    BY <1>5 DEF Write, JobStarts, JobEnds, OperatorStops, OperatorStarts, OperatorBacksUp,
         OperatorEditsEnvironment, vars, create_backup, stored
  <2> QED
    BY <2>1, TreesKept DEF Restoring
<1>6. CASE RestoreSteps /\ UNCHANGED <<trees, units, running, transaction, up>>
  BY <1>6, TreesKept, RestoreGoesOn
<1>7. CASE OperatorRestores
  <2>1. ~Upgrading /\ up' = up /\ UNCHANGED trees
    BY <1>7 DEF OperatorRestores
  <2> QED
    BY <2>1 DEF UpgradeInv, TreesFit, trees, OneWriter, Upgrading,
       PreviousTreeIsKept, Trees
<1> QED
  BY <1>1, <1>2, <1>3, <1>4, <1>5, <1>6, <1>7 DEF Next
-----------------------------------------------------------------------------
(* The inductive invariant                                                 *)

LEMMA InductiveInvariant == Spec => []IInv
<1>1. Init => IInv
  <2> SUFFICES ASSUME Init PROVE IInv
    OBVIOUS
  <2>1. NoRestore \in RestoreRecord /\ NoRestore.pc = "idle"
    BY DEF NoRestore, RestoreRecord, RestorePcs, Environment
  <2>2. ~Restoring /\ restore \in RestoreRecord
    BY <2>1 DEF Init, InitBackup, Restoring
  <2>3. FirstContent \in Content
    BY DEF FirstContent, Content
  <2>4. /\ db \in Database \cup {None} /\ wal = None /\ env \in Environment
        /\ backup \in BackupSet \cup {None} /\ faults = 0
        /\ backup \in BackupSet => backup.sound /\ backup.content # Mixed
    <3>1. File(0, FirstContent) \in Database
      BY <2>3 DEF File, Database
    <3>2. [content : {FirstContent}, env : {None, 0}, sound : {TRUE}] \subseteq BackupSet
      <4>1. /\ {FirstContent} \subseteq Content \cup {Mixed}
            /\ {None, 0} \subseteq Environment /\ {TRUE} \subseteq BOOLEAN
        BY <2>3 DEF Environment
      <4> HIDE DEF FirstContent
      <4> QED
        BY <4>1 DEF BackupSet
    <3> HIDE DEF FirstContent
    <3>3. CASE db = File(0, FirstContent) /\ wal = None /\ env \in {None, 0} /\ backup = None
      BY <3>1, <3>3, BackupAssumption DEF Init, InitBackup, Environment
    <3>4. CASE /\ db = None /\ wal = None /\ env = None
               /\ backup \in [content : {FirstContent}, env : {None, 0}, sound : {TRUE}]
      <4>1. backup.content = FirstContent /\ backup.sound
        BY <3>4
      <4> QED
        BY <2>3, <3>2, <3>4, <4>1, BackupAssumption DEF Init, InitBackup, Environment
    <3> QED
      BY <3>3, <3>4 DEF Init, InitBackup
  <2>5. /\ up \in UpRecord /\ up.pc = "idle" /\ ~up.switched /\ tree = "old"
    BY DEF Init, UpRecord
  <2>6. TreesFit /\ OneWriter
    BY <2>2, <2>5 DEF TreesFit, OneWriter, RecoverPcs
  <2> QED
    BY <2>2, <2>4, <2>5, <2>6 DEF IInv, FileInv, TypeOK, StoreTypes, FilesFit, Paired,
       RestoreFits
<1>2. IInv /\ [Next]_vars => IInv'
  BY StoreKept, UpgradeKept DEF IInv, FileInv, TypeOK, StoreTypes, StoreInv, UpgradeInv
<1> QED
  BY <1>1, <1>2, PTL DEF Spec

LEMMA Stored == IInv => StoreInv /\ UpgradeInv
  BY DEF IInv, FileInv, TypeOK, StoreInv, UpgradeInv
-----------------------------------------------------------------------------
(* Theorems                                                                *)

\* Types of the files, the set, the restore and the upgrade.
THEOREM TypeCorrect == Spec => []TypeOK
<1>1. IInv => TypeOK
  BY DEF IInv, FileInv
<1> QED
  BY <1>1, InductiveInvariant, PTL

\* A journal never stands beside a database it was not written for.
THEOREM JournalsBelong == Spec => []NoForeignJournal
<1>1. IInv => NoForeignJournal
  BY Stored, LogicalCases, BackupAssumption DEF StoreInv, NoForeignJournal
<1> QED
  BY <1>1, InductiveInvariant, PTL

\* What was there before a restore is in one of three places until it has
\* succeeded, wherever it is killed.
THEOREM ContentKept == Spec => []PreviousContentIsKept
<1>1. ASSUME StoreInv PROVE PreviousContentIsKept
  <2> SUFFICES ASSUME Restoring, restore.result \in {None, "failed"},
                      restore.before # None, faults =< 1
               PROVE  \/ restore.before = Logical(db, wal)
                      \/ /\ ~restore.replaced
                         /\ restore.before = Logical(db, restore.parked)
                      \/ /\ restore.copy # None
                         /\ restore.before = restore.copy.content
    BY DEF PreviousContentIsKept
  <2>0. RestoreFits /\ SetFits /\ restore \in RestoreRecord
    BY <1>1, Facts DEF StoreInv
  <2>1. restore.existed
    BY <2>0 DEF SetFits
  <2>2. CASE restore.pc \in {"copy", "stage", "stage_env", "park"}
    BY <2>0, <2>2 DEF RestoreFits, At, AtCopy, AtStage, Untouched, Back
  <2>3. CASE restore.pc = "replace"
    BY <2>0, <2>3 DEF RestoreFits, At, AtReplace, Untouched
  <2>4. CASE restore.pc \in {"replace_env", "check"}
    BY <2>0, <2>1, <2>4, BackupAssumption
       DEF RestoreFits, At, AtReplaceEnv, AtCheck, Replaced, CopyKept
  <2>5. CASE restore.pc = "undo"
    <3>1. IF restore.replaced THEN CopyKept ELSE Back
      BY <2>0, <2>5 DEF RestoreFits, At, AtUndo
    <3>2. CASE restore.replaced
      BY <2>1, <3>1, <3>2, BackupAssumption DEF CopyKept
    <3>3. CASE ~restore.replaced
      BY <3>1, <3>3 DEF Back
    <3> QED
      BY <3>2, <3>3
  <2>6. CASE restore.pc \in {"undo_env", "undo_wal"}
    <3>1. Back /\ (restore.replaced => Logical(db, wal) = restore.before)
      BY <2>0, <2>6 DEF RestoreFits, At, AtUndoEnv, AtUndoWal
    <3>2. restore.replaced \in BOOLEAN
      BY <2>0 DEF RestoreRecord
    <3> QED
      BY <3>1, <3>2 DEF Back
  <2>7. CASE restore.pc = "finally"
    BY <2>0, <2>7, BackupAssumption DEF RestoreFits, At, AtFinally
  <2> QED
    BY <2>0, <2>2, <2>3, <2>4, <2>5, <2>6, <2>7 DEF RestoreRecord, RestorePcs, Restoring
<1>2. IInv => PreviousContentIsKept
  BY <1>1, Stored
<1> QED
  BY <1>2, InductiveInvariant, PTL

\* The last step of a restore leaves the files.
LEMMA LastStep ==
  ASSUME IInv, [Next]_vars, restore.pc = "finally", restore'.pc = "idle"
  PROVE  /\ Restoring /\ SetFits /\ AtFinally
         /\ db' = db /\ wal' = wal /\ env' = env
<1>1. Restoring
  BY DEF Restoring
<1>2. SetFits /\ AtFinally
  BY <1>1, Stored DEF StoreInv, RestoreFits, At
<1>3. RestoreSteps \/ UNCHANGED files
  <2>1. TypeOK /\ FilesFit /\ OneWriter
    BY DEF IInv, FileInv
  <2>2. \/ LeavesStore
        \/ RestoreSteps
        \/ UNCHANGED <<files, backup, faults>>
    BY <1>1, <2>1, Kinds DEF WritesFiles
  <2> QED
    BY <2>2 DEF LeavesStore, stored
<1>4. ASSUME RestoreSteps PROVE UNCHANGED files
  BY <1>4 DEF RestoreSteps, Goes, CopyForRollback, StageDatabase, StageEnvironment, BackupIsDamaged,
     park_database_sidecars, ReplaceDatabase, ReplaceEnvironment, QuickCheck, RestoreFails,
     UndoDatabase, UndoEnvironment, UndoSidecars, UndoFails, FinishRestore, FinishFails, files
<1> QED
  BY <1>1, <1>2, <1>3, <1>4 DEF files

\* A restore that failed left the content and the environment as they were.
THEOREM FailureChangesNothing == Spec => FailedRestoreChangesNothing
<1>1. ASSUME IInv, [Next]_vars, restore.pc = "finally", restore.result = "failed",
             restore'.pc = "idle", faults =< 1
      PROVE  Logical(db, wal)' = restore.before /\ env' = restore.env_before
  BY <1>1, LastStep DEF AtFinally, Logical
<1>2. IInv /\ [Next]_vars =>
        [restore.pc = "finally" /\ restore.result = "failed" /\ restore'.pc = "idle"
           /\ faults <= 1
           => /\ Logical(db, wal)' = restore.before
              /\ env' = restore.env_before]_<<files, restore>>
  BY <1>1
<1> QED
  BY <1>2, InductiveInvariant, PTL DEF Spec, FailedRestoreChangesNothing

\* A restore that succeeded put each part of the verified set in place, and
\* no journal, but for a part that was damaged before it was copied.
THEOREM SuccessRestoresTheSet == Spec => RestoredMeansBackup
<1>1. ASSUME IInv, [Next]_vars, restore.pc = "finally", restore.result = "ok",
             restore'.pc = "idle"
      PROVE  /\ "database" \notin restore.late => Logical(db, wal)' = restore.set.content
             /\ "environment" \notin restore.late /\ restore.set.env # None
                  => env' = restore.set.env
  <2>1. AtFinally /\ db' = db /\ wal' = wal /\ env' = env
    BY <1>1, LastStep
  <2>2. /\ db \in Database /\ wal = None
        /\ "database" \notin restore.late => db.content = restore.set.content
        /\ "environment" \notin restore.late /\ restore.set.env # None
             => env = restore.set.env
    BY <1>1, <2>1 DEF AtFinally
  <2>3. db # None
    BY <2>2, BackupAssumption
  <2> QED
    BY <2>1, <2>2, <2>3 DEF Logical
<1>2. IInv /\ [Next]_vars =>
        [restore.pc = "finally" /\ restore.result = "ok" /\ restore'.pc = "idle"
           => /\ "database" \notin restore.late => Logical(db, wal)' = restore.set.content
              /\ "environment" \notin restore.late /\ restore.set.env # None
                   => env' = restore.set.env]_<<files, restore>>
  BY <1>1
<1> QED
  BY <1>2, InductiveInvariant, PTL DEF Spec, RestoredMeansBackup

\* The previous tree is somewhere until the upgrade has succeeded, unless the
\* try was left after the first rename and before switched was set.
THEOREM PreviousTreeKept == Spec => []PreviousTreeIsKept
<1>1. IInv => PreviousTreeIsKept
  BY Stored, TreeIsSomewhere
<1> QED
  BY <1>1, InductiveInvariant, PTL
-----------------------------------------------------------------------------
(* The versions, position by position                                      *)

OldFile(file) == file # None => file.content.schema = "old"

OldSet == backup # None /\ backup.content # Mixed => backup.content.schema = "old"

\* Nothing that has been migrated is anywhere.
AllOld ==
  /\ OldFile(db) /\ OldFile(wal) /\ OldSet
  /\ OldFile(restore.copy) /\ OldFile(restore.parked)
  /\ restore.staged # None => restore.staged.schema = "old"

Schema(version) == db # None /\ Logical(db, wal).schema = version

Everywhere(version) ==
  /\ tree = version /\ units = version /\ service = version /\ timer = TRUE
  /\ Schema(version)

Before == {"backup", "transaction", "build", "switching"}

Deploying ==
  {"stop_timer", "stop_job", "stop_service", "units", "aside", "place", "unplace"}

Deployed == {"switched", "validating", "start", "health", "timer", "postflight"}

BeforeFits ==
  /\ up.pc \in {"idle"} \cup Before \cup Deploying \cup RecoverPcs => AllOld
  /\ up.pc \in {"idle"} \cup Before => units = "old" /\ timer = TRUE
  /\ up.pc = "idle" => service \in {None, "old"}
  /\ up.pc \in Before => service = "old"
  /\ up.pc \in Before \cup Deploying \cup RecoverPcs \cup Deployed => db # None
  /\ up.pc \notin {"idle", "backup", "end", "dead", "finally"} => backup # None /\ OldSet

DeployedFits ==
  /\ up.pc \in {"switching", "stop_timer", "stop_job", "stop_service", "units", "aside",
                "place"} => staging_root = "new"
  /\ up.pc \in {"aside", "place"} \cup Deployed => units = "new"
  /\ up.pc \in Deployed => tree = "new"
  /\ up.pc \in {"health", "timer", "postflight"} => Schema("new")
  /\ up.pc \in {"timer", "postflight"} => service = "new"
  /\ up.pc = "postflight" => timer = TRUE

RecoveryFits ==
  /\ up.pc \in {"unplace"} \cup RecoverPcs => faults >= 1
  /\ up.pc \in RecoverPcs => tree = "old"
  /\ up.pc \in {"recover_service", "recover_timer"} => units = "old"
  /\ up.pc = "recover_timer" => service = "old"

\* The restore of the rollback, which only an interrupt disturbs any more.
RestoreGoes ==
  IF Restoring
  THEN /\ restore.set.content.schema = "old" /\ restore.late = {}
       /\ \/ restore.pc \in {"copy", "stage", "stage_env", "park", "replace",
                            "replace_env", "check"}
          \/ restore.pc = "finally" /\ restore.result \in {"ok", "interrupted"}
  ELSE Schema("old") \/ restore.result = "interrupted"

RollbackFits ==
  /\ up.pc \in RollbackPcs => faults >= 1 /\ backup.sound /\ backup.content # Mixed
  /\ up.pc \in RollbackPcs \ {"rb_restoring"} => db # None
  /\ up.pc \in {"rb_units", "rb_restore", "rb_restoring", "rb_service", "rb_timer",
                "rb_clean"} => tree = "old"
  /\ up.pc \in {"rb_restore", "rb_restoring", "rb_service", "rb_timer", "rb_clean"}
       => units = "old"
  /\ up.pc = "rb_restoring" => RestoreGoes
  /\ up.pc \in {"rb_service", "rb_timer", "rb_clean"} => Schema("old")
  /\ up.pc \in {"rb_timer", "rb_clean"} => service = "old"
  /\ up.pc = "rb_clean" => timer = TRUE

EndFits ==
  /\ up.result = "success" => up.pc \in {"finally", "end", "dead"}
  /\ up.pc = "finally" /\ up.result \in {"success", "failed"} =>
       ~Restoring /\ Everywhere(IF up.result = "success" THEN "new" ELSE "old")

VersionsFit == BeforeFits /\ DeployedFits /\ RecoveryFits /\ RollbackFits /\ EndFits

VersionInv == faults =< 1 => VersionsFit

\* What is known while one step has raised at most.
VersionState == IInv /\ VersionsFit /\ faults \in {0, 1}

-----------------------------------------------------------------------------
(* The versions of what the files hold                                     *)

\* A step that changes no version in the files.
FilesKeep ==
  /\ restore' = restore /\ backup' = backup
  /\ db # None => db' # None
  /\ \A version : Schema(version) => Schema(version)'
  /\ AllOld => AllOld'

LEMMA AllOldIsOld ==
  ASSUME StoreTypes, FilesFit, AllOld, db # None
  PROVE  Schema("old")
BY LogicalIsContent DEF AllOld, OldFile, Schema, Logical, FilesFit, Paired

LEMMA StoredKeeps ==
  ASSUME UNCHANGED <<files, backup, restore>>
  PROVE  FilesKeep
BY DEF FilesKeep, files, Schema, AllOld, OldFile, OldSet, Logical

\* A journal with content c beside the database.
LEMMA JournalWritten ==
  ASSUME StoreTypes, db \in Database, NEW c \in Content,
         db' = db, wal' = File(db.lineage, c)
  PROVE  Logical(db, wal)' = c /\ db' # None /\ wal'.content = c
<1>1. wal' \in Database /\ wal'.lineage = db.lineage /\ wal'.content = c
  BY DEF File, Database
<1>2. wal' # None /\ db' # None
  BY <1>1, BackupAssumption
<1> QED BY <1>1, <1>2 DEF Logical

LEMMA WriteKeeps ==
  ASSUME StoreTypes, FilesFit, Write
  PROVE  FilesKeep
<1>1. PICK old : old = Logical(db, wal)
  OBVIOUS
<1>2. old \in Content /\ db \in Database /\ db # None
  BY <1>1, LogicalIsContent DEF Write
<1>3. PICK c : c = [old EXCEPT !.data = @ + 1]
  OBVIOUS
<1>4. c \in Content /\ c.schema = old.schema
  BY <1>2, <1>3 DEF Content
<1>5. db' = db /\ wal' = File(db.lineage, c) /\ restore' = restore /\ backup' = backup
  BY <1>1, <1>3 DEF Write
<1>6. Logical(db, wal)' = c /\ wal'.content = c
  BY <1>2, <1>4, <1>5, JournalWritten
<1>7. \A version : Schema(version) => Schema(version)'
  BY <1>1, <1>4, <1>5, <1>6 DEF Schema
<1>8. AllOld => AllOld'
  BY <1>1, <1>2, <1>4, <1>5, <1>6, AllOldIsOld DEF AllOld, OldFile, OldSet, Schema
<1> QED BY <1>5, <1>7, <1>8 DEF FilesKeep

LEMMA StopKeeps ==
  ASSUME StoreTypes, FilesFit, StopJob \/ StopService, UNCHANGED <<backup, restore>>
  PROVE  FilesKeep
<1>1. CASE UNCHANGED <<db, wal>>
  BY <1>1 DEF FilesKeep, Schema, AllOld, OldFile, OldSet, Logical
<1>2. CASE Checkpoints
  <2>1. PICK old : old = Logical(db, wal)
    OBVIOUS
  <2>2. old \in Content /\ db \in Database /\ db # None
    BY <1>2, <2>1, LogicalIsContent DEF Checkpoints
  <2>3. db' = File(db.lineage, old) /\ wal' = None
    BY <1>2, <2>1 DEF Checkpoints
  <2>4. db' \in Database /\ db'.content = old
    BY <2>2, <2>3 DEF File, Database
  <2>5. db' # None /\ Logical(db, wal)' = old
    BY <2>3, <2>4, BackupAssumption DEF Logical
  <2>6. \A version : Schema(version) => Schema(version)'
    BY <2>1, <2>5 DEF Schema
  <2>7. AllOld => AllOld'
    BY <2>1, <2>2, <2>3, <2>4, AllOldIsOld DEF AllOld, OldFile, OldSet, Schema
  <2> QED BY <2>5, <2>6, <2>7 DEF FilesKeep
<1> QED BY <1>1, <1>2, Stops

\* The old tree migrates nothing, the new one everything.
LEMMA StartKeeps ==
  ASSUME StoreTypes, FilesFit, StartService, tree = "old", UNCHANGED <<backup, restore>>
  PROVE  FilesKeep /\ service' = "old" /\ timer' = timer
<1>1. PICK old : old = Logical(db, wal)
  OBVIOUS
<1>2. old \in Content /\ db \in Database /\ db # None
  BY <1>1, LogicalIsContent DEF StartService, CanStart
<1>3. PICK c : c = [old EXCEPT !.schema = IF tree = "new" THEN "new" ELSE @]
  OBVIOUS
<1>4. c \in Content /\ c.schema = old.schema
  BY <1>2, <1>3 DEF Content
<1>5. db' = db /\ wal' = File(db.lineage, c) /\ restore' = restore /\ backup' = backup
  BY <1>1, <1>3 DEF StartService
<1>6. Logical(db, wal)' = c /\ wal'.content = c
  BY <1>2, <1>4, <1>5, JournalWritten
<1>7. \A version : Schema(version) => Schema(version)'
  BY <1>1, <1>4, <1>5, <1>6 DEF Schema
<1>8. AllOld => AllOld'
  BY <1>1, <1>2, <1>4, <1>5, <1>6, AllOldIsOld DEF AllOld, OldFile, OldSet, Schema
<1> QED BY <1>5, <1>7, <1>8 DEF FilesKeep, StartService

LEMMA StartMigrates ==
  ASSUME StoreTypes, FilesFit, StartService, tree = "new"
  PROVE  Schema("new")' /\ service' = "new" /\ timer' = timer /\ db' # None
<1>1. PICK old : old = Logical(db, wal)
  OBVIOUS
<1>2. old \in Content /\ db \in Database
  BY <1>1, LogicalIsContent DEF StartService, CanStart
<1>3. PICK c : c = [old EXCEPT !.schema = IF tree = "new" THEN "new" ELSE @]
  OBVIOUS
<1>4. c \in Content /\ c.schema = "new"
  BY <1>2, <1>3 DEF Content
<1>5. db' = db /\ wal' = File(db.lineage, c)
  BY <1>1, <1>3 DEF StartService
<1>6. Logical(db, wal)' = c /\ db' # None
  BY <1>2, <1>4, <1>5, JournalWritten
<1> QED BY <1>4, <1>6 DEF StartService, Schema

\* A set that is made is as old as the database.
LEMMA BackupIsOld ==
  ASSUME StoreTypes, FilesFit, AllOld, create_backup
  PROVE  AllOld' /\ backup' # None /\ OldSet' /\ db' = db /\ restore' = restore
<1>1. PICK old : old = Logical(db, wal)
  OBVIOUS
<1>2. old \in Content /\ old.schema = "old"
  BY <1>1, LogicalIsContent, AllOldIsOld DEF create_backup, Schema
<1>3. backup' = [content |-> old, env |-> env, sound |-> TRUE] /\ env \in Environment
  BY <1>1 DEF create_backup, StoreTypes
<1>4. backup' \in BackupSet /\ backup'.content = old
  BY <1>2, <1>3 DEF BackupSet
<1>5. OldSet' /\ backup' # None
  BY <1>2, <1>4, BackupAssumption DEF OldSet
<1> QED BY <1>5 DEF create_backup, files, AllOld, OldFile

-----------------------------------------------------------------------------
(* A restore of old files, of an operator and of the rollback              *)

\* What a restore holds besides the files.
LEMMA FieldsKept ==
  ASSUME AllOld, UNCHANGED <<files, backup>>,
         restore'.copy = restore.copy, restore'.parked = restore.parked,
         restore'.staged = restore.staged
  PROVE  AllOld'
BY DEF AllOld, OldFile, OldSet, files

LEMMA DamagedIsOld ==
  ASSUME StoreInv, BackupIsDamaged
  PROVE  (OldSet => OldSet') /\ (AllOld => AllOld')
<1>1. backup \in BackupSet /\ restore \in RestoreRecord
  BY DEF BackupIsDamaged, StoreInv, StoreTypes
<1>2. OldSet => OldSet'
  <2>1. CASE /\ backup.content # Mixed
             /\ \E content \in {Mixed, [backup.content EXCEPT !.altered = @ + 1]} :
                  backup' = [backup EXCEPT !.content = content, !.sound = FALSE]
    <3>1. backup.content \in Content
      BY <1>1, <2>1 DEF BackupSet
    <3>2. [backup.content EXCEPT !.altered = @ + 1].schema = backup.content.schema
      BY <3>1 DEF Content
    <3>3. backup'.content \in {Mixed, [backup.content EXCEPT !.altered = @ + 1]}
      BY <1>1, <2>1 DEF BackupSet
    <3> QED BY <1>1, <2>1, <3>2, <3>3, BackupAssumption DEF OldSet
  <2>2. CASE backup' = [backup EXCEPT !.env = @ + 2, !.sound = FALSE]
    <3>1. backup'.content = backup.content
      BY <1>1, <2>2 DEF BackupSet
    <3> QED BY <1>1, <3>1, BackupAssumption DEF OldSet
  <2> QED BY <2>1, <2>2 DEF BackupIsDamaged
<1>3. /\ restore'.copy = restore.copy /\ restore'.parked = restore.parked
      /\ restore'.staged = restore.staged
  BY <1>1 DEF BackupIsDamaged, RestoreRecord
<1>4. UNCHANGED files
  BY DEF BackupIsDamaged
<1> QED BY <1>2, <1>3, <1>4 DEF AllOld, OldFile, files

LEMMA RestoreStepsOld ==
  ASSUME StoreInv, RestoreSteps, AllOld
  PROVE  AllOld'
<1>0. restore \in RestoreRecord /\ StoreTypes /\ FilesFit
  BY DEF StoreInv, StoreTypes
<1> USE DEF Goes
<1>1. CASE CopyForRollback
  <2>1. PICK copied, env_copied :
          restore' = [restore EXCEPT !.pc = "stage", !.copy = copied, !.env_copy = env_copied]
          /\ copied = IF db = None THEN None ELSE File(db.lineage, Logical(db, wal))
    BY <1>1 DEF CopyForRollback
  <2>2. OldFile(copied)
    BY <1>0, <2>1, AllOldIsOld DEF OldFile, Schema, File
  <2>3. /\ restore'.copy = copied /\ restore'.parked = restore.parked
        /\ restore'.staged = restore.staged
    BY <1>0, <2>1 DEF RestoreRecord
  <2> QED BY <1>1, <2>2, <2>3 DEF CopyForRollback, AllOld, OldFile, OldSet, files
<1>2. CASE StageDatabase
  <2>1. CASE backup.content = Mixed
    BY <1>0, <1>2, <2>1, FieldsKept DEF StageDatabase, RestoreRecord
  <2>2. CASE backup.content # Mixed
    <3>1. backup # None
      <4>1. SetFits
        BY <1>2 DEF StageDatabase, StoreInv, RestoreFits, Restoring
      <4> QED BY <4>1, BackupAssumption DEF SetFits
    <3>2. /\ restore'.copy = restore.copy /\ restore'.parked = restore.parked
          /\ restore'.staged = backup.content
      BY <1>0, <1>2, <2>2 DEF StageDatabase, RestoreRecord
    <3> QED BY <1>2, <2>2, <3>1, <3>2 DEF StageDatabase, AllOld, OldFile, OldSet, files
  <2> QED BY <2>1, <2>2
<1>3. CASE BackupIsDamaged
  BY <1>3, DamagedIsOld
<1>4. CASE park_database_sidecars
  <2>1. /\ restore'.copy = restore.copy /\ restore'.parked = wal
        /\ restore'.staged = restore.staged
    BY <1>0, <1>4 DEF park_database_sidecars, RestoreRecord
  <2> QED BY <1>4, <2>1 DEF park_database_sidecars, AllOld, OldFile, OldSet
<1>5. CASE ReplaceDatabase
  <2>1. /\ restore'.copy = restore.copy /\ restore'.parked = restore.parked
        /\ restore'.staged = restore.staged
    BY <1>0, <1>5 DEF ReplaceDatabase, RestoreRecord
  <2>2. Copying
    BY <1>5 DEF ReplaceDatabase, StoreInv, RestoreFits, Restoring
  <2>3. restore.staged # None
    BY <1>5, <2>2, BackupAssumption DEF ReplaceDatabase, Copying
  <2> QED BY <1>5, <2>1, <2>3 DEF ReplaceDatabase, AllOld, OldFile, OldSet, File
<1>6. CASE ReplaceEnvironment
  <2>1. /\ restore'.copy = restore.copy /\ restore'.parked = restore.parked
        /\ restore'.staged = restore.staged
    BY <1>0, <1>6 DEF ReplaceEnvironment, RestoreRecord
  <2> QED BY <1>6, <2>1 DEF ReplaceEnvironment, AllOld, OldFile, OldSet
<1>7. CASE StageEnvironment \/ QuickCheck \/ RestoreFails \/ UndoFails
  <2>1. /\ restore'.copy = restore.copy /\ restore'.parked = restore.parked
        /\ restore'.staged = restore.staged
    BY <1>0, <1>7 DEF StageEnvironment, QuickCheck, RestoreFails, UndoFails, RestoreRecord
  <2>2. UNCHANGED <<files, backup>>
    BY <1>7 DEF StageEnvironment, QuickCheck, RestoreFails, UndoFails
  <2> QED BY <2>1, <2>2, FieldsKept
<1>8. CASE UndoDatabase
  <2>1. /\ restore'.copy \in {restore.copy, None} /\ restore'.parked = restore.parked
        /\ restore'.staged = restore.staged
    BY <1>0, <1>8 DEF UndoDatabase, RestoreRecord
  <2>2. db' \in {db, restore.copy, None} /\ wal' = wal /\ backup' = backup
    BY <1>8 DEF UndoDatabase
  <2> QED BY <2>1, <2>2 DEF AllOld, OldFile, OldSet
<1>9. CASE UndoEnvironment
  <2>1. /\ restore'.copy = restore.copy /\ restore'.parked = restore.parked
        /\ restore'.staged = restore.staged
    BY <1>0, <1>9 DEF UndoEnvironment, RestoreRecord
  <2> QED BY <1>9, <2>1 DEF UndoEnvironment, AllOld, OldFile, OldSet
<1>10. CASE UndoSidecars
  <2>1. /\ restore'.copy = restore.copy /\ restore'.parked = None
        /\ restore'.staged = restore.staged
    BY <1>0, <1>10 DEF UndoSidecars, RestoreRecord
  <2> QED BY <1>10, <2>1 DEF UndoSidecars, AllOld, OldFile, OldSet
<1>11. CASE FinishRestore \/ FinishFails
  <2>1. restore'.copy = None /\ restore'.parked = None /\ restore'.staged = None
    BY <1>11 DEF FinishRestore, FinishFails, NoRestore
  <2> QED BY <1>11, <2>1 DEF FinishRestore, FinishFails, AllOld, OldFile, OldSet, files
<1> QED BY <1>1, <1>2, <1>3, <1>4, <1>5, <1>6, <1>7, <1>8, <1>9, <1>10, <1>11 DEF RestoreSteps

\* The restore of a rollback after the one step that raised: it succeeds.
LEMMA RollbackGoesOn ==
  ASSUME StoreInv, RestoreSteps, RestoreGoes, faults >= 1, faults' =< 1,
         backup.content # Mixed
  PROVE  RestoreGoes'
<1>0. restore \in RestoreRecord /\ StoreTypes /\ FilesFit /\ faults \in Nat
  BY DEF StoreInv, StoreTypes
<1>1. ~Fault
  BY <1>0 DEF Fault
<1> USE DEF Goes
<1>2. Restoring
  BY <1>1 DEF RestoreSteps, CopyForRollback, StageDatabase, StageEnvironment, BackupIsDamaged, park_database_sidecars,
     ReplaceDatabase, ReplaceEnvironment, QuickCheck, RestoreFails, UndoDatabase,
     UndoEnvironment, UndoSidecars, UndoFails, FinishRestore, FinishFails, Restoring
<1>3. CASE FinishRestore
  <2>1. restore'.pc = "idle" /\ restore'.result = restore.result
    BY <1>3 DEF FinishRestore, NoRestore
  <2>2. AtFinally /\ restore.result \in {"ok", "interrupted"}
        /\ restore.set.content.schema = "old" /\ restore.late = {}
    BY <1>2, <1>3 DEF FinishRestore, StoreInv, RestoreFits, At, RestoreGoes
  <2>3. CASE restore.result = "interrupted"
    BY <2>1, <2>3 DEF RestoreGoes, Restoring
  <2>4. CASE restore.result = "ok"
    <3>1. db' = db /\ wal' = wal /\ db # None /\ wal = None /\ db.content.schema = "old"
      BY <1>3, <2>2, <2>4, BackupAssumption
         DEF FinishRestore, files, AtFinally, RestoreGoes
    <3> QED BY <2>1, <3>1 DEF RestoreGoes, Restoring, Schema, Logical
  <2> QED BY <2>2, <2>3, <2>4
<1>4. CASE QuickCheck
  <2>1. Logical(db, wal) # Mixed
    BY <1>2, Facts, BackupAssumption
  <2>2. restore'.pc = "finally" /\ restore'.result = "ok" /\ restore'.set = restore.set
        /\ restore'.late = restore.late
    BY <1>0, <1>4, <2>1 DEF QuickCheck, RestoreRecord
  <2> QED BY <1>2, <2>2 DEF RestoreGoes, Restoring
<1>5. CASE CopyForRollback
  <2>1. PICK copied, env_copied :
          restore' = [restore EXCEPT !.pc = "stage", !.copy = copied, !.env_copy = env_copied]
    BY <1>5 DEF CopyForRollback
  <2>2. restore'.pc = "stage" /\ restore'.set = restore.set /\ restore'.late = restore.late
    BY <1>0, <2>1 DEF RestoreRecord
  <2> QED BY <1>2, <2>2 DEF RestoreGoes, Restoring
<1>6. CASE StageDatabase
  <2>1. /\ restore'.pc \in {"stage_env", "park"} /\ restore'.set = restore.set
        /\ restore'.late = restore.late
    BY <1>0, <1>6 DEF StageDatabase, RestoreRecord
  <2> QED BY <1>2, <2>1 DEF RestoreGoes, Restoring
<1>12. CASE StageEnvironment
  <2>1. restore'.pc = "park" /\ restore'.set = restore.set /\ restore'.late = restore.late
    BY <1>0, <1>12 DEF StageEnvironment, RestoreRecord
  <2> QED BY <1>2, <2>1 DEF RestoreGoes, Restoring
<1>7. CASE park_database_sidecars
  <2>1. restore'.pc = "replace" /\ restore'.set = restore.set /\ restore'.late = restore.late
    BY <1>0, <1>7 DEF park_database_sidecars, RestoreRecord
  <2> QED BY <1>2, <2>1 DEF RestoreGoes, Restoring
<1>8. CASE ReplaceDatabase
  <2>1. /\ restore'.pc \in {"replace_env", "check"} /\ restore'.set = restore.set
        /\ restore'.late = restore.late
    BY <1>0, <1>8 DEF ReplaceDatabase, RestoreRecord
  <2> QED BY <1>2, <2>1 DEF RestoreGoes, Restoring
<1>9. CASE ReplaceEnvironment
  <2>1. restore'.pc = "check" /\ restore'.set = restore.set /\ restore'.late = restore.late
    BY <1>0, <1>9 DEF ReplaceEnvironment, RestoreRecord
  <2> QED BY <1>2, <2>1 DEF RestoreGoes, Restoring
<1>10. ~(UndoDatabase \/ UndoEnvironment \/ UndoSidecars)
  BY <1>2 DEF RestoreGoes, UndoDatabase, UndoEnvironment, UndoSidecars
<1>11. ~(BackupIsDamaged \/ RestoreFails \/ UndoFails \/ FinishFails)
  BY <1>1 DEF BackupIsDamaged, RestoreFails, UndoFails, FinishFails
<1> QED BY <1>3, <1>4, <1>5, <1>6, <1>7, <1>8, <1>9, <1>10, <1>11, <1>12 DEF RestoreSteps

-----------------------------------------------------------------------------
(* The steps of the upgrade                                                *)

LEMMA UpMoves ==
  ASSUME up \in UpRecord, NEW next, up' = [up EXCEPT !.pc = next]
  PROVE  up'.pc = next /\ up'.result = up.result
BY DEF UpRecord

LEMMA StateFacts ==
  ASSUME VersionState
  PROVE  /\ up \in UpRecord /\ StoreTypes /\ FilesFit /\ OneWriter /\ TreesFit
         /\ VersionsFit /\ faults \in {0, 1}
BY DEF VersionState, IInv, FileInv, TypeOK

\* Up to the start of the new version.
LEMMA VersionsBefore ==
  ASSUME VersionState,
         \/ BeginUpgrade \/ BackUp \/ BeginTransaction \/ Build \/ BeginDeployment
         \/ StopUnits \/ InstallTargetUnits \/ PutAside \/ PlaceNewTree \/ PutBack
  PROVE  VersionsFit'
<1> USE StateFacts DEF VersionsFit, BeforeFits, DeployedFits, RecoveryFits, RollbackFits,
          EndFits, Before, Deploying, Deployed, RecoverPcs, RollbackPcs
<1>1. CASE BeginUpgrade
  <2>1. up.pc = "idle" /\ up'.pc = "backup" /\ up'.result = up.result /\ faults' = faults
    BY <1>1, UpMoves DEF BeginUpgrade, Step
  <2>2. db # None /\ service # None /\ service' = service /\ units' = units /\ timer' = timer
    BY <1>1 DEF BeginUpgrade, trees, running, stored
  <2>3. FilesKeep
    BY <1>1, StoredKeeps DEF BeginUpgrade, stored
  <2> QED BY <2>1, <2>2, <2>3 DEF FilesKeep, OldSet
<1>2. CASE BackUp
  <2>1. up.pc = "backup" /\ up'.pc = "transaction" /\ up'.result = up.result /\ faults' = faults
    BY <1>2, UpMoves DEF BackUp, Step
  <2>2. service' = service /\ units' = units /\ timer' = timer
    BY <1>2 DEF BackUp, trees, running, stored
  <2>3. AllOld' /\ backup' # None /\ OldSet' /\ db' = db /\ restore' = restore
    BY <1>2, <2>1, BackupIsOld DEF BackUp
  <2> QED BY <2>1, <2>2, <2>3 DEF FilesKeep, OldSet
<1>3. CASE BeginTransaction
  <2>1. up.pc = "transaction" /\ up'.pc = "build" /\ up'.result = up.result /\ faults' = faults
    BY <1>3, UpMoves DEF BeginTransaction, Step
  <2>2. service' = service /\ units' = units /\ timer' = timer
    BY <1>3 DEF BeginTransaction, trees, running, stored
  <2>3. FilesKeep
    BY <1>3, StoredKeeps DEF BeginTransaction, stored
  <2> QED BY <2>1, <2>2, <2>3 DEF FilesKeep, OldSet
<1>4. CASE Build
  <2>1. up.pc = "build" /\ up'.pc = "switching" /\ up'.result = up.result /\ faults' = faults
    BY <1>4, UpMoves DEF Build, Step
  <2>2. staging_root' = "new" /\ service' = service /\ units' = units /\ timer' = timer
    BY <1>4 DEF Build, trees, running, stored
  <2>3. FilesKeep
    BY <1>4, StoredKeeps DEF Build, stored
  <2> QED BY <2>1, <2>2, <2>3 DEF FilesKeep, OldSet
<1>5. CASE BeginDeployment
  <2>1. up.pc = "switching" /\ up'.pc = "stop_timer" /\ up'.result = up.result /\ faults' = faults
    BY <1>5 DEF BeginDeployment, UpRecord
  <2>2. staging_root' = staging_root
    BY <1>5 DEF BeginDeployment, trees
  <2>3. FilesKeep
    BY <1>5, StoredKeeps DEF BeginDeployment, stored
  <2> QED BY <2>1, <2>2, <2>3 DEF FilesKeep, OldSet
<1>6. CASE StopUnits
  <2>1. /\ up.pc \in {"stop_timer", "stop_job", "stop_service"}
        /\ up'.pc \in {"stop_job", "stop_service", "units"}
        /\ up'.result = up.result /\ faults' = faults
    BY <1>6, UpMoves DEF StopUnits, Step
  <2>2. staging_root' = staging_root
    BY <1>6 DEF StopUnits, trees
  <2>3. FilesKeep
    BY <1>6, StoredKeeps, StopKeeps DEF StopUnits
  <2> QED BY <2>1, <2>2, <2>3 DEF FilesKeep, OldSet
<1>7. CASE InstallTargetUnits
  <2>1. up.pc = "units" /\ up'.pc = "aside" /\ up'.result = up.result /\ faults' = faults
    BY <1>7, UpMoves DEF InstallTargetUnits, Step
  <2>2. units' = "new" /\ staging_root' = staging_root
    BY <1>7 DEF InstallTargetUnits, trees, running, stored
  <2>3. FilesKeep
    BY <1>7, StoredKeeps DEF InstallTargetUnits, stored
  <2> QED BY <2>1, <2>2, <2>3 DEF FilesKeep, OldSet
<1>8. CASE PutAside
  <2>1. up.pc = "aside" /\ up'.pc = "place" /\ up'.result = up.result /\ faults' = faults
    BY <1>8, UpMoves DEF PutAside, Step
  <2>2. units' = units /\ staging_root' = staging_root
    BY <1>8 DEF PutAside, trees, running, stored
  <2>3. FilesKeep
    BY <1>8, StoredKeeps DEF PutAside, stored
  <2> QED BY <2>1, <2>2, <2>3 DEF FilesKeep, OldSet
<1>9. CASE PlaceNewTree
  <2>1. up.pc = "place" /\ up'.pc = "switched" /\ up'.result = up.result /\ faults' = faults
    BY <1>9, UpMoves DEF PlaceNewTree, Step
  <2>2. units' = units /\ tree' = staging_root
    BY <1>9 DEF PlaceNewTree, trees, running, stored
  <2>3. FilesKeep
    BY <1>9, StoredKeeps DEF PlaceNewTree, stored
  <2> QED BY <2>1, <2>2, <2>3 DEF FilesKeep, OldSet
<1>10. CASE PutBack
  <2>1. up.pc = "unplace" /\ up'.pc = "recover_units" /\ up'.result = up.result /\ faults' = faults
    BY <1>10, UpMoves DEF PutBack, Step
  <2>2. tree' = rollback_root
    BY <1>10 DEF PutBack, trees, running, stored
  <2>3. FilesKeep
    BY <1>10, StoredKeeps DEF PutBack, stored
  <2> QED BY <2>1, <2>2, <2>3 DEF FilesKeep, OldSet, TreesFit
<1> QED BY <1>1, <1>2, <1>3, <1>4, <1>5, <1>6, <1>7, <1>8, <1>9, <1>10

\* From the switch to the end of the try.
LEMMA VersionsDeployed ==
  ASSUME VersionState,
         Switched \/ WriteValidating \/ StartTarget \/ Healthy \/ StartTimer \/ Succeeded
  PROVE  VersionsFit'
<1> USE StateFacts DEF VersionsFit, BeforeFits, DeployedFits, RecoveryFits, RollbackFits,
          EndFits, Before, Deploying, Deployed, RecoverPcs, RollbackPcs
<1>1. CASE Switched
  <2>1. up.pc = "switched" /\ up'.pc = "validating" /\ up'.result = up.result /\ faults' = faults
    BY <1>1 DEF Switched, UpRecord
  <2>2. units' = units /\ tree' = tree
    BY <1>1 DEF Switched, trees
  <2>3. FilesKeep
    BY <1>1, StoredKeeps DEF Switched, stored
  <2> QED BY <2>1, <2>2, <2>3 DEF FilesKeep, OldSet
<1>2. CASE WriteValidating
  <2>1. up.pc = "validating" /\ up'.pc = "start" /\ up'.result = up.result /\ faults' = faults
    BY <1>2, UpMoves DEF WriteValidating, Step
  <2>2. units' = units /\ tree' = tree
    BY <1>2 DEF WriteValidating, trees, running, stored
  <2>3. FilesKeep
    BY <1>2, StoredKeeps DEF WriteValidating, stored
  <2> QED BY <2>1, <2>2, <2>3 DEF FilesKeep, OldSet
<1>3. CASE StartTarget
  <2>1. up.pc = "start" /\ up'.pc = "health" /\ up'.result = up.result /\ faults' = faults
    BY <1>3, UpMoves DEF StartTarget, Step
  <2>2. units' = units /\ tree' = tree /\ backup' = backup
    BY <1>3 DEF StartTarget, trees, running, stored
  <2>3. Schema("new")' /\ db' # None
    BY <1>3, <2>1, StartMigrates DEF StartTarget
  <2> QED BY <2>1, <2>2, <2>3 DEF FilesKeep, OldSet
<1>4. CASE Healthy
  <2>1. up.pc = "health" /\ up'.pc = "timer" /\ up'.result = up.result /\ faults' = faults
    BY <1>4, UpMoves DEF Healthy, Step
  <2>2. units' = units /\ tree' = tree /\ service = "new" /\ service' = service
    BY <1>4 DEF Healthy, trees, running, stored
  <2>3. FilesKeep
    BY <1>4, StoredKeeps DEF Healthy, stored
  <2> QED BY <2>1, <2>2, <2>3 DEF FilesKeep, OldSet
<1>5. CASE StartTimer
  <2>1. up.pc = "timer" /\ up'.pc = "postflight" /\ up'.result = up.result /\ faults' = faults
    BY <1>5, UpMoves DEF StartTimer, Step
  <2>2. units' = units /\ tree' = tree /\ service' = service /\ timer' = TRUE
    BY <1>5 DEF StartTimer, trees, running, stored
  <2>3. FilesKeep
    BY <1>5, StoredKeeps DEF StartTimer, stored
  <2> QED BY <2>1, <2>2, <2>3 DEF FilesKeep, OldSet
<1>6. CASE Succeeded
  <2>1. up.pc = "postflight" /\ up'.pc = "finally" /\ up'.result = "success" /\ faults' = faults
    BY <1>6 DEF Succeeded, UpRecord
  <2>2. units' = units /\ tree' = tree /\ service' = service /\ timer' = timer
    BY <1>6 DEF Succeeded, trees, running
  <2>3. FilesKeep
    BY <1>6, StoredKeeps DEF Succeeded, stored
  <2>4. ~Restoring /\ ~Restoring'
    BY <2>1, <2>3 DEF OneWriter, Upgrading, Restoring, FilesKeep
  <2> QED BY <2>1, <2>2, <2>3, <2>4 DEF FilesKeep, OldSet, Everywhere
<1> QED BY <1>1, <1>2, <1>3, <1>4, <1>5, <1>6

\* A step raises: it is the only one that does.
LEMMA VersionsFailed ==
  ASSUME VersionState, UpgradeFails, faults' =< 1
  PROVE  VersionsFit'
<1> USE StateFacts DEF VersionsFit, BeforeFits, DeployedFits, RecoveryFits, RollbackFits,
          EndFits, Before, Deploying, Deployed, RecoverPcs, RollbackPcs
<1>1. /\ faults = 0 /\ faults' = 1 /\ up.pc \in TrySteps
      /\ up'.pc = Handler(up.pc) /\ up'.result = "failed"
      /\ tree' = tree /\ backup' = backup /\ restore' = restore
  BY DEF UpgradeFails, Fault, UpRecord, trees
<1>2. backup # None => backup.sound /\ backup.content # Mixed
  BY <1>1 DEF FilesFit, StoreTypes
<1>3. up.pc \notin {"units"} => units' = units
  BY DEF UpgradeFails
<1>4. up.pc # "start" => FilesKeep /\ service' = service /\ timer' = timer
  BY StoredKeeps DEF UpgradeFails, running
<1>5. CASE up.pc \in {"backup", "transaction"}
  BY <1>1, <1>5 DEF Handler
<1>6. CASE up.pc \in {"build", "switching"}
  <2>1. up'.pc = "finally" /\ tree = "old" /\ ~Restoring /\ ~Restoring'
    BY <1>1, <1>6 DEF Handler, TreesFit, OneWriter, Upgrading, Restoring
  <2>2. Schema("old")
    BY <1>6, AllOldIsOld
  <2> QED BY <1>1, <1>3, <1>4, <1>6, <2>1, <2>2 DEF FilesKeep, Everywhere
<1>7. CASE up.pc = "place"
  BY <1>1, <1>2, <1>4, <1>7 DEF Handler, FilesKeep, OldSet
<1>8. CASE up.pc \in {"stop_timer", "stop_job", "stop_service", "units", "aside"}
  <2>1. up'.pc = "recover_units" /\ tree = "old"
    BY <1>1, <1>8 DEF Handler, TreesFit
  <2> QED BY <1>1, <1>2, <1>4, <1>8, <2>1 DEF FilesKeep, OldSet
<1>9. CASE up.pc = "unplace"
  BY <1>1, <1>9
<1>10. CASE up.pc \in {"validating", "start", "health", "timer", "postflight"}
  <2>1. up'.pc = "write_rollback"
    BY <1>1, <1>10 DEF Handler
  <2>2. db' # None
    <3>1. CASE StartService
      BY <1>10, <3>1 DEF StartService, CanStart
    <3>2. CASE UNCHANGED files
      BY <1>10, <3>2 DEF files
    <3> QED BY <3>1, <3>2 DEF UpgradeFails
  <2> QED BY <1>1, <1>2, <1>10, <2>1, <2>2 DEF OldSet
<1> QED BY <1>1, <1>5, <1>6, <1>7, <1>8, <1>9, <1>10 DEF TrySteps

LEMMA VersionsRecovered ==
  ASSUME VersionState, recover_before_switch, faults' =< 1
  PROVE  VersionsFit'
<1> USE StateFacts DEF VersionsFit, BeforeFits, DeployedFits, RecoveryFits, RollbackFits,
          EndFits, Before, Deploying, Deployed, RecoverPcs, RollbackPcs
<1>1. up.pc \in RecoverPcs /\ faults = 1 /\ tree = "old" /\ ~Fault
  BY DEF recover_before_switch, RecoverUnits, RecoverService, RecoverTimer, Step, Noted, Fault
<1>2. tree' = tree /\ restore' = restore /\ backup' = backup
  BY DEF recover_before_switch, RecoverUnits, RecoverService, RecoverTimer, trees, stored
<1>3. CASE RecoverUnits("recover_units", "recover_service")
  <2>1. /\ up.pc = "recover_units" /\ up'.pc = "recover_service" /\ up'.result = up.result
        /\ units' = "old" /\ faults' = faults
    BY <1>1, <1>3, UpMoves DEF RecoverUnits, Step, Noted
  <2>2. FilesKeep
    BY <1>3, StoredKeeps DEF RecoverUnits, stored
  <2> QED BY <1>1, <1>2, <2>1, <2>2 DEF FilesKeep, OldSet
<1>4. CASE RecoverService("recover_service", "recover_timer")
  <2>1. /\ up.pc = "recover_service" /\ up'.pc = "recover_timer" /\ up'.result = up.result
        /\ StartService /\ units' = units /\ faults' = faults
    BY <1>1, <1>4, UpMoves DEF RecoverService, Step, Noted
  <2>2. FilesKeep /\ service' = "old"
    BY <1>1, <1>2, <2>1, StartKeeps
  <2> QED BY <1>1, <1>2, <2>1, <2>2 DEF FilesKeep, OldSet
<1>5. CASE RecoverTimer("recover_timer", "finally")
  <2>1. /\ up.pc = "recover_timer" /\ up'.pc = "finally" /\ up'.result = up.result
        /\ timer' = TRUE /\ faults' = faults
    BY <1>1, <1>5, UpMoves DEF RecoverTimer, Step, Noted
  <2>2. FilesKeep /\ units' = units /\ service' = service
    BY <1>5, StoredKeeps DEF RecoverTimer, stored
  <2>3. ~Restoring /\ ~Restoring'
    BY <1>2, <2>1 DEF OneWriter, Upgrading, Restoring
  <2>4. Schema("old") /\ up.result # "success"
    BY <2>1, AllOldIsOld
  <2> QED BY <1>1, <1>2, <2>1, <2>2, <2>3, <2>4 DEF FilesKeep, OldSet, Everywhere
<1> QED BY <1>3, <1>4, <1>5 DEF recover_before_switch

LEMMA VersionsRolledBack ==
  ASSUME VersionState, rollback, faults' =< 1
  PROVE  VersionsFit'
<1> USE StateFacts DEF VersionsFit, BeforeFits, DeployedFits, RecoveryFits, RollbackFits,
          EndFits, Before, Deploying, Deployed, RecoverPcs, RollbackPcs
<1>1. up.pc \in RollbackPcs /\ faults = 1 /\ ~Fault
        /\ backup.sound /\ backup.content # Mixed
  BY DEF rollback, WriteRollback, StopForRollback, RollbackTree, RecoverUnits,
     RollbackDatabase, RollbackRestored, RecoverService, RecoverTimer, RemoveFailedTree,
     Step, Noted, Fault
<1>2. backup' = backup /\ backup # None /\ OldSet /\ up.result # "success"
  BY <1>1 DEF rollback, WriteRollback, StopForRollback, RollbackTree, RecoverUnits,
     RollbackDatabase, RollbackRestored, RecoverService, RecoverTimer, RemoveFailedTree,
     stored
<1>3. CASE WriteRollback
  <2>1. up.pc = "write_rollback" /\ up'.pc = "rb_timer_stop" /\ up'.result = up.result
        /\ faults' = faults
    BY <1>1, <1>3, UpMoves DEF WriteRollback, Step, Noted
  <2>2. FilesKeep
    BY <1>3, StoredKeeps DEF WriteRollback, stored
  <2> QED BY <1>1, <1>2, <2>1, <2>2 DEF FilesKeep, OldSet
<1>4. CASE StopForRollback
  <2>1. /\ up.pc \in {"rb_timer_stop", "rb_job_stop", "rb_service_stop"}
        /\ up'.pc \in {"rb_job_stop", "rb_service_stop", "rb_aside"}
        /\ up'.result = up.result /\ faults' = faults
    BY <1>1, <1>4, UpMoves DEF StopForRollback, Step, Noted
  <2>2. FilesKeep
    BY <1>1, <1>4, StoredKeeps, StopKeeps DEF StopForRollback, Noted
  <2> QED BY <1>1, <1>2, <2>1, <2>2 DEF FilesKeep, OldSet
<1>5. CASE RollbackTree
  <2>1. FilesKeep /\ faults' = faults
    BY <1>1, <1>5, StoredKeeps DEF RollbackTree, stored, Noted
  <2>2. CASE up.pc = "rb_aside"
    <3>1. up'.pc = "rb_place" /\ up'.result = up.result
      BY <1>1, <1>5, <2>2, UpMoves DEF RollbackTree, Step, Noted
    <3> QED BY <1>1, <1>2, <2>1, <2>2, <3>1 DEF FilesKeep, OldSet
  <2>3. CASE up.pc = "rb_place"
    <3>1. up'.pc = "rb_units" /\ up'.result = up.result /\ tree' = rollback_root
      BY <1>1, <1>5, <2>3, UpMoves DEF RollbackTree, Step, Noted
    <3> QED BY <1>1, <1>2, <2>1, <2>3, <3>1 DEF FilesKeep, OldSet, TreesFit
  <2> QED BY <1>1, <1>5, <2>2, <2>3 DEF RollbackTree, Step, Noted
<1>6. CASE RecoverUnits("rb_units", "rb_restore")
  <2>1. /\ up.pc = "rb_units" /\ up'.pc = "rb_restore" /\ up'.result = up.result
        /\ units' = "old" /\ faults' = faults
    BY <1>1, <1>6, UpMoves DEF RecoverUnits, Step, Noted
  <2>2. FilesKeep /\ tree' = tree
    BY <1>6, StoredKeeps DEF RecoverUnits, stored, trees
  <2> QED BY <1>1, <1>2, <2>1, <2>2 DEF FilesKeep, OldSet
<1>7. CASE RollbackDatabase
  <2>1. /\ up.pc = "rb_restore" /\ up'.pc = "rb_restoring" /\ up'.result = up.result
        /\ BeginRestore
    BY <1>1, <1>2, <1>7, UpMoves DEF RollbackDatabase, Step, verify_backup
  <2>2. tree' = tree /\ units' = units /\ faults' = faults
    BY <1>7 DEF RollbackDatabase, trees
  <2>3. restore'.pc = "copy" /\ restore'.set = backup /\ restore'.late = {}
    BY <2>1 DEF BeginRestore, NoRestore
  <2>4. RestoreGoes'
    BY <1>1, <1>2, <2>3 DEF RestoreGoes, Restoring, OldSet
  <2> QED BY <1>1, <1>2, <2>1, <2>2, <2>4 DEF OldSet
<1>8. CASE RollbackRestored
  <2>1. up.pc = "rb_restoring" /\ ~Restoring
    BY <1>8 DEF RollbackRestored
  <2>2. FilesKeep /\ tree' = tree /\ units' = units /\ faults' = faults
    BY <1>8, StoredKeeps DEF RollbackRestored, trees, stored
  <2>3. CASE restore.result = "interrupted"
    <3>1. up'.pc = "finally" /\ up'.result = "interrupted"
      BY <1>8, <2>3 DEF RollbackRestored, UpRecord
    <3> QED BY <3>1
  <2>4. CASE restore.result # "interrupted"
    <3>1. up'.pc = "rb_service" /\ up'.result = up.result
      BY <1>8, <2>4 DEF RollbackRestored, UpRecord
    <3>2. Schema("old") /\ db # None
      BY <2>1, <2>4 DEF RestoreGoes, Schema
    <3> QED BY <1>1, <1>2, <2>1, <2>2, <3>1, <3>2 DEF FilesKeep, OldSet
  <2> QED BY <2>3, <2>4
<1>9. CASE RecoverService("rb_service", "rb_timer")
  <2>1. /\ up.pc = "rb_service" /\ up'.pc = "rb_timer" /\ up'.result = up.result
        /\ StartService /\ tree = "old" /\ faults' = faults
    BY <1>1, <1>9, UpMoves DEF RecoverService, Step, Noted
  <2>2. tree' = tree /\ units' = units /\ UNCHANGED <<backup, restore>>
    BY <1>9 DEF RecoverService, trees
  <2>3. FilesKeep /\ service' = "old"
    BY <2>1, <2>2, StartKeeps
  <2> QED BY <1>1, <1>2, <2>1, <2>2, <2>3 DEF FilesKeep, OldSet
<1>10. CASE RecoverTimer("rb_timer", "rb_clean")
  <2>1. /\ up.pc = "rb_timer" /\ up'.pc = "rb_clean" /\ up'.result = up.result
        /\ timer' = TRUE /\ faults' = faults
    BY <1>1, <1>10, UpMoves DEF RecoverTimer, Step, Noted
  <2>2. FilesKeep /\ tree' = tree /\ units' = units /\ service' = service
    BY <1>10, StoredKeeps DEF RecoverTimer, stored, trees
  <2> QED BY <1>1, <1>2, <2>1, <2>2 DEF FilesKeep, OldSet
<1>11. CASE RemoveFailedTree
  <2>1. /\ up.pc = "rb_clean" /\ up'.pc = "finally" /\ up'.result = up.result
    BY <1>11, UpMoves DEF RemoveFailedTree, Step
  <2>2. /\ FilesKeep /\ tree' = tree /\ units' = units /\ service' = service
        /\ timer' = timer /\ faults' = faults
    BY <1>11, StoredKeeps DEF RemoveFailedTree, stored, running
  <2>3. ~Restoring /\ ~Restoring'
    BY <2>1, <2>2 DEF OneWriter, Upgrading, Restoring, FilesKeep
  <2> QED BY <1>1, <1>2, <2>1, <2>2, <2>3 DEF FilesKeep, OldSet, Everywhere
<1> QED BY <1>3, <1>4, <1>5, <1>6, <1>7, <1>8, <1>9, <1>10, <1>11 DEF rollback

-----------------------------------------------------------------------------
(* What runs beside the upgrade                                            *)

\* The upgrade stands still, and the files keep their versions.
LEMMA VersionsStand ==
  ASSUME VersionState, FilesKeep, up' = up, faults' = faults,
         UNCHANGED <<trees, units, service, timer>>
  PROVE  VersionsFit'
<1> USE StateFacts DEF VersionsFit, BeforeFits, DeployedFits, RecoveryFits, RollbackFits,
          EndFits, Before, Deploying, Deployed, RecoverPcs, RollbackPcs
<1>1. /\ backup' = backup /\ (OldSet => OldSet')
      /\ tree' = tree /\ staging_root' = staging_root
      /\ (Restoring' <=> Restoring) /\ (RestoreGoes => RestoreGoes')
  BY DEF FilesKeep, OldSet, trees, Restoring, RestoreGoes
<1>2. BeforeFits' /\ DeployedFits' /\ RecoveryFits' /\ RollbackFits'
  BY <1>1 DEF FilesKeep
<1>3. EndFits'
  BY <1>1 DEF FilesKeep, Everywhere
<1> QED BY <1>2, <1>3

LEMMA VersionsQuiet ==
  ASSUME VersionState, Write \/ JobStarts \/ JobEnds \/ UNCHANGED vars
  PROVE  VersionsFit'
<1>1. FilesKeep
  BY StateFacts, WriteKeeps, StopKeeps, StoredKeeps DEF JobStarts, JobEnds, vars, stored
<1>2. up' = up /\ faults' = faults /\ UNCHANGED <<trees, units, service, timer>>
  BY DEF Write, JobStarts, JobEnds, StopJob, vars, running
<1> QED BY <1>1, <1>2, VersionsStand

\* Before an upgrade the operator may stop and start the service, make a set
\* and put one back.
LEMMA VersionsIdle ==
  ASSUME VersionState, up.pc = "idle", AllOld', up' = up, UNCHANGED <<trees, units, timer>>,
         service' \in {None, "old"}
  PROVE  VersionsFit'
BY StateFacts DEF VersionsFit, BeforeFits, DeployedFits, RecoveryFits, RollbackFits, EndFits,
   Before, Deploying, Deployed, RecoverPcs, RollbackPcs

LEMMA VersionsOver ==
  ASSUME VersionState, up'.pc \in {"end", "dead"}
  PROVE  VersionsFit'
BY DEF VersionsFit, BeforeFits, DeployedFits, RecoveryFits, RollbackFits, EndFits,
   Before, Deploying, Deployed, RecoverPcs, RollbackPcs

LEMMA VersionsOfOperator ==
  ASSUME VersionState,
         OperatorStops \/ OperatorStarts \/ OperatorBacksUp \/ OperatorRestores
           \/ OperatorEditsEnvironment
  PROVE  VersionsFit'
<1>1. up' = up /\ UNCHANGED <<trees, units>> /\ up.pc \in {"idle", "end", "dead"}
  BY DEF OperatorStops, OperatorStarts, OperatorBacksUp, OperatorRestores,
     OperatorEditsEnvironment, Upgrading
<1>2. CASE up.pc = "idle"
  <2>0. AllOld /\ service \in {None, "old"} /\ tree = "old"
    BY <1>2, StateFacts DEF VersionsFit, BeforeFits, TreesFit
  <2>1. CASE OperatorStops
    BY <1>1, <1>2, <2>0, <2>1, StateFacts, StopKeeps, VersionsIdle
       DEF OperatorStops, StopService, FilesKeep
  <2>2. CASE OperatorStarts
    BY <1>1, <1>2, <2>0, <2>2, StateFacts, StartKeeps, VersionsIdle
       DEF OperatorStarts, FilesKeep
  <2>3. CASE OperatorBacksUp
    <3>1. AllOld'
      BY <2>0, <2>3, StateFacts, BackupIsOld DEF OperatorBacksUp
    <3> QED BY <1>1, <1>2, <2>0, <2>3, <3>1, VersionsIdle DEF OperatorBacksUp, running
  <2>4. CASE OperatorRestores
    <3>1. restore'.copy = None /\ restore'.parked = None /\ restore'.staged = None
      BY <2>4 DEF OperatorRestores, BeginRestore, NoRestore
    <3>2. AllOld'
      BY <2>0, <2>4, <3>1 DEF OperatorRestores, files, AllOld, OldFile, OldSet
    <3> QED BY <1>1, <1>2, <2>0, <2>4, <3>2, VersionsIdle DEF OperatorRestores, running
  <2>5. CASE OperatorEditsEnvironment
    <3>1. AllOld'
      BY <2>0, <2>5 DEF OperatorEditsEnvironment, AllOld, OldFile, OldSet
    <3> QED BY <1>1, <1>2, <2>0, <2>5, <3>1, VersionsIdle DEF OperatorEditsEnvironment, running
  <2> QED BY <2>1, <2>2, <2>3, <2>4, <2>5
<1>3. CASE up.pc \in {"end", "dead"}
  BY <1>1, <1>3, VersionsOver
<1> QED BY <1>1, <1>2, <1>3

LEMMA VersionsRestored ==
  ASSUME VersionState, RestoreSteps, UNCHANGED <<trees, units, running, transaction, up>>,
         faults' =< 1
  PROVE  VersionsFit'
<1>0. StoreInv /\ up' = up /\ tree' = tree /\ units' = units
  BY DEF VersionState, IInv, FileInv, TypeOK, StoreInv, trees
<1>1. CASE BackupIsDamaged
  <2>1. faults = 0 /\ backup # None /\ UNCHANGED files
    BY <1>1, StateFacts DEF BackupIsDamaged, Fault
  <2>2. backup' # None
    <3>1. backup \in BackupSet /\ backup' \in BackupSet
      BY <1>0, <1>1, <2>1, DamageIs DEF StoreInv, StoreTypes
    <3> QED BY <3>1, BackupAssumption
  <2>3. (OldSet => OldSet') /\ (AllOld => AllOld')
    BY <1>0, <1>1, DamagedIsOld
  <2>4. restore'.pc = restore.pc
    BY <1>0, <1>1 DEF BackupIsDamaged, StoreInv, StoreTypes, RestoreRecord
  <2>5. db' = db /\ (Restoring' <=> Restoring) /\ \A version : Schema(version) => Schema(version)'
    BY <2>1, <2>4 DEF files, Restoring, Schema, Logical
  <2> USE StateFacts DEF VersionsFit, BeforeFits, DeployedFits, RecoveryFits, RollbackFits,
            EndFits, Before, Deploying, Deployed, RecoverPcs, RollbackPcs
  <2>6. up.pc \notin RollbackPcs \cup RecoverPcs \cup {"unplace"}
    BY <2>1
  <2>7. EndFits'
    BY <1>0, <2>5 DEF Everywhere, running
  <2> QED BY <1>0, <2>2, <2>3, <2>5, <2>6, <2>7 DEF trees, running
<1>2. CASE Restoring
  <2>1. up.pc \in {"idle", "end", "dead", "rb_restoring"}
    BY <1>2, StateFacts DEF OneWriter, Upgrading
  <2>2. CASE up.pc = "idle"
    <3>1. AllOld'
      BY <1>0, <2>2, RestoreStepsOld, StateFacts DEF VersionsFit, BeforeFits
    <3> QED BY <2>2, <3>1, VersionsIdle, StateFacts DEF running, VersionsFit, BeforeFits
  <2>3. CASE up.pc \in {"end", "dead"}
    BY <1>0, <2>3, VersionsOver
  <2>4. CASE up.pc = "rb_restoring"
    <3>1. faults = 1 /\ RestoreGoes /\ backup # None /\ OldSet
          /\ backup.sound /\ backup.content # Mixed
          /\ tree = "old" /\ units = "old" /\ up.result # "success"
      BY <2>4, StateFacts DEF VersionsFit, BeforeFits, RecoveryFits, RollbackFits, EndFits,
         RollbackPcs
    <3>2. RestoreGoes'
      BY <1>0, <3>1, RollbackGoesOn
    <3>3. backup' = backup /\ faults' = faults
      BY <3>1 DEF RestoreSteps, CopyForRollback, StageDatabase, StageEnvironment, BackupIsDamaged,
         park_database_sidecars, ReplaceDatabase, ReplaceEnvironment, QuickCheck,
         RestoreFails, UndoDatabase, UndoEnvironment, UndoSidecars, UndoFails,
         FinishRestore, FinishFails, Goes, Fault
    <3> QED BY <1>0, <2>4, <3>1, <3>2, <3>3 DEF VersionsFit, BeforeFits, DeployedFits,
         RecoveryFits, RollbackFits, EndFits, Before, Deploying, Deployed, RecoverPcs,
         RollbackPcs, OldSet
  <2> QED BY <2>1, <2>2, <2>3, <2>4
<1>3. BackupIsDamaged \/ Restoring
  BY DEF RestoreSteps, CopyForRollback, StageDatabase, StageEnvironment, park_database_sidecars,
     ReplaceDatabase, ReplaceEnvironment, QuickCheck, RestoreFails, UndoDatabase,
     UndoEnvironment, UndoSidecars, UndoFails, FinishRestore, FinishFails, Restoring, Goes
<1> QED BY <1>1, <1>2, <1>3

LEMMA VersionsStopped ==
  ASSUME VersionState, Interrupt \/ Kill
  PROVE  VersionsFit'
<1>1. /\ UNCHANGED <<files, backup, faults, tree, failed_root, units>>
      /\ restore' \in {restore, RestoreInterrupted, RestoreKilled}
  BY DEF Interrupt, Kill, trees
<1>2. CASE up.pc = "idle"
  <2>1. \/ /\ restore'.copy = restore.copy /\ restore'.parked = restore.parked
           /\ restore'.staged = restore.staged
        \/ restore'.copy = None /\ restore'.parked = None /\ restore'.staged = None
    <3>1. restore \in RestoreRecord
      BY StateFacts DEF StoreTypes
    <3>2. CASE restore' \in {NoRestore, [NoRestore EXCEPT !.result = "interrupted"]}
      BY <3>2 DEF NoRestore
    <3>3. CASE restore' = [restore EXCEPT !.pc = "finally", !.result = "interrupted"]
      BY <3>1, <3>3 DEF RestoreRecord
    <3> QED BY <1>1, <3>2, <3>3 DEF RestoreInterrupted, RestoreKilled
  <2>2. AllOld
    BY <1>2, StateFacts DEF VersionsFit, BeforeFits
  <2>3. AllOld'
    BY <1>1, <2>1, <2>2 DEF AllOld, OldFile, OldSet, files
  <2>4. up' = up /\ timer' = timer /\ service' \in {service, None} /\ UNCHANGED trees
    BY <1>2 DEF Interrupt, FinishInterrupted, Step, Kill, Upgrading, running, trees
  <2>5. service' \in {None, "old"}
    BY <1>2, <2>4, StateFacts DEF VersionsFit, BeforeFits
  <2> QED BY <1>1, <1>2, <2>3, <2>4, <2>5, VersionsIdle
<1>3. CASE up'.pc \in {"end", "dead"}
  BY <1>3, VersionsOver
<1>4. CASE up'.pc = "finally" /\ up'.result = "interrupted"
  BY <1>4 DEF VersionsFit, BeforeFits, DeployedFits, RecoveryFits,
     RollbackFits, EndFits, Before, Deploying, Deployed, RecoverPcs, RollbackPcs
<1>5. CASE /\ Interrupt /\ Restoring /\ up' = up /\ up.pc = "rb_restoring"
           /\ restore' = RestoreInterrupted
  <2>1. /\ RestoreGoes /\ faults = 1 /\ backup # None /\ backup.sound
        /\ backup.content # Mixed /\ OldSet /\ tree = "old" /\ units = "old"
        /\ up.result # "success"
    BY <1>5, StateFacts DEF VersionsFit, BeforeFits, RollbackFits, EndFits, RollbackPcs
  <2>2. RestoreGoes'
    <3>1. CASE restore.pc = "finally"
      <4>1. restore'.pc = "idle" /\ restore'.result = "interrupted"
        BY <1>5, <3>1 DEF RestoreInterrupted, NoRestore
      <4> QED BY <4>1 DEF RestoreGoes, Restoring
    <3>2. CASE restore.pc # "finally"
      <4>1. /\ restore'.pc = "finally" /\ restore'.result = "interrupted"
            /\ restore'.set = restore.set /\ restore'.late = restore.late
        BY <1>5, <3>2, StateFacts DEF RestoreInterrupted, StoreTypes, RestoreRecord
      <4> QED BY <1>5, <2>1, <4>1 DEF RestoreGoes, Restoring
    <3> QED BY <3>1, <3>2
  <2>3. backup' = backup /\ faults' = faults /\ tree' = tree /\ units' = units
    BY <1>1
  <2> QED BY <1>5, <2>1, <2>2, <2>3 DEF VersionsFit, BeforeFits, DeployedFits,
       RecoveryFits, RollbackFits, EndFits, Before, Deploying, Deployed, RecoverPcs,
       RollbackPcs, OldSet
<1>6. \/ up.pc = "idle"
      \/ up'.pc \in {"end", "dead"}
      \/ up'.pc = "finally" /\ up'.result = "interrupted"
      \/ /\ Interrupt /\ Restoring /\ up' = up /\ up.pc = "rb_restoring"
         /\ restore' = RestoreInterrupted
  <2>1. CASE Kill
    BY <2>1, StateFacts DEF Kill, Upgrading, UpRecord
  <2>2. CASE Interrupt /\ Restoring /\ restore' = RestoreInterrupted /\ up' = up
    BY <2>2, StateFacts DEF OneWriter, Upgrading
  <2>3. CASE /\ up' = [up EXCEPT !.pc = IF up.pc \in {"backup", "transaction"} THEN "end"
                                        ELSE "finally",
                     !.result = "interrupted",
                     !.between = @ \/ up.pc \in {"place", "unplace", "switched"}]
    BY <2>3, StateFacts DEF UpRecord
  <2>4. CASE FinishInterrupted
    BY <2>4, StateFacts, UpMoves DEF FinishInterrupted, Step
  <2> QED BY <2>1, <2>2, <2>3, <2>4 DEF Interrupt
<1> QED BY <1>2, <1>3, <1>4, <1>5, <1>6

LEMMA FaultsOnlyGrow ==
  ASSUME IInv, [Next]_vars
  PROVE  faults \in Nat /\ faults' \in {faults, faults + 1}
<1>1. TypeOK /\ FilesFit /\ OneWriter /\ faults \in Nat
  BY DEF IInv, FileInv, TypeOK, StoreTypes
<1>2. RestoreSteps => faults' \in {faults, faults + 1}
  BY DEF RestoreSteps, CopyForRollback, StageDatabase, StageEnvironment, BackupIsDamaged,
     park_database_sidecars, ReplaceDatabase, ReplaceEnvironment, QuickCheck,
     RestoreFails, UndoDatabase, UndoEnvironment, UndoSidecars, UndoFails,
     FinishRestore, FinishFails, Goes, Fault
<1> QED BY <1>1, <1>2, Kinds DEF LeavesStore, WritesFiles, FaultsGrow

LEMMA VersionsKept ==
  ASSUME IInv, VersionInv, [Next]_vars
  PROVE  VersionInv'
<1> SUFFICES ASSUME faults' =< 1
             PROVE  VersionsFit'
  BY DEF VersionInv
<1>1. VersionState
  BY FaultsOnlyGrow DEF VersionState, VersionInv
<1>2. CASE FinishUpgrade
  <2>1. up'.pc = "end"
    BY <1>1, <1>2, StateFacts, UpMoves DEF FinishUpgrade, Step
  <2> QED BY <1>1, <2>1, VersionsOver
<1> QED
  BY <1>1, <1>2, VersionsBefore, VersionsDeployed, VersionsFailed, VersionsRecovered,
     VersionsRolledBack, VersionsQuiet, VersionsOfOperator, VersionsRestored,
     VersionsStopped DEF Next

\* Where the upgrade ends.
LEMMA OnlyFinishEnds ==
  ASSUME up \in UpRecord, [Next]_vars, up.pc = "finally", up'.pc = "end"
  PROVE  FinishUpgrade \/ (Interrupt /\ FinishInterrupted)
<1>1. up' # up
  OBVIOUS
<1>2. CASE Interrupt \/ Kill
  BY <1>1, <1>2 DEF Interrupt, Kill, Upgrading, UpRecord
<1>3. CASE recover_before_switch \/ rollback
  BY <1>3 DEF recover_before_switch, RecoverUnits, RecoverService, RecoverTimer, rollback,
     WriteRollback, StopForRollback, RollbackTree, RollbackDatabase, RollbackRestored,
     RemoveFailedTree, Step, Noted
<1>4. CASE \/ BeginUpgrade \/ BackUp \/ BeginTransaction \/ Build \/ BeginDeployment
           \/ StopUnits \/ InstallTargetUnits \/ PutAside \/ PlaceNewTree \/ PutBack
           \/ Switched \/ WriteValidating \/ StartTarget \/ Healthy \/ StartTimer
           \/ Succeeded \/ UpgradeFails
  BY <1>4 DEF BeginUpgrade, BackUp, BeginTransaction, Build, BeginDeployment,
     StopUnits, InstallTargetUnits, PutAside, PlaceNewTree, PutBack,
     Switched, WriteValidating, StartTarget, Healthy, StartTimer,
     Succeeded, UpgradeFails, TrySteps, Step
<1>5. CASE \/ Write \/ JobStarts \/ JobEnds \/ OperatorStops \/ OperatorStarts
           \/ OperatorBacksUp \/ OperatorRestores \/ OperatorEditsEnvironment
           \/ RestoreSteps /\ UNCHANGED <<trees, units, running, transaction, up>>
           \/ UNCHANGED vars
  BY <1>1, <1>5 DEF Write, JobStarts, JobEnds, OperatorStops, OperatorStarts,
     OperatorBacksUp, OperatorRestores, OperatorEditsEnvironment, vars
<1> QED BY <1>2, <1>3, <1>4, <1>5 DEF Next

\* An upgrade in which one step raised at most, wherever that was, ends with
\* one version everywhere: the old one if it failed - with the database put
\* back from the set if the new version had already migrated it - and the new
\* one if it succeeded.
THEOREM OneVersion == Spec => OneVersionAtTheEnd
<1> DEFINE Ends ==
      up.pc = "finally" /\ up'.pc = "end" /\ faults <= 1 /\ up.result \in {"success", "failed"}
       => LET version == IF up.result = "success" THEN "new" ELSE "old" IN
          /\ tree' = version /\ units' = version /\ service' = version /\ timer'
          /\ Logical(db, wal).schema = version
<1>1. Init => VersionInv
  <2> SUFFICES ASSUME Init
               PROVE  VersionsFit
    BY DEF VersionInv
  <2>1. /\ up.pc = "idle" /\ up.result = None /\ units = "old" /\ timer = TRUE
        /\ service \in {None, "old"}
    BY DEF Init
  <2>2. restore.copy = None /\ restore.parked = None /\ restore.staged = None
    BY DEF Init, InitBackup, NoRestore
  <2>3. FirstContent.schema = "old"
    BY DEF FirstContent
  <2>4. OldFile(db) /\ OldFile(wal) /\ OldSet
    <3>1. File(0, FirstContent).content = FirstContent
      BY DEF File
    <3>2. \A b \in [content : {FirstContent}, env : {None, 0}, sound : {TRUE}] :
            b.content = FirstContent
      OBVIOUS
    <3> HIDE DEF FirstContent, File
    <3> QED BY <2>3, <3>1, <3>2 DEF Init, InitBackup, OldFile, OldSet
  <2>5. AllOld
    BY <2>2, <2>3, <2>4 DEF AllOld, OldFile
  <2>6. up.result # "success"
    BY <2>1, UpgradeAssumption
  <2> QED BY <2>1, <2>5, <2>6 DEF VersionsFit, BeforeFits, DeployedFits,
       RecoveryFits, RollbackFits, EndFits, Before, Deploying, Deployed, RecoverPcs,
       RollbackPcs
<1>2. IInv /\ VersionInv /\ [Next]_vars => VersionInv'
  BY VersionsKept
<1>3. IInv /\ VersionInv /\ [Next]_vars => Ends
  <2> SUFFICES ASSUME IInv, VersionInv, [Next]_vars, up.pc = "finally", up'.pc = "end",
                      faults <= 1, up.result \in {"success", "failed"},
                      NEW version, version = IF up.result = "success" THEN "new" ELSE "old"
               PROVE  /\ tree' = version /\ units' = version /\ service' = version /\ timer'
                      /\ Logical(db, wal).schema = version
    OBVIOUS
  <2>1. FinishUpgrade \/ (Interrupt /\ FinishInterrupted)
    BY OnlyFinishEnds DEF IInv, FileInv, TypeOK
  <2>2. Everywhere(version)
    BY DEF VersionInv, VersionsFit, EndFits
  <2>3. tree' = tree /\ units' = units /\ service' = service /\ timer' = timer
    BY <2>1 DEF FinishUpgrade, Interrupt, running
  <2> QED BY <2>2, <2>3 DEF Everywhere, Schema
<1>4. Spec => [](IInv /\ VersionInv)
  BY <1>1, <1>2, InductiveInvariant, PTL DEF Spec
<1>5. Spec => [][Ends]_vars
  <2>1. IInv /\ VersionInv /\ [Next]_vars => [Ends]_vars
    BY <1>3
  <2> QED BY <1>4, <2>1, PTL DEF Spec
<1> QED BY <1>5 DEF OneVersionAtTheEnd
=============================================================================

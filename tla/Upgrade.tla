------------------------------- MODULE Upgrade -------------------------------
(***************************************************************************)
(* maintenance/upgrade.py: perform_upgrade replaces the application tree,  *)
(* with the rollback that follows a failure after the trees were switched  *)
(* and the recovery that follows one before.  It is run by an operator,    *)
(* who can interrupt it (the finally clauses run) or kill it, and who can  *)
(* run scripts/openasicmanager-backup while no upgrade runs.               *)
(*                                                                         *)
(* Every step may raise.  A tree is "old" or "new".                        *)
(***************************************************************************)
EXTENDS BackupRestore

ASSUME UpgradeAssumption == None # "success"

VARIABLES
  tree,           \* what is at install_root, or None
  staging_root,   \* the staged tree: None, "partial" or "new"
  rollback_root,  \* the previous tree, put aside
  failed_root,    \* a tree that a rollback put aside
  units,          \* systemd units: "old", "mixed", "new"
  service,        \* the version of the service that runs, or None
  timer, job,     \* the firmware timer is active; its job runs
  transaction,    \* the directory with the state, or None: its phase
  up              \* perform_upgrade; between is history: it was left (by an
                  \* interrupt or by two renames that raised) after the
                  \* first rename and before switched was set

trees == <<tree, staging_root, rollback_root, failed_root>>
running == <<service, timer, job>>
stored == <<files, backup, restore>>
vars == <<stored, faults, trees, units, running, transaction, up>>

Init ==
  /\ InitBackup
  /\ tree = "old" /\ staging_root = None /\ rollback_root = None /\ failed_root = None
  /\ units = "old"
  /\ service = IF db = None THEN None ELSE "old"
  /\ timer = TRUE /\ job = FALSE
  /\ transaction = None
  /\ up = [pc |-> "idle", result |-> None, deployed |-> FALSE, switched |-> FALSE,
           errors |-> FALSE, between |-> FALSE]

Upgrading == up.pc \notin {"idle", "end", "dead"}

Step(pc, next) == up.pc = pc /\ up' = [up EXCEPT !.pc = next]

-----------------------------------------------------------------------------
(* The service and the firmware job                                        *)

\* A connection commits to the journal.
Write ==
  /\ service # None \/ job
  /\ ~Restoring /\ db # None /\ Logical(db, wal).data < MaxWrites
  /\ wal' = File(db.lineage, [Logical(db, wal) EXCEPT !.data = @ + 1])
  /\ UNCHANGED <<db, env, backup, restore, faults, trees, units, running, transaction, up>>

JobStarts ==
  /\ timer /\ ~job /\ tree # None /\ db # None /\ ~Restoring
  /\ job' = TRUE
  /\ UNCHANGED <<stored, faults, trees, units, service, timer, transaction, up>>

\* The last connection that closes checkpoints the journal.
Checkpointed(open) ==
  IF open \/ db = None THEN UNCHANGED <<db, wal>>
  ELSE db' = File(db.lineage, Logical(db, wal)) /\ wal' = None

StopJob ==
  /\ job' = FALSE
  /\ Checkpointed(service # None)
  /\ UNCHANGED <<env, service, timer>>

StopService ==
  /\ service' = None
  /\ Checkpointed(job)
  /\ UNCHANGED <<env, timer, job>>

JobEnds ==
  /\ job /\ ~Restoring
  /\ StopJob
  /\ UNCHANGED <<backup, restore, faults, trees, units, transaction, up>>

\* The application runs what is at install_root; its start migrates.
CanStart == tree # None /\ db # None

StartService ==
  /\ CanStart
  /\ service' = tree
  /\ wal' = File(db.lineage, [Logical(db, wal) EXCEPT
                               !.schema = IF tree = "new" THEN "new" ELSE @])
  /\ UNCHANGED <<db, env, timer, job>>

-----------------------------------------------------------------------------
(* perform_upgrade up to the try                                           *)

BeginUpgrade ==
  /\ up.pc = "idle" /\ ~Restoring /\ db # None /\ service # None
  /\ up' = [up EXCEPT !.pc = "backup"]
  /\ UNCHANGED <<stored, faults, trees, units, running, transaction>>

BackUp ==
  /\ Step("backup", "transaction")
  /\ create_backup
  /\ UNCHANGED <<faults, trees, units, running, transaction>>

BeginTransaction ==
  /\ Step("transaction", "build")
  /\ transaction' = "staging" /\ staging_root' = "partial"
  /\ UNCHANGED <<stored, faults, tree, rollback_root, failed_root, units, running>>

-----------------------------------------------------------------------------
(* The try                                                                 *)

\* The payload, the virtualenv and its validation; the units are copied.
Build ==
  /\ Step("build", "switching")
  /\ staging_root' = "new"
  /\ UNCHANGED <<stored, faults, tree, rollback_root, failed_root, units, running,
                 transaction>>

BeginDeployment ==
  /\ up.pc = "switching"
  /\ up' = [up EXCEPT !.pc = "stop_timer", !.deployed = TRUE]
  /\ transaction' = "switching"
  /\ UNCHANGED <<stored, faults, trees, units, running>>

StopUnits ==
  /\ \/ Step("stop_timer", "stop_job") /\ timer' = FALSE
        /\ UNCHANGED <<files, service, job>>
     \/ Step("stop_job", "stop_service") /\ StopJob
     \/ Step("stop_service", "units") /\ StopService
  /\ UNCHANGED <<backup, restore, faults, trees, units, transaction>>

InstallTargetUnits ==
  /\ Step("units", "aside")
  /\ units' = "new"
  /\ UNCHANGED <<stored, faults, trees, running, transaction>>

PutAside ==
  /\ Step("aside", "place")
  /\ rollback_root' = tree /\ tree' = None
  /\ UNCHANGED <<stored, faults, staging_root, failed_root, units, running, transaction>>

PlaceNewTree ==
  /\ Step("place", "switched")
  /\ tree' = staging_root /\ staging_root' = None
  /\ UNCHANGED <<stored, faults, rollback_root, failed_root, units, running, transaction>>

\* The new tree could not be placed: the old one comes back.
PutBack ==
  /\ Step("unplace", "recover_units")
  /\ tree' = rollback_root /\ rollback_root' = None
  /\ UNCHANGED <<stored, faults, staging_root, failed_root, units, running, transaction>>

Switched ==
  /\ up.pc = "switched"
  /\ up' = [up EXCEPT !.pc = "validating", !.switched = TRUE]
  /\ UNCHANGED <<stored, faults, trees, units, running, transaction>>

WriteValidating ==
  /\ Step("validating", "start")
  /\ transaction' = "validating"
  /\ UNCHANGED <<stored, faults, trees, units, running>>

StartTarget ==
  /\ Step("start", "health")
  /\ StartService
  /\ UNCHANGED <<backup, restore, faults, trees, units, transaction>>

Healthy ==
  /\ Step("health", "timer") /\ service = "new"
  /\ UNCHANGED <<stored, faults, trees, units, running, transaction>>

StartTimer ==
  /\ Step("timer", "postflight")
  /\ timer' = TRUE
  /\ UNCHANGED <<stored, faults, trees, units, service, job, transaction>>

Succeeded ==
  /\ up.pc = "postflight"
  /\ up' = [up EXCEPT !.pc = "finally", !.result = "success"]
  /\ UNCHANGED <<stored, faults, trees, units, running, transaction>>

\* Where a step that raises leads to.
Handler(pc) ==
  CASE pc \in {"backup", "transaction"}                      -> "end"
    [] pc \in {"build", "switching"}                         -> "finally"
    [] pc = "place"                                          -> "unplace"
    [] pc \in {"stop_timer", "stop_job", "stop_service",
               "units", "aside", "unplace"}                  -> "recover_units"
    [] OTHER                                                 -> "write_rollback"

TrySteps ==
  {"backup", "transaction", "build", "switching", "stop_timer", "stop_job",
   "stop_service", "units", "aside", "place", "unplace", "validating", "start",
   "health", "timer", "postflight"}

\* A step raises; the installation of the units may stop half way, a start
\* that timed out may have started the service.
UpgradeFails ==
  /\ up.pc \in TrySteps /\ Fault
  /\ up' = [up EXCEPT !.pc = Handler(up.pc), !.result = "failed",
                      !.errors = (up.pc = "unplace"),
                      !.between = (up.pc = "unplace")]
  /\ units' \in IF up.pc = "units" THEN {"old", "mixed", "new"} ELSE {units}
  /\ \/ up.pc = "start" /\ StartService
     \/ UNCHANGED <<files, running>>
  /\ UNCHANGED <<backup, restore, trees, transaction>>

-----------------------------------------------------------------------------
(* _recover_before_switch                                                  *)

\* Each part notes its error and the next one runs.
Noted(pc, next) ==
  up.pc = pc /\ Fault /\ up' = [up EXCEPT !.pc = next, !.errors = TRUE]

RecoverUnits(pc, next) ==
  /\ \/ Step(pc, next) /\ units' = "old" /\ UNCHANGED faults
     \/ Noted(pc, next) /\ units' \in {units, "mixed", "old"}    \* daemon-reload
  /\ UNCHANGED <<stored, trees, running, transaction>>

RecoverService(pc, next) ==
  /\ \/ Step(pc, next) /\ StartService /\ tree = "old" /\ UNCHANGED faults
     \/ Noted(pc, next) /\ (StartService \/ UNCHANGED <<files, running>>)
     \/ /\ tree # "old"    \* it cannot start or it has the wrong version
        /\ up.pc = pc /\ up' = [up EXCEPT !.pc = next, !.errors = TRUE]
        /\ StartService \/ (~CanStart /\ UNCHANGED <<files, running>>)
        /\ UNCHANGED faults
  /\ UNCHANGED <<backup, restore, trees, units, transaction>>

RecoverTimer(pc, next) ==
  /\ \/ Step(pc, next) /\ timer' = TRUE /\ UNCHANGED faults
     \/ Noted(pc, next) /\ UNCHANGED timer
  /\ UNCHANGED <<stored, trees, units, service, job, transaction>>

recover_before_switch ==
  \/ RecoverUnits("recover_units", "recover_service")
  \/ RecoverService("recover_service", "recover_timer")
  \/ RecoverTimer("recover_timer", "finally")

-----------------------------------------------------------------------------
(* _rollback                                                               *)

\* The write of the phase is before the rollback: if it raises there is none.
WriteRollback ==
  /\ \/ Step("write_rollback", "rb_timer_stop") /\ transaction' = "rollback"
        /\ UNCHANGED faults
     \/ Noted("write_rollback", "finally") /\ UNCHANGED transaction
  /\ UNCHANGED <<stored, trees, units, running>>

StopForRollback ==
  /\ \/ /\ \/ Step("rb_timer_stop", "rb_job_stop") /\ timer' = FALSE
              /\ UNCHANGED <<files, service, job>>
           \/ Step("rb_job_stop", "rb_service_stop") /\ StopJob
           \/ Step("rb_service_stop", "rb_aside") /\ StopService
        /\ UNCHANGED faults
     \/ /\ \/ Noted("rb_timer_stop", "rb_job_stop")
           \/ Noted("rb_job_stop", "rb_service_stop")
           \/ Noted("rb_service_stop", "rb_aside")
        /\ UNCHANGED <<files, running>>
  /\ UNCHANGED <<backup, restore, trees, units, transaction>>

RollbackTree ==
  /\ \/ /\ Step("rb_aside", "rb_place")
        /\ failed_root' = tree /\ tree' = None
        /\ UNCHANGED <<faults, rollback_root>>
     \/ /\ Step("rb_place", "rb_units")
        /\ tree' = rollback_root /\ rollback_root' = None
        /\ UNCHANGED <<faults, failed_root>>
     \/ /\ Noted("rb_aside", "rb_units") \/ Noted("rb_place", "rb_units")
        /\ UNCHANGED <<tree, rollback_root, failed_root>>
  /\ UNCHANGED <<stored, staging_root, units, running, transaction>>

\* Mutant: the database stays as the target has migrated it.
KeepDatabase ==
  /\ Step("rb_restore", "rb_service")
  /\ UNCHANGED <<stored, faults, trees, units, running, transaction>>

\* A set that does not verify is an error that is noted.
RollbackDatabase ==
  /\ \/ Step("rb_restore", "rb_restoring") /\ BeginRestore
     \/ /\ up.pc = "rb_restore" /\ ~verify_backup
        /\ up' = [up EXCEPT !.pc = "rb_service", !.errors = TRUE]
        /\ UNCHANGED restore
  /\ UNCHANGED <<files, backup, faults, trees, units, running, transaction>>

RollbackRestored ==
  /\ up.pc = "rb_restoring" /\ ~Restoring
  /\ up' = IF restore.result = "interrupted"
           THEN [up EXCEPT !.pc = "finally", !.result = "interrupted"]
           ELSE [up EXCEPT !.pc = "rb_service", !.errors = (@ \/ restore.result # "ok")]
  /\ UNCHANGED <<stored, faults, trees, units, running, transaction>>

RemoveFailedTree ==
  /\ Step("rb_clean", "finally")
  /\ failed_root' = None
  /\ UNCHANGED <<stored, faults, tree, staging_root, rollback_root, units, running,
                 transaction>>

rollback ==
  \/ WriteRollback
  \/ StopForRollback
  \/ RollbackTree
  \/ RecoverUnits("rb_units", "rb_restore")
  \/ RollbackDatabase
  \/ RollbackRestored
  \/ RecoverService("rb_service", "rb_timer")
  \/ RecoverTimer("rb_timer", "rb_clean")
  \/ RemoveFailedTree

-----------------------------------------------------------------------------
\* Mutant: the previous tree goes in any case.
CleanAll ==
  /\ Step("finally", "end")
  /\ transaction' = IF up.result = "success" THEN None ELSE transaction
  /\ staging_root' = None /\ rollback_root' = None
  /\ UNCHANGED <<stored, faults, tree, failed_root, units, running>>

\* The finally clause.
FinishUpgrade ==
  /\ Step("finally", "end")
  /\ IF up.result = "success"
     THEN rollback_root' = None /\ transaction' = None /\ UNCHANGED staging_root
     ELSE IF ~up.switched
     THEN staging_root' = None /\ rollback_root' = None /\ UNCHANGED transaction
     ELSE UNCHANGED <<staging_root, rollback_root, transaction>>
  /\ UNCHANGED <<stored, faults, tree, failed_root, units, running>>

-----------------------------------------------------------------------------
(* The operator                                                            *)

\* The finally clause is interrupted: nothing of it is done, or the first of
\* two removals.
FinishInterrupted ==
  /\ Step("finally", "end")
  /\ \/ UNCHANGED <<staging_root, rollback_root>>
     \/ /\ up.result = "success"
        /\ rollback_root' = None /\ UNCHANGED staging_root
     \/ /\ up.result # "success" /\ ~up.switched
        /\ staging_root' = None /\ UNCHANGED rollback_root

\* Ctrl-C: no handler runs, the finally clauses do.  During a restore it is
\* the finally clause of the restore that runs first.
Interrupt ==
  /\ \/ /\ Restoring
        /\ restore' = RestoreInterrupted
        /\ UNCHANGED <<staging_root, rollback_root, up>>
     \/ /\ Upgrading /\ ~Restoring /\ up.pc # "finally"
        /\ up' = [up EXCEPT !.pc = IF up.pc \in {"backup", "transaction"} THEN "end"
                                   ELSE "finally",
                            !.result = "interrupted",
                            !.between = @ \/ up.pc \in {"place", "unplace", "switched"}]
        /\ UNCHANGED <<staging_root, rollback_root, restore>>
     \/ FinishInterrupted /\ UNCHANGED restore
  /\ UNCHANGED <<files, backup, faults, tree, failed_root, units, running, transaction>>

\* SIGKILL, or the host goes down with everything that runs.
Kill ==
  /\ Upgrading \/ Restoring
  /\ restore' = RestoreKilled
  /\ up' = IF Upgrading THEN [up EXCEPT !.pc = "dead"] ELSE up
  /\ \/ UNCHANGED running
     \/ service' = None /\ job' = FALSE /\ UNCHANGED timer
  /\ UNCHANGED <<files, backup, faults, trees, units, transaction>>

\* systemctl stop and start, while no upgrade runs.
OperatorStops ==
  /\ ~Upgrading /\ ~Restoring /\ service # None
  /\ StopService
  /\ UNCHANGED <<backup, restore, faults, trees, units, transaction, up>>

OperatorStarts ==
  /\ ~Upgrading /\ ~Restoring /\ service = None
  /\ StartService
  /\ UNCHANGED <<backup, restore, faults, trees, units, transaction, up>>

\* scripts/openasicmanager-backup: create, and restore, which asks for the
\* service and not for the firmware job.
OperatorBacksUp ==
  /\ up.pc = "idle" /\ ~Restoring
  /\ create_backup
  /\ UNCHANGED <<faults, trees, units, running, transaction, up>>

OperatorRestores ==
  /\ ~Upgrading /\ service = None /\ ~job
  /\ db # None => db.lineage < MaxRestores
  /\ BeginRestore
  /\ UNCHANGED <<files, backup, faults, trees, units, running, transaction, up>>

OperatorEditsEnvironment ==
  /\ ~Upgrading /\ ~Restoring /\ env = 0
  /\ env' = 1
  /\ UNCHANGED <<db, wal, backup, restore, faults, trees, units, running, transaction, up>>

-----------------------------------------------------------------------------
Next ==
  \/ Write
  \/ JobStarts
  \/ JobEnds
  \/ BeginUpgrade
  \/ BackUp
  \/ BeginTransaction
  \/ Build
  \/ BeginDeployment
  \/ StopUnits
  \/ InstallTargetUnits
  \/ PutAside
  \/ PlaceNewTree
  \/ PutBack
  \/ Switched
  \/ WriteValidating
  \/ StartTarget
  \/ Healthy
  \/ StartTimer
  \/ Succeeded
  \/ UpgradeFails
  \/ recover_before_switch
  \/ rollback
  \/ FinishUpgrade
  \/ RestoreSteps /\ UNCHANGED <<trees, units, running, transaction, up>>
  \/ Interrupt
  \/ Kill
  \/ OperatorStops
  \/ OperatorStarts
  \/ OperatorBacksUp
  \/ OperatorRestores
  \/ OperatorEditsEnvironment

Spec == Init /\ [][Next]_vars

-----------------------------------------------------------------------------
(* Properties                                                              *)

Trees == {tree, rollback_root, failed_root}

\* "The previous application tree is kept as a sibling rollback directory
\* until postflight succeeds" (docs/UPGRADE.md:82): whatever steps raise, and
\* wherever the upgrade is interrupted or killed, except where the finally
\* clause runs with the old tree aside and switched still false, and removes
\* it (upgrade.py:610-611): an interrupt after the first rename and before
\* switched is set (498-505), or putting the new tree in place and putting
\* the old one back raise one after the other (500, 502).
PreviousTreeIsKept ==
  up.result = "success" \/ "old" \in Trees \/ up.between

\* Whatever one step raised, the upgrade leaves one version everywhere: the
\* tree, the units and the service, and a database that this version has
\* migrated and no later one; the timer is active again.
OneVersionAtTheEnd ==
  [][up.pc = "finally" /\ up'.pc = "end" /\ faults <= 1 /\ up.result \in {"success", "failed"}
       => LET version == IF up.result = "success" THEN "new" ELSE "old" IN
          /\ tree' = version /\ units' = version /\ service' = version /\ timer'
          /\ Logical(db, wal).schema = version]_vars
=============================================================================

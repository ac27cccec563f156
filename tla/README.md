# OpenASICManager: TLA+ models, checks and proofs

OpenASICManager is a FastAPI service that watches and commands a farm of ASIC
miners. All of its state is one SQLite database; its concurrency is the HTTP
request threads, a handful of daemon threads (poller, scheduler, recurring
maintenance, telemetry, anomalies, Telegram summary) and the 32 executor
threads that run control jobs. This directory holds the specifications kept
beside that code. Everything is translated from the Python source; the paths
below are relative to `app/`.

## 1. Inventory

| Part | State it keeps | Operations | Hard behaviours |
|---|---|---|---|
| Control pipeline (`control/queue.py`, `worker.py`, `repository.py`, `policy.py`) | `control_jobs`, `control_queue_lock`, executor queue, worker locals | queue_control, queue_reboot, verified_control_worker, reboot_worker | racing callers, late workers, retries, timeouts, crash and restart |
| Monitoring (`monitoring/`) | `miners.last_state`, `last_seen` | poll_miner, polling_loop, delayed polls | a slow poll overtaken by a command |
| Inventory (`api/inventory.py`, `inventory/`) | `miners` configuration columns | driver, firmware, enabled, schedule edits | edits while a job runs |
| Scheduler (`scheduler/`, `api/scheduler.py`) | `schedule_rules`, `settings.scheduler_enabled`, `manual_override_until` | rule evaluation, scheduler_iteration, rule create / update / toggle / delete | stale snapshot, precedence of GROUP over FARM, boundary times, check-then-write conflicts |
| Bulk control (`control/bulk.py`, `api/control.py`) | none of its own | preview, execute | eligibility stale between preview and execution, partial failure |
| Maintenance windows (`maintenance_windows/`, `api/maintenance.py`) | `maintenance_windows`, members | create, extend, end | overlap, snapshots of groups, read before an await |
| Recurring maintenance (`recurring_maintenance/`) | definitions, occurrences, lifecycle events | materialize, claim events, iteration | crash between steps, duplicate occurrences, deleted groups |
| Anomalies (`anomalies/`) | candidates, issues, policy layers | scan, open / clear / acknowledge, effective policy | hysteresis, grace, schedule and maintenance suppression |
| Groups (`miner_groups/`, `api/miner_groups.py`) | `miner_groups`, membership | create, rename, delete, move | deletion of a group that rules or windows use |
| Notifications (`notifications/`) | settings, last summary | dispatch, summary loop | lost or repeated messages |
| Telemetry (`telemetry/`) | `telemetry` rows | sampling, retention | retention boundaries |
| Discovery (`discovery.py`, `discovery_profiles/`) | profiles, new miners | scan, add | duplicate addresses |
| Upgrade and backup (`maintenance/upgrade.py`, `backup.py`) | directories, archives | perform_upgrade, rollback, create, restore | failure between renames |
| Service history, calendar, remote web, doctor, audit, UI | read models and records | listing, recording | none that interleave |

Interactions: the scheduler, the API and bulk control all enter the pipeline
through queue_control / queue_reboot; the workers verify through
`poll_miner`, which writes the same row that the poller and the inventory edits
write; the override that a manual command writes is read by the scheduler; the
anomaly scan reads the schedule, the maintenance windows and the miners table;
recurring maintenance creates maintenance windows.

The hazards of the system, each at its line, are listed in `PROJECT.json`.

What makes each part correct, in one sentence:

- **Control pipeline**: an ASIC has one active job at most; every job ends, once;
  a job is VERIFIED only on what the ASIC reported after the command; retries are
  bounded and stop with the service.
- **Rules**: an accepted rule does not contradict another one of its scope, never
  acts on the past, and has its group; of the rules in a scope the one that
  occurred last is in force, and the next transition is exactly the next instant
  at which one comes into force.
- **Scheduler**: it commands what the rules say, leaves a manually commanded
  ASIC alone until its next transition, and tries again as long as an ASIC is
  against its schedule.
- **Bulk control**: every selected ASIC is answered in its place; "accepted" means
  that this request opened the job; nothing is commanded on an eligibility that is
  no longer true.
- **Maintenance windows**: windows that operators give one target do not overlap;
  a window ends once and stays as it is then; an extension does not shorten,
  unless another one overtook it.
- **Recurring maintenance**: an occurrence that stays due becomes a window, and
  never two; it is reported cancelled or completed, not both.
- **Anomalies**: the layers of the policy stay valid together; an episode of a
  condition has one issue, which opens only after a grace in which no scan saw
  the condition absent or suppressed; what stays wrong is reported in the end.
- **Upgrade, backup**: after a failure at any step one version is complete, with
  its units and a database of its schema; a failed restore has changed nothing;
  no database is read with the journal of another one; the previous content is
  somewhere, wherever the program is killed.

## 2. Modules

| Module | What it is | Code |
|---|---|---|
| `ControlJobs` | the control pipeline, its polls and edits, and the life of the process | `control/`, `monitoring/`, `api/inventory.py`, `app.py`, `db.py` |
| `JobLedger` | abstract specification: what readers of `control_jobs` may rely on | the table `control_jobs` |
| `ControlJobsProofs` | theorems about `ControlJobs` | |
| `ScheduleRules` | pure operators: what a set of rules says at an instant | `scheduler/policy.py`, `scheduler/repository.py` |
| `ScheduleTable` | the table of rules and the clock, which the next and `Scheduler` share | the table `schedule_rules` |
| `ScheduleClock` | those operators while the clock runs | same as `ScheduleRules` |
| `RuleStore` | the requests that write `schedule_rules` and delete groups | `api/scheduler.py`, `scheduler/repository.py`, `miner_groups/repository.py` |
| `RuleStoreProofs` | theorems about `RuleStore` | |
| `Scheduler` | the scheduler's iteration against manual commands and edits | `scheduler/service.py`, `control/queue.py`, `inventory/repository.py` |
| `ScheduleProofs` | theorems about `ScheduleRules`, `ScheduleClock` and `Scheduler` | |
| `MaintenanceWindows` | the requests that create, extend and end windows | `maintenance_windows/`, `api/maintenance.py` |
| `RecurringMaintenance` | extends it with the rules and the thread that materializes their occurrences | `recurring_maintenance/`, `api/recurring_maintenance.py` |
| `RecurringMaintenanceProofs` | theorems about `RecurringMaintenance` | |
| `BulkControl` | the fan-out of one request over `JobLedger` | `control/bulk.py`, `api/control.py` |
| `BulkControlProofs` | theorems about `BulkControl` | |
| `AnomalyPolicies` | pure operators: limits, layers, patches and the conditions | `anomalies/policy.py`, the loaders of `anomalies/repository.py` |
| `AnomalyPolicyStore` | the requests that write the layers, move ASICs and delete groups | `api/anomalies.py`, `api/anomaly_overrides.py`, `api/miner_groups.py`, `anomalies/repository.py` |
| `AnomalyPolicyStoreProofs` | theorems about `AnomalyPolicyStore` | |
| `Anomalies` | the scan, its snapshots and the transitions of a condition | `anomalies/service.py`, `anomalies/repository.py`, `api/issues.py` |
| `AnomaliesProofs` | theorems about `Anomalies` | |
| `IssueLedger` | abstract specification: episodes | the table `issues` |
| `BackupRestore` | a backup set and its restore, step by step | `maintenance/backup.py` |
| `Upgrade` | extends it with the upgrade, its rollback and the operator | `maintenance/upgrade.py`, `../scripts/openasicmanager-backup` |
| `UpgradeProofs` | theorems about `BackupRestore` and `Upgrade` | |
| `MC*` | values of the constants for TLC | |

`RuleStore` extends `ScheduleRules`, and so does `ScheduleTable`, which
`ScheduleClock` and `Scheduler` extend;
`ControlJobs` implements `JobLedger` (`INSTANCE`, proved), and `BulkControl` is
composed with that abstraction instead of the pipeline; `AnomalyPolicyStore` and
`Anomalies` share `AnomalyPolicies`, and `Anomalies` implements `IssueLedger`
(proved).
`Scheduler` composes the rules with the
pipeline through what `ControlJobs` establishes: at most one active job per
miner (proved), and jobs that end (`JobsEnd`, checked). Operators have
the names of the functions they translate; a definition below a comment
"Mutant:" is not part of any specification.

### ControlJobs

One action is one database statement or one device call, because the code holds
no lock between them except `control_queue_lock`.

| State | Code |
|---|---|
| `enabled`, `driver`, `last_state`, `override`, `last_action` | columns of `miners`; `override` says whether `manual_override_until` is set |
| `status`, `miner_id`, `action`, `attempts` | columns of `control_jobs`, one id per element of `Jobs` |
| `lock`, `cpc`, `creq`, `cjob` | threads in `queue_control` / `queue_reboot` |
| `pool` | work items of the `ThreadPoolExecutor` |
| `wpc`, `wphase`, `wlast`, `wobs`, `wpolls`, `wstable`, `wsent` | locals and position of `verified_control_worker` / `reboot_worker` |
| `poll` | polls of the background thread and of edits, between the device's answer and `save_miner_status` |
| `up` | the process: running, `stop_event` set, or down |
| `observed`, `tainted` | history, read by `VerifiedByTheDevice` only |

A worker that an exception ended is at `wpc = "raised"`; the position is history
too, for nothing in the program remembers it.

`Request` and `RequestReboot` are the checks before the lock; `LockAndCheck` /
`AlreadyActive` the look-up under it; `set_manual_override`, `create_control_job`
and `Submit` the rest of `queue_control`. `StartVerified` and `StartReboot` are
the first statements of the workers. A loop head chooses between `LoopEnds`
(deadline or stop), `LoopSends` (first attempt or retry) and `LoopWaits`; then
`SendOk` / `SendFails` / `GivesUp`, `WaitElapsed` / `WaitStopped`, `PollSkips` /
`PollReads` / `PollSaves`, and `CheckVerify` / `Verified` for a pause or resume,
`CheckTransition`, `CheckReturn` / `Returned` for a reboot. Deadlines compare
clocks with configured times, so they may pass at any loop head after at most
`MaxPolls` polls. The device is arbitrary: a reading is one of the states that the
code tells apart, among them `UNKNOWN`, or `OTHER`, for `drivers/awesome.py` passes
any raw state on. `Crash` may happen in any state; `Restart` is `init_db`.

A statement that waits longer than its ten seconds for the database (`db.py:10`)
raises. Outside a `try` this ends the worker (`StartRaises`, `WorkerRaises`, at
most `MaxRaised` times); `reboot_worker` ignores it around a poll and compares the
row as it was (`PollRaises`); `poll_miner` takes it for a device that does not
answer and marks the ASIC OFFLINE (`SaveFails`, `BackgroundSaveFails`); the polling
loop ignores it (`BackgroundRaises`).

### ScheduleRules, ScheduleTable, ScheduleClock

An instant is a number of minutes of local time since a Monday. A rule is a
record with the columns that decide; `days_mask` is a set of weekdays.
`schedule_rule_next_run` looks 8 days ahead, `rule_last_occurrence` 7 days back
and not before `effective_from`; `active_rule`, `desired_state` and
`next_transition` are `_effective_schedule_details` for a miner of a group. The
clocks are taken not to change: at a change of the clocks Python compares
aware datetimes of one zone by local time, which these operators do not follow.

### RuleStore

The rows of `schedule_rules`, the groups, and the requests in flight, each with
the row it read. Create and update are coroutines: from their last `await` they
hold the event loop (`loop`), so two of them do not interleave there; toggle,
delete and group deletion run in threads and do. `raced` and `changed_at` are
history.

### Scheduler

The whole iteration in the order of its reads: `IterationStarts` (setting and
clock), `IterationReadsMiners` (rows), `IterationReadsRules` (effective states
and the decisions of the loop), then per miner `IterationCalls` and
`IterationQueues` (`queue_control(manual=False)`). A manual command holds the
lock through `ManualLock`, `ManualTransition`, `set_manual_override`,
`create_control_job`. Jobs are kept as the action of the active job, which
sends, ends and cools down at any time. `manual_at` and `edited` are history.

### MaintenanceWindows, RecurringMaintenance

`windows` is the table, with rows that are never deleted; `req` holds the requests
in flight with the clock and the row they read. POST and PUT are coroutines: they
arrive (`CreateArrives`, `ExtendArrives`: the clock, and the row of an extension,
are read before the `await`), validate and look for a conflict (`CreateBody`,
`ExtendBody`), and write (`create_maintenance_window`,
`extend_maintenance_window`) without leaving the event loop in between
(`LoopFree`). The end of a window runs in a thread (`EndArrives`,
`end_maintenance_window`). Members of groups are left out; a creation for a group
may be refused for want of members.

A recurring rule is its target, the instants at which it starts, and its
duration; its version is the time of its last edit. `IterationStarts` reads the
clock and lists the occurrences that are due; each of them is then one
transaction (`materialize_occurrence`), nothing (`NothingToMaterialize`) or an
error that the loop keeps (`MaterializeRaises`); `claim_lifecycle_events` is the
transaction that ends an iteration. The manual requests look for conflicts with
recurring windows, the materializer looks for none: the property is about
manual windows. The deletion of a group is that of `RuleStore` seen from here:
neither windows nor recurring rules prevent it. `ended_when` is history, and so
is `dirty`, which marks an extension that another one overtook.

### BulkControl

`bulk` is the request: what it selects, each target with the eligibility of the
moment of the selection (`resolve_bulk_control_selection`), and the results so
far. Each turn is two steps, because the queue looks at the row before its lock
(`LookAtRow`) and at the jobs inside it (`InTheLock`, which may raise); what the
snapshot rejected is answered without the queue. `all_action` is the older
farm-wide route, whose targets have no eligibility but the columns it selects by.
`Pipeline` stands for everybody else who opens jobs and for the workers, in the
steps of `JobLedger`. `lately` is history.

### AnomalyPolicies, AnomalyPolicyStore

A layer is a function on the fields that it sets; `Inherit` is the one that sets
none. The policy of an ASIC is global, then group, then miner (`Over`), and a
layer that does not resolve is left out by the loaders. A request is its
position and the values it read last: the body is awaited between the first
read and the rest (`PutMiner`, `PutMinerBody`); after it a PUT is a coroutine
that keeps the event loop (`loop`), while DELETEs, moves and the deletion of a
group run in threads. Validation and write are separate transactions in each of
them. `dirty` and `overlapped` are history: whether some other request wrote
between the first read and the write.

### Anomalies, IssueLedger

A scan reads, in this order: the policy, the groups' layers, the miners' layers,
the miners, the maintenance windows, the schedule; `scan` holds what was read.
Then each ASIC is taken (`ScanMiner`, where resolving its layers may raise and
lose the rest of the scan) and each of its three conditions is one transaction
(`set_anomaly_condition`). A candidate is kept as its age, which `Tick` lets
grow; `quiet` is history. `SetLayer`, `SetMiner`, `SetDesired`, `SetCovered` and
the acknowledgements are what the other parts do, as coarse as the scan can
tell: in particular the layers need not be valid together, as `AnomalyPolicyStore`
shows. `ScanIsLost` is an exception that the loop catches, or a restart;
`EndOfScanFails` the one it does not catch, which ends the thread.

### BackupRestore, Upgrade

A database file has a lineage and a content, its write-ahead log the lineage of
the file it belongs to. SQLite applies a log to whatever file it finds beside it:
`Logical` is `Mixed` if they do not belong together. `restore` is the position of
`restore_backup` with its temporary files; each rename, copy and check is a
step, and each may raise (`RestoreFails`), its handler (`UndoFails`) and its finally
clause (`FinishFails`) too. The storage may damage the set at any time
(`BackupIsDamaged`): the database so that quick_check sees it (`Mixed`), the database
so that it does not (another `altered`), or the environment. `verify_backup` sees
all of it by its checksums (`sound`); what is copied later is checked by
quick_check for the database (`StageDatabase`) and not at all for the environment
(`StageEnvironment`). `late` is history: the parts that were damaged in between.

`Upgrade` adds the four trees, the units, the service and the firmware job with
its timer, and `up`, the position of `perform_upgrade`: from the backup over
stop, units, the two renames, start, health and timer to success; `Handler` says
where a step that raises leads: to the end, to `recover_before_switch`, or to
`rollback`, whose every part notes its error (`Noted`) and goes on. `Interrupt` is
Ctrl-C: no handler runs, the finally clauses do, and may be interrupted themselves
(`FinishInterrupted`). `Kill` stops everything where it is. `between` is history: the
upgrade was left between the first rename and the assignment of `switched`. Starting the service migrates the schema. The operator can stop, start,
back up, restore and edit the environment while no upgrade runs.

## 3. Checks

| Run | Instance | What it shows |
|---|---|---|
| `control_race` | 1 ASIC, 3 jobs, 2 callers, 2 threads, 1 worker that an exception ends | every safety property of the pipeline, and that it implements `JobLedger` |
| `control_verify` | 1 ASIC, 1 job, 1 background poll, edits of every kind, polls and a worker that meet a locked database | VERIFIED rests on evidence; every job ends that no exception loses |
| `rules_eval` | every pair of 16 rows, 9 instants around day, week and noon boundaries | the windowed searches find the last occurrence; transitions are exact |
| `rules_race` | 2 ids, 2 requests at a time, 1 group | what the checks guarantee when no write overtakes them |
| `scheduler_race` | 1 ASIC, 1 group, 3 tables, 3 disturbances | overrides last until the next transition and not longer |
| `scheduler_liveness` | 2 ASICs, 1 disturbance | an ASIC against its schedule is commanded again and again |
| `maintenance_race` | 2 requests at a time, 1 rule, 2 targets, 3 instants, 3 disturbances | the safety properties of windows and occurrences |
| `maintenance_liveness` | 2 rules, 3 disturbances, no requests | a due occurrence becomes a window whatever the others do |
| `bulk` | 2 ASICs, 1 group, 2 jobs, 2 edits or restarts; selections of up to 3 | what the answers of one request say of the jobs |
| `anomaly_policy` | 1 ASIC, 2 groups, 2 requests at a time | layers stay valid together while no write is overtaken; a patch keeps the other fields |
| `anomaly_scan` | 1 ASIC, 1 group, 3 changes from outside | hysteresis, grace, episodes (`IssueLedger`), what aborts a scan; liveness of reports |
| `upgrade` | 2 steps that raise, 1 write, 1 restore; interrupts and kills anywhere | which tree, units, database and journal are left |

Why the bounds are enough. The properties of the pipeline are about one ASIC:
`control_race` gives it more jobs than threads, a caller in each position
against another, and three jobs in a row, so that one may be left over from
before a crash; `control_verify` gives one job every edit and a slow poll, with
both phases of a reboot and all three attempts. `MaxPolls = 2` lets a
loop go round after a poll, and lets a reboot see its two stable polls.
`MaxRaised = 1` loses one job; the ASIC has then nothing but refusals until a
restart, so a second one shows nothing new. `control_race` reads MINING and UNKNOWN,
takes jobs and callers as symmetric and leaves the two histories out of its
states (`VIEW`), because none of its properties reads them: 420,567 states.
`control_verify` reads MINING, PAUSED and UNKNOWN, which are the target, what is
not, and an interruption; OFFLINE comes from saves that raise: 872,792 states. The
hazards of the rule store need two requests and two rows that conflict. In the
scheduler a disturbance is an operator's step or a failure (`Events`); a manual
command, an edit and a failure or a restart fit in three, while the iteration,
jobs and polls are not limited. In the maintenance runs a disturbance is a
request, an edit of a rule, the deletion of the group, a failed iteration or a
restart: a creation and two extensions of it, or an extension and the end, fit in
three; the instants let an interval begin, overlap another one and run out, and
rules may exist at the start. `maintenance_liveness` needs two rules, the first of
them for a group that is deleted.

`bulk` needs two targets, so that one is answered while the other waits, and a
selection that is too long or names one twice (`BoundedSeq` up to one more than
the maximum of 2, which stands for the 50 of the code). In `anomaly_policy` one
ASIC with two groups has every relation between layers that the validations
speak of (in a group, moved between groups, without one), and a hazard is a
request that overtakes another; the number of requests is not limited, only how
many are in flight. The conditions of `Anomalies` share nothing but the rows that
a scan reads, so one ASIC shows them all; a grace of 0 or 1 and `MaxAge = 1` tell
"before", "at" and "after" the grace apart; three changes are a policy that
changes, a move and a lost scan, or an ASIC that goes offline, is acknowledged and
comes back. Scans and time are not limited. In `upgrade` one fault is what the
handlers are written for, the second one hits the handlers themselves, or the
finally clause, or is damage of the set; 1,520,765 states; one write
is enough to tell the database before from the one after, and one restore by the
operator may precede the upgrade's own.

Fairness. `ControlJobs!FairSpec`: threads that can run do (weak fairness of every
worker, of a caller that has created a row, and of the exit after `stop_event`);
a worker never waits for the lock, and all its waits have time-outs. Nothing is
assumed of requests, operators, background polls or the device.
`Scheduler!FairSpec`: the scheduler thread starts iterations (the supervisor's
loop) and goes on in one, a caller under the lock goes on, jobs end and cooldowns
pass. The fairness of an iteration's steps is written out with
`IterationCanStep` instead of ENABLED, so that TLC need not evaluate the
decisions twice. `RecurringMaintenance!FairSpec`: the thread starts iterations and
goes on in one. The clock has no fairness, and it stops at the last instant:
"stays due" stands for the seven days of the catch-up, which are long against
the interval between iterations. `Anomalies!FairSpec`: the thread goes on unless it
has stopped (its loop catches what a scan raises), and time passes; both are
written as formulas about which variables change, so that TLC need not evaluate
the actions again. Polls, operators and failures are free. Deadlock is not
checked in any run: a farm without requests rests, ids and instants run out.

Each property of a passing run has a mutant of the code that breaks it; the
mutants stand in the modules beside the definitions they replace.

### Where the code stops short

The properties hold of the code as it is; where it falls short of what one would
expect, the property says so in its exception, and these are the exceptions.

1. *A job that never ends* (`NoOrphanJob` and `JobsEnd` except it). The worker writes
   RUNNING and then calls `control_timeout`, which raises on a driver that was set
   to unset while the job waited; and no `try` surrounds its later statements
   (`worker.py:354`), which raise if the database stays locked for ten seconds. The
   exception disappears in the Future, the row stays RUNNING or QUEUED, and the
   ASIC answers `already_active` until the service restarts.
2. *Verified without evidence* (`VerifiedByTheDevice`). `poll_miner` skips a
   disabled ASIC, and the worker compares the row it finds: an old `last_state` can
   verify the job. So can a background poll that read the device before the
   command. A save that raises makes `poll_miner` mark the ASIC OFFLINE
   (`monitoring/service.py:43-59`), and a reboot takes that for its interruption; it
   also compares a row that no poll refreshed if the poll raises
   (`worker.py:588-597`). UNKNOWN and OFFLINE are an interruption even if the ASIC
   was in that state before (`worker.py:631-634`): this the property takes over from
   the code.
3. *Conflicting rules* (`ConflictsOnlyFromRaces`). A toggle checks and writes in
   two transactions.
4. *Overrides outlast transitions* (`UneditedOverrideEndsAtTheTransition`).
   `manual_override_until` is computed once; edits of rules and moves between
   groups do not refresh it.
5. *Commands against a younger override* (`SchedulerWaitsForTransition`). The
   scheduler acts on rows it read before its loop. A command for which there is
   no transition to wait for stores 0, which suspends nothing; if such a command
   precedes the snapshot and another one follows it, the rows look alike, so the
   property excuses that case by the clock.
6. *Layers that do not resolve* (`LayersResolveUnlessOverlapped`). Validation and
   write of a layer are two transactions; a request in between makes a
   combination that none has seen, or leaves the layer of a group that is gone.
   The loaders leave such layers out, so the ASIC falls back to what it inherits.
7. *A move aborts a scan* (`ScansAbortOnlyAfterMoves`). The miners' layers are
   filtered with the group each ASIC has at one read and resolved with the group
   it has at a later one; the exception loses the rest of the farm until the next
   scan.
8. *The anomaly thread ends* (`OfflineIsReported` asks for a thread that has not
   stopped). After a scan the interval is read outside the `try`.
9. *The old tree is removed* (`PreviousTreeIsKept`). docs/UPGRADE.md:82 promises the
   previous tree until postflight succeeds. From the first rename until `switched`
   is set (`upgrade.py:498-505`) the old tree is aside and `switched` is still false.
   Ctrl-C in this window - after the second rename too, when the new tree is in
   place already - or a second rename that fails as its undoing does makes the
   finally clause (610-611) remove the only copy. A kill at the same place keeps it,
   and so do an interrupt or an error anywhere else.
10. *A handler or a finally clause that fails* (`FailedRestoreChangesNothing`,
   `PreviousContentIsKept`). If undoing a restore raises too, the finally clause
   removes the rollback copies it has not used. If the finally clause raises after a
   success (`backup.py:1155-1173`), the restore is reported as failed although the
   set is in place.
11. *Damage after the verification* (`RestoredMeansBackup`). After `verify_backup`
   the archives are read again without their checksums: the copy of the database
   passes if quick_check accepts it (`backup.py:1058`), that of the environment is
   not checked (1062-1069). A set that the storage damages in between may be restored
   with success. Damage of one part does not excuse the other, and damage
   after the copy has no effect.

## 4. Proofs

All theorems hold for every value of the constants under the modules' ASSUMEs.

**ControlJobs.** `ConstantsAssumption` says that the pool and the polls are
positive numbers and `MaxRaised` is a number, that actions, readings and drivers are among those of the code,
and that `None` is no id. `OneActiveJobPerMiner` is not inductive: the insert does
not look at the table. The invariant `IInv` adds `LockProtects` (the caller
inside the lock is the only one there, and its miner has no active job),
`Ownership` (a row is written by one of: a caller about to submit it, the
executor's queue, one worker - each with the status it relies on),
`RowsWellFormed`, `CallsWellFormed` and `WorkersWellFormed` (a worker's position,
phase and attempts fit its job). One lemma per conjunct shows that every action
preserves it (`InductiveInvariant`). From it follow

- `TypeCorrect` and `OneActiveJob`;
- `FinishedIsFinal`: workers write RUNNING rows only, by `Ownership`;
- `OverridesOnlyWhenIdle`, by `LockProtects`;
- `CommandsExclusive`: two live workers of one miner would be two RUNNING rows;
- `PipelineImplementsLedger`: each action is one step of `JobLedger` or leaves
  its variables unchanged;
- `NoOrphans`: an active row has its caller, the executor's queue or its worker by
  `Ownership`, which a worker leaves only with a finished row or by an exception.
  There is no assumption on drivers;
- `VerifiedOnlyByTheDevice`. The worker compares `last_state`, which any poll may
  have written, so the invariant `KnownInv` follows a reading on its way: after
  the first attempt of a job that is not tainted its ASIC can be polled, and what
  a background poll holds, what the worker is about to save, what it is about to
  compare and, in the second loop of a reboot, the interruption have been observed
  since. Every action either leaves this alone (`KnowledgeKept`), is a step of the
  job's own worker (`OwnStepKnows`, `OwnExceptionKnows`), a poll that `Observe` records, or an
  edit or a failing save that taints the job. `Readings` is any set of states;
- `WorkersComeToAnEnd`: the variant behind `JobsEnd`. `Work` weighs the
  attempts and polls that a job has left, the second loop of a reboot and the
  position in the loop; each step of a worker lowers it and no other step raises
  it, so a submitted job makes at most `20 * MaxPolls + 47` steps; an exception
  makes it 0. That there is a next step, and that it is taken, is what fairness and
  TLC add.

**Rules.** `NextTransitionIsExact` proves `TransitionsAreExact` for every set of
rules, every group and every pair of instants. The induction it needs is over
finite windows only: `MinOfBounded` / `MaxOfBounded` give least and greatest
elements, `WeekAhead` and `WeekBack` that 7 days meet every weekday, `NextRun`
and `LastOccurrence` then characterise the two searches without their windows.
`LastBetweenRuns` says that a rule's last occurrence changes only at its next
run; `Winner`, `NextTransition` and `InForceLater` lift that to a scope and to
the precedence of GROUP over FARM. `LastOfAllOccurrences` and `LatestOfScope`
compare the window of a week with all days: `InForceIsTheLastToOccur`, for which
`ClockAssumption` says that `History` reaches a week back from every instant, as
far as the code looks.

**Scheduler.** `SchedulerAssumption` says that ASICs and instants are natural
numbers, that `None` is no action and no state, and that the tables hold valid
rows. What the properties say of an override is not inductive: it is stored in a
later step than it is computed in, and an iteration uses a snapshot.
`SchedulerInv` says that the table holds valid rows of the past (`TableOK`); that
an override which no edit made stale is the next transition of the present table
at the instant of its command (`OverridesOK`), already on its way to the row
(`OpOK`); that an iteration in flight commands only ASICs of its snapshot whose
override had ended in it (`IterOK`); and that it found the group, and then a rule,
that a command given before it began still sees (`IterKnows`).
`OverrideEndsAtTheTransition` follows with `InForceLater`; `TheSchedulerWaits`
with `InForceFromTheTransition` (from the transition on, what is in force came
into force at it or later) and `NoRuleWithoutTransition`. Both hold for any
tables, instants and numbers of disturbances.

**Rule store.** `RuleStoreAssumption` says that ids are natural numbers, that
`None` is no group, and that a body holds what validation lets through. The three
properties speak of rows; a request that is about to write brings a row that was
checked earlier. `IInv` adds to the types `RequestsFit` - what a request that was
not overtaken still knows: its row agrees with the table (`OwnFits`, `ReadFits`),
it conflicts with no rule, its group exists, no rule names the group it deletes -
and `PastChanges`: no change lies in the future. `TableSteps` says which actions
write the table, `CleanWrite` and `WritesRow` what a write brings. From it follow
`TypeCorrect`, `NoConflictWithoutRace`, `NoRetroactiveRule` and
`GroupsOutliveTheirRules`: every property of `rules_race`, for any number of
requests, rules, groups and instants.

**Maintenance.** `ManualDisjoint` is not inductive: the write does not look at the
table. `IInv` adds `OneWriter` (one request at most is between its look-up and
its write), `NoConflict` (what it will write does not overlap a manual window),
`RequestsFit` (what an extension knows of its window, and that the end it read is
still the window's end unless it was overtaken) and `EventsFit` (what the events
of an occurrence say of its window and of the clock). `WindowWrites`,
`RequestWrites` and `OccurrenceWrites` say once which actions write what;
`WindowsKeep` and `NewWriters` what a step leaves alone. From `IInv` follow
`TypeCorrect`, `ManualDisjoint`, `OneWindow`, `OneOutcome`, `EndIsFinal` and
`ExtensionsExtend`: every safety property of `maintenance_race`, for any number
of requests, rules and instants.

**Bulk control.** `BulkAssumption` says that there are finitely many ASICs (a
selection is a sequence of them), some group, and that `None` is no id.
`EveryTargetIsAnswered` is not inductive: it speaks of finished requests only.
`IInv` adds `Fits` (the targets follow the selection and the results, as far as
there are any, follow the targets) and `Fresh` (whoever can be commanded now, and
the ASIC whose turn it is under the lock, could be commanded at some moment since
the answer before). `FanOutSteps` splits the fan-out into steps that refuse, that
queue and that go to the lock; `NewAnswer` says that only the first two bring an
answer, `OnlyOneOpens` that a step opens one job. `AllAnswered`, `Accepted` and
`NoStaleLook` follow: every property of `bulk`, for selections of any length.

**Anomalies.** `AnomaliesAssumption` says that the bounds are numbers, that `None`
is none (no age), that a group and an ASIC may inherit everything, and that the
policies are ones the code accepts. The invariant `IInv` adds to the types `ScanFits` - what a scan in flight knows of the layers it has
read: those of the groups resolve under its policy, those of an ASIC under some
group - and `Earned`: no candidate is older than the last scan that found its
condition absent or suppressed. Without `ScanFits` the grace of a decision need
not be a number (`GraceIsNat`); without `Earned` a candidate could be old enough
for a grace that nobody waited. `FarmWrites`, `LedgerWrites` and `ScanWrites` say
which actions write what, and `Transition` what one decision of
`set_anomaly_condition` does to candidates and issues. From `IInv` follow
`TypeCorrect`, `Episodes`, `Openings`, `Aborts` and `AnomaliesImplementLedger`: every
safety property of `anomaly_scan`, for any farm, any layers and any bounds.

**Anomaly policies.** `StoreAssumption` says that the global policies that are sent
are valid, and that `None` is no group, request or number. `LayersResolve` is not
inductive: the writes do not look at the other layers. `IInv` adds `RequestsFit`:
what a request that nobody has overtaken knows at each of its positions - the
layers it read are the present ones; what it will write resolves over or under
every layer it meets (`GlobalFits`, `GroupFits`, `MinerFits`, `MoveFits`,
`DeletionFits`); and the layer of a PUT for an ASIC is the stored one with the patch
applied. A write makes every other request in flight dirty, so a step that writes
(`WriteStep`) has to show `LayersResolve'` only, and a step that reads (`ReadStep`,
`Advances`) only what its own request knows. `NothingResolves` and
`MinerLayerCanGo` are the two facts about policies behind the DELETEs, which
validate nothing. `LayersStayValid` and `PatchesArePartial` follow: every property of
`anomaly_policy`, for any number of requests, any policies and any patches.

**Restore and upgrade.** `BackupAssumption` says that `None` and `Mixed` are
neither contents nor files. `NoForeignJournal` is about what lies on the disk
between any two steps, so `IInv` says for each position of the restore where the
content and the environment of before are (`AtCopy` ... `AtFinally`: untouched, in the
rollback copies, beside the parked journal, or put back), that a journal has the
lineage of its database (`FilesFit`), and that nobody else writes meanwhile
(`OneWriter`: an upgrade in flight waits for its restore). `Kinds` reduces the
actions of the upgrade, the service and the operator to the seven things that a
step can do to the files. `TreesFit` says for each position of the upgrade where the
previous tree is, and that in its absence the upgrade was left `between` the first
rename and `switched`. What is staged is the part of the set as it was verified
unless that part was damaged late (`RestoredMeansBackup`). `JournalsBelong`, `ContentKept`, `FailureChangesNothing`,
`SuccessRestoresTheSet` and `PreviousTreeKept` follow, for any number of faults,
writes and restores. `VersionInv` holds while one step has raised at most: up to the
start of the new version nothing that it migrated is anywhere (`AllOld`: the
database, its journal, the set and what a restore holds), each position adds the
parts that are known to be new, and after the fault each position of the recovery
or the rollback those that are old again; the rollback's own restore can then not
fail (`RestoreGoes`). `OneVersion` follows: with it every property of `upgrade` is a
theorem.

Only model-checked: the liveness properties `JobsEnd`,
`ScheduleIsRetried`, `DueOccurrencesAreMaterialized`, `DisabledIsQuiet` and
`OfflineIsReported`: liveness and ENABLED are out of the prover's reach. Every
other property of the runs is a theorem.

## 5. Not modelled

- Devices and drivers: what they answer is arbitrary; how answers are parsed is
  left out.
- Wording, logging, events, audit, notifications, the dashboard. A notification
  that is lost or repeated changes no state that another part reads; Telegram
  itself is outside.
- Changes of the clocks.
- The SQLite lock: a statement is atomic. That it stays locked is modelled for the
  workers and polls of the pipeline, the scheduler, the materializer, the anomaly
  thread and bulk control; not for a caller of `queue_control` between the override
  it has written and the job it inserts (`queue.py:275-289`): the override would then
  stand without a job.
- The end of the host: it is taken for a kill. Nothing in the restore or the upgrade
  calls fsync, so what a power failure leaves of completed renames and copies is up
  to the file system.
- Upgrade: what is checked before the backup (versions, the source tree, the
  doctor) refuses and changes nothing. Writers during a restore
  (`--allow-active-service`, a firmware job started by its timer): what SQLite does
  with a file that was unlinked under it is not a step of this program.
- Bulk control: the preview, which answers with the same selection and changes
  nothing.
- Anomalies: notes of acknowledgements, listings and statistics.
- Groups: creation, renaming and the uniqueness of names, which is a UNIQUE
  constraint.
- Telemetry, discovery, service history, calendar, remote web, doctor, audit: the
  parts with status `not_modelled` in `PROJECT.json`, with the reason for each.

## 6. Plan

Done: the control pipeline, the rules, the scheduler, maintenance windows and
their recurring rules, bulk control, anomalies with their policies, backup,
restore and upgrade; proofs of every property of the runs that is not a liveness
property. Next, in this order:

1. Proofs: variants like `Work` for the other loops whose end only TLC shows - an
   iteration of the scheduler, a maintenance reconciliation, an anomaly scan.
2. `Discovery`: two requests that add one address; the summary loop of the
   notifications; the retention of telemetry.

------------------------------ MODULE Scheduler ------------------------------
(***************************************************************************)
(* The scheduler thread and the manual commands that suspend it: the       *)
(* iteration takes its snapshot of the miners and of the rules, and then   *)
(* queues commands from it, while operators command miners, edit rules,    *)
(* move miners between groups and reset overrides.                         *)
(*                                                                         *)
(* Of the control pipeline, which ControlJobs models in full, this module  *)
(* keeps control_queue_lock and the active job of each miner (there is at  *)
(* most one: ControlJobs!OneActiveJobPerMiner); a job may end at any time  *)
(* with any reading of the device.                                         *)
(***************************************************************************)
EXTENDS ScheduleTable

CONSTANTS Miners,
          Tables,       \* bound: the contents of schedule_rules, by edits
          Readings,     \* the states that a poll can save
          Events        \* bound: disturbances by operators and failures

States == {"MINING", "PAUSED", "STARTING", "RESTARTING", "IDLE", "OFFLINE",
           "UNKNOWN", "CONFIG_REQUIRED"}
ControlActions == {"pause", "resume"}

ASSUME SchedulerAssumption ==
  /\ Miners \subseteq Nat /\ Instants \subseteq Nat
  /\ None \notin ControlActions \cup {"reboot"} \cup States
  /\ Readings \subseteq States /\ Events \in Nat
  /\ \A t \in Tables :
       DOMAIN t \subseteq RuleIds /\ \A i \in DOMAIN t : RuleOK(t[i], Groups)

VARIABLES
  group,
  scheduler_enabled,      \* the row of settings
  enabled, configured,    \* miners.enabled; driver is not 'unset'
  schedule_enabled, last_state,
  override,               \* manual_override_until, None for NULL
  seen,                   \* last_seen is at most 60 s old
  cooling,                \* last_action_at is less than CONTROL_COOLDOWN old
  job,                    \* the action of a miner's active job, None if none
  op,                     \* the manual command that holds control_queue_lock
  iter,                   \* the scheduler thread
  manual_at,              \* history: when the override was computed
  edited,                 \* history: rules or group edited since then
  events                  \* disturbances so far

miners == <<group, enabled, configured, schedule_enabled, last_state, override>>
vars == <<now, rules, scheduler_enabled, miners, seen, cooling, job, op, iter,
          manual_at, edited, events>>

Idle == [pc |-> "idle", now |-> 0, rows |-> <<>>, todo |-> <<>>]

Init ==
  /\ now \in Instants /\ \A t \in Instants : now <= t
  /\ rules \in {t \in Tables : \A i \in DOMAIN t : t[i].effective_from <= now}
  /\ group \in [Miners -> Groups \cup {None}]
  /\ scheduler_enabled = TRUE
  /\ enabled = [m \in Miners |-> TRUE]
  /\ configured = [m \in Miners |-> TRUE]
  /\ schedule_enabled = [m \in Miners |-> TRUE]
  /\ last_state \in [Miners -> Readings]
  /\ override = [m \in Miners |-> None]
  /\ seen = [m \in Miners |-> TRUE]
  /\ cooling = [m \in Miners |-> FALSE]
  /\ job = [m \in Miners |-> None]
  /\ op = None
  /\ iter = Idle
  /\ manual_at = [m \in Miners |-> None]
  /\ edited = [m \in Miners |-> FALSE]
  /\ events = 0

Event == events < Events /\ events' = events + 1

-----------------------------------------------------------------------------
(* Time, devices and jobs                                                  *)

Tick ==
  /\ now' \in {t \in Instants : t > now /\ \A u \in Instants : u > now => t <= u}
  /\ UNCHANGED <<rules, scheduler_enabled, miners, seen, cooling, job, op, iter,
                 manual_at, edited, events>>

\* poll_miner answers, or has not answered for a minute.
PollSaves(m, r) ==
  /\ enabled[m] /\ configured[m]
  /\ last_state' = [last_state EXCEPT ![m] = r]
  /\ seen' = [seen EXCEPT ![m] = TRUE]
  /\ UNCHANGED <<now, rules, scheduler_enabled, group, enabled, configured,
                 schedule_enabled, override, cooling, job, op, iter, manual_at,
                 edited, events>>

Unseen(m) ==
  /\ Event
  /\ seen' = [seen EXCEPT ![m] = FALSE]
  /\ UNCHANGED <<now, rules, scheduler_enabled, miners, cooling, job, op, iter,
                 manual_at, edited>>

\* set_last_command, after a command of the job was accepted.
JobSends(m) ==
  /\ job[m] # None
  /\ cooling' = [cooling EXCEPT ![m] = TRUE]
  /\ UNCHANGED <<now, rules, scheduler_enabled, miners, seen, job, op, iter,
                 manual_at, edited, events>>

JobEnds(m) ==
  /\ job[m] # None
  /\ job' = [job EXCEPT ![m] = None]
  /\ UNCHANGED <<now, rules, scheduler_enabled, miners, seen, cooling, op, iter,
                 manual_at, edited, events>>

CooledDown(m) ==
  /\ cooling[m]
  /\ cooling' = [cooling EXCEPT ![m] = FALSE]
  /\ UNCHANGED <<now, rules, scheduler_enabled, miners, seen, job, op, iter,
                 manual_at, edited, events>>

-----------------------------------------------------------------------------
(* A manual queue_control                                                  *)

\* The miner is enabled and has a driver, and no job of it is active: the
\* lock is kept.
ManualLock(m, a) ==
  /\ Event
  /\ op = None /\ enabled[m] /\ configured[m] /\ job[m] = None
  /\ op' = [pc |-> "transition", miner |-> m, action |-> a, until |-> None,
            at |-> None, edited |-> FALSE]
  /\ UNCHANGED <<now, rules, scheduler_enabled, miners, seen, cooling, job,
                 iter, manual_at, edited>>

\* Mutant: the override ends at the next transition of the farm.
ManualFarmTransition ==
  LET next == next_transition(rules, None, now) IN
  /\ op # None /\ op.pc = "transition"
  /\ op' = [op EXCEPT !.pc = "override", !.at = now,
                      !.until = IF next = None THEN 0 ELSE next]
  /\ UNCHANGED <<now, rules, scheduler_enabled, miners, seen, cooling, job,
                 iter, manual_at, edited, events>>

\* next_transition_for_miner; 0 if there is none.
ManualTransition ==
  LET next == next_transition(rules, group[op.miner], now) IN
  /\ op # None /\ op.pc = "transition"
  /\ op' = [op EXCEPT !.pc = "override", !.at = now,
                      !.until = IF next = None THEN 0 ELSE next]
  /\ UNCHANGED <<now, rules, scheduler_enabled, miners, seen, cooling, job,
                 iter, manual_at, edited, events>>

set_manual_override ==
  /\ op # None /\ op.pc = "override"
  /\ override' = [override EXCEPT ![op.miner] = op.until]
  /\ manual_at' = [manual_at EXCEPT ![op.miner] = op.at]
  /\ edited' = [edited EXCEPT ![op.miner] = op.edited]
  /\ op' = [op EXCEPT !.pc = "create"]
  /\ UNCHANGED <<now, rules, scheduler_enabled, group, enabled, configured,
                 schedule_enabled, last_state, seen, cooling, job, iter, events>>

create_control_job ==
  /\ op # None /\ op.pc = "create"
  /\ job' = [job EXCEPT ![op.miner] = op.action]
  /\ op' = None
  /\ UNCHANGED <<now, rules, scheduler_enabled, miners, seen, cooling, iter,
                 manual_at, edited, events>>

\* queue_reboot holds the lock too, and sets no override.
ManualReboot(m) ==
  /\ Event
  /\ op = None /\ enabled[m] /\ configured[m] /\ job[m] = None
  /\ job' = [job EXCEPT ![m] = "reboot"]
  /\ UNCHANGED <<now, rules, scheduler_enabled, miners, seen, cooling, op, iter,
                 manual_at, edited>>

-----------------------------------------------------------------------------
(* scheduler_iteration                                                     *)

list_schedulable_miners ==
  {m \in Miners : enabled[m] /\ schedule_enabled[m] /\ configured[m]}

\* scheduler_enabled and the clock are read, then the rows of the miners.
IterationStarts ==
  /\ iter = Idle /\ scheduler_enabled
  /\ iter' = [Idle EXCEPT !.pc = "miners", !.now = now]
  /\ UNCHANGED <<now, rules, scheduler_enabled, miners, seen, cooling, job, op,
                 manual_at, edited, events>>

IterationReadsMiners ==
  /\ iter.pc = "miners"
  /\ iter' = [iter EXCEPT
       !.pc = "rules",
       !.rows = [m \in list_schedulable_miners |->
                   [group |-> group[m], last_state |-> last_state[m],
                    override |-> override[m], seen |-> seen[m],
                    cooling |-> cooling[m]]]]
  /\ UNCHANGED <<now, rules, scheduler_enabled, miners, seen, cooling, job, op,
                 manual_at, edited, events>>

\* The pairs of desired and last state on which the scheduler acts.
Resumes == {"MINING"} \X {"PAUSED", "IDLE"}
Pauses == {"PAUSED"} \X {"MINING", "STARTING", "IDLE"}

Wanted(pair) ==
  IF pair \in Resumes THEN "resume"
  ELSE IF pair \in Pauses THEN "pause" ELSE None

\* Mutant: the override is not looked at.
CommandsPastOverride(rows, t) ==
  LET Command(m) == Wanted(<<desired_state(rules, rows[m].group, t),
                             rows[m].last_state>>)
      idle == {m \in DOMAIN rows : rows[m].seen /\ ~rows[m].cooling}
  IN  [m \in {n \in idle : Command(n) # None} |-> Command(m)]

\* What the loop over the snapshot decides with the rules it reads.
Commands(rows, t) ==
  LET Command(m) == Wanted(<<desired_state(rules, rows[m].group, t),
                             rows[m].last_state>>)
      idle == {m \in DOMAIN rows :
                 /\ rows[m].override = None \/ rows[m].override <= t
                 /\ rows[m].seen /\ ~rows[m].cooling}
  IN  [m \in {n \in idle : Command(n) # None} |-> Command(m)]

\* effective_schedule_states reads the rules.
IterationReadsRules ==
  LET todo == Commands(iter.rows, iter.now) IN
  /\ iter.pc = "rules"
  /\ iter' = IF todo = <<>> THEN Idle
             ELSE [iter EXCEPT !.pc = "call", !.todo = todo]
  /\ UNCHANGED <<now, rules, scheduler_enabled, miners, seen, cooling, job, op,
                 manual_at, edited, events>>

Current == Min(DOMAIN iter.todo)

\* Mutant: the loop ends after its first command.
OneCommandPerIteration == iter' = Idle

\* queue_control(manual=False) returned or raised: on to the next miner.
Done ==
  LET rest == DOMAIN iter.todo \ {Current} IN
  iter' = IF rest = {} THEN Idle
          ELSE [iter EXCEPT !.pc = "call",
                            !.todo = [m \in rest |-> iter.todo[m]]]

\* The checks of queue_control before the lock, on the row read again.
IterationCalls ==
  /\ iter.pc = "call"
  /\ IF enabled[Current] /\ configured[Current]
     THEN iter' = [iter EXCEPT !.pc = "lock"]
     ELSE Done
  /\ UNCHANGED <<now, rules, scheduler_enabled, miners, seen, cooling, job, op,
                 manual_at, edited, events>>

\* Under the lock: nothing if a job is active, a new job otherwise.
IterationQueues ==
  /\ iter.pc = "lock" /\ op = None
  /\ job' = IF job[Current] # None THEN job
            ELSE [job EXCEPT ![Current] = iter.todo[Current]]
  /\ Done
  /\ UNCHANGED <<now, rules, scheduler_enabled, miners, seen, cooling, op,
                 manual_at, edited, events>>

\* An exception, by a busy database: the supervisor tries again later.
IterationFails ==
  /\ Event
  /\ iter # Idle
  /\ iter' = Idle
  /\ UNCHANGED <<now, rules, scheduler_enabled, miners, seen, cooling, job, op,
                 manual_at, edited>>

-----------------------------------------------------------------------------
(* Operators                                                               *)

\* The table comes to hold the rules of t.  A rule that is new or whose
\* schedule changed takes effect now (RuleStore).
EditRules(t) ==
  LET Kept(i) == i \in DOMAIN rules
                 /\ rules[i] = [t[i] EXCEPT !.effective_from = rules[i].effective_from]
  IN
  /\ Event
  /\ rules' = [i \in DOMAIN t |-> IF Kept(i) THEN rules[i]
                                  ELSE [t[i] EXCEPT !.effective_from = now]]
  /\ rules' # rules
  /\ edited' = [m \in Miners |-> TRUE]
  /\ op' = IF op = None THEN None ELSE [op EXCEPT !.edited = TRUE]
  /\ UNCHANGED <<now, scheduler_enabled, miners, seen, cooling, job, iter,
                 manual_at>>

set_miner_group(m, g) ==
  /\ Event
  /\ g # group[m]
  /\ group' = [group EXCEPT ![m] = g]
  /\ edited' = [edited EXCEPT ![m] = TRUE]
  /\ op' = IF op = None \/ op.miner # m THEN op ELSE [op EXCEPT !.edited = TRUE]
  /\ UNCHANGED <<now, rules, scheduler_enabled, enabled, configured,
                 schedule_enabled, last_state, override, seen, cooling, job,
                 iter, manual_at>>

scheduler_toggle ==
  /\ Event
  /\ scheduler_enabled' = ~scheduler_enabled
  /\ UNCHANGED <<now, rules, miners, seen, cooling, job, op, iter, manual_at,
                 edited>>

toggle_schedule(m) ==
  /\ Event
  /\ configured[m]
  /\ schedule_enabled' = [schedule_enabled EXCEPT ![m] = ~@]
  /\ UNCHANGED <<now, rules, scheduler_enabled, group, enabled, configured,
                 last_state, override, seen, cooling, job, op, iter, manual_at,
                 edited>>

schedule_all(on) ==
  /\ Event
  /\ schedule_enabled' = [m \in Miners |-> IF enabled[m] /\ configured[m] THEN on
                                           ELSE schedule_enabled[m]]
  /\ UNCHANGED <<now, rules, scheduler_enabled, group, enabled, configured,
                 last_state, override, seen, cooling, job, op, iter, manual_at,
                 edited>>

toggle_enabled(m) ==
  /\ Event
  /\ enabled' = [enabled EXCEPT ![m] = ~@]
  /\ UNCHANGED <<now, rules, scheduler_enabled, group, configured,
                 schedule_enabled, last_state, override, seen, cooling, job, op,
                 iter, manual_at, edited>>

\* A driver edit forgets the override; without a driver there is no schedule.
set_miner_manual_driver(m, set) ==
  /\ Event
  /\ configured' = [configured EXCEPT ![m] = set]
  /\ last_state' = [last_state EXCEPT ![m] = IF set THEN "UNKNOWN"
                                             ELSE "CONFIG_REQUIRED"]
  /\ schedule_enabled' = [schedule_enabled EXCEPT ![m] = set /\ @]
  /\ override' = [override EXCEPT ![m] = None]
  /\ manual_at' = [manual_at EXCEPT ![m] = None]
  /\ UNCHANGED <<now, rules, scheduler_enabled, group, enabled, seen, cooling,
                 job, op, iter, edited>>

clear_manual_overrides ==
  /\ Event
  /\ override' = [m \in Miners |-> None]
  /\ manual_at' = [m \in Miners |-> None]
  /\ UNCHANGED <<now, rules, scheduler_enabled, group, enabled, configured,
                 schedule_enabled, last_state, seen, cooling, job, op, iter,
                 edited>>

\* The process ends and starts again: jobs are aborted, the rest is in the
\* database.
Restart ==
  /\ Event
  /\ job' = [m \in Miners |-> None]
  /\ op' = None
  /\ iter' = Idle
  /\ UNCHANGED <<now, rules, scheduler_enabled, miners, seen, cooling, manual_at,
                 edited>>

-----------------------------------------------------------------------------
Device(m) ==
  \/ \E r \in Readings : PollSaves(m, r)
  \/ Unseen(m) \/ JobSends(m) \/ JobEnds(m) \/ CooledDown(m)

Manual ==
  \/ \E m \in Miners, a \in ControlActions : ManualLock(m, a)
  \/ ManualTransition \/ set_manual_override \/ create_control_job
  \/ \E m \in Miners : ManualReboot(m)

\* A step of the scheduler thread within an iteration.
IterationStep ==
  \/ IterationReadsMiners \/ IterationReadsRules \/ IterationCalls
  \/ IterationQueues

Edit ==
  \/ \E t \in Tables : EditRules(t)
  \/ \E m \in Miners, g \in Groups \cup {None} : set_miner_group(m, g)
  \/ scheduler_toggle
  \/ \E m \in Miners : toggle_schedule(m) \/ toggle_enabled(m)
  \/ \E on \in BOOLEAN : schedule_all(on)
  \/ \E m \in Miners, set \in BOOLEAN : set_miner_manual_driver(m, set)
  \/ clear_manual_overrides

Next ==
  \/ Tick \/ Manual \/ IterationStarts \/ IterationStep \/ IterationFails
  \/ Edit \/ Restart
  \/ \E m \in Miners : Device(m)

Spec == Init /\ [][Next]_vars

\* Some IterationStep is enabled.
IterationCanStep == iter # Idle /\ (iter.pc = "lock" => op = None)

\* The scheduler thread runs (weak fairness of IterationStep, written out), a
\* caller under the lock goes on, every job ends (ControlJobs!ConfiguredJobsEnd)
\* and CONTROL_COOLDOWN passes.
Fairness ==
  /\ WF_vars(IterationStarts)
  /\ <>[]IterationCanStep => []<><<TRUE>>_iter
  /\ WF_vars(ManualTransition \/ set_manual_override \/ create_control_job)
  /\ \A m \in Miners : WF_vars(JobEnds(m)) /\ WF_vars(CooledDown(m))

FairSpec == Spec /\ Fairness

-----------------------------------------------------------------------------
(* Properties                                                              *)

\* When the rule in force for m last came into force.
InForceSince(m, t) == InForce(group[m], t)[2]

\* "Manual control temporarily overrides scheduling until the next transition
\* applicable to that individual ASIC" (README.md): while an override lasts,
\* no rule has come into force since the command - as long as nobody edits
\* the rules or moves the miner: the stored instant is not computed anew.
UneditedOverrideEndsAtTheTransition ==
  \A m \in Miners :
    /\ manual_at[m] # None /\ ~edited[m]
    /\ override[m] # None /\ override[m] > now
    => InForceSince(m, now) = None \/ InForceSince(m, now) <= manual_at[m]

QueuedByScheduler(m) ==
  iter.pc = "lock" /\ iter' # iter /\ job[m] = None /\ job'[m] # None

\* After a manual command the scheduler commands the miner only once a rule
\* has come into force that had not when the command was given, unless the
\* rules or the group were edited since, or the override is younger than the
\* scheduler's snapshot, which queue_control does not look at again.  The
\* younger override differs from that of the snapshot, or both are 0: there
\* was no transition to wait for.
SchedulerWaitsForTransition ==
  [][\A m \in Miners :
       /\ QueuedByScheduler(m) /\ manual_at[m] # None /\ ~edited[m]
       => \/ InForceSince(m, iter.now) # None /\ InForceSince(m, iter.now) > manual_at[m]
          \/ iter.rows[m].override # override[m]
          \/ override[m] = 0 /\ manual_at[m] >= iter.now]_vars

\* m answers, is in the schedule, and is not in the state its rules say.
Against(m) ==
  /\ scheduler_enabled /\ m \in list_schedulable_miners /\ seen[m]
  /\ override[m] = None \/ override[m] <= now
  /\ <<desired_state(rules, group[m], now), last_state[m]>> \in Resumes \cup Pauses

\* A miner that stays against its schedule is commanded again and again,
\* whatever became of the earlier commands.
ScheduleIsRetried ==
  \A m \in Miners : <>[]Against(m) => []<>(job[m] # None)
=============================================================================

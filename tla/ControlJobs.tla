----------------------------- MODULE ControlJobs -----------------------------
(***************************************************************************)
(* The verified control pipeline: queue_control / queue_reboot under       *)
(* control_queue_lock, the executor, the verified and the reboot worker,   *)
(* the background polls and the inventory edits that share the miners      *)
(* table with them, and the stop, crash and restart of the service.        *)
(*                                                                         *)
(* One action is one database statement or one device call, so everything  *)
(* the threads can interleave is interleaved.  A device answers every poll *)
(* with an arbitrary reading: it is outside the program.  Deadlines and    *)
(* retry_after are clock comparisons; they may come true at any loop head, *)
(* and MaxPolls bounds how often a loop goes round before its deadline.  A *)
(* statement of a worker that meets a locked database raises.              *)
(***************************************************************************)
EXTENDS Naturals, Sequences, FiniteSets

CONSTANTS Miners,       \* rows of the miners table (rows are never deleted)
          Jobs,         \* ids of control_jobs rows, used once each
          Callers,      \* threads that call queue_control or queue_reboot
          Pollers,      \* polls in flight outside the workers, at most
          PoolSize,     \* CONTROL_WORKERS
          MaxPolls,     \* bound: polls before a deadline passes
          MaxRaised,    \* bound: workers that a locked database has ended
          Actions,      \* the control actions that callers ask for
          Readings,     \* the states a poll reads ("OTHER": any further raw
                        \* state of the device), "OFFLINE" if it fails
          UsedDrivers,  \* the drivers that are configured
          EditMiners,   \* the miners whose rows an operator edits
          None

ControlDrivers == {"awesome", "bitmain_stock"}
Drivers == ControlDrivers \cup {"unset"}
States == {"MINING", "PAUSED", "STARTING", "RESTARTING", "IDLE", "OFFLINE",
           "UNKNOWN", "OTHER", "CONFIG_REQUIRED"}
AllActions == {"pause", "resume", "reboot"}

ASSUME ConstantsAssumption ==
  /\ PoolSize \in Nat \ {0} /\ MaxPolls \in Nat \ {0} /\ MaxRaised \in Nat
  /\ Actions \subseteq AllActions
  /\ Readings \subseteq States
  /\ UsedDrivers \subseteq Drivers /\ EditMiners \subseteq Miners
  /\ None \notin Miners \cup Jobs \cup Callers

VARIABLES
  up,           \* "running", "stopping" (stop_event set) or "down"
  \* the miners table
  enabled, driver, last_state,
  override,     \* manual_override_until IS NOT NULL
  last_action,
  \* the control_jobs table
  status, miner_id, action, attempts,
  \* queue.py
  lock,         \* holder of control_queue_lock
  cpc, creq,    \* control point and request of each caller
  cjob,         \* the job a caller created and has not submitted yet
  pool,         \* work items waiting in the executor
  \* worker.py: the worker that runs a job
  wpc,          \* control point; "raised" if an exception ended it
  wphase,       \* "verify", or "transition" then "return" of a reboot
  wlast,        \* last_state, or initial_state of a reboot
  wobs,         \* the reading a poll is about to save
  wpolls,       \* polls since the current deadline was set
  wstable,      \* stable_polls
  wsent,        \* a command of this worker was accepted
  poll,         \* polls in flight outside the workers
  observed,     \* history: telling readings since the job's first attempt
  tainted       \* history: jobs whose miner was edited meanwhile, was disabled
                \* or had a poll in flight when the first attempt began, and
                \* reboots that a poll met with a locked database

minerVars == <<enabled, driver, last_state, override, last_action>>
jobVars == <<status, miner_id, action, attempts>>
callVars == <<lock, cpc, creq, cjob>>
wdata == <<wphase, wlast, wobs, wpolls, wstable, wsent>>
histVars == <<observed, tainted>>
vars == <<up, minerVars, jobVars, callVars, pool, wpc, wdata, poll, histVars>>

Active == {"QUEUED", "RUNNING"}
Terminal == {"VERIFIED", "FAILED", "ABORTED"}
CONTROL_MAX_ATTEMPTS == 3
REBOOT_STABLE_POLLS == 2

control_target(a) == IF a = "pause" THEN "PAUSED" ELSE "MINING"
max_attempts(a) == IF a = "reboot" THEN 1 ELSE CONTROL_MAX_ATTEMPTS

should_retry_command(a, s) ==
  \/ a = "pause"  /\ s \in {"MINING", "STARTING", "IDLE", "UNKNOWN"}
  \/ a = "resume" /\ s \in {"PAUSED", "IDLE", "UNKNOWN"}

\* Mutant: the look-up forgets jobs that no worker has started.
ActiveMeansRunning(m) ==
  {j \in Jobs : miner_id[j] = m /\ status[j] = "RUNNING"}

get_active_control_job(m) ==
  {j \in Jobs : miner_id[j] = m /\ status[j] \in Active}

Live(j) == wpc[j] \notin {"idle", "queued", "raised"}

Init ==
  /\ up = "running"
  /\ enabled = [m \in Miners |-> TRUE]
  /\ driver \in [Miners -> UsedDrivers \cap ControlDrivers]
  /\ last_state \in [Miners -> Readings \cup {"UNKNOWN"}]
  /\ override = [m \in Miners |-> FALSE]
  /\ last_action = [m \in Miners |-> "none"]
  /\ status = [j \in Jobs |-> "NONE"]
  /\ miner_id = [j \in Jobs |-> None]
  /\ action = [j \in Jobs |-> "none"]
  /\ attempts = [j \in Jobs |-> 0]
  /\ lock = None
  /\ cpc = [c \in Callers |-> "idle"]
  /\ creq = [c \in Callers |-> None]
  /\ cjob = [c \in Callers |-> None]
  /\ pool = <<>>
  /\ wpc = [j \in Jobs |-> "idle"]
  /\ wphase = [j \in Jobs |-> "none"]
  /\ wlast = [j \in Jobs |-> "UNKNOWN"]
  /\ wobs = [j \in Jobs |-> "UNKNOWN"]
  /\ wpolls = [j \in Jobs |-> 0]
  /\ wstable = [j \in Jobs |-> 0]
  /\ wsent = [j \in Jobs |-> FALSE]
  /\ poll = [p \in Pollers |-> None]
  /\ observed = [j \in Jobs |-> {}]
  /\ tainted = {}

-----------------------------------------------------------------------------
(* queue_control and queue_reboot                                          *)

\* Ids are bounded: every caller under way needs an unused one.
RoomForJob ==
  Cardinality({c \in Callers : cpc[c] \in {"lock", "override", "create"}})
    < Cardinality({j \in Jobs : status[j] = "NONE"})

\* The checks that precede the lock; a failed check raises and changes
\* nothing.  The scheduler thread may outlive the stop event by an iteration.
Request(c, m, a, man) ==
  /\ cpc[c] = "idle" /\ RoomForJob
  /\ up = "running" \/ (up = "stopping" /\ ~man)
  /\ a \in {"pause", "resume"}
  /\ enabled[m] /\ driver[m] \in ControlDrivers
  /\ cpc' = [cpc EXCEPT ![c] = "lock"]
  /\ creq' = [creq EXCEPT ![c] = [miner |-> m, action |-> a, manual |-> man]]
  /\ UNCHANGED <<up, minerVars, jobVars, lock, cjob, pool, wpc, wdata, poll,
                 histVars>>

\* A reboot is always an operator's, and never sets an override.
RequestReboot(c, m) ==
  /\ cpc[c] = "idle" /\ RoomForJob
  /\ up = "running" /\ "reboot" \in Actions
  /\ enabled[m] /\ driver[m] \in ControlDrivers
  /\ cpc' = [cpc EXCEPT ![c] = "lock"]
  /\ creq' = [creq EXCEPT ![c] = [miner |-> m, action |-> "reboot",
                                  manual |-> FALSE]]
  /\ UNCHANGED <<up, minerVars, jobVars, lock, cjob, pool, wpc, wdata, poll,
                 histVars>>

\* Mutant: the look-up does not wait for the lock.
CheckWithoutLock(c) ==
  /\ cpc[c] = "lock"
  /\ get_active_control_job(creq[c].miner) = {}
  /\ cpc' = [cpc EXCEPT ![c] = "create"]
  /\ lock' = c
  /\ UNCHANGED <<up, minerVars, jobVars, creq, cjob, pool, wpc, wdata, poll,
                 histVars>>

\* Mutant: the override is written before the look-up.
OverrideBeforeCheck(c) ==
  /\ cpc[c] = "lock"
  /\ lock = None
  /\ cpc' = [cpc EXCEPT ![c] = IF creq[c].manual THEN "override" ELSE "create"]
  /\ lock' = c
  /\ UNCHANGED <<up, minerVars, jobVars, creq, cjob, pool, wpc, wdata, poll,
                 histVars>>

\* Enters the lock and finds no active job: the lock is kept.
LockAndCheck(c) ==
  /\ cpc[c] = "lock"
  /\ lock = None
  /\ get_active_control_job(creq[c].miner) = {}
  /\ cpc' = [cpc EXCEPT ![c] = IF creq[c].manual THEN "override" ELSE "create"]
  /\ lock' = c
  /\ UNCHANGED <<up, minerVars, jobVars, creq, cjob, pool, wpc, wdata, poll,
                 histVars>>

\* Enters the lock, finds an active job and leaves: already_active.
AlreadyActive(c) ==
  /\ cpc[c] = "lock"
  /\ lock = None
  /\ get_active_control_job(creq[c].miner) # {}
  /\ cpc' = [cpc EXCEPT ![c] = "idle"]
  /\ creq' = [creq EXCEPT ![c] = None]
  /\ UNCHANGED <<up, minerVars, jobVars, lock, cjob, pool, wpc, wdata, poll,
                 histVars>>

set_manual_override(c) ==
  /\ cpc[c] = "override"
  /\ override' = [override EXCEPT ![creq[c].miner] = TRUE]
  /\ cpc' = [cpc EXCEPT ![c] = "create"]
  /\ UNCHANGED <<up, enabled, driver, last_state, last_action, jobVars, lock,
                 creq, cjob, pool, wpc, wdata, poll, histVars>>

\* Inserts the row and leaves the lock.
create_control_job(c) ==
  /\ cpc[c] = "create"
  /\ \E j \in Jobs :
       /\ status[j] = "NONE"
       /\ status' = [status EXCEPT ![j] = "QUEUED"]
       /\ miner_id' = [miner_id EXCEPT ![j] = creq[c].miner]
       /\ action' = [action EXCEPT ![j] = creq[c].action]
       /\ cjob' = [cjob EXCEPT ![c] = j]
  /\ cpc' = [cpc EXCEPT ![c] = "submit"]
  /\ creq' = [creq EXCEPT ![c] = None]
  /\ lock' = None
  /\ UNCHANGED <<up, minerVars, attempts, pool, wpc, wdata, poll, histVars>>

\* control_executor.submit, after the lock is released.
Submit(c) ==
  /\ cpc[c] = "submit"
  /\ pool' = Append(pool, cjob[c])
  /\ wpc' = [wpc EXCEPT ![cjob[c]] = "queued"]
  /\ cpc' = [cpc EXCEPT ![c] = "idle"]
  /\ cjob' = [cjob EXCEPT ![c] = None]
  /\ UNCHANGED <<up, minerVars, jobVars, lock, creq, wdata, poll, histVars>>

\* The executor refuses work once the interpreter shuts down.
SubmitRefused(c) ==
  /\ cpc[c] = "submit"
  /\ up = "stopping"
  /\ cpc' = [cpc EXCEPT ![c] = "idle"]
  /\ cjob' = [cjob EXCEPT ![c] = None]
  /\ UNCHANGED <<up, minerVars, jobVars, lock, creq, pool, wpc, wdata, poll,
                 histVars>>

-----------------------------------------------------------------------------
(* The workers                                                             *)

\* poll_miner reads the device of an enabled, configured miner only.
Pollable(m) == enabled[m] /\ driver[m] # "unset"

PollsInFlight(m) == {p \in Pollers : poll[p] # None /\ poll[p].miner = m}

TaintAtFirstAttempt(j) ==
  tainted' = IF Pollable(miner_id[j]) /\ PollsInFlight(miner_id[j]) = {}
             THEN tainted ELSE tainted \cup {j}

\* An idle executor thread takes the oldest work item.
TakeWork(j) ==
  /\ pool # <<>> /\ j = Head(pool)
  /\ Cardinality({i \in Jobs : Live(i)}) < PoolSize
  /\ pool' = Tail(pool)

\* The row becomes RUNNING before control_timeout raises on a driver it does
\* not know; the exception ends the worker.
StartVerified(j) ==
  LET known == driver[miner_id[j]] \in ControlDrivers IN
  /\ TakeWork(j)
  /\ action[j] # "reboot"
  /\ status' = [status EXCEPT ![j] = "RUNNING"]
  /\ wpc' = [wpc EXCEPT ![j] = IF known THEN "loop" ELSE "raised"]
  /\ wphase' = [wphase EXCEPT ![j] = IF known THEN "verify" ELSE "none"]
  /\ wlast' = [wlast EXCEPT ![j] = IF known THEN last_state[miner_id[j]]
                                   ELSE "UNKNOWN"]
  /\ UNCHANGED <<up, minerVars, miner_id, action, attempts, callVars, wobs,
                 wpolls, wstable, wsent, poll, histVars>>

\* The reboot worker sends with the row it reads here: with a driver that
\* cannot reboot, the only way on is an exception.
StartReboot(j) ==
  /\ TakeWork(j)
  /\ action[j] = "reboot"
  /\ status' = [status EXCEPT ![j] = "RUNNING"]
  /\ attempts' = [attempts EXCEPT ![j] = 1]
  /\ wpc' = [wpc EXCEPT ![j] = IF driver[miner_id[j]] \in ControlDrivers
                               THEN "send" ELSE "unsupported"]
  /\ wphase' = [wphase EXCEPT ![j] = "transition"]
  /\ wlast' = [wlast EXCEPT ![j] = last_state[miner_id[j]]]
  /\ TaintAtFirstAttempt(j)
  /\ UNCHANGED <<up, minerVars, miner_id, action, callVars, wobs, wpolls,
                 wstable, wsent, poll, observed>>

\* The worker returns; its locals are gone.
WorkerReturns(j) ==
  /\ wpc' = [wpc EXCEPT ![j] = "idle"]
  /\ wphase' = [wphase EXCEPT ![j] = "none"]
  /\ wlast' = [wlast EXCEPT ![j] = "UNKNOWN"]
  /\ wobs' = [wobs EXCEPT ![j] = "UNKNOWN"]
  /\ wpolls' = [wpolls EXCEPT ![j] = 0]
  /\ wstable' = [wstable EXCEPT ![j] = 0]
  /\ wsent' = [wsent EXCEPT ![j] = FALSE]

\* finish_control_job; every caller returns right after it.
finish_control_job(j, success) ==
  /\ status' = [status EXCEPT ![j] = IF success THEN "VERIFIED" ELSE "FAILED"]
  /\ WorkerReturns(j)

\* Mutant: the loops test stop_event but not the deadline.
LoopEndsOnlyOnStop(j) ==
  /\ wpc[j] = "loop"
  /\ up = "stopping"
  /\ finish_control_job(j, FALSE)
  /\ UNCHANGED <<up, minerVars, miner_id, action, attempts, callVars, pool,
                 poll, histVars>>

\* A while loop ends because stop_event is set or its deadline has passed.
LoopEnds(j) ==
  /\ wpc[j] = "loop"
  /\ \/ up = "stopping"
     \/ wphase[j] = "verify" /\ attempts[j] > 0
     \/ wpolls[j] > 0
  /\ finish_control_job(j, FALSE)
  /\ UNCHANGED <<up, minerVars, miner_id, action, attempts, callVars, pool,
                 poll, histVars>>

\* Mutant: retries are not counted against the maximum.
LoopSendsWithoutLimit(j) ==
  /\ wpc[j] = "loop" /\ wphase[j] = "verify"
  /\ up = "running" /\ wpolls[j] < MaxPolls
  /\ attempts[j] = 0 \/ should_retry_command(action[j], wlast[j])
  /\ attempts' = [attempts EXCEPT ![j] = @ + 1]
  /\ wpc' = [wpc EXCEPT ![j] = "send"]
  /\ IF attempts[j] = 0 THEN TaintAtFirstAttempt(j) ELSE UNCHANGED tainted
  /\ UNCHANGED <<up, minerVars, status, miner_id, action, callVars, pool,
                 wdata, poll, observed>>

\* need_send: the first command, or a retry once retry_after has elapsed.
LoopSends(j) ==
  /\ wpc[j] = "loop" /\ wphase[j] = "verify"
  /\ up = "running" /\ wpolls[j] < MaxPolls
  /\ \/ attempts[j] = 0
     \/ /\ attempts[j] < CONTROL_MAX_ATTEMPTS
        /\ should_retry_command(action[j], wlast[j])
  /\ attempts' = [attempts EXCEPT ![j] = @ + 1]
  /\ wpc' = [wpc EXCEPT ![j] = "send"]
  /\ IF attempts[j] = 0 THEN TaintAtFirstAttempt(j) ELSE UNCHANGED tainted
  /\ UNCHANGED <<up, minerVars, status, miner_id, action, callVars, pool,
                 wdata, poll, observed>>

LoopWaits(j) ==
  /\ wpc[j] = "loop"
  /\ up = "running" /\ wpolls[j] < MaxPolls
  /\ attempts[j] > 0
  /\ wpc' = [wpc EXCEPT ![j] = "wait"]
  /\ UNCHANGED <<up, minerVars, jobVars, callVars, pool, wdata, poll, histVars>>

\* Mutant: the row is compared right after the command, without a poll.
SendOkSkipsThePoll(j) ==
  /\ wpc[j] = "send"
  /\ last_action' = [last_action EXCEPT ![miner_id[j]] = action[j]]
  /\ wpc' = [wpc EXCEPT ![j] = "check"]
  /\ wsent' = [wsent EXCEPT ![j] = TRUE]
  /\ UNCHANGED <<up, enabled, driver, last_state, override, jobVars, callVars,
                 pool, wphase, wlast, wobs, wpolls, wstable, poll, histVars>>

\* The command is accepted, and set_last_command records it.  The verified
\* worker reads the row again for every command.
SendOk(j) ==
  /\ wpc[j] = "send"
  /\ wphase[j] = "verify" => driver[miner_id[j]] \in ControlDrivers
  /\ last_action' = [last_action EXCEPT ![miner_id[j]] = action[j]]
  /\ wpc' = [wpc EXCEPT ![j] = IF wphase[j] = "verify" THEN "wait" ELSE "loop"]
  /\ wsent' = [wsent EXCEPT ![j] = TRUE]
  /\ UNCHANGED <<up, enabled, driver, last_state, override, jobVars, callVars,
                 pool, wphase, wlast, wobs, wpolls, wstable, poll, histVars>>

\* The command raises: tried again after CONTROL_RETRY_DELAY_ON_ERROR.
SendFails(j) ==
  /\ wpc[j] = "send"
  /\ attempts[j] < max_attempts(action[j])
  /\ wpc' = [wpc EXCEPT ![j] = "loop"]
  /\ UNCHANGED <<up, minerVars, jobVars, callVars, pool, wdata, poll, histVars>>

\* The last attempt raises; a reboot has only one.
GivesUp(j) ==
  /\ wpc[j] \in {"send", "unsupported"}
  /\ attempts[j] >= max_attempts(action[j])
  /\ finish_control_job(j, FALSE)
  /\ UNCHANGED <<up, minerVars, miner_id, action, attempts, callVars, pool,
                 poll, histVars>>

\* stop_event.wait returns because the event is set: the worker returns and
\* leaves its row RUNNING.
WaitStopped(j) ==
  /\ wpc[j] = "wait" /\ up = "stopping"
  /\ WorkerReturns(j)
  /\ UNCHANGED <<up, minerVars, jobVars, callVars, pool, poll, histVars>>

WaitElapsed(j) ==
  /\ wpc[j] = "wait" /\ up = "running"
  /\ wpc' = [wpc EXCEPT ![j] = "poll"]
  /\ UNCHANGED <<up, minerVars, jobVars, callVars, pool, wdata, poll, histVars>>

\* The readings that tell whether a command had its effect.
Transitional == {"OFFLINE", "UNKNOWN", "STARTING", "RESTARTING"}
Telling(a) == IF a = "reboot" THEN Transitional \cup {"MINING", "PAUSED"}
              ELSE {control_target(a)}

Observe(m, r) ==
  observed' = [j \in Jobs |->
                 IF miner_id[j] = m /\ status[j] = "RUNNING" /\ attempts[j] > 0
                 THEN observed[j] \cup ({r} \cap Telling(action[j]))
                 ELSE observed[j]]

PollSkips(j) ==
  /\ wpc[j] = "poll" /\ ~Pollable(miner_id[j])
  /\ wpc' = [wpc EXCEPT ![j] = "check"]
  /\ UNCHANGED <<up, minerVars, jobVars, callVars, pool, wdata, poll, histVars>>

PollReads(j, r) ==
  /\ wpc[j] = "poll" /\ Pollable(miner_id[j])
  /\ wpc' = [wpc EXCEPT ![j] = "save"]
  /\ wobs' = [wobs EXCEPT ![j] = r]
  /\ Observe(miner_id[j], r)
  /\ UNCHANGED <<up, minerVars, jobVars, callVars, pool, wphase, wlast, wpolls,
                 wstable, wsent, poll, tainted>>

\* save_miner_status, or mark_miner_offline for an "OFFLINE" reading.
PollSaves(j) ==
  /\ wpc[j] = "save"
  /\ last_state' = [last_state EXCEPT ![miner_id[j]] = wobs[j]]
  /\ wpc' = [wpc EXCEPT ![j] = "check"]
  /\ wobs' = [wobs EXCEPT ![j] = "UNKNOWN"]
  /\ UNCHANGED <<up, enabled, driver, override, last_action, jobVars, callVars,
                 pool, wphase, wlast, wpolls, wstable, wsent, poll, histVars>>

\* The worker reads the row again and compares last_state with its target.
CheckVerify(j) ==
  /\ wpc[j] = "check" /\ wphase[j] = "verify"
  /\ last_state[miner_id[j]] # control_target(action[j])
  /\ wpc' = [wpc EXCEPT ![j] = "loop"]
  /\ wlast' = [wlast EXCEPT ![j] = last_state[miner_id[j]]]
  /\ wpolls' = [wpolls EXCEPT ![j] = @ + 1]
  /\ UNCHANGED <<up, minerVars, jobVars, callVars, pool, wphase, wobs, wstable,
                 wsent, poll, histVars>>

Verified(j) ==
  /\ wpc[j] = "check" /\ wphase[j] = "verify"
  /\ last_state[miner_id[j]] = control_target(action[j])
  /\ finish_control_job(j, TRUE)
  /\ UNCHANGED <<up, minerVars, miner_id, action, attempts, callVars, pool,
                 poll, histVars>>

RebootTransition(s, initial) ==
  \/ s \in {"OFFLINE", "UNKNOWN"}
  \/ s \in {"STARTING", "RESTARTING"} /\ s # initial

\* First loop of a reboot: wait for the ASIC to go away.
CheckTransition(j) ==
  LET seen == RebootTransition(last_state[miner_id[j]], wlast[j]) IN
  /\ wpc[j] = "check" /\ wphase[j] = "transition"
  /\ wpc' = [wpc EXCEPT ![j] = "loop"]
  /\ wphase' = [wphase EXCEPT ![j] = IF seen THEN "return" ELSE "transition"]
  /\ wpolls' = [wpolls EXCEPT ![j] = IF seen THEN 0 ELSE @ + 1]
  /\ UNCHANGED <<up, minerVars, jobVars, callVars, pool, wlast, wobs, wstable,
                 wsent, poll, histVars>>

\* Second loop: REBOOT_STABLE_POLLS looks in a row must find it back.
StablePolls(j) ==
  IF last_state[miner_id[j]] \in {"MINING", "PAUSED"} THEN wstable[j] + 1 ELSE 0

CheckReturn(j) ==
  /\ wpc[j] = "check" /\ wphase[j] = "return"
  /\ StablePolls(j) < REBOOT_STABLE_POLLS
  /\ wpc' = [wpc EXCEPT ![j] = "loop"]
  /\ wstable' = [wstable EXCEPT ![j] = StablePolls(j)]
  /\ wpolls' = [wpolls EXCEPT ![j] = @ + 1]
  /\ UNCHANGED <<up, minerVars, jobVars, callVars, pool, wphase, wlast, wobs,
                 wsent, poll, histVars>>

Returned(j) ==
  /\ wpc[j] = "check" /\ wphase[j] = "return"
  /\ StablePolls(j) >= REBOOT_STABLE_POLLS
  /\ finish_control_job(j, TRUE)
  /\ UNCHANGED <<up, minerVars, miner_id, action, attempts, callVars, pool,
                 poll, histVars>>

-----------------------------------------------------------------------------
(* Exceptions: the database stays locked for longer than its timeout       *)

CanRaise == Cardinality({j \in Jobs : wpc[j] = "raised"}) < MaxRaised

\* The exception ends the worker inside its Future: nobody reads it, and the
\* row stays as it is.
Raised(j) ==
  /\ CanRaise
  /\ wpc' = [wpc EXCEPT ![j] = "raised"]
  /\ wphase' = [wphase EXCEPT ![j] = "none"]
  /\ wlast' = [wlast EXCEPT ![j] = "UNKNOWN"]
  /\ wobs' = [wobs EXCEPT ![j] = "UNKNOWN"]
  /\ wpolls' = [wpolls EXCEPT ![j] = 0]
  /\ wstable' = [wstable EXCEPT ![j] = 0]
  /\ wsent' = [wsent EXCEPT ![j] = FALSE]
  /\ UNCHANGED <<up, minerVars, jobVars, callVars, poll, histVars>>

\* Before the row becomes RUNNING, ...
StartRaises(j) == TakeWork(j) /\ Raised(j)

\* ... at any later statement.
WorkerRaises(j) == Live(j) /\ Raised(j) /\ UNCHANGED pool

\* The reboot worker ignores the exception of a poll, and compares the row
\* as it was.
PollRaises(j) ==
  /\ wpc[j] \in {"poll", "save"} /\ wphase[j] # "verify"
  /\ wpc' = [wpc EXCEPT ![j] = "check"]
  /\ wobs' = [wobs EXCEPT ![j] = "UNKNOWN"]
  /\ tainted' = tainted \cup {j}
  /\ UNCHANGED <<up, minerVars, jobVars, callVars, pool, wphase, wlast, wpolls,
                 wstable, wsent, poll, observed>>

TaintReboots(m) ==
  tainted' = tainted \cup {j \in Jobs : /\ miner_id[j] = m
                                       /\ action[j] = "reboot"
                                       /\ status[j] \in Active}

\* poll_miner takes a save that raises for a device that does not answer, and
\* marks the ASIC OFFLINE.
SaveFails(j) ==
  /\ wpc[j] = "save" /\ wobs[j] # "OFFLINE"
  /\ wobs' = [wobs EXCEPT ![j] = "OFFLINE"]
  /\ TaintReboots(miner_id[j])
  /\ UNCHANGED <<up, minerVars, jobVars, callVars, pool, wpc, wphase, wlast,
                 wpolls, wstable, wsent, poll, observed>>

-----------------------------------------------------------------------------
(* Background polls: polling_loop and the polls that edits spawn           *)

BackgroundReads(p, m, r) ==
  /\ poll[p] = None
  /\ up # "down" /\ Pollable(m)
  /\ poll' = [poll EXCEPT ![p] = [miner |-> m, obs |-> r]]
  /\ Observe(m, r)
  /\ UNCHANGED <<up, minerVars, jobVars, callVars, pool, wpc, wdata, tainted>>

BackgroundSaves(p) ==
  /\ poll[p] # None
  /\ last_state' = [last_state EXCEPT ![poll[p].miner] = poll[p].obs]
  /\ poll' = [poll EXCEPT ![p] = None]
  /\ UNCHANGED <<up, enabled, driver, override, last_action, jobVars, callVars,
                 pool, wpc, wdata, histVars>>

BackgroundSaveFails(p) ==
  /\ poll[p] # None /\ poll[p].obs # "OFFLINE"
  /\ poll' = [poll EXCEPT ![p].obs = "OFFLINE"]
  /\ TaintReboots(poll[p].miner)
  /\ UNCHANGED <<up, minerVars, jobVars, callVars, pool, wpc, wdata, observed>>

\* The loop ignores an exception of poll_miner, and so does a spawned thread.
BackgroundRaises(p) ==
  /\ poll[p] # None
  /\ poll' = [poll EXCEPT ![p] = None]
  /\ UNCHANGED <<up, minerVars, jobVars, callVars, pool, wpc, wdata, histVars>>

-----------------------------------------------------------------------------
(* Inventory edits                                                         *)

TaintActive(ms) ==
  tainted' = tainted \cup {j \in Jobs : miner_id[j] \in ms
                                        /\ status[j] \in Active}

toggle_enabled(m) ==
  /\ up = "running"
  /\ enabled' = [enabled EXCEPT ![m] = ~@]
  /\ TaintActive({m})
  /\ UNCHANGED <<up, driver, last_state, override, last_action, jobVars,
                 callVars, pool, wpc, wdata, poll, observed>>

\* POST driver: every save resets last_state, even to the same driver.
set_driver(m, d) ==
  /\ up = "running"
  /\ driver' = [driver EXCEPT ![m] = d]
  /\ last_state' = [last_state EXCEPT ![m] =
                      IF d = "unset" THEN "CONFIG_REQUIRED" ELSE "UNKNOWN"]
  /\ override' = [override EXCEPT ![m] = FALSE]
  /\ TaintActive({m})
  /\ UNCHANGED <<up, enabled, last_action, jobVars, callVars, pool, wpc, wdata,
                 poll, observed>>

\* POST firmware-settings in MANUAL mode: driver_changed compares with the
\* driver read before the write, which another edit may have replaced since.
\* AUTO mode writes detection_mode only.
firmware_settings(m, d, read) ==
  /\ up = "running"
  /\ driver' = [driver EXCEPT ![m] = d]
  /\ last_state' = [last_state EXCEPT ![m] =
                      IF d = "unset" THEN "CONFIG_REQUIRED"
                      ELSE IF d # read THEN "UNKNOWN" ELSE @]
  /\ override' = [override EXCEPT ![m] = FALSE]
  /\ TaintActive({m})
  /\ UNCHANGED <<up, enabled, last_action, jobVars, callVars, pool, wpc, wdata,
                 poll, observed>>

\* POST firmware-detect: probes the device between read and write, finds a
\* supported driver and keeps the override.
firmware_detect_now(m, d, read) ==
  /\ up = "running" /\ d \in ControlDrivers
  /\ driver' = [driver EXCEPT ![m] = d]
  /\ last_state' = [last_state EXCEPT ![m] = IF d # read THEN "UNKNOWN" ELSE @]
  /\ TaintActive({m})
  /\ UNCHANGED <<up, enabled, override, last_action, jobVars, callVars, pool,
                 wpc, wdata, poll, observed>>

unconfigured_to_stock ==
  LET unset == {m \in Miners : driver[m] = "unset"} IN
  /\ up = "running" /\ unset # {}
  /\ driver' = [m \in Miners |-> IF m \in unset THEN "bitmain_stock"
                                 ELSE driver[m]]
  /\ last_state' = [m \in Miners |-> IF m \in unset THEN "UNKNOWN"
                                     ELSE last_state[m]]
  /\ TaintActive(unset)
  /\ UNCHANGED <<up, enabled, override, last_action, jobVars, callVars, pool,
                 wpc, wdata, poll, observed>>

clear_overrides ==
  /\ up = "running"
  /\ override' = [m \in Miners |-> FALSE]
  /\ UNCHANGED <<up, enabled, driver, last_state, last_action, jobVars,
                 callVars, pool, wpc, wdata, poll, histVars>>

-----------------------------------------------------------------------------
(* The life of the process                                                 *)

\* The lifespan exits: stop_event is set.
Stop ==
  /\ up = "running"
  /\ up' = "stopping"
  /\ UNCHANGED <<minerVars, jobVars, callVars, pool, wpc, wdata, poll, histVars>>

\* Nothing but the database outlives the process.
ThreadsGone ==
  /\ up' = "down"
  /\ lock' = None
  /\ cpc' = [c \in Callers |-> "idle"]
  /\ creq' = [c \in Callers |-> None]
  /\ cjob' = [c \in Callers |-> None]
  /\ pool' = <<>>
  /\ wpc' = [j \in Jobs |-> "idle"]
  /\ wphase' = [j \in Jobs |-> "none"]
  /\ wlast' = [j \in Jobs |-> "UNKNOWN"]
  /\ wobs' = [j \in Jobs |-> "UNKNOWN"]
  /\ wpolls' = [j \in Jobs |-> 0]
  /\ wstable' = [j \in Jobs |-> 0]
  /\ wsent' = [j \in Jobs |-> FALSE]
  /\ poll' = [p \in Pollers |-> None]
  /\ UNCHANGED <<minerVars, jobVars, histVars>>

\* The interpreter joins the executor's threads before it exits.
Exit ==
  /\ up = "stopping"
  /\ pool = <<>> /\ \A j \in Jobs : ~Live(j)
  /\ ThreadsGone

Crash ==
  /\ up # "down"
  /\ ThreadsGone

\* Mutant: init_db leaves the old jobs alone.
RestartKeepsJobs ==
  /\ up = "down"
  /\ up' = "running"
  /\ UNCHANGED <<minerVars, jobVars, callVars, pool, wpc, wdata, poll, histVars>>

\* init_db marks the jobs of the previous process ABORTED.
Restart ==
  /\ up = "down"
  /\ up' = "running"
  /\ status' = [j \in Jobs |-> IF status[j] \in Active THEN "ABORTED"
                               ELSE status[j]]
  /\ UNCHANGED <<minerVars, miner_id, action, attempts, callVars, pool, wpc,
                 wdata, poll, histVars>>

-----------------------------------------------------------------------------
Caller(c) ==
  \/ \E m \in Miners, a \in Actions, man \in BOOLEAN : Request(c, m, a, man)
  \/ \E m \in Miners : RequestReboot(c, m)
  \/ LockAndCheck(c)
  \/ AlreadyActive(c)
  \/ set_manual_override(c)
  \/ create_control_job(c)
  \/ Submit(c)
  \/ SubmitRefused(c)

Worker(j) ==
  \/ StartVerified(j)
  \/ StartReboot(j)
  \/ LoopEnds(j)
  \/ LoopSends(j)
  \/ LoopWaits(j)
  \/ SendOk(j)
  \/ SendFails(j)
  \/ GivesUp(j)
  \/ WaitStopped(j)
  \/ WaitElapsed(j)
  \/ PollSkips(j)
  \/ \E r \in Readings : PollReads(j, r)
  \/ PollSaves(j)
  \/ CheckVerify(j)
  \/ Verified(j)
  \/ CheckTransition(j)
  \/ CheckReturn(j)
  \/ Returned(j)

Exception(j) ==
  \/ StartRaises(j)
  \/ WorkerRaises(j)
  \/ PollRaises(j)
  \/ SaveFails(j)

Background(p) ==
  \/ \E m \in Miners, r \in Readings : BackgroundReads(p, m, r)
  \/ BackgroundSaves(p)
  \/ BackgroundSaveFails(p)
  \/ BackgroundRaises(p)

Inventory ==
  \/ \E m \in EditMiners : toggle_enabled(m)
  \/ \E m \in EditMiners, d \in UsedDrivers : set_driver(m, d)
  \/ \E m \in EditMiners, d, read \in UsedDrivers : firmware_settings(m, d, read)
  \/ \E m \in EditMiners, d, read \in UsedDrivers :
       firmware_detect_now(m, d, read)
  \/ unconfigured_to_stock
  \/ clear_overrides

Process == Stop \/ Exit \/ Crash \/ Restart

Next ==
  \/ \E c \in Callers : Caller(c)
  \/ \E j \in Jobs : Worker(j)
  \/ \E j \in Jobs : Exception(j)
  \/ \E p \in Pollers : Background(p)
  \/ Inventory
  \/ Process

Spec == Init /\ [][Next]_vars

(* A Python thread that is runnable runs: every worker keeps stepping, and *)
(* a caller that created a job goes on to submit it, and an interpreter    *)
(* whose executor threads have ended exits.  Nothing is assumed of new     *)
(* requests, of polls, of edits, of operators or of the device.            *)
FairSpec ==
  /\ Spec
  /\ \A j \in Jobs : WF_vars(Worker(j))
  /\ \A c \in Callers : WF_vars(Submit(c) \/ SubmitRefused(c))
  /\ WF_vars(Exit)

-----------------------------------------------------------------------------
(* Properties                                                              *)

RequestType == [miner : Miners, action : AllActions, manual : BOOLEAN]
PollType == [miner : Miners, obs : States]
ControlPoints == {"idle", "queued", "raised", "loop", "send", "unsupported",
                  "wait", "poll", "save", "check"}

\* Every variable keeps its type.  The bounds on attempts, polls and stable
\* are those of CONTROL_MAX_ATTEMPTS, the deadlines and REBOOT_STABLE_POLLS.
TypeOK ==
  /\ up \in {"running", "stopping", "down"}
  /\ enabled \in [Miners -> BOOLEAN]
  /\ driver \in [Miners -> Drivers]
  /\ last_state \in [Miners -> States]
  /\ override \in [Miners -> BOOLEAN]
  /\ last_action \in [Miners -> AllActions \cup {"none"}]
  /\ status \in [Jobs -> {"NONE"} \cup Active \cup Terminal]
  /\ miner_id \in [Jobs -> Miners \cup {None}]
  /\ action \in [Jobs -> AllActions \cup {"none"}]
  /\ attempts \in [Jobs -> 0 .. CONTROL_MAX_ATTEMPTS]
  /\ lock \in Callers \cup {None}
  /\ cpc \in [Callers -> {"idle", "lock", "override", "create", "submit"}]
  /\ creq \in [Callers -> RequestType \cup {None}]
  /\ cjob \in [Callers -> Jobs \cup {None}]
  /\ pool \in Seq(Jobs)
  /\ wpc \in [Jobs -> ControlPoints]
  /\ wphase \in [Jobs -> {"none", "verify", "transition", "return"}]
  /\ wlast \in [Jobs -> States]
  /\ wobs \in [Jobs -> States]
  /\ wpolls \in [Jobs -> 0 .. MaxPolls]
  /\ wstable \in [Jobs -> 0 .. REBOOT_STABLE_POLLS - 1]
  /\ wsent \in [Jobs -> BOOLEAN]
  /\ poll \in [Pollers -> PollType \cup {None}]
  /\ observed \in [Jobs -> SUBSET States]
  /\ tainted \subseteq Jobs

\* Two callers racing for one miner (operator, bulk request, scheduler) never
\* leave it with two jobs that are QUEUED or RUNNING: control_queue_lock spans
\* the look-up and the insert of queue_control and queue_reboot.
OneActiveJobPerMiner ==
  \A i, j \in Jobs : /\ status[i] \in Active /\ status[j] \in Active
                     /\ miner_id[i] = miner_id[j]
                     => i = j

\* While a worker waits for the effect of a command it sent, no other worker,
\* even one left from an earlier job, has sent another command to its ASIC.
CommandsAreExclusive ==
  \A j \in Jobs : Live(j) /\ wsent[j] => last_action[miner_id[j]] = action[j]

\* While the service runs, every QUEUED or RUNNING row has a thread that will
\* end it: a caller about to submit it, the executor's queue or a worker.  The
\* exception: its worker was itself ended by one - a locked database, or
\* control_timeout on a driver that it finds unset.
NoOrphanJob ==
  up = "running" =>
    \A j \in Jobs : status[j] \in Active =>
      \/ \E c \in Callers : cpc[c] = "submit" /\ cjob[c] = j
      \/ wpc[j] # "idle"

Evidence(j) ==
  IF action[j] = "reboot"
  THEN /\ observed[j] \cap Transitional # {}
       /\ observed[j] \cap {"MINING", "PAUSED"} # {}
  ELSE control_target(action[j]) \in observed[j]

\* A job is VERIFIED only on what the ASIC itself reported after the job's
\* first attempt - its target state, or for a reboot an interruption and a
\* return ("verified asynchronously rather than treated as successful only
\* because an HTTP request returned successfully", README.md) - unless an
\* operator edited or disabled the miner, which poll_miner then skips, a poll
\* older than the command was still in flight, or a poll beside a reboot met a
\* locked database: it may mark the ASIC OFFLINE itself.  (An interruption is
\* what the worker takes for one: OFFLINE and UNKNOWN even if nothing changed.)
VerifiedByTheDevice ==
  \A j \in Jobs \ tainted : status[j] = "VERIFIED" => Evidence(j)

\* A manual command that is refused because a job is active leaves the
\* schedule alone: an override appears only on a miner without active job.
OverrideOnlyWithoutActiveJob ==
  [][\A m \in Miners : ~override[m] /\ override'[m]
                       => get_active_control_job(m) = {}]_vars

\* The columns of a row that the workers and the restart write.
Row(j) == <<status[j], miner_id[j], action[j], attempts[j]>>

\* A row that is VERIFIED, FAILED or ABORTED is never written again, although
\* update_control_job does not look at the status it replaces: neither a late
\* worker nor a restart reopens or relabels a finished job.
FinishedJobsAreFinal ==
  [][\A j \in Jobs : status[j] \in Terminal => UNCHANGED Row(j)]_vars

\* "Verification polling" leads to VERIFIED or FAILED in the control flow of
\* docs/ARCHITECTURE.md: every job that waits for a worker or has one ends
\* (or the process does, and then the next start aborts it): retries,
\* deadlines and the stop event end it whatever the device answers and
\* whatever is edited.  The exception is that of NoOrphanJob.
JobsEnd ==
  \A j \in Jobs :
    status[j] = "QUEUED" \/ Live(j) ~>
      status[j] \in Terminal \/ up = "down" \/ wpc[j] = "raised"

\* The rows of control_jobs as JobLedger sees them.
maxView == [j \in Jobs |-> IF status[j] = "NONE" THEN 0
                           ELSE max_attempts(action[j])]
Ledger == INSTANCE JobLedger WITH max <- maxView

\* The pipeline implements the abstract ledger.
ImplementsLedger == Ledger!LedgerSpec
=============================================================================

-------------------------- MODULE ControlJobsProofs --------------------------
(***************************************************************************)
(* Proofs about ControlJobs, for every set of miners, jobs, callers and    *)
(* pollers, every pool size and every poll bound.                          *)
(*                                                                         *)
(* OneActiveJobPerMiner is not inductive: create_control_job inserts a row *)
(* without looking at the table.  LockProtects carries what the caller saw *)
(* inside the lock up to the insert.  Ownership says which thread may      *)
(* write a row: at most one of a caller about to submit it, the executor's *)
(* queue and one worker, each with the status it relies on.                *)
(*                                                                         *)
(* VerifiedByTheDevice has an invariant of its own, at the end: KnownInv   *)
(* follows a reading from the ASIC to the comparison that verifies the     *)
(* job.                                                                    *)
(* Work is the variant of the workers' loops.                              *)
(***************************************************************************)
EXTENDS ControlJobs, TLAPS

\* The holder of control_queue_lock is the caller between look-up and insert,
\* and the miner it asks for has no active job.
LockProtects ==
  \A c \in Callers :
    /\ cpc[c] \in {"override", "create"} <=> lock = c
    /\ lock = c => \A j \in Jobs : miner_id[j] = creq[c].miner
                                   => status[j] \notin Active

\* A caller under way has a request, and a caller about to submit has a job.
CallsWellFormed ==
  \A c \in Callers :
    /\ cpc[c] \in {"lock", "override", "create"} => creq[c] \in RequestType
    /\ cpc[c] = "submit" => cjob[c] \in Jobs

\* A row that exists names a miner and an action; a QUEUED row is untried.
RowsWellFormed ==
  \A j \in Jobs :
    /\ status[j] # "NONE" => miner_id[j] \in Miners /\ action[j] \in AllActions
    /\ status[j] \in {"NONE", "QUEUED"} => attempts[j] = 0

\* Which thread owns a row, and the status it relies on.
SubmitOwns ==
  \A c \in Callers : cpc[c] = "submit" =>
    /\ status[cjob[c]] = "QUEUED"
    /\ wpc[cjob[c]] = "idle"
    /\ \A d \in Callers : cpc[d] = "submit" /\ cjob[d] = cjob[c] => d = c
PoolOwns ==
  /\ \A i \in 1 .. Len(pool) : wpc[pool[i]] = "queued"
  /\ \A i, k \in 1 .. Len(pool) : pool[i] = pool[k] => i = k
WorkerOwns ==
  /\ \A j \in Jobs : /\ wpc[j] = "queued" => status[j] = "QUEUED"
                     /\ Live(j) => status[j] = "RUNNING"
                     /\ wpc[j] = "raised" => status[j] \in Active
  /\ up = "down" => /\ \A j \in Jobs : wpc[j] = "idle"
                    /\ \A c \in Callers : cpc[c] = "idle"
Ownership == SubmitOwns /\ PoolOwns /\ WorkerOwns

\* A worker polls only before its deadline and after an attempt, and its
\* phase tells what kind of job it runs.
WorkerWellFormed(j) ==
  /\ wpc[j] \in {"send", "wait", "poll", "save", "check"} =>
       wpolls[j] < MaxPolls /\ attempts[j] > 0
  /\ ~Live(j) => wpolls[j] = 0
  /\ wpc[j] = "unsupported" => wphase[j] = "transition"
  /\ Live(j) => \/ wphase[j] = "verify" /\ action[j] # "reboot"
                \/ /\ wphase[j] \in {"transition", "return"}
                   /\ action[j] = "reboot" /\ attempts[j] = 1
WorkersWellFormed == \A j \in Jobs : WorkerWellFormed(j)

IInv ==
  /\ TypeOK
  /\ LockProtects
  /\ CallsWellFormed
  /\ RowsWellFormed
  /\ Ownership
  /\ WorkersWellFormed
  /\ OneActiveJobPerMiner
-----------------------------------------------------------------------------
USE DEF ControlDrivers, Drivers, States, AllActions, Active, Terminal,
        CONTROL_MAX_ATTEMPTS, REBOOT_STABLE_POLLS, ControlPoints

\* Init establishes the inductive invariant.
LEMMA InitIInv == Init => IInv
  <1> SUFFICES ASSUME Init PROVE IInv
    OBVIOUS
  <1> USE ConstantsAssumption DEF Init
  <1>1. TypeOK
    <2>1. /\ driver \in [Miners -> Drivers] /\ last_state \in [Miners -> States]
          /\ wlast \in [Jobs -> States] /\ wobs \in [Jobs -> States]
          /\ observed \in [Jobs -> SUBSET States] /\ tainted \subseteq Jobs
      OBVIOUS
    <2>2. /\ enabled \in [Miners -> BOOLEAN] /\ override \in [Miners -> BOOLEAN]
          /\ wsent \in [Jobs -> BOOLEAN]
      OBVIOUS
    <2>3. wpolls \in [Jobs -> 0 .. MaxPolls] /\ wstable \in [Jobs -> 0 .. 1]
      OBVIOUS
    <2>4. /\ miner_id \in [Jobs -> Miners \cup {None}]
          /\ action \in [Jobs -> AllActions \cup {"none"}]
          /\ last_action \in [Miners -> AllActions \cup {"none"}]
          /\ creq \in [Callers -> RequestType \cup {None}]
          /\ cjob \in [Callers -> Jobs \cup {None}]
          /\ poll \in [Pollers -> PollType \cup {None}]
      OBVIOUS
    <2> QED
      BY <2>1, <2>2, <2>3, <2>4 DEF TypeOK
  <1>2. LockProtects
    BY DEF LockProtects
  <1>3. CallsWellFormed /\ RowsWellFormed
    BY DEF CallsWellFormed, RowsWellFormed
  <1>4. Ownership
    BY DEF Ownership, SubmitOwns, PoolOwns, WorkerOwns, Live
  <1>5. WorkersWellFormed
    BY DEF WorkersWellFormed, WorkerWellFormed, Live
  <1>6. OneActiveJobPerMiner
    BY DEF OneActiveJobPerMiner
  <1> QED
    BY <1>1, <1>2, <1>3, <1>4, <1>5, <1>6 DEF IInv

\* The work item a thread takes from the executor: an untried QUEUED row that
\* no other thread owns; the rest of the queue moves up.
LEMMA TakenJob ==
  ASSUME IInv, NEW j \in Jobs, TakeWork(j)
  PROVE  /\ wpc[j] = "queued" /\ status[j] = "QUEUED" /\ attempts[j] = 0
         /\ miner_id[j] \in Miners /\ action[j] \in AllActions
         /\ pool' \in Seq(Jobs) /\ Len(pool') = Len(pool) - 1
         /\ \A i \in 1 .. Len(pool') : pool'[i] = pool[i + 1] /\ pool'[i] # j
  <1>1. pool \in Seq(Jobs) /\ pool # <<>> /\ j = pool[1] /\ pool' = Tail(pool)
    BY DEF IInv, TypeOK, TakeWork
  <1>2. /\ Len(pool) \in Nat /\ Len(pool) >= 1 /\ pool' \in Seq(Jobs)
        /\ Len(pool') = Len(pool) - 1
        /\ \A i \in 1 .. Len(pool') : pool'[i] = pool[i + 1]
    BY <1>1
  <1>3. wpc[j] = "queued" /\ \A i \in 1 .. Len(pool') : pool'[i] # j
    BY <1>1, <1>2 DEF IInv, Ownership, PoolOwns
  <1>4. status[j] = "QUEUED"
    BY <1>3 DEF IInv, Ownership, WorkerOwns
  <1>5. attempts[j] = 0 /\ miner_id[j] \in Miners /\ action[j] \in AllActions
    BY <1>4 DEF IInv, RowsWellFormed
  <1> QED
    BY <1>2, <1>3, <1>4, <1>5

\* A worker that runs writes a RUNNING row of an existing miner.
LEMMA LiveJob ==
  ASSUME IInv, NEW j \in Jobs, Live(j)
  PROVE  /\ status[j] = "RUNNING" /\ miner_id[j] \in Miners
         /\ action[j] \in AllActions
  BY DEF IInv, Ownership, WorkerOwns, RowsWellFormed

\* Every step keeps the types.  Two bounds need more than types: a poll is
\* counted only below MaxPolls and a command only below the maximum.
LEMMA TypeOKStep == IInv /\ Next => TypeOK'
  <1> SUFFICES ASSUME IInv, Next PROVE TypeOK'
    OBVIOUS
  <1> USE ConstantsAssumption
  <1>0. TypeOK
    BY DEF IInv
  <1>1. ASSUME NEW c \in Callers, NEW m \in Miners, NEW a \in Actions,
               NEW man \in BOOLEAN, Request(c, m, a, man)
        PROVE  TypeOK'
    BY <1>0, <1>1
    DEF Request, TypeOK, minerVars, jobVars, callVars, wdata, histVars,
        RequestType
  <1>2. ASSUME NEW c \in Callers, NEW m \in Miners, RequestReboot(c, m)
        PROVE  TypeOK'
    BY <1>0, <1>2
    DEF RequestReboot, TypeOK, minerVars, jobVars, callVars, wdata, histVars,
        RequestType
  <1>3. ASSUME NEW c \in Callers, LockAndCheck(c)
        PROVE  TypeOK'
    BY <1>0, <1>3
    DEF LockAndCheck, TypeOK, minerVars, jobVars, callVars, wdata, histVars
  <1>4. ASSUME NEW c \in Callers, AlreadyActive(c)
        PROVE  TypeOK'
    BY <1>0, <1>4
    DEF AlreadyActive, TypeOK, minerVars, jobVars, callVars, wdata, histVars
  <1>5. ASSUME NEW c \in Callers, set_manual_override(c)
        PROVE  TypeOK'
    <2>1. creq[c].miner \in Miners
      BY <1>5 DEF IInv, CallsWellFormed, RequestType, set_manual_override
    <2> QED
      BY <1>0, <1>5, <2>1
      DEF set_manual_override, TypeOK, minerVars, jobVars, callVars, wdata,
          histVars
  <1>6. ASSUME NEW c \in Callers, create_control_job(c)
        PROVE  TypeOK'
    <2>1. creq[c] \in RequestType
      BY <1>6 DEF IInv, CallsWellFormed, create_control_job
    <2>2. creq[c].miner \in Miners /\ creq[c].action \in AllActions
      BY <2>1 DEF RequestType
    <2> QED
      BY <1>0, <1>6, <2>2
      DEF create_control_job, TypeOK, minerVars, jobVars, callVars, wdata,
          histVars
  <1>7. ASSUME NEW c \in Callers, Submit(c)
        PROVE  TypeOK'
    <2>1. cjob[c] \in Jobs
      BY <1>7 DEF IInv, CallsWellFormed, Submit
    <2> QED
      BY <1>0, <1>7, <2>1
      DEF Submit, TypeOK, minerVars, jobVars, callVars, wdata, histVars
  <1>8. ASSUME NEW c \in Callers, SubmitRefused(c)
        PROVE  TypeOK'
    BY <1>0, <1>8
    DEF SubmitRefused, TypeOK, minerVars, jobVars, callVars, wdata, histVars
  <1>9. ASSUME NEW j \in Jobs, StartVerified(j)
        PROVE  TypeOK'
    <2>1. /\ miner_id[j] \in Miners /\ pool' \in Seq(Jobs)
      BY TakenJob, <1>9 DEF StartVerified
    <2>2. /\ last_state[miner_id[j]] \in States
      BY <1>0, <2>1 DEF TypeOK
    <2> QED
      BY <1>0, <1>9, <2>1, <2>2
      DEF StartVerified, TypeOK, minerVars, jobVars, callVars, wdata, histVars
  <1>10. ASSUME NEW j \in Jobs, StartReboot(j)
        PROVE  TypeOK'
    <2>1. /\ miner_id[j] \in Miners /\ pool' \in Seq(Jobs)
      BY TakenJob, <1>10 DEF StartReboot
    <2>2. /\ last_state[miner_id[j]] \in States
      BY <1>0, <2>1 DEF TypeOK
    <2> QED
      BY <1>0, <1>10, <2>1, <2>2
      DEF StartReboot, TaintAtFirstAttempt, TypeOK, minerVars, jobVars,
          callVars, wdata, histVars
  <1>11. ASSUME NEW j \in Jobs, LoopEnds(j)
        PROVE  TypeOK'
    BY <1>0, <1>11
    DEF LoopEnds, finish_control_job, WorkerReturns, TypeOK, minerVars,
        jobVars, callVars, wdata, histVars
  <1>12. ASSUME NEW j \in Jobs, LoopSends(j)
        PROVE  TypeOK'
    <2>0. attempts[j] \in 0 .. CONTROL_MAX_ATTEMPTS
      BY <1>0 DEF TypeOK
    <2>1. attempts[j] + 1 \in 0 .. CONTROL_MAX_ATTEMPTS
      BY <2>0, <1>12 DEF LoopSends
    <2>2. attempts' \in [Jobs -> 0 .. CONTROL_MAX_ATTEMPTS]
      BY <1>0, <1>12, <2>1 DEF LoopSends, TypeOK
    <2>3. tainted' \subseteq Jobs
      BY <1>0, <1>12 DEF LoopSends, TaintAtFirstAttempt, TypeOK
    <2> QED
      BY <1>0, <1>12, <2>2, <2>3
      DEF LoopSends, TypeOK, minerVars, jobVars, callVars, wdata, histVars
  <1>13. ASSUME NEW j \in Jobs, LoopWaits(j)
        PROVE  TypeOK'
    BY <1>0, <1>13
    DEF LoopWaits, TypeOK, minerVars, jobVars, callVars, wdata, histVars
  <1>14. ASSUME NEW j \in Jobs, SendOk(j)
        PROVE  TypeOK'
    <2>1. miner_id[j] \in Miners /\ action[j] \in AllActions
      BY LiveJob, <1>14 DEF SendOk, Live
    <2> QED
      BY <1>0, <1>14, <2>1
      DEF SendOk, TypeOK, minerVars, jobVars, callVars, wdata, histVars
  <1>15. ASSUME NEW j \in Jobs, SendFails(j)
        PROVE  TypeOK'
    BY <1>0, <1>15
    DEF SendFails, TypeOK, minerVars, jobVars, callVars, wdata, histVars
  <1>16. ASSUME NEW j \in Jobs, GivesUp(j)
        PROVE  TypeOK'
    BY <1>0, <1>16
    DEF GivesUp, finish_control_job, WorkerReturns, TypeOK, minerVars, jobVars,
        callVars, wdata, histVars
  <1>17. ASSUME NEW j \in Jobs, WaitStopped(j)
        PROVE  TypeOK'
    BY <1>0, <1>17
    DEF WaitStopped, WorkerReturns, TypeOK, minerVars, jobVars, callVars,
        wdata, histVars
  <1>18. ASSUME NEW j \in Jobs, WaitElapsed(j)
        PROVE  TypeOK'
    BY <1>0, <1>18
    DEF WaitElapsed, TypeOK, minerVars, jobVars, callVars, wdata, histVars
  <1>19. ASSUME NEW j \in Jobs, PollSkips(j)
        PROVE  TypeOK'
    BY <1>0, <1>19
    DEF PollSkips, TypeOK, minerVars, jobVars, callVars, wdata, histVars
  <1>20. ASSUME NEW j \in Jobs, NEW r \in Readings, PollReads(j, r)
        PROVE  TypeOK'
    BY <1>0, <1>20
    DEF PollReads, Observe, TypeOK, minerVars, jobVars, callVars, wdata,
        histVars
  <1>21. ASSUME NEW j \in Jobs, PollSaves(j)
        PROVE  TypeOK'
    <2>1. miner_id[j] \in Miners /\ action[j] \in AllActions
      BY LiveJob, <1>21 DEF PollSaves, Live
    <2> QED
      BY <1>0, <1>21, <2>1
      DEF PollSaves, TypeOK, minerVars, jobVars, callVars, wdata, histVars
  <1>22. ASSUME NEW j \in Jobs, CheckVerify(j)
        PROVE  TypeOK'
    <2>1. miner_id[j] \in Miners /\ action[j] \in AllActions
      BY LiveJob, <1>22 DEF CheckVerify, Live
    <2>2. wpolls[j] + 1 \in 0 .. MaxPolls
      BY <1>0, <1>22
      DEF IInv, WorkersWellFormed, WorkerWellFormed, TypeOK, CheckVerify
    <2> QED
      BY <1>0, <1>22, <2>1, <2>2
      DEF CheckVerify, TypeOK, minerVars, jobVars, callVars, wdata, histVars
  <1>23. ASSUME NEW j \in Jobs, Verified(j)
        PROVE  TypeOK'
    BY <1>0, <1>23
    DEF Verified, finish_control_job, WorkerReturns, TypeOK, minerVars,
        jobVars, callVars, wdata, histVars
  <1>24. ASSUME NEW j \in Jobs, CheckTransition(j)
        PROVE  TypeOK'
    <2>1. miner_id[j] \in Miners /\ action[j] \in AllActions
      BY LiveJob, <1>24 DEF CheckTransition, Live
    <2>2. wpolls[j] + 1 \in 0 .. MaxPolls
      BY <1>0, <1>24
      DEF IInv, WorkersWellFormed, WorkerWellFormed, TypeOK, CheckTransition
    <2> QED
      BY <1>0, <1>24, <2>1, <2>2
      DEF CheckTransition, TypeOK, minerVars, jobVars, callVars, wdata,
          histVars
  <1>25. ASSUME NEW j \in Jobs, CheckReturn(j)
        PROVE  TypeOK'
    <2>1. wpolls[j] + 1 \in 0 .. MaxPolls
      BY <1>0, <1>25
      DEF IInv, WorkersWellFormed, WorkerWellFormed, TypeOK, CheckReturn
    <2>0. wstable[j] \in 0 .. REBOOT_STABLE_POLLS - 1
      BY <1>0 DEF TypeOK
    <2>2. StablePolls(j) \in 0 .. REBOOT_STABLE_POLLS - 1
      BY <2>0, <1>25 DEF CheckReturn, StablePolls
    <2> QED
      BY <1>0, <1>25, <2>1, <2>2
      DEF CheckReturn, TypeOK, minerVars, jobVars, callVars, wdata, histVars
  <1>26. ASSUME NEW j \in Jobs, Returned(j)
        PROVE  TypeOK'
    BY <1>0, <1>26
    DEF Returned, finish_control_job, WorkerReturns, TypeOK, minerVars,
        jobVars, callVars, wdata, histVars
  <1>27. ASSUME NEW p \in Pollers, NEW m \in Miners, NEW r \in Readings,
               BackgroundReads(p, m, r)
        PROVE  TypeOK'
    <2>0. [miner |-> m, obs |-> r] \in PollType
      BY DEF PollType
    <2>1. poll' \in [Pollers -> PollType \cup {None}]
      BY <1>0, <1>27, <2>0 DEF BackgroundReads, TypeOK
    <2>2. observed' \in [Jobs -> SUBSET States]
      BY <1>0, <1>27 DEF BackgroundReads, Observe, TypeOK
    <2> QED
      BY <1>0, <1>27, <2>1, <2>2
      DEF BackgroundReads, TypeOK, minerVars, jobVars, callVars, wdata,
          histVars
  <1>28. ASSUME NEW p \in Pollers, BackgroundSaves(p)
        PROVE  TypeOK'
    BY <1>0, <1>28
    DEF BackgroundSaves, TypeOK, minerVars, jobVars, callVars, wdata, histVars,
        PollType
  <1>29. ASSUME NEW j \in Jobs, StartRaises(j) \/ WorkerRaises(j)
        PROVE  TypeOK'
    <2>1. pool' \in Seq(Jobs)
      <3>1. CASE StartRaises(j)
        BY <3>1, TakenJob DEF StartRaises
      <3>2. CASE WorkerRaises(j)
        BY <1>0, <3>2 DEF WorkerRaises, TypeOK
      <3> QED
        BY <1>29, <3>1, <3>2
    <2>2. Raised(j)
      BY <1>29 DEF StartRaises, WorkerRaises
    <2> QED
      BY <1>0, <2>1, <2>2
      DEF Raised, TypeOK, minerVars, jobVars, callVars, wdata, histVars
  <1>30. ASSUME NEW j \in Jobs, PollRaises(j)
        PROVE  TypeOK'
    BY <1>0, <1>30
    DEF PollRaises, TypeOK, minerVars, jobVars, callVars, wdata, histVars
  <1>31. ASSUME NEW j \in Jobs, SaveFails(j)
        PROVE  TypeOK'
    BY <1>0, <1>31
    DEF SaveFails, TaintReboots, TypeOK, minerVars, jobVars, callVars, wdata,
        histVars
  <1>32. ASSUME NEW p \in Pollers, BackgroundSaveFails(p)
        PROVE  TypeOK'
    <2>1. poll[p] \in PollType
      BY <1>0, <1>32 DEF BackgroundSaveFails, TypeOK
    <2>2. [poll[p] EXCEPT !.obs = "OFFLINE"] \in PollType
      BY <2>1 DEF PollType
    <2>3. poll' \in [Pollers -> PollType \cup {None}]
      BY <1>0, <1>32, <2>2 DEF BackgroundSaveFails, TypeOK
    <2> QED
      BY <1>0, <1>32, <2>3
      DEF BackgroundSaveFails, TaintReboots, TypeOK, minerVars, jobVars,
          callVars, wdata, histVars
  <1>33. ASSUME NEW p \in Pollers, BackgroundRaises(p)
        PROVE  TypeOK'
    BY <1>0, <1>33
    DEF BackgroundRaises, TypeOK, minerVars, jobVars, callVars, wdata, histVars
  <1>34. CASE Inventory
    <2>1. ASSUME NEW m \in EditMiners, toggle_enabled(m)
          PROVE  TypeOK'
      BY <1>0, <2>1
      DEF toggle_enabled, TaintActive, TypeOK, minerVars, jobVars, callVars,
          wdata, histVars
    <2>2. ASSUME NEW m \in EditMiners, NEW d \in UsedDrivers, set_driver(m, d)
          PROVE  TypeOK'
      BY <1>0, <2>2
      DEF set_driver, TaintActive, TypeOK, minerVars, jobVars, callVars, wdata,
          histVars
    <2>3. ASSUME NEW m \in EditMiners, NEW d \in UsedDrivers,
                 NEW read \in UsedDrivers, firmware_settings(m, d, read)
          PROVE  TypeOK'
      BY <1>0, <2>3
      DEF firmware_settings, TaintActive, TypeOK, minerVars, jobVars, callVars,
          wdata, histVars
    <2>4. ASSUME NEW m \in EditMiners, NEW d \in UsedDrivers,
                 NEW read \in UsedDrivers, firmware_detect_now(m, d, read)
          PROVE  TypeOK'
      BY <1>0, <2>4
      DEF firmware_detect_now, TaintActive, TypeOK, minerVars, jobVars,
          callVars, wdata, histVars
    <2>5. CASE unconfigured_to_stock
      BY <1>0, <2>5
      DEF unconfigured_to_stock, TaintActive, TypeOK, minerVars, jobVars,
          callVars, wdata, histVars
    <2>6. CASE clear_overrides
      BY <1>0, <2>6
      DEF clear_overrides, TypeOK, minerVars, jobVars, callVars, wdata,
          histVars
    <2> QED
      BY <1>34, <2>1, <2>2, <2>3, <2>4, <2>5, <2>6 DEF Inventory
  <1>35. CASE Process
    <2>1. CASE Stop
      BY <1>0, <2>1
      DEF Stop, TypeOK, minerVars, jobVars, callVars, wdata, histVars
    <2>2. CASE ThreadsGone
      BY <1>0, <2>2
      DEF ThreadsGone, TypeOK, minerVars, jobVars, callVars, wdata, histVars
    <2>3. CASE Restart
      BY <1>0, <2>3
      DEF Restart, TypeOK, minerVars, jobVars, callVars, wdata, histVars
    <2> QED
      BY <1>35, <2>1, <2>2, <2>3 DEF Process, Exit, Crash
  <1> QED
    BY <1>1, <1>2, <1>3, <1>4, <1>5, <1>6, <1>7, <1>8, <1>9, <1>10, <1>11,
       <1>12, <1>13, <1>14, <1>15, <1>16, <1>17, <1>18, <1>19, <1>20, <1>21,
       <1>22, <1>23, <1>24, <1>25, <1>26, <1>27, <1>28, <1>29, <1>30, <1>31,
       <1>32, <1>33, <1>34, <1>35
    DEF Next, Caller, Worker, Exception, Background

\* Background polls and inventory edits touch neither the control_jobs table
\* nor the queue nor a worker.
LEMMA OtherFrame ==
  ASSUME (\E p \in Pollers : Background(p)) \/ Inventory
  PROVE  UNCHANGED <<up, jobVars, callVars, pool, wpc, wdata>>
  <1>1. CASE \E p \in Pollers : Background(p)
    BY <1>1 DEF Background, BackgroundReads, BackgroundSaves,
       BackgroundSaveFails, BackgroundRaises
  <1>2. CASE Inventory
    BY <1>2 DEF Inventory, toggle_enabled, set_driver, firmware_settings,
                firmware_detect_now, unconfigured_to_stock, clear_overrides
  <1> QED
    BY <1>1, <1>2

\* A step of the thread that runs a job.
WorkerMoves(j) == Worker(j) \/ Exception(j)

\* What it does to the shared state: it writes only the row it owns, which is
\* active before the step, and it either takes its job from the executor or is
\* already running.
WorkerEffect(j) ==
  /\ UNCHANGED <<up, callVars, miner_id, action>>
  /\ \A i \in Jobs \ {j} : /\ status'[i] = status[i] /\ wpc'[i] = wpc[i]
                            /\ attempts'[i] = attempts[i]
                            /\ wphase'[i] = wphase[i] /\ wpolls'[i] = wpolls[i]
  /\ status[j] \in Active
  /\ \/ status'[j] \in {"RUNNING", "VERIFIED", "FAILED"}
     \/ status'[j] = status[j] /\ attempts'[j] = attempts[j]
  /\ wpc[j] \notin {"idle", "raised"} /\ wpc'[j] # "queued"
  /\ wpc'[j] \notin {"idle", "raised"} => status'[j] = "RUNNING"
  /\ wpc'[j] = "raised" => status'[j] \in Active
  /\ status'[j] # status[j] /\ status[j] = "RUNNING" => wpc'[j] = "idle"
  /\ TakeWork(j) \/ (pool' = pool /\ Live(j))

LEMMA WorkerFrame ==
  ASSUME IInv, NEW j \in Jobs, WorkerMoves(j)
  PROVE  WorkerEffect(j)
  <1>0. /\ status \in [Jobs -> {"NONE"} \cup Active \cup Terminal]
        /\ attempts \in [Jobs -> 0 .. CONTROL_MAX_ATTEMPTS]
        /\ wpc \in [Jobs -> ControlPoints]
        /\ wphase \in [Jobs -> {"none", "verify", "transition", "return"}]
        /\ wpolls \in [Jobs -> 0 .. MaxPolls]
    BY DEF IInv, TypeOK
  <1>a. Live(j) => status[j] = "RUNNING"
    BY LiveJob
  <1>b. TakeWork(j) => status[j] = "QUEUED" /\ wpc[j] = "queued"
    BY TakenJob
  <1>1. CASE StartVerified(j)
    BY <1>0, <1>b, <1>1
    DEF StartVerified, WorkerEffect, jobVars, callVars, wdata
  <1>2. CASE StartReboot(j)
    BY <1>0, <1>b, <1>2
    DEF StartReboot, WorkerEffect, jobVars, callVars, wdata
  <1>3. CASE LoopEnds(j)
    BY <1>0, <1>a, <1>3
    DEF LoopEnds, finish_control_job, WorkerReturns, WorkerEffect, Live,
        jobVars, callVars, wdata
  <1>4. CASE LoopSends(j)
    BY <1>0, <1>a, <1>4
    DEF LoopSends, WorkerEffect, Live, jobVars, callVars, wdata
  <1>5. CASE LoopWaits(j)
    BY <1>0, <1>a, <1>5
    DEF LoopWaits, WorkerEffect, Live, jobVars, callVars, wdata
  <1>6. CASE SendOk(j)
    BY <1>0, <1>a, <1>6
    DEF SendOk, WorkerEffect, Live, jobVars, callVars, wdata
  <1>7. CASE SendFails(j)
    BY <1>0, <1>a, <1>7
    DEF SendFails, WorkerEffect, Live, jobVars, callVars, wdata
  <1>8. CASE GivesUp(j)
    BY <1>0, <1>a, <1>8
    DEF GivesUp, finish_control_job, WorkerReturns, WorkerEffect, Live,
        jobVars, callVars, wdata
  <1>9. CASE WaitStopped(j)
    BY <1>0, <1>a, <1>9
    DEF WaitStopped, WorkerReturns, WorkerEffect, Live, jobVars, callVars,
        wdata
  <1>10. CASE WaitElapsed(j)
    BY <1>0, <1>a, <1>10
    DEF WaitElapsed, WorkerEffect, Live, jobVars, callVars, wdata
  <1>11. CASE PollSkips(j)
    BY <1>0, <1>a, <1>11
    DEF PollSkips, WorkerEffect, Live, jobVars, callVars, wdata
  <1>12. ASSUME NEW r \in Readings, PollReads(j, r)
        PROVE  WorkerEffect(j)
    BY <1>0, <1>a, <1>12
    DEF PollReads, WorkerEffect, Live, jobVars, callVars, wdata
  <1>13. CASE PollSaves(j)
    BY <1>0, <1>a, <1>13
    DEF PollSaves, WorkerEffect, Live, jobVars, callVars, wdata
  <1>14. CASE CheckVerify(j)
    BY <1>0, <1>a, <1>14
    DEF CheckVerify, WorkerEffect, Live, jobVars, callVars, wdata
  <1>15. CASE Verified(j)
    BY <1>0, <1>a, <1>15
    DEF Verified, finish_control_job, WorkerReturns, WorkerEffect, Live,
        jobVars, callVars, wdata
  <1>16. CASE CheckTransition(j)
    BY <1>0, <1>a, <1>16
    DEF CheckTransition, WorkerEffect, Live, jobVars, callVars, wdata
  <1>17. CASE CheckReturn(j)
    BY <1>0, <1>a, <1>17
    DEF CheckReturn, WorkerEffect, Live, jobVars, callVars, wdata
  <1>18. CASE Returned(j)
    BY <1>0, <1>a, <1>18
    DEF Returned, finish_control_job, WorkerReturns, WorkerEffect, Live,
        jobVars, callVars, wdata
  <1>19. CASE StartRaises(j) \/ WorkerRaises(j)
    BY <1>0, <1>a, <1>b, <1>19
    DEF StartRaises, WorkerRaises, Raised, WorkerEffect, Live, jobVars,
        callVars, wdata
  <1>20. CASE PollRaises(j)
    BY <1>0, <1>a, <1>20
    DEF PollRaises, WorkerEffect, Live, jobVars, callVars, wdata
  <1>21. CASE SaveFails(j)
    BY <1>0, <1>a, <1>21
    DEF SaveFails, WorkerEffect, Live, jobVars, callVars, wdata
  <1> QED
    BY <1>1, <1>2, <1>3, <1>4, <1>5, <1>6, <1>7, <1>8, <1>9, <1>10, <1>11,
       <1>12, <1>13, <1>14, <1>15, <1>16, <1>17, <1>18, <1>19, <1>20, <1>21
    DEF WorkerMoves, Worker, Exception

\* The caller inside the lock keeps what it saw there: only a caller inside
\* the lock makes a row active.
LEMMA LockStep == IInv /\ Next => LockProtects'
  <1> SUFFICES ASSUME IInv, Next PROVE LockProtects'
    OBVIOUS
  <1>0. LockProtects
    BY DEF IInv
  <1>a. /\ cpc \in [Callers -> {"idle", "lock", "override", "create", "submit"}]
        /\ creq \in [Callers -> RequestType \cup {None}]
        /\ lock \in Callers \cup {None} /\ None \notin Callers
        /\ status \in [Jobs -> {"NONE"} \cup Active \cup Terminal]
        /\ miner_id \in [Jobs -> Miners \cup {None}]
    BY ConstantsAssumption DEF IInv, TypeOK
  <1>1. ASSUME NEW c \in Callers, NEW m \in Miners, NEW a \in Actions,
               NEW man \in BOOLEAN, Request(c, m, a, man)
        PROVE  LockProtects'
    BY <1>0, <1>a, <1>1
    DEF Request, LockProtects, jobVars, callVars
  <1>2. ASSUME NEW c \in Callers, NEW m \in Miners, RequestReboot(c, m)
        PROVE  LockProtects'
    BY <1>0, <1>a, <1>2
    DEF RequestReboot, LockProtects, jobVars, callVars
  <1>3. ASSUME NEW c \in Callers, LockAndCheck(c)
        PROVE  LockProtects'
    BY <1>0, <1>a, <1>3
    DEF LockAndCheck, get_active_control_job, LockProtects, jobVars, callVars
  <1>4. ASSUME NEW c \in Callers, AlreadyActive(c)
        PROVE  LockProtects'
    BY <1>0, <1>a, <1>4
    DEF AlreadyActive, LockProtects, jobVars, callVars
  <1>5. ASSUME NEW c \in Callers, set_manual_override(c)
        PROVE  LockProtects'
    BY <1>0, <1>a, <1>5
    DEF set_manual_override, LockProtects, jobVars, callVars
  <1>6. ASSUME NEW c \in Callers, create_control_job(c)
        PROVE  LockProtects'
    BY <1>0, <1>a, <1>6
    DEF create_control_job, LockProtects, jobVars, callVars
  <1>7. ASSUME NEW c \in Callers, Submit(c)
        PROVE  LockProtects'
    BY <1>0, <1>a, <1>7
    DEF Submit, LockProtects, jobVars, callVars
  <1>8. ASSUME NEW c \in Callers, SubmitRefused(c)
        PROVE  LockProtects'
    BY <1>0, <1>a, <1>8
    DEF SubmitRefused, LockProtects, jobVars, callVars
  <1>9. ASSUME NEW j \in Jobs, WorkerMoves(j)
        PROVE  LockProtects'
    BY <1>0, <1>a, <1>9, WorkerFrame
    DEF WorkerEffect, LockProtects, callVars
  <1>10. CASE (\E p \in Pollers : Background(p)) \/ Inventory
    BY <1>0, <1>a, OtherFrame, <1>10
    DEF LockProtects, jobVars, callVars, wdata
  <1>11. CASE Stop
    BY <1>0, <1>a, <1>11
    DEF Stop, LockProtects, jobVars, callVars, wdata
  <1>12. CASE ThreadsGone
    BY <1>0, <1>a, <1>12
    DEF ThreadsGone, LockProtects, jobVars
  <1>13. CASE Restart
    BY <1>0, <1>a, <1>13
    DEF Restart, LockProtects, callVars
  <1> QED
    BY <1>1, <1>2, <1>3, <1>4, <1>5, <1>6, <1>7, <1>8, <1>9, <1>10, <1>11,
       <1>12, <1>13
    DEF Next, Caller, WorkerMoves, Process, Exit, Crash

\* Requests and created jobs stay with their caller until it is done.
LEMMA CallsStep == IInv /\ Next => CallsWellFormed'
  <1> SUFFICES ASSUME IInv, Next PROVE CallsWellFormed'
    OBVIOUS
  <1>0. CallsWellFormed
    BY DEF IInv
  <1>a. /\ cpc \in [Callers -> {"idle", "lock", "override", "create", "submit"}]
        /\ creq \in [Callers -> RequestType \cup {None}]
        /\ cjob \in [Callers -> Jobs \cup {None}]
    BY DEF IInv, TypeOK
  <1>1. ASSUME NEW c \in Callers, NEW m \in Miners, NEW a \in Actions,
               NEW man \in BOOLEAN, Request(c, m, a, man)
        PROVE  CallsWellFormed'
    <2>1. [miner |-> m, action |-> a, manual |-> man] \in RequestType
      BY ConstantsAssumption, <1>1 DEF RequestType
    <2> QED
      BY <1>0, <1>a, <1>1, <2>1
      DEF Request, CallsWellFormed
  <1>2. ASSUME NEW c \in Callers, NEW m \in Miners, RequestReboot(c, m)
        PROVE  CallsWellFormed'
    <2>1. [miner |-> m, action |-> "reboot", manual |-> FALSE] \in RequestType
      BY DEF RequestType
    <2> QED
      BY <1>0, <1>a, <1>2, <2>1
      DEF RequestReboot, CallsWellFormed
  <1>3. ASSUME NEW c \in Callers, LockAndCheck(c)
        PROVE  CallsWellFormed'
    BY <1>0, <1>a, <1>3
    DEF LockAndCheck, CallsWellFormed, jobVars, callVars
  <1>4. ASSUME NEW c \in Callers, AlreadyActive(c)
        PROVE  CallsWellFormed'
    BY <1>0, <1>a, <1>4
    DEF AlreadyActive, CallsWellFormed, jobVars, callVars
  <1>5. ASSUME NEW c \in Callers, set_manual_override(c)
        PROVE  CallsWellFormed'
    BY <1>0, <1>a, <1>5
    DEF set_manual_override, CallsWellFormed, jobVars, callVars
  <1>6. ASSUME NEW c \in Callers, create_control_job(c)
        PROVE  CallsWellFormed'
    BY <1>0, <1>a, <1>6
    DEF create_control_job, CallsWellFormed, jobVars, callVars
  <1>7. ASSUME NEW c \in Callers, Submit(c)
        PROVE  CallsWellFormed'
    BY <1>0, <1>a, <1>7
    DEF Submit, CallsWellFormed, jobVars, callVars
  <1>8. ASSUME NEW c \in Callers, SubmitRefused(c)
        PROVE  CallsWellFormed'
    BY <1>0, <1>a, <1>8
    DEF SubmitRefused, CallsWellFormed, jobVars, callVars
  <1>9. ASSUME NEW j \in Jobs, WorkerMoves(j)
        PROVE  CallsWellFormed'
    BY <1>0, <1>9, WorkerFrame
    DEF WorkerEffect, CallsWellFormed, callVars
  <1>10. CASE (\E p \in Pollers : Background(p)) \/ Inventory
    BY <1>0, <1>a, OtherFrame, <1>10
    DEF CallsWellFormed, jobVars, callVars, wdata
  <1>11. CASE Stop
    BY <1>0, <1>a, <1>11
    DEF Stop, CallsWellFormed, jobVars, callVars, wdata
  <1>12. CASE ThreadsGone
    BY <1>0, <1>a, <1>12
    DEF ThreadsGone, CallsWellFormed, jobVars
  <1>13. CASE Restart
    BY <1>0, <1>a, <1>13
    DEF Restart, CallsWellFormed, callVars
  <1> QED
    BY <1>1, <1>2, <1>3, <1>4, <1>5, <1>6, <1>7, <1>8, <1>9, <1>10, <1>11,
       <1>12, <1>13
    DEF Next, Caller, WorkerMoves, Process, Exit, Crash

\* A row becomes active only inside the lock, for a miner without active row.
LEMMA OneActiveStep == IInv /\ Next => OneActiveJobPerMiner'
  <1> SUFFICES ASSUME IInv, Next PROVE OneActiveJobPerMiner'
    OBVIOUS
  <1>0. OneActiveJobPerMiner
    BY DEF IInv
  <1>a. /\ cpc \in [Callers -> {"idle", "lock", "override", "create", "submit"}]
        /\ status \in [Jobs -> {"NONE"} \cup Active \cup Terminal]
        /\ miner_id \in [Jobs -> Miners \cup {None}]
    BY DEF IInv, TypeOK
  <1>1. ASSUME NEW c \in Callers, NEW m \in Miners, NEW a \in Actions,
               NEW man \in BOOLEAN, Request(c, m, a, man)
        PROVE  OneActiveJobPerMiner'
    BY <1>0, <1>a, <1>1
    DEF Request, OneActiveJobPerMiner, jobVars, callVars
  <1>2. ASSUME NEW c \in Callers, NEW m \in Miners, RequestReboot(c, m)
        PROVE  OneActiveJobPerMiner'
    BY <1>0, <1>a, <1>2
    DEF RequestReboot, OneActiveJobPerMiner, jobVars, callVars
  <1>3. ASSUME NEW c \in Callers, LockAndCheck(c)
        PROVE  OneActiveJobPerMiner'
    BY <1>0, <1>a, <1>3
    DEF LockAndCheck, OneActiveJobPerMiner, jobVars, callVars
  <1>4. ASSUME NEW c \in Callers, AlreadyActive(c)
        PROVE  OneActiveJobPerMiner'
    BY <1>0, <1>a, <1>4
    DEF AlreadyActive, OneActiveJobPerMiner, jobVars, callVars
  <1>5. ASSUME NEW c \in Callers, set_manual_override(c)
        PROVE  OneActiveJobPerMiner'
    BY <1>0, <1>a, <1>5
    DEF set_manual_override, OneActiveJobPerMiner, jobVars, callVars
  <1>6. ASSUME NEW c \in Callers, create_control_job(c)
        PROVE  OneActiveJobPerMiner'
    <2>1. \A j \in Jobs : miner_id[j] = creq[c].miner => status[j] \notin Active
      BY <1>a, <1>6 DEF IInv, LockProtects, create_control_job
    <2> QED
      BY <1>0, <1>a, <1>6, <2>1
      DEF create_control_job, OneActiveJobPerMiner
  <1>7. ASSUME NEW c \in Callers, Submit(c)
        PROVE  OneActiveJobPerMiner'
    BY <1>0, <1>a, <1>7
    DEF Submit, OneActiveJobPerMiner, jobVars, callVars
  <1>8. ASSUME NEW c \in Callers, SubmitRefused(c)
        PROVE  OneActiveJobPerMiner'
    BY <1>0, <1>a, <1>8
    DEF SubmitRefused, OneActiveJobPerMiner, jobVars, callVars
  <1>9. ASSUME NEW j \in Jobs, WorkerMoves(j)
        PROVE  OneActiveJobPerMiner'
    BY <1>0, <1>a, <1>9, WorkerFrame
    DEF WorkerEffect, OneActiveJobPerMiner
  <1>10. CASE (\E p \in Pollers : Background(p)) \/ Inventory
    BY <1>0, <1>a, OtherFrame, <1>10
    DEF OneActiveJobPerMiner, jobVars, callVars, wdata
  <1>11. CASE Stop
    BY <1>0, <1>a, <1>11
    DEF Stop, OneActiveJobPerMiner, jobVars, callVars, wdata
  <1>12. CASE ThreadsGone
    BY <1>0, <1>a, <1>12
    DEF ThreadsGone, OneActiveJobPerMiner, jobVars
  <1>13. CASE Restart
    BY <1>0, <1>a, <1>13
    DEF Restart, OneActiveJobPerMiner, callVars
  <1> QED
    BY <1>1, <1>2, <1>3, <1>4, <1>5, <1>6, <1>7, <1>8, <1>9, <1>10, <1>11,
       <1>12, <1>13
    DEF Next, Caller, WorkerMoves, Process, Exit, Crash

\* A row names its miner and its action from its creation on.
LEMMA RowsStep == IInv /\ Next => RowsWellFormed'
  <1> SUFFICES ASSUME IInv, Next PROVE RowsWellFormed'
    OBVIOUS
  <1>0. RowsWellFormed
    BY DEF IInv
  <1>a. /\ cpc \in [Callers -> {"idle", "lock", "override", "create", "submit"}]
        /\ status \in [Jobs -> {"NONE"} \cup Active \cup Terminal]
        /\ miner_id \in [Jobs -> Miners \cup {None}]
        /\ action \in [Jobs -> AllActions \cup {"none"}]
        /\ cjob \in [Callers -> Jobs \cup {None}]
        /\ wpc \in [Jobs -> ControlPoints]
    BY DEF IInv, TypeOK
  <1>1. ASSUME NEW c \in Callers, NEW m \in Miners, NEW a \in Actions,
               NEW man \in BOOLEAN, Request(c, m, a, man)
        PROVE  RowsWellFormed'
    BY <1>0, <1>a, <1>1
    DEF Request, RowsWellFormed, jobVars, callVars
  <1>2. ASSUME NEW c \in Callers, NEW m \in Miners, RequestReboot(c, m)
        PROVE  RowsWellFormed'
    BY <1>0, <1>a, <1>2
    DEF RequestReboot, RowsWellFormed, jobVars, callVars
  <1>3. ASSUME NEW c \in Callers, LockAndCheck(c)
        PROVE  RowsWellFormed'
    BY <1>0, <1>a, <1>3
    DEF LockAndCheck, RowsWellFormed, jobVars, callVars
  <1>4. ASSUME NEW c \in Callers, AlreadyActive(c)
        PROVE  RowsWellFormed'
    BY <1>0, <1>a, <1>4
    DEF AlreadyActive, RowsWellFormed, jobVars, callVars
  <1>5. ASSUME NEW c \in Callers, set_manual_override(c)
        PROVE  RowsWellFormed'
    BY <1>0, <1>a, <1>5
    DEF set_manual_override, RowsWellFormed, jobVars, callVars
  <1>6. ASSUME NEW c \in Callers, create_control_job(c)
        PROVE  RowsWellFormed'
    <2>1. creq[c].miner \in Miners /\ creq[c].action \in AllActions
      BY <1>6 DEF IInv, CallsWellFormed, RequestType, create_control_job
    <2> QED
      BY <1>0, <1>a, <1>6, <2>1
      DEF create_control_job, RowsWellFormed
  <1>7. ASSUME NEW c \in Callers, Submit(c)
        PROVE  RowsWellFormed'
    BY <1>0, <1>a, <1>7
    DEF Submit, RowsWellFormed, jobVars, callVars
  <1>8. ASSUME NEW c \in Callers, SubmitRefused(c)
        PROVE  RowsWellFormed'
    BY <1>0, <1>a, <1>8
    DEF SubmitRefused, RowsWellFormed, jobVars, callVars
  <1>9. ASSUME NEW j \in Jobs, WorkerMoves(j)
        PROVE  RowsWellFormed'
    BY <1>0, <1>a, <1>9, WorkerFrame
    DEF WorkerEffect, RowsWellFormed
  <1>10. CASE (\E p \in Pollers : Background(p)) \/ Inventory
    BY <1>0, <1>a, OtherFrame, <1>10
    DEF RowsWellFormed, jobVars, callVars, wdata
  <1>11. CASE Stop
    BY <1>0, <1>a, <1>11
    DEF Stop, RowsWellFormed, jobVars, callVars, wdata
  <1>12. CASE ThreadsGone
    BY <1>0, <1>a, <1>12
    DEF ThreadsGone, RowsWellFormed, jobVars
  <1>13. CASE Restart
    BY <1>0, <1>a, <1>13
    DEF Restart, RowsWellFormed, callVars
  <1> QED
    BY <1>1, <1>2, <1>3, <1>4, <1>5, <1>6, <1>7, <1>8, <1>9, <1>10, <1>11,
       <1>12, <1>13
    DEF Next, Caller, WorkerMoves, Process, Exit, Crash

\* A worker's row is QUEUED while it waits and RUNNING while it runs.
LEMMA WorkerOwnsStep == IInv /\ Next => WorkerOwns'
  <1> SUFFICES ASSUME IInv, Next PROVE WorkerOwns'
    OBVIOUS
  <1>0. WorkerOwns
    BY DEF IInv, Ownership
  <1>a. /\ cpc \in [Callers -> {"idle", "lock", "override", "create", "submit"}]
        /\ status \in [Jobs -> {"NONE"} \cup Active \cup Terminal]
        /\ miner_id \in [Jobs -> Miners \cup {None}]
        /\ action \in [Jobs -> AllActions \cup {"none"}]
        /\ cjob \in [Callers -> Jobs \cup {None}]
        /\ wpc \in [Jobs -> ControlPoints]
    BY DEF IInv, TypeOK
  <1>1. ASSUME NEW c \in Callers, NEW m \in Miners, NEW a \in Actions,
               NEW man \in BOOLEAN, Request(c, m, a, man)
        PROVE  WorkerOwns'
    BY <1>0, <1>a, <1>1
    DEF Request, WorkerOwns, Live, jobVars, callVars
  <1>2. ASSUME NEW c \in Callers, NEW m \in Miners, RequestReboot(c, m)
        PROVE  WorkerOwns'
    BY <1>0, <1>a, <1>2
    DEF RequestReboot, WorkerOwns, Live, jobVars, callVars
  <1>3. ASSUME NEW c \in Callers, LockAndCheck(c)
        PROVE  WorkerOwns'
    BY <1>0, <1>a, <1>3
    DEF LockAndCheck, WorkerOwns, Live, jobVars, callVars
  <1>4. ASSUME NEW c \in Callers, AlreadyActive(c)
        PROVE  WorkerOwns'
    BY <1>0, <1>a, <1>4
    DEF AlreadyActive, WorkerOwns, Live, jobVars, callVars
  <1>5. ASSUME NEW c \in Callers, set_manual_override(c)
        PROVE  WorkerOwns'
    BY <1>0, <1>a, <1>5
    DEF set_manual_override, WorkerOwns, Live, jobVars, callVars
  <1>6. ASSUME NEW c \in Callers, create_control_job(c)
        PROVE  WorkerOwns'
    BY <1>0, <1>a, <1>6
    DEF create_control_job, WorkerOwns, Live
  <1>7. ASSUME NEW c \in Callers, Submit(c)
        PROVE  WorkerOwns'
    <2>1. cjob[c] \in Jobs /\ status[cjob[c]] = "QUEUED"
      BY <1>7 DEF IInv, CallsWellFormed, Ownership, SubmitOwns, Submit
    <2> QED
      BY <1>0, <1>a, <1>7, <2>1
      DEF Submit, WorkerOwns, Live, jobVars
  <1>8. ASSUME NEW c \in Callers, SubmitRefused(c)
        PROVE  WorkerOwns'
    BY <1>0, <1>a, <1>8
    DEF SubmitRefused, WorkerOwns, Live, jobVars, callVars
  <1>9. ASSUME NEW j \in Jobs, WorkerMoves(j)
        PROVE  WorkerOwns'
    BY <1>0, <1>a, <1>9, WorkerFrame
    DEF WorkerEffect, WorkerOwns, Live
  <1>10. CASE (\E p \in Pollers : Background(p)) \/ Inventory
    BY <1>0, <1>a, OtherFrame, <1>10
    DEF WorkerOwns, Live, jobVars, callVars, wdata
  <1>11. CASE Stop
    BY <1>0, <1>a, <1>11
    DEF Stop, WorkerOwns, Live, jobVars, callVars, wdata
  <1>12. CASE ThreadsGone
    BY <1>0, <1>a, <1>12
    DEF ThreadsGone, WorkerOwns, Live, jobVars
  <1>13. CASE Restart
    BY <1>0, <1>a, <1>13
    DEF Restart, WorkerOwns, Live, callVars
  <1> QED
    BY <1>1, <1>2, <1>3, <1>4, <1>5, <1>6, <1>7, <1>8, <1>9, <1>10, <1>11,
       <1>12, <1>13
    DEF Next, Caller, WorkerMoves, Process, Exit, Crash

\* No other thread owns a row that its creator has not submitted.
LEMMA SubmitOwnsStep == IInv /\ Next => SubmitOwns'
  <1> SUFFICES ASSUME IInv, Next PROVE SubmitOwns'
    OBVIOUS
  <1>0. SubmitOwns
    BY DEF IInv, Ownership
  <1>a. /\ cpc \in [Callers -> {"idle", "lock", "override", "create", "submit"}]
        /\ status \in [Jobs -> {"NONE"} \cup Active \cup Terminal]
        /\ miner_id \in [Jobs -> Miners \cup {None}]
        /\ action \in [Jobs -> AllActions \cup {"none"}]
        /\ cjob \in [Callers -> Jobs \cup {None}]
        /\ wpc \in [Jobs -> ControlPoints]
    BY DEF IInv, TypeOK
  <1>b. \A c \in Callers : cpc[c] = "submit" => cjob[c] \in Jobs
    BY DEF IInv, CallsWellFormed
  <1>c. up = "down" => \A c \in Callers : cpc[c] = "idle"
    BY DEF IInv, Ownership, WorkerOwns
  <1>1. ASSUME NEW c \in Callers, NEW m \in Miners, NEW a \in Actions,
               NEW man \in BOOLEAN, Request(c, m, a, man)
        PROVE  SubmitOwns'
    BY <1>0, <1>a, <1>b, <1>c, <1>1
    DEF Request, SubmitOwns, jobVars, callVars
  <1>2. ASSUME NEW c \in Callers, NEW m \in Miners, RequestReboot(c, m)
        PROVE  SubmitOwns'
    BY <1>0, <1>a, <1>b, <1>c, <1>2
    DEF RequestReboot, SubmitOwns, jobVars, callVars
  <1>3. ASSUME NEW c \in Callers, LockAndCheck(c)
        PROVE  SubmitOwns'
    BY <1>0, <1>a, <1>b, <1>c, <1>3
    DEF LockAndCheck, SubmitOwns, jobVars, callVars
  <1>4. ASSUME NEW c \in Callers, AlreadyActive(c)
        PROVE  SubmitOwns'
    BY <1>0, <1>a, <1>b, <1>c, <1>4
    DEF AlreadyActive, SubmitOwns, jobVars, callVars
  <1>5. ASSUME NEW c \in Callers, set_manual_override(c)
        PROVE  SubmitOwns'
    BY <1>0, <1>a, <1>b, <1>c, <1>5
    DEF set_manual_override, SubmitOwns, jobVars, callVars
  <1>6. ASSUME NEW c \in Callers, create_control_job(c)
        PROVE  SubmitOwns'
    <2>1. \A j \in Jobs : status[j] = "NONE" => wpc[j] = "idle"
      BY <1>a DEF IInv, Ownership, WorkerOwns, Live
    <2> QED
      BY <1>0, <1>a, <1>b, <1>6, <2>1
      DEF create_control_job, SubmitOwns
  <1>7. ASSUME NEW c \in Callers, Submit(c)
        PROVE  SubmitOwns'
    BY <1>0, <1>a, <1>b, <1>c, <1>7
    DEF Submit, SubmitOwns, jobVars, callVars
  <1>8. ASSUME NEW c \in Callers, SubmitRefused(c)
        PROVE  SubmitOwns'
    BY <1>0, <1>a, <1>b, <1>c, <1>8
    DEF SubmitRefused, SubmitOwns, jobVars, callVars
  <1>9. ASSUME NEW j \in Jobs, WorkerMoves(j)
        PROVE  SubmitOwns'
    BY <1>0, <1>a, <1>b, <1>9, WorkerFrame
    DEF WorkerEffect, SubmitOwns, callVars
  <1>10. CASE (\E p \in Pollers : Background(p)) \/ Inventory
    BY <1>0, <1>a, <1>b, <1>c, OtherFrame, <1>10
    DEF SubmitOwns, jobVars, callVars, wdata
  <1>11. CASE Stop
    BY <1>0, <1>a, <1>b, <1>c, <1>11
    DEF Stop, SubmitOwns, jobVars, callVars, wdata
  <1>12. CASE ThreadsGone
    BY <1>0, <1>a, <1>b, <1>c, <1>12
    DEF ThreadsGone, SubmitOwns, jobVars
  <1>13. CASE Restart
    BY <1>0, <1>a, <1>b, <1>c, <1>13
    DEF Restart, SubmitOwns, callVars
  <1> QED
    BY <1>1, <1>2, <1>3, <1>4, <1>5, <1>6, <1>7, <1>8, <1>9, <1>10, <1>11,
       <1>12, <1>13
    DEF Next, Caller, WorkerMoves, Process, Exit, Crash

\* The executor's queue holds each job once, until a thread takes it.
LEMMA PoolOwnsStep == IInv /\ Next => PoolOwns'
  <1> SUFFICES ASSUME IInv, Next PROVE PoolOwns'
    OBVIOUS
  <1>0. PoolOwns
    BY DEF IInv, Ownership
  <1>a. /\ cpc \in [Callers -> {"idle", "lock", "override", "create", "submit"}]
        /\ status \in [Jobs -> {"NONE"} \cup Active \cup Terminal]
        /\ miner_id \in [Jobs -> Miners \cup {None}]
        /\ action \in [Jobs -> AllActions \cup {"none"}]
        /\ cjob \in [Callers -> Jobs \cup {None}]
        /\ wpc \in [Jobs -> ControlPoints]
    BY DEF IInv, TypeOK
  <1>b. pool \in Seq(Jobs) /\ Len(pool) \in Nat
    BY DEF IInv, TypeOK
  <1>1. ASSUME NEW c \in Callers, NEW m \in Miners, NEW a \in Actions,
               NEW man \in BOOLEAN, Request(c, m, a, man)
        PROVE  PoolOwns'
    BY <1>0, <1>a, <1>1
    DEF Request, PoolOwns, jobVars, callVars
  <1>2. ASSUME NEW c \in Callers, NEW m \in Miners, RequestReboot(c, m)
        PROVE  PoolOwns'
    BY <1>0, <1>a, <1>2
    DEF RequestReboot, PoolOwns, jobVars, callVars
  <1>3. ASSUME NEW c \in Callers, LockAndCheck(c)
        PROVE  PoolOwns'
    BY <1>0, <1>a, <1>3
    DEF LockAndCheck, PoolOwns, jobVars, callVars
  <1>4. ASSUME NEW c \in Callers, AlreadyActive(c)
        PROVE  PoolOwns'
    BY <1>0, <1>a, <1>4
    DEF AlreadyActive, PoolOwns, jobVars, callVars
  <1>5. ASSUME NEW c \in Callers, set_manual_override(c)
        PROVE  PoolOwns'
    BY <1>0, <1>a, <1>5
    DEF set_manual_override, PoolOwns, jobVars, callVars
  <1>6. ASSUME NEW c \in Callers, create_control_job(c)
        PROVE  PoolOwns'
    BY <1>0, <1>a, <1>6
    DEF create_control_job, PoolOwns, jobVars, callVars
  <1>7. ASSUME NEW c \in Callers, Submit(c)
        PROVE  PoolOwns'
    <2>1. cjob[c] \in Jobs /\ wpc[cjob[c]] = "idle"
      BY <1>7 DEF IInv, CallsWellFormed, Ownership, SubmitOwns, Submit
    <2>2. /\ pool' \in Seq(Jobs) /\ Len(pool') = Len(pool) + 1
          /\ pool'[Len(pool) + 1] = cjob[c]
          /\ \A i \in 1 .. Len(pool) : pool'[i] = pool[i] /\ pool[i] \in Jobs
      BY <1>b, <1>7, <2>1 DEF Submit
    <2>3. \A i \in 1 .. Len(pool) : pool[i] # cjob[c]
      BY <1>0, <2>1 DEF PoolOwns
    <2>4. \A i \in 1 .. Len(pool') : i \in 1 .. Len(pool) \/ i = Len(pool) + 1
      BY <1>b, <2>2
    <2> QED
      BY <1>0, <1>a, <1>7, <2>1, <2>2, <2>3, <2>4
      DEF Submit, PoolOwns
  <1>8. ASSUME NEW c \in Callers, SubmitRefused(c)
        PROVE  PoolOwns'
    BY <1>0, <1>a, <1>8
    DEF SubmitRefused, PoolOwns, jobVars, callVars
  <1>9. ASSUME NEW j \in Jobs, WorkerMoves(j)
        PROVE  PoolOwns'
    <2>1. WorkerEffect(j)
      BY <1>9, WorkerFrame
    <2>2. CASE TakeWork(j)
      <3>1. /\ Len(pool') = Len(pool) - 1
            /\ \A i \in 1 .. Len(pool') : pool'[i] = pool[i + 1] /\ pool'[i] # j
        BY <2>2, TakenJob
      <3>2. \A i \in 1 .. Len(pool') :
              i + 1 \in 1 .. Len(pool) /\ pool[i + 1] \in Jobs
        BY <1>b, <3>1
      <3> QED
        BY <1>0, <1>b, <2>1, <3>1, <3>2 DEF PoolOwns, WorkerEffect
    <2>3. CASE pool' = pool /\ Live(j)
      <3>1. \A i \in 1 .. Len(pool) : pool[i] \in Jobs /\ pool[i] # j
        BY <1>0, <1>b, <2>3 DEF PoolOwns, Live
      <3> QED
        BY <1>0, <2>1, <2>3, <3>1 DEF PoolOwns, WorkerEffect
    <2> QED
      BY <2>1, <2>2, <2>3 DEF WorkerEffect
  <1>10. CASE (\E p \in Pollers : Background(p)) \/ Inventory
    BY <1>0, <1>a, OtherFrame, <1>10
    DEF PoolOwns, jobVars, callVars, wdata
  <1>11. CASE Stop
    BY <1>0, <1>a, <1>11
    DEF Stop, PoolOwns, jobVars, callVars, wdata
  <1>12. CASE ThreadsGone
    BY <1>0, <1>a, <1>12
    DEF ThreadsGone, PoolOwns, jobVars
  <1>13. CASE Restart
    BY <1>0, <1>a, <1>13
    DEF Restart, PoolOwns, callVars
  <1> QED
    BY <1>1, <1>2, <1>3, <1>4, <1>5, <1>6, <1>7, <1>8, <1>9, <1>10, <1>11,
       <1>12, <1>13
    DEF Next, Caller, WorkerMoves, Process, Exit, Crash

\* Control point, phase, polls and attempts of a worker stay in step.
LEMMA WorkersStep == IInv /\ Next => WorkersWellFormed'
  <1> SUFFICES ASSUME IInv, Next PROVE WorkersWellFormed'
    OBVIOUS
  <1>0. WorkersWellFormed
    BY DEF IInv
  <1>a. /\ cpc \in [Callers -> {"idle", "lock", "override", "create", "submit"}]
        /\ status \in [Jobs -> {"NONE"} \cup Active \cup Terminal]
        /\ miner_id \in [Jobs -> Miners \cup {None}]
        /\ action \in [Jobs -> AllActions \cup {"none"}]
        /\ cjob \in [Callers -> Jobs \cup {None}]
        /\ wpc \in [Jobs -> ControlPoints]
    BY DEF IInv, TypeOK
  <1>1. ASSUME NEW c \in Callers, NEW m \in Miners, NEW a \in Actions,
               NEW man \in BOOLEAN, Request(c, m, a, man)
        PROVE  WorkersWellFormed'
    BY <1>0, <1>a, <1>1
    DEF Request, WorkersWellFormed, WorkerWellFormed, Live, jobVars, callVars,
        wdata
  <1>2. ASSUME NEW c \in Callers, NEW m \in Miners, RequestReboot(c, m)
        PROVE  WorkersWellFormed'
    BY <1>0, <1>a, <1>2
    DEF RequestReboot, WorkersWellFormed, WorkerWellFormed, Live, jobVars,
        callVars, wdata
  <1>3. ASSUME NEW c \in Callers, LockAndCheck(c)
        PROVE  WorkersWellFormed'
    BY <1>0, <1>a, <1>3
    DEF LockAndCheck, WorkersWellFormed, WorkerWellFormed, Live, jobVars,
        callVars, wdata
  <1>4. ASSUME NEW c \in Callers, AlreadyActive(c)
        PROVE  WorkersWellFormed'
    BY <1>0, <1>a, <1>4
    DEF AlreadyActive, WorkersWellFormed, WorkerWellFormed, Live, jobVars,
        callVars, wdata
  <1>5. ASSUME NEW c \in Callers, set_manual_override(c)
        PROVE  WorkersWellFormed'
    BY <1>0, <1>a, <1>5
    DEF set_manual_override, WorkersWellFormed, WorkerWellFormed, Live,
        jobVars, callVars, wdata
  <1>6. ASSUME NEW c \in Callers, create_control_job(c)
        PROVE  WorkersWellFormed'
    <2>1. \A j \in Jobs : status[j] = "NONE" => ~Live(j)
      BY DEF IInv, Ownership, WorkerOwns
    <2> QED
      BY <1>0, <1>a, <1>6, <2>1
      DEF create_control_job, WorkersWellFormed, WorkerWellFormed, Live, wdata
  <1>7. ASSUME NEW c \in Callers, Submit(c)
        PROVE  WorkersWellFormed'
    <2>1. cjob[c] \in Jobs /\ wpc[cjob[c]] = "idle"
      BY <1>7 DEF IInv, CallsWellFormed, Ownership, SubmitOwns, Submit
    <2> QED
      BY <1>0, <1>a, <1>7, <2>1
      DEF Submit, WorkersWellFormed, WorkerWellFormed, Live, jobVars, wdata
  <1>8. ASSUME NEW c \in Callers, SubmitRefused(c)
        PROVE  WorkersWellFormed'
    BY <1>0, <1>a, <1>8
    DEF SubmitRefused, WorkersWellFormed, WorkerWellFormed, Live, jobVars,
        callVars, wdata
  <1>9. ASSUME NEW j \in Jobs, WorkerMoves(j)
        PROVE  WorkersWellFormed'
    <2>0. WorkerEffect(j)
      BY <1>9, WorkerFrame
    <2>a. /\ attempts \in [Jobs -> 0 .. CONTROL_MAX_ATTEMPTS]
          /\ wphase \in [Jobs -> {"none", "verify", "transition", "return"}]
          /\ wpolls \in [Jobs -> 0 .. MaxPolls]
          /\ MaxPolls \in Nat \ {0}
      BY ConstantsAssumption DEF IInv, TypeOK
    <2>b. SUFFICES WorkerWellFormed(j)'
      BY <1>0, <2>0 DEF WorkersWellFormed, WorkerWellFormed, WorkerEffect, Live
    <2>c. WorkerWellFormed(j)
      BY <1>0 DEF WorkersWellFormed
    <2>1. CASE StartVerified(j)
      BY <1>a, <2>a, <2>c, TakenJob, <2>1
      DEF StartVerified, WorkerWellFormed, Live, jobVars, wdata
    <2>2. CASE StartReboot(j)
      BY <1>a, <2>a, <2>c, TakenJob, <2>2
      DEF StartReboot, WorkerWellFormed, Live, jobVars, wdata
    <2>3. CASE LoopEnds(j)
      BY <1>a, <2>a, <2>c, <2>3
      DEF LoopEnds, finish_control_job, WorkerReturns, WorkerWellFormed, Live,
          jobVars, wdata
    <2>4. CASE LoopSends(j)
      BY <1>a, <2>a, <2>c, <2>4
      DEF LoopSends, WorkerWellFormed, Live, jobVars, wdata
    <2>5. CASE LoopWaits(j)
      BY <1>a, <2>a, <2>c, <2>5
      DEF LoopWaits, WorkerWellFormed, Live, jobVars, wdata
    <2>6. CASE SendOk(j)
      BY <1>a, <2>a, <2>c, <2>6
      DEF SendOk, WorkerWellFormed, Live, jobVars, wdata
    <2>7. CASE SendFails(j)
      BY <1>a, <2>a, <2>c, <2>7
      DEF SendFails, WorkerWellFormed, Live, jobVars, wdata
    <2>8. CASE GivesUp(j)
      BY <1>a, <2>a, <2>c, <2>8
      DEF GivesUp, finish_control_job, WorkerReturns, WorkerWellFormed, Live,
          jobVars, wdata
    <2>9. CASE WaitStopped(j)
      BY <1>a, <2>a, <2>c, <2>9
      DEF WaitStopped, WorkerReturns, WorkerWellFormed, Live, jobVars, wdata
    <2>10. CASE WaitElapsed(j)
      BY <1>a, <2>a, <2>c, <2>10
      DEF WaitElapsed, WorkerWellFormed, Live, jobVars, wdata
    <2>11. CASE PollSkips(j)
      BY <1>a, <2>a, <2>c, <2>11
      DEF PollSkips, WorkerWellFormed, Live, jobVars, wdata
    <2>12. ASSUME NEW r \in Readings, PollReads(j, r)
          PROVE  WorkerWellFormed(j)'
      BY <1>a, <2>a, <2>c, <2>12
      DEF PollReads, WorkerWellFormed, Live, jobVars, wdata
    <2>13. CASE PollSaves(j)
      BY <1>a, <2>a, <2>c, <2>13
      DEF PollSaves, WorkerWellFormed, Live, jobVars, wdata
    <2>14. CASE CheckVerify(j)
      BY <1>a, <2>a, <2>c, <2>14
      DEF CheckVerify, WorkerWellFormed, Live, jobVars, wdata
    <2>15. CASE Verified(j)
      BY <1>a, <2>a, <2>c, <2>15
      DEF Verified, finish_control_job, WorkerReturns, WorkerWellFormed, Live,
          jobVars, wdata
    <2>16. CASE CheckTransition(j)
      BY <1>a, <2>a, <2>c, <2>16
      DEF CheckTransition, WorkerWellFormed, Live, jobVars, wdata
    <2>17. CASE CheckReturn(j)
      BY <1>a, <2>a, <2>c, <2>17
      DEF CheckReturn, WorkerWellFormed, Live, jobVars, wdata
    <2>18. CASE Returned(j)
      BY <1>a, <2>a, <2>c, <2>18
      DEF Returned, finish_control_job, WorkerReturns, WorkerWellFormed, Live,
          jobVars, wdata
    <2>19. CASE StartRaises(j) \/ WorkerRaises(j)
      BY <1>a, <2>a, <2>c, <2>19
      DEF StartRaises, WorkerRaises, Raised, WorkerWellFormed, Live, jobVars,
          wdata
    <2>20. CASE PollRaises(j) \/ SaveFails(j)
      BY <1>a, <2>a, <2>c, <2>20
      DEF PollRaises, SaveFails, WorkerWellFormed, Live, jobVars, wdata
    <2> QED
      BY <1>9, <2>1, <2>2, <2>3, <2>4, <2>5, <2>6, <2>7, <2>8, <2>9, <2>10,
         <2>11, <2>12, <2>13, <2>14, <2>15, <2>16, <2>17, <2>18, <2>19, <2>20
      DEF WorkerMoves, Worker, Exception
  <1>10. CASE (\E p \in Pollers : Background(p)) \/ Inventory
    BY <1>0, <1>a, OtherFrame, <1>10
    DEF WorkersWellFormed, WorkerWellFormed, Live, jobVars, callVars, wdata
  <1>11. CASE Stop
    BY <1>0, <1>a, <1>11
    DEF Stop, WorkersWellFormed, WorkerWellFormed, Live, jobVars, callVars,
        wdata
  <1>12. CASE ThreadsGone
    BY <1>0, <1>a, <1>12
    DEF ThreadsGone, WorkersWellFormed, WorkerWellFormed, Live, jobVars
  <1>13. CASE Restart
    BY <1>0, <1>a, <1>13
    DEF Restart, WorkersWellFormed, WorkerWellFormed, Live, callVars, wdata
  <1> QED
    BY <1>1, <1>2, <1>3, <1>4, <1>5, <1>6, <1>7, <1>8, <1>9, <1>10, <1>11,
       <1>12, <1>13
    DEF Next, Caller, WorkerMoves, Process, Exit, Crash

-----------------------------------------------------------------------------
\* The inductive invariant holds in every reachable state.
THEOREM InductiveInvariant == Spec => []IInv
  <1>1. IInv /\ UNCHANGED vars => IInv'
    BY DEF IInv, vars, minerVars, jobVars, callVars, wdata, histVars, TypeOK,
           LockProtects, CallsWellFormed, RowsWellFormed, Ownership, SubmitOwns,
           PoolOwns, WorkerOwns, WorkersWellFormed, WorkerWellFormed, Live,
           OneActiveJobPerMiner
  <1>2. IInv /\ Next => IInv'
    BY TypeOKStep, LockStep, CallsStep, RowsStep, SubmitOwnsStep, PoolOwnsStep,
       WorkerOwnsStep, WorkersStep, OneActiveStep DEF IInv, Ownership
  <1> QED
    BY InitIInv, <1>1, <1>2, PTL DEF Spec

\* Type correctness of the pipeline, with the bounds on attempts and polls.
THEOREM TypeCorrect == Spec => []TypeOK
  BY InductiveInvariant, PTL DEF IInv

\* No interleaving of callers, workers, edits, crashes and restarts gives a
\* miner two active control jobs.
THEOREM OneActiveJob == Spec => []OneActiveJobPerMiner
  BY InductiveInvariant, PTL DEF IInv

-----------------------------------------------------------------------------
\* A finished row is never written again.
LEMMA FinalStep ==
  ASSUME IInv, [Next]_vars, NEW j \in Jobs, status[j] \in Terminal
  PROVE  UNCHANGED Row(j)
  <1>0. /\ status \in [Jobs -> {"NONE"} \cup Active \cup Terminal]
        /\ miner_id \in [Jobs -> Miners \cup {None}]
        /\ action \in [Jobs -> AllActions \cup {"none"}]
    BY DEF IInv, TypeOK
  <1>1. ASSUME NEW c \in Callers, Caller(c)
        PROVE  UNCHANGED Row(j)
    <2>1. CASE create_control_job(c)
      BY <1>0, <2>1 DEF create_control_job, Row
    <2>2. CASE ~create_control_job(c)
      BY <1>1, <2>2 DEF Caller, Request, RequestReboot, LockAndCheck,
         AlreadyActive, set_manual_override, Submit, SubmitRefused, jobVars, Row
    <2> QED
      BY <2>1, <2>2
  <1>2. ASSUME NEW i \in Jobs, WorkerMoves(i)
        PROVE  UNCHANGED Row(j)
    BY <1>2, WorkerFrame DEF WorkerEffect, Row
  <1>3. CASE (\E p \in Pollers : Background(p)) \/ Inventory
    BY <1>3, OtherFrame DEF jobVars, Row
  <1>4. CASE Process
    BY <1>0, <1>4 DEF Process, Stop, Exit, Crash, ThreadsGone, Restart, jobVars,
                      Row
  <1>5. CASE UNCHANGED vars
    BY <1>5 DEF vars, jobVars, Row
  <1> QED
    BY <1>1, <1>2, <1>3, <1>4, <1>5 DEF Next, WorkerMoves

\* update_control_job overwrites a status without looking at it, yet no row
\* leaves VERIFIED, FAILED or ABORTED.
THEOREM FinishedIsFinal == Spec => FinishedJobsAreFinal
  <1>1. IInv /\ [Next]_vars
          => [\A j \in Jobs : status[j] \in Terminal => UNCHANGED Row(j)]_vars
    BY FinalStep
  <1> QED
    BY InductiveInvariant, <1>1, PTL DEF Spec, FinishedJobsAreFinal

\* An override appears only inside the lock, on a miner without active job.
THEOREM OverridesOnlyWhenIdle == Spec => OverrideOnlyWithoutActiveJob
  <1>1. ASSUME IInv, [Next]_vars, NEW m \in Miners, ~override[m], override'[m]
        PROVE  get_active_control_job(m) = {}
    <2>0. override \in [Miners -> BOOLEAN]
      BY <1>1 DEF IInv, TypeOK
    <2>1. ASSUME NEW c \in Callers, set_manual_override(c)
          PROVE  get_active_control_job(m) = {}
      <3>1. creq[c].miner = m
        BY <1>1, <2>0, <2>1 DEF set_manual_override
      <3>2. \A j \in Jobs : miner_id[j] = m => status[j] \notin Active
        BY <1>1, <2>1, <3>1 DEF IInv, LockProtects, set_manual_override
      <3> QED
        BY <3>2 DEF get_active_control_job
    <2>2. CASE \E c \in Callers : Caller(c) /\ ~set_manual_override(c)
      BY <1>1, <2>2 DEF Caller, Request, RequestReboot, LockAndCheck,
         AlreadyActive, create_control_job, Submit, SubmitRefused, minerVars
    <2>3. CASE \E j \in Jobs : WorkerMoves(j)
      BY <1>1, <2>3 DEF WorkerMoves, Exception, StartRaises, WorkerRaises,
         Raised, PollRaises, SaveFails, Worker, StartVerified, StartReboot,
         LoopEnds, LoopSends,
         LoopWaits, SendOk, SendFails, GivesUp, WaitStopped, WaitElapsed,
         PollSkips, PollReads, PollSaves, CheckVerify, Verified,
         CheckTransition, CheckReturn, Returned, minerVars
    <2>4. CASE \E p \in Pollers : Background(p)
      BY <1>1, <2>4 DEF Background, BackgroundReads, BackgroundSaves,
       BackgroundSaveFails, BackgroundRaises, minerVars
    <2>5. CASE Inventory
      BY <1>1, <2>0, <2>5 DEF Inventory, toggle_enabled, set_driver,
         firmware_settings, firmware_detect_now, unconfigured_to_stock,
         clear_overrides
    <2>6. CASE Process \/ UNCHANGED vars
      BY <1>1, <2>6 DEF Process, Stop, Exit, Crash, ThreadsGone, Restart, vars,
                        minerVars
    <2> QED
      BY <1>1, <2>1, <2>2, <2>3, <2>4, <2>5, <2>6
      DEF Next, Caller, WorkerMoves
  <1>2. IInv /\ [Next]_vars
          => [\A m \in Miners : ~override[m] /\ override'[m]
                                => get_active_control_job(m) = {}]_vars
    BY <1>1
  <1> QED
    BY InductiveInvariant, <1>2, PTL DEF Spec, OverrideOnlyWithoutActiveJob

-----------------------------------------------------------------------------
(* CommandsAreExclusive needs, besides IInv, that a worker which has not    *)
(* started has sent nothing.                                                *)
SentInv ==
  \A j \in Jobs : IF Live(j) THEN wsent[j] => last_action[miner_id[j]] = action[j]
                  ELSE wsent[j] = FALSE

\* Only the worker of an active job sends, and its miner has one active job.
LEMMA SentStep ==
  ASSUME IInv, SentInv, [Next]_vars
  PROVE  SentInv'
  <1> USE DEF SentInv, Live
  <1>0. /\ status \in [Jobs -> {"NONE"} \cup Active \cup Terminal]
        /\ wpc \in [Jobs -> ControlPoints]
        /\ wsent \in [Jobs -> BOOLEAN]
        /\ last_action \in [Miners -> AllActions \cup {"none"}]
        /\ cjob \in [Callers -> Jobs \cup {None}]
        /\ miner_id \in [Jobs -> Miners \cup {None}]
        /\ action \in [Jobs -> AllActions \cup {"none"}]
    BY DEF IInv, TypeOK
  <1>1. ASSUME NEW c \in Callers, Caller(c)
        PROVE  SentInv'
    <2>1. CASE create_control_job(c)
      <3>1. \A j \in Jobs : status[j] = "NONE" => ~Live(j)
        BY DEF IInv, Ownership, WorkerOwns
      <3> QED
        BY <1>0, <2>1, <3>1 DEF create_control_job, minerVars, wdata
    <2>2. CASE Submit(c)
      <3>1. cjob[c] \in Jobs /\ wpc[cjob[c]] = "idle"
        BY <2>2 DEF IInv, CallsWellFormed, Ownership, SubmitOwns, Submit
      <3> QED
        BY <1>0, <2>2, <3>1 DEF Submit, minerVars, jobVars, wdata
    <2>3. CASE ~create_control_job(c) /\ ~Submit(c)
      BY <1>1, <2>3 DEF Caller, Request, RequestReboot, LockAndCheck,
         AlreadyActive, set_manual_override, SubmitRefused, minerVars, jobVars,
         wdata
    <2> QED
      BY <2>1, <2>2, <2>3
  <1>7. ASSUME NEW i \in Jobs, Exception(i)
        PROVE  SentInv'
    <2>1. CASE StartRaises(i) \/ WorkerRaises(i)
      BY <1>0, <2>1 DEF StartRaises, WorkerRaises, Raised, minerVars, jobVars
    <2>2. CASE PollRaises(i) \/ SaveFails(i)
      <3>1. /\ UNCHANGED <<wsent, last_action, miner_id, action>>
            /\ Live(i) /\ wpc'[i] \notin {"idle", "queued", "raised"}
            /\ \A j \in Jobs \ {i} : wpc'[j] = wpc[j]
        BY <1>0, <2>2 DEF PollRaises, SaveFails, minerVars, jobVars
      <3> QED
        BY <3>1
    <2> QED
      BY <1>7, <2>1, <2>2 DEF Exception
  <1>2. ASSUME NEW i \in Jobs, Worker(i)
        PROVE  SentInv'
    <2>1. CASE SendOk(i)
      <3>1. status[i] = "RUNNING" /\ miner_id[i] \in Miners
        BY <2>1, LiveJob DEF SendOk
      <3>2. \A j \in Jobs : Live(j) /\ miner_id[j] = miner_id[i] => j = i
        BY <3>1 DEF IInv, Ownership, WorkerOwns, OneActiveJobPerMiner
      <3> QED
        BY <1>0, <2>1, <3>1, <3>2 DEF SendOk, jobVars
    <2>2. CASE TakeWork(i)
      <3>1. wpc[i] = "queued"
        BY <2>2, TakenJob
      <3>2. wsent[i] = FALSE
        BY <3>1
      <3>3. CASE StartVerified(i) \/ StartReboot(i)
        BY <1>0, <3>1, <3>2, <3>3 DEF StartVerified, StartReboot, minerVars
      <3>4. CASE ~StartVerified(i) /\ ~StartReboot(i)
        BY <1>2, <3>1, <3>4 DEF Worker, LoopEnds, LoopSends, LoopWaits, SendOk,
           SendFails, GivesUp, WaitStopped, WaitElapsed, PollSkips, PollReads,
           PollSaves, CheckVerify, Verified, CheckTransition, CheckReturn,
           Returned
      <3> QED
        BY <3>3, <3>4
    <2>3. CASE LoopEnds(i) \/ GivesUp(i) \/ WaitStopped(i) \/ Verified(i)
               \/ Returned(i)
      BY <1>0, <2>3 DEF LoopEnds, GivesUp, WaitStopped, Verified, Returned,
         finish_control_job, WorkerReturns, minerVars, jobVars
    <2>4. CASE LoopSends(i) \/ LoopWaits(i) \/ SendFails(i) \/ WaitElapsed(i)
               \/ PollSkips(i) \/ (\E r \in Readings : PollReads(i, r))
               \/ PollSaves(i) \/ CheckVerify(i) \/ CheckTransition(i)
               \/ CheckReturn(i)
      <3>1. /\ UNCHANGED <<wsent, last_action, miner_id, action>>
            /\ Live(i) /\ wpc'[i] \notin {"idle", "queued", "raised"}
            /\ \A j \in Jobs \ {i} : wpc'[j] = wpc[j]
        BY <1>0, <2>4 DEF LoopSends, LoopWaits, SendFails, WaitElapsed,
           PollSkips, PollReads, PollSaves, CheckVerify, CheckTransition,
           CheckReturn, minerVars, jobVars, wdata
      <3> QED
        BY <3>1
    <2> QED
      BY <1>2, <2>1, <2>2, <2>3, <2>4 DEF Worker, StartVerified, StartReboot
  <1>3. CASE \E p \in Pollers : Background(p)
    BY <1>3 DEF Background, BackgroundReads, BackgroundSaves,
       BackgroundSaveFails, BackgroundRaises, minerVars, jobVars,
                wdata
  <1>4. CASE Inventory
    BY <1>4 DEF Inventory, toggle_enabled, set_driver, firmware_settings,
       firmware_detect_now, unconfigured_to_stock, clear_overrides, jobVars,
       wdata
  <1>5. CASE ThreadsGone
    BY <1>5 DEF ThreadsGone, minerVars, jobVars
  <1>6. CASE Stop \/ Restart \/ UNCHANGED vars
    BY <1>6 DEF Stop, Restart, vars, minerVars, jobVars, wdata
  <1> QED
    BY <1>1, <1>2, <1>3, <1>4, <1>5, <1>6, <1>7
    DEF Next, Process, Exit, Crash

\* While a worker waits for the effect of its command, that command is the
\* last one sent to its ASIC.
THEOREM CommandsExclusive == Spec => []CommandsAreExclusive
  <1>1. Init => SentInv
    BY DEF Init, SentInv, Live
  <1>2. SentInv => CommandsAreExclusive
    BY DEF SentInv, CommandsAreExclusive
  <1> QED
    BY InductiveInvariant, SentStep, <1>1, <1>2, PTL DEF Spec

-----------------------------------------------------------------------------
\* A step of the pipeline is a step of the ledger or leaves it alone.
LEMMA LedgerStep ==
  ASSUME IInv, [Next]_vars
  PROVE  [Ledger!LedgerNext]_(Ledger!ledger)
  <1> USE DEF Ledger!ActiveStatuses, Ledger!ledger, maxView, max_attempts
  <1>0. /\ status \in [Jobs -> {"NONE"} \cup Active \cup Terminal]
        /\ miner_id \in [Jobs -> Miners \cup {None}]
        /\ action \in [Jobs -> AllActions \cup {"none"}]
        /\ attempts \in [Jobs -> 0 .. CONTROL_MAX_ATTEMPTS]
        /\ wpc \in [Jobs -> ControlPoints]
    BY DEF IInv, TypeOK
  <1>1. ASSUME NEW c \in Callers, Caller(c)
        PROVE  Ledger!LedgerNext \/ UNCHANGED Ledger!ledger
    <2>1. CASE create_control_job(c)
      <3>1. creq[c].miner \in Miners /\ creq[c].action \in AllActions
        BY <2>1 DEF IInv, CallsWellFormed, RequestType, create_control_job
      <3>2. \A i \in Jobs : miner_id[i] = creq[c].miner => status[i] \notin Active
        BY <2>1 DEF IInv, LockProtects, create_control_job
      <3>3. PICK j \in Jobs :
              /\ status[j] = "NONE"
              /\ status' = [status EXCEPT ![j] = "QUEUED"]
              /\ miner_id' = [miner_id EXCEPT ![j] = creq[c].miner]
              /\ action' = [action EXCEPT ![j] = creq[c].action]
        BY <2>1 DEF create_control_job
      <3>4. attempts' = attempts
        BY <2>1 DEF create_control_job
      <3>5. maxView' = [maxView EXCEPT ![j] = max_attempts(creq[c].action)]
        BY <1>0, <3>3
      <3>6. PICK m \in Miners : m = creq[c].miner
        BY <3>1
      <3>7. PICK mx \in {1, 3} : mx = max_attempts(creq[c].action)
        BY DEF CONTROL_MAX_ATTEMPTS
      <3> HIDE DEF maxView, max_attempts
      <3>8. Ledger!Open(j, m, mx)
        BY <3>2, <3>3, <3>4, <3>5, <3>6, <3>7 DEF Ledger!Open, Active
      <3> QED
        BY <3>8 DEF Ledger!LedgerNext
    <2>2. CASE ~create_control_job(c)
      BY <1>1, <2>2 DEF Caller, Request, RequestReboot, LockAndCheck,
         AlreadyActive, set_manual_override, Submit, SubmitRefused, jobVars
    <2> QED
      BY <2>1, <2>2
  <1>2. ASSUME NEW j \in Jobs, Worker(j)
        PROVE  Ledger!LedgerNext \/ UNCHANGED Ledger!ledger
    <2>0. UNCHANGED <<miner_id, action>>
      BY <1>2, WorkerFrame DEF WorkerEffect, WorkerMoves
    <2>1. CASE StartVerified(j)
      <3>1. /\ status[j] = "QUEUED" /\ attempts[j] = 0
            /\ action[j] \in AllActions
        BY <2>1, TakenJob DEF StartVerified
      <3>2. /\ status' = [status EXCEPT ![j] = "RUNNING"]
            /\ attempts' = [attempts EXCEPT ![j] = 0]
        BY <1>0, <2>1, <3>1 DEF StartVerified
      <3>3. maxView' = maxView
        BY <1>0, <2>0, <3>1, <3>2
      <3>4. Ledger!Begin(j, 0)
        BY <2>0, <3>1, <3>2, <3>3 DEF Ledger!Begin
      <3> QED
        BY <3>4 DEF Ledger!LedgerNext
    <2>2. CASE StartReboot(j)
      <3>1. status[j] = "QUEUED" /\ action[j] = "reboot"
        BY <2>2, TakenJob DEF StartReboot
      <3>2. maxView' = maxView
        BY <1>0, <2>0, <2>2, <3>1 DEF StartReboot
      <3>3. Ledger!Begin(j, 1)
        BY <2>0, <2>2, <3>1, <3>2 DEF StartReboot, Ledger!Begin
      <3> QED
        BY <3>3 DEF Ledger!LedgerNext
    <2>3. CASE LoopSends(j)
      <3>1. status[j] = "RUNNING" /\ action[j] # "reboot"
        BY <2>3, LiveJob
        DEF IInv, WorkersWellFormed, WorkerWellFormed, LoopSends, Live
      <3>2. attempts[j] < CONTROL_MAX_ATTEMPTS
        BY <1>0, <2>3 DEF LoopSends
      <3>3. maxView' = maxView
        BY <2>0, <2>3 DEF LoopSends
      <3>4. Ledger!Attempt(j)
        BY <2>0, <2>3, <3>1, <3>2, <3>3 DEF LoopSends, Ledger!Attempt
      <3> QED
        BY <3>4 DEF Ledger!LedgerNext
    <2>4. ASSUME NEW ok \in BOOLEAN, finish_control_job(j, ok), Live(j),
                 attempts' = attempts, ok => attempts[j] > 0
          PROVE  Ledger!LedgerNext
      <3>1. status[j] = "RUNNING"
        BY <2>4, LiveJob
      <3>2. maxView' = maxView
        BY <1>0, <2>0, <2>4, <3>1 DEF finish_control_job
      <3>3. CASE ok
        <4>1. Ledger!Settle(j, "VERIFIED")
          BY <2>0, <2>4, <3>1, <3>2, <3>3 DEF finish_control_job, Ledger!Settle
        <4> QED
          BY <4>1 DEF Ledger!LedgerNext
      <3>4. CASE ~ok
        <4>1. Ledger!Settle(j, "FAILED")
          BY <2>0, <2>4, <3>1, <3>2, <3>4 DEF finish_control_job, Ledger!Settle
        <4> QED
          BY <4>1 DEF Ledger!LedgerNext
      <3> QED
        BY <3>3, <3>4
    <2>5. CASE LoopEnds(j) \/ GivesUp(j)
      BY <2>4, <2>5 DEF LoopEnds, GivesUp, Live
    <2>6. CASE Verified(j) \/ Returned(j)
      BY <2>4, <2>6 DEF Verified, Returned, Live, IInv, WorkersWellFormed,
                        WorkerWellFormed
    <2>7. CASE ~StartVerified(j) /\ ~StartReboot(j) /\ ~LoopSends(j)
               /\ ~LoopEnds(j) /\ ~GivesUp(j) /\ ~Verified(j) /\ ~Returned(j)
      BY <1>2, <2>7 DEF Worker, LoopWaits, SendOk, SendFails, WaitStopped,
         WaitElapsed, PollSkips, PollReads, PollSaves, CheckVerify,
         CheckTransition, CheckReturn, jobVars
    <2> QED
      BY <2>1, <2>2, <2>3, <2>5, <2>6, <2>7
  <1>6. ASSUME NEW j \in Jobs, Exception(j)
        PROVE  UNCHANGED Ledger!ledger
    BY <1>6 DEF Exception, StartRaises, WorkerRaises, Raised, PollRaises,
                SaveFails, jobVars
  <1>3. CASE (\E p \in Pollers : Background(p)) \/ Inventory
    BY <1>3, OtherFrame DEF jobVars
  <1>4. CASE Restart
    <2>1. maxView' = maxView
      BY <1>0, <1>4 DEF Restart
    <2>2. Ledger!AbortActive
      BY <1>4, <2>1 DEF Restart, Ledger!AbortActive
    <2> QED
      BY <2>2 DEF Ledger!LedgerNext
  <1>5. CASE Stop \/ ThreadsGone \/ UNCHANGED vars
    BY <1>5 DEF Stop, ThreadsGone, vars, jobVars
  <1> QED
    BY <1>1, <1>2, <1>3, <1>4, <1>5, <1>6 DEF Next, Process, Exit, Crash

\* The control pipeline implements the abstract job ledger.
THEOREM PipelineImplementsLedger == Spec => ImplementsLedger
  <1>1. Init => Ledger!LedgerInit
    BY DEF Init, Ledger!LedgerInit, maxView
  <1> QED
    BY InductiveInvariant, LedgerStep, <1>1, PTL
    DEF Spec, ImplementsLedger, Ledger!LedgerSpec

-----------------------------------------------------------------------------
\* Every row that is opened has a thread, and a thread that goes away while
\* the service runs has ended its row or was ended by an exception.
LEMMA OrphanStep ==
  ASSUME IInv, NoOrphanJob, [Next]_vars
  PROVE  NoOrphanJob'
  <1> USE DEF NoOrphanJob
  <1>0. /\ status \in [Jobs -> {"NONE"} \cup Active \cup Terminal]
        /\ wpc \in [Jobs -> ControlPoints]
        /\ cpc \in [Callers -> {"idle", "lock", "override", "create", "submit"}]
        /\ cjob \in [Callers -> Jobs \cup {None}]
        /\ up \in {"running", "stopping", "down"}
    BY DEF IInv, TypeOK
  <1>1. ASSUME NEW c \in Callers, Caller(c)
        PROVE  NoOrphanJob'
    <2>1. up' = up
      BY <1>1 DEF Caller, Request, RequestReboot, LockAndCheck, AlreadyActive,
         set_manual_override, create_control_job, Submit, SubmitRefused
    <2>2. CASE create_control_job(c)
      BY <1>0, <2>1, <2>2 DEF create_control_job
    <2>3. CASE Submit(c)
      <3>1. cjob[c] \in Jobs
        BY <2>3 DEF IInv, CallsWellFormed, Submit
      <3>2. /\ wpc'[cjob[c]] = "queued" /\ status' = status
            /\ \A j \in Jobs \ {cjob[c]} : wpc'[j] = wpc[j]
            /\ \A d \in Callers \ {c} : cpc'[d] = cpc[d] /\ cjob'[d] = cjob[d]
        BY <1>0, <2>3, <3>1 DEF Submit, jobVars
      <3>3. ASSUME NEW j \in Jobs, up' = "running", status'[j] \in Active,
                   wpc'[j] = "idle"
            PROVE  \E d \in Callers : cpc'[d] = "submit" /\ cjob'[d] = j
        <4>1. j # cjob[c] /\ wpc[j] = "idle"
          BY <3>2, <3>3
        <4>2. PICK d \in Callers : cpc[d] = "submit" /\ cjob[d] = j
          BY <2>1, <3>2, <3>3, <4>1
        <4> QED
          BY <3>2, <4>1, <4>2
      <3> QED
        BY <3>3
    <2>4. CASE SubmitRefused(c)
      BY <2>1, <2>4 DEF SubmitRefused
    <2>5. CASE \/ \E m \in Miners, a \in Actions, man \in BOOLEAN :
                    Request(c, m, a, man)
               \/ \E m \in Miners : RequestReboot(c, m)
               \/ LockAndCheck(c) \/ AlreadyActive(c) \/ set_manual_override(c)
      <3>1. /\ UNCHANGED <<status, wpc, cjob>>
            /\ \A d \in Callers : cpc[d] = "submit" => cpc'[d] = "submit"
        BY <1>0, <2>5 DEF Request, RequestReboot, LockAndCheck, AlreadyActive,
           set_manual_override, jobVars
      <3> QED
        BY <2>1, <3>1
    <2> QED
      BY <1>1, <2>1, <2>2, <2>3, <2>4, <2>5 DEF Caller
  <1>2. ASSUME NEW i \in Jobs, WorkerMoves(i)
        PROVE  NoOrphanJob'
    <2>1. /\ UNCHANGED <<up, cpc, cjob>>
          /\ \A j \in Jobs \ {i} : status'[j] = status[j] /\ wpc'[j] = wpc[j]
      BY <1>2, WorkerFrame DEF WorkerEffect, callVars
    <2>2. up = "running" => wpc'[i] # "idle" \/ status'[i] \in Terminal
      <3>1. CASE LoopEnds(i) \/ GivesUp(i) \/ Verified(i) \/ Returned(i)
        BY <1>0, <3>1 DEF LoopEnds, GivesUp, Verified, Returned,
                          finish_control_job
      <3>2. CASE Exception(i)
        BY <1>0, <3>2 DEF Exception, StartRaises, WorkerRaises, Raised,
                          PollRaises, SaveFails
      <3>3. CASE ~Exception(i) /\ ~LoopEnds(i) /\ ~GivesUp(i)
                 /\ ~Verified(i) /\ ~Returned(i)
        BY <1>0, <1>2, <3>3 DEF WorkerMoves, Worker, StartVerified, StartReboot,
           LoopSends, LoopWaits, SendOk, SendFails, WaitStopped, WaitElapsed,
           PollSkips, PollReads, PollSaves, CheckVerify, CheckTransition,
           CheckReturn
      <3> QED
        BY <3>1, <3>2, <3>3
    <2> QED
      BY <2>1, <2>2
  <1>3. CASE (\E p \in Pollers : Background(p)) \/ Inventory
    BY <1>3, OtherFrame DEF jobVars, callVars
  <1>4. CASE Process \/ UNCHANGED vars
    BY <1>0, <1>4 DEF Process, Stop, Exit, Crash, ThreadsGone, Restart, vars,
                      jobVars, callVars
  <1> QED
    BY <1>1, <1>2, <1>3, <1>4 DEF Next, WorkerMoves

\* While the service runs, a QUEUED or RUNNING row has a caller, the executor
\* or a worker that will end it, or its worker was ended by an exception.
THEOREM NoOrphans == Spec => []NoOrphanJob
  <1>1. Init => NoOrphanJob
    BY DEF Init, NoOrphanJob
  <1> QED
    BY InductiveInvariant, OrphanStep, <1>1, PTL DEF Spec

-----------------------------------------------------------------------------
(* VerifiedByTheDevice is not inductive: a worker compares last_state, which *)
(* any poll may have written.  KnownInv follows a reading from the device to *)
(* the comparison: after the first attempt of an untainted job, what its     *)
(* worker and every poll of its ASIC hold has been observed since.           *)
Shown(j, r) == {r} \cap Telling(action[j]) \subseteq observed[j]

WorkerKnows(j) ==
  /\ Pollable(miner_id[j])
  /\ \A p \in PollsInFlight(miner_id[j]) : Shown(j, poll[p].obs)
  /\ wpc[j] = "save" => Shown(j, wobs[j])
  /\ wpc[j] = "check" => Shown(j, last_state[miner_id[j]])
  /\ wphase[j] = "return" => observed[j] \cap Transitional # {}

KnownInv ==
  \A j \in Jobs \ tainted : Live(j) /\ attempts[j] > 0 => WorkerKnows(j)

\* Readings are only added, and a tainted job stays tainted.
LEMMA HistoryGrows ==
  ASSUME IInv, [Next]_vars, NEW j \in Jobs
  PROVE  observed[j] \subseteq observed'[j] /\ tainted \subseteq tainted'
  <1>0. observed \in [Jobs -> SUBSET States]
    BY DEF IInv, TypeOK
  <1>1. CASE \E c \in Callers : Caller(c)
    BY <1>1 DEF Caller, Request, RequestReboot, LockAndCheck, AlreadyActive,
       set_manual_override, create_control_job, Submit, SubmitRefused, histVars
  <1>2. ASSUME NEW i \in Jobs, Worker(i)
        PROVE  observed[j] \subseteq observed'[j] /\ tainted \subseteq tainted'
    <2>1. CASE \E r \in Readings : PollReads(i, r)
      BY <2>1 DEF PollReads, Observe
    <2>2. CASE StartReboot(i) \/ LoopSends(i)
      BY <2>2 DEF StartReboot, LoopSends, TaintAtFirstAttempt
    <2> QED
      BY <1>2, <2>1, <2>2 DEF Worker, StartVerified, LoopEnds, LoopWaits,
         SendOk, SendFails, GivesUp, WaitStopped, WaitElapsed, PollSkips,
         PollSaves, CheckVerify, Verified, CheckTransition, CheckReturn,
         Returned, histVars
  <1>6. CASE \E i \in Jobs : Exception(i)
    BY <1>6 DEF Exception, StartRaises, WorkerRaises, Raised, PollRaises,
                SaveFails, TaintReboots, histVars
  <1>3. CASE \E p \in Pollers : Background(p)
    BY <1>3 DEF Background, BackgroundReads, BackgroundSaves,
       BackgroundSaveFails, BackgroundRaises, Observe,
       TaintReboots, histVars
  <1>4. CASE Inventory
    BY <1>4 DEF Inventory, toggle_enabled, set_driver, firmware_settings,
       firmware_detect_now, unconfigured_to_stock, clear_overrides, TaintActive,
       histVars
  <1>5. CASE Process \/ UNCHANGED vars
    BY <1>5 DEF Process, Stop, Exit, Crash, ThreadsGone, Restart, vars, histVars
  <1> QED
    BY <1>1, <1>2, <1>3, <1>4, <1>5, <1>6 DEF Next

\* What a worker knows carries over a step that keeps the miner's row, the
\* job's row and the worker, and leaves no other poll of the miner in flight.
LEMMA KnowledgeKept ==
  ASSUME IInv, [Next]_vars, NEW j \in Jobs, WorkerKnows(j),
         UNCHANGED <<miner_id[j], action[j], wphase[j], wpc[j], wobs[j]>>,
         \A m \in Miners : m = miner_id[j] =>
           UNCHANGED <<enabled[m], driver[m], last_state[m]>>,
         miner_id[j] \in Miners,
         UNCHANGED poll
  PROVE  WorkerKnows(j)'
  BY HistoryGrows DEF WorkerKnows, Shown, Pollable, PollsInFlight, Telling,
                      Transitional, control_target

\* A step of the job's own worker.
LEMMA OwnStepKnows ==
  ASSUME IInv, KnownInv, NEW j \in Jobs, Worker(j),
         j \notin tainted', Live(j)', attempts'[j] > 0
  PROVE  WorkerKnows(j)'
  <1>0. /\ wpc \in [Jobs -> ControlPoints]
        /\ wphase \in [Jobs -> {"none", "verify", "transition", "return"}]
        /\ wobs \in [Jobs -> States] /\ wlast \in [Jobs -> States]
        /\ attempts \in [Jobs -> 0 .. CONTROL_MAX_ATTEMPTS]
        /\ last_state \in [Miners -> States]
        /\ observed \in [Jobs -> SUBSET States]
    BY DEF IInv, TypeOK
  <1>1. j \notin tainted /\ observed[j] \subseteq observed'[j]
    BY HistoryGrows DEF Next
  <1>2. UNCHANGED <<enabled, driver, poll, miner_id, action>>
    BY DEF Worker, StartVerified, StartReboot, LoopEnds, LoopSends, LoopWaits,
       SendOk, SendFails, GivesUp, WaitStopped, WaitElapsed, PollSkips,
       PollReads, PollSaves, CheckVerify, Verified, CheckTransition,
       CheckReturn, Returned, finish_control_job, minerVars, jobVars
  <1>3. CASE StartVerified(j)
    BY <1>3, TakenJob DEF StartVerified
  <1>4. CASE StartReboot(j)
    <2>1. /\ Pollable(miner_id[j]) /\ PollsInFlight(miner_id[j]) = {}
          /\ wphase'[j] = "transition" /\ wpc'[j] \in {"send", "unsupported"}
      BY <1>0, <1>4 DEF StartReboot, TaintAtFirstAttempt
    <2> QED
      BY <1>2, <2>1 DEF WorkerKnows, Pollable, PollsInFlight
  <1>5. ASSUME wpc[j] = "loop", attempts[j] = 0, LoopSends(j)
        PROVE  WorkerKnows(j)'
    <2>1. /\ Pollable(miner_id[j]) /\ PollsInFlight(miner_id[j]) = {}
          /\ wphase'[j] = "verify" /\ wpc'[j] = "send"
      BY <1>0, <1>5 DEF LoopSends, TaintAtFirstAttempt, wdata
    <2> QED
      BY <1>2, <2>1 DEF WorkerKnows, Pollable, PollsInFlight
  <1>6. CASE Live(j) /\ attempts[j] > 0
    <2>1. WorkerKnows(j) /\ miner_id[j] \in Miners
      BY <1>1, <1>6, LiveJob DEF KnownInv
    <2>2. \A r : Shown(j, r) => Shown(j, r)'
      BY <1>1, <1>2 DEF Shown, Telling, Transitional, control_target
    <2>3. Pollable(miner_id[j])'
          /\ \A p \in PollsInFlight(miner_id[j])' : Shown(j, poll[p].obs)'
      BY <1>2, <2>1, <2>2 DEF WorkerKnows, Pollable, PollsInFlight
    <2>4. observed[j] \cap Transitional # {}
          => (observed[j] \cap Transitional # {})'
      BY <1>1 DEF Transitional
    <2>5. CASE LoopSends(j) \/ LoopWaits(j) \/ SendOk(j) \/ SendFails(j)
               \/ WaitElapsed(j)
      <3>1. wphase' = wphase /\ wpc'[j] \notin {"save", "check"}
        BY <1>0, <2>5 DEF LoopSends, LoopWaits, SendOk, SendFails, WaitElapsed,
                          wdata
      <3> QED
        BY <2>1, <2>3, <2>4, <3>1 DEF WorkerKnows
    <2>6. CASE PollSkips(j)
      BY <2>1, <2>6 DEF PollSkips, WorkerKnows
    <2>7. ASSUME NEW r \in Readings, PollReads(j, r)
          PROVE  WorkerKnows(j)'
      <3>1. status[j] = "RUNNING"
        BY <1>6, LiveJob
      <3>2. Shown(j, r)'
        BY <1>0, <1>2, <1>6, <2>7, <3>1
        DEF PollReads, Observe, Shown, Telling, Transitional, control_target
      <3>3. wphase' = wphase /\ wpc'[j] = "save" /\ wobs'[j] = r
        BY <1>0, <2>7 DEF PollReads
      <3> QED
        BY <2>1, <2>3, <2>4, <3>2, <3>3 DEF WorkerKnows, Shown
    <2>8. CASE PollSaves(j)
      <3>1. wphase' = wphase /\ wpc'[j] = "check" /\ wpc[j] = "save"
            /\ last_state'[miner_id[j]] = wobs[j]
        BY <1>0, <2>1, <2>8 DEF PollSaves
      <3>2. Shown(j, wobs[j])
        BY <2>1, <3>1 DEF WorkerKnows
      <3>3. Shown(j, last_state[miner_id[j]])'
        BY <1>1, <1>2, <3>1, <3>2 DEF Shown, Telling, Transitional,
                                      control_target
      <3> QED
        BY <2>1, <2>3, <2>4, <3>1, <3>3 DEF WorkerKnows
    <2>9. CASE CheckVerify(j) \/ CheckReturn(j)
      <3>1. wphase' = wphase /\ wpc'[j] = "loop"
        BY <1>0, <2>9 DEF CheckVerify, CheckReturn
      <3> QED
        BY <2>1, <2>3, <2>4, <3>1 DEF WorkerKnows
    <2>10. CASE CheckTransition(j)
      <3>1. wpc'[j] = "loop" /\ Shown(j, last_state[miner_id[j]])
            /\ action[j] = "reboot"
        BY <1>0, <1>6, <2>1, <2>10 DEF CheckTransition, WorkerKnows, IInv,
           WorkersWellFormed, WorkerWellFormed
      <3>2. ASSUME wphase'[j] = "return"
            PROVE  observed[j] \cap Transitional # {}
        <4>1. RebootTransition(last_state[miner_id[j]], wlast[j])
          BY <1>0, <2>10, <3>2 DEF CheckTransition
        <4>2. last_state[miner_id[j]] \in Transitional
          BY <4>1 DEF RebootTransition, Transitional
        <4> QED
          BY <3>1, <4>2 DEF Shown, Telling
      <3> QED
        BY <2>3, <2>4, <3>1, <3>2 DEF WorkerKnows
    <2>11. CASE LoopEnds(j) \/ GivesUp(j) \/ WaitStopped(j) \/ Verified(j)
                \/ Returned(j)
      BY <1>0, <2>11 DEF LoopEnds, GivesUp, WaitStopped, Verified, Returned,
                         finish_control_job, WorkerReturns, Live
    <2> QED
      BY <1>3, <1>4, <2>5, <2>6, <2>7, <2>8, <2>9, <2>10, <2>11 DEF Worker
  <1>7. CASE ~(Live(j) /\ attempts[j] > 0) /\ ~StartVerified(j)
             /\ ~StartReboot(j)
    <2>1. Live(j)
      BY <1>7 DEF Worker, LoopEnds, LoopSends, LoopWaits, SendOk, SendFails,
         GivesUp, WaitStopped, WaitElapsed, PollSkips, PollReads, PollSaves,
         CheckVerify, Verified, CheckTransition, CheckReturn, Returned, Live
    <2>2. attempts[j] = 0
      BY <1>0, <1>7, <2>1
    <2>3. ASSUME ~LoopSends(j)
          PROVE  attempts' = attempts
      BY <1>7, <2>3 DEF Worker, LoopEnds, LoopWaits, SendOk, SendFails,
         GivesUp, WaitStopped, WaitElapsed, PollSkips, PollReads, PollSaves,
         CheckVerify, Verified, CheckTransition, CheckReturn, Returned, jobVars
    <2> QED
      BY <1>0, <1>5, <2>2, <2>3 DEF LoopSends
  <1> QED
    BY <1>3, <1>4, <1>6, <1>7

\* An exception of the job's own worker: it taints a reboot, and OFFLINE tells
\* a pause or a resume nothing.
LEMMA OwnExceptionKnows ==
  ASSUME IInv, KnownInv, NEW j \in Jobs, Exception(j),
         j \notin tainted', Live(j)', attempts'[j] > 0
  PROVE  WorkerKnows(j)'
  <1>0. /\ wpc \in [Jobs -> ControlPoints] /\ wobs \in [Jobs -> States]
        /\ action \in [Jobs -> AllActions \cup {"none"}]
    BY DEF IInv, TypeOK
  <1>1. SaveFails(j)
    BY <1>0 DEF Exception, StartRaises, WorkerRaises, Raised, PollRaises, Live
  <1>2. /\ UNCHANGED <<enabled, driver, last_state, poll, observed>>
        /\ UNCHANGED <<jobVars, wpc, wphase>> /\ wpc[j] = "save"
        /\ wobs'[j] = "OFFLINE"
    BY <1>0, <1>1 DEF SaveFails, minerVars
  <1>3. j \notin tainted /\ status[j] = "RUNNING" /\ action[j] # "reboot"
    BY <1>1, LiveJob DEF SaveFails, TaintReboots, Live
  <1>4. WorkerKnows(j)
    BY <1>2, <1>3 DEF KnownInv, Live, jobVars
  <1>5. Shown(j, wobs[j])'
    BY <1>2, <1>3 DEF Shown, Telling, control_target, jobVars
  <1> QED
    BY <1>2, <1>4, <1>5
    DEF WorkerKnows, Shown, Telling, Transitional, control_target, Pollable,
        PollsInFlight, jobVars

\* Only the worker of an active job, a poll that counts as in flight or an
\* edit that taints the job writes what its worker relies on.
LEMMA KnownStep ==
  ASSUME IInv, KnownInv, [Next]_vars
  PROVE  KnownInv'
  <1> SUFFICES ASSUME NEW j \in Jobs, j \notin tainted', Live(j)',
                      attempts'[j] > 0
               PROVE  WorkerKnows(j)'
    BY DEF KnownInv
  <1>0. /\ status \in [Jobs -> {"NONE"} \cup Active \cup Terminal]
        /\ miner_id \in [Jobs -> Miners \cup {None}]
        /\ action \in [Jobs -> AllActions \cup {"none"}]
        /\ wpc \in [Jobs -> ControlPoints]
        /\ wphase \in [Jobs -> {"none", "verify", "transition", "return"}]
        /\ wobs \in [Jobs -> States]
        /\ attempts \in [Jobs -> 0 .. CONTROL_MAX_ATTEMPTS]
        /\ last_state \in [Miners -> States]
        /\ enabled \in [Miners -> BOOLEAN] /\ driver \in [Miners -> Drivers]
        /\ observed \in [Jobs -> SUBSET States]
        /\ poll \in [Pollers -> PollType \cup {None}]
    BY DEF IInv, TypeOK
  <1>a. j \notin tainted
    BY HistoryGrows
  <1>b. ASSUME Live(j), UNCHANGED attempts[j]
        PROVE  /\ WorkerKnows(j) /\ miner_id[j] \in Miners
               /\ status[j] = "RUNNING"
    BY <1>a, <1>b, LiveJob DEF KnownInv
  <1>1. ASSUME NEW c \in Callers, Caller(c)
        PROVE  WorkerKnows(j)'
    <2>1. UNCHANGED <<enabled, driver, last_state, poll, wdata, attempts>>
      BY <1>1 DEF Caller, Request, RequestReboot, LockAndCheck, AlreadyActive,
         set_manual_override, create_control_job, Submit, SubmitRefused,
         minerVars, jobVars
    <2>2. wpc'[j] = wpc[j]
      <3>1. CASE Submit(c)
        <4>1. cjob[c] \in Jobs
          BY <3>1 DEF IInv, CallsWellFormed, Submit
        <4> QED
          BY <1>0, <3>1, <4>1 DEF Submit, Live
      <3>2. CASE ~Submit(c)
        BY <1>1, <3>2 DEF Caller, Request, RequestReboot, LockAndCheck,
           AlreadyActive, set_manual_override, create_control_job, SubmitRefused
      <3> QED
        BY <3>1, <3>2
    <2>3. Live(j) /\ status[j] = "RUNNING"
      BY <2>2, LiveJob DEF Live
    <2>4. UNCHANGED <<miner_id[j], action[j]>>
      <3>1. CASE create_control_job(c)
        BY <1>0, <2>3, <3>1 DEF create_control_job
      <3>2. CASE ~create_control_job(c)
        BY <1>1, <3>2 DEF Caller, Request, RequestReboot, LockAndCheck,
           AlreadyActive, set_manual_override, Submit, SubmitRefused, jobVars
      <3> QED
        BY <3>1, <3>2
    <2> QED
      BY <1>b, <2>1, <2>2, <2>3, <2>4, KnowledgeKept DEF wdata
  <1>2. ASSUME NEW i \in Jobs, WorkerMoves(i)
        PROVE  WorkerKnows(j)'
    <2>1. CASE i = j
      BY <1>2, <2>1, OwnStepKnows, OwnExceptionKnows DEF WorkerMoves
    <2>2. CASE i # j
      <3>1. /\ UNCHANGED <<miner_id, action>>
            /\ UNCHANGED <<wpc[j], attempts[j], wphase[j]>>
            /\ status[i] \in Active
        BY <1>2, <2>2, WorkerFrame DEF WorkerEffect
      <3>2. Live(j) /\ WorkerKnows(j) /\ miner_id[j] \in Miners
            /\ status[j] = "RUNNING"
        BY <1>b, <3>1 DEF Live
      <3>3. miner_id[i] # miner_id[j]
        BY <2>2, <3>1, <3>2 DEF IInv, OneActiveJobPerMiner
      <3>4. /\ UNCHANGED <<enabled, driver, poll>> /\ wobs'[j] = wobs[j]
            /\ last_state'[miner_id[j]] = last_state[miner_id[j]]
        BY <1>0, <1>2, <2>2, <3>2, <3>3 DEF WorkerMoves, Exception, StartRaises,
           WorkerRaises, Raised, PollRaises, SaveFails, Worker, StartVerified,
           StartReboot,
           LoopEnds, LoopSends, LoopWaits, SendOk, SendFails, GivesUp,
           WaitStopped, WaitElapsed, PollSkips, PollReads, PollSaves,
           CheckVerify, Verified, CheckTransition, CheckReturn, Returned,
           finish_control_job, WorkerReturns, minerVars, wdata
      <3> QED
        BY <3>1, <3>2, <3>4, KnowledgeKept
    <2> QED
      BY <2>1, <2>2
  <1>3. ASSUME NEW p \in Pollers, Background(p)
        PROVE  WorkerKnows(j)'
    <2>1. /\ UNCHANGED <<up, jobVars, callVars, pool, wpc, wdata>>
          /\ UNCHANGED <<enabled, driver>>
      BY <1>3, OtherFrame DEF Background, BackgroundReads, BackgroundSaves,
       BackgroundSaveFails, BackgroundRaises,
                              minerVars
    <2>2. Live(j) /\ WorkerKnows(j) /\ miner_id[j] \in Miners
          /\ status[j] = "RUNNING" /\ attempts[j] > 0
      BY <1>b, <2>1 DEF Live, jobVars
    <2>3. observed[j] \subseteq observed'[j]
      BY HistoryGrows
    <2>4. \A r : Shown(j, r) => Shown(j, r)'
      BY <2>1, <2>3 DEF Shown, Telling, Transitional, control_target, jobVars
    <2>5. ASSUME NEW m \in Miners, NEW r \in Readings, BackgroundReads(p, m, r)
          PROVE  WorkerKnows(j)'
      <3>1. miner_id[j] = m => Shown(j, r)'
        BY <1>0, <2>1, <2>2, <2>5
        DEF BackgroundReads, Observe, Shown, Telling, Transitional,
            control_target, jobVars
      <3>2. \A q \in PollsInFlight(miner_id[j])' : Shown(j, poll[q].obs)'
        BY <1>0, <2>1, <2>2, <2>4, <2>5, <3>1
        DEF BackgroundReads, PollsInFlight, WorkerKnows, jobVars
      <3> QED
        BY <2>1, <2>2, <2>3, <2>4, <2>5, <3>2
        DEF BackgroundReads, WorkerKnows, Pollable, jobVars, wdata, minerVars,
            Transitional
    <2>6. CASE BackgroundSaves(p)
      <3>1. poll[p].miner = miner_id[j] => Shown(j, poll[p].obs)
        BY <2>2, <2>6 DEF BackgroundSaves, WorkerKnows, PollsInFlight
      <3>2. /\ \A q \in PollsInFlight(miner_id[j])' :
                 q \in PollsInFlight(miner_id[j]) /\ poll'[q] = poll[q]
            /\ observed' = observed
        BY <1>0, <2>1, <2>6 DEF BackgroundSaves, PollsInFlight, jobVars,
                                histVars
      <3>3. wpc[j] = "check" => Shown(j, last_state[miner_id[j]])'
        <4>1. last_state'[miner_id[j]] \in {last_state[miner_id[j]], poll[p].obs}
              /\ (poll[p].miner # miner_id[j]
                  => last_state'[miner_id[j]] = last_state[miner_id[j]])
          BY <1>0, <2>2, <2>6 DEF BackgroundSaves
        <4> QED
          BY <2>1, <2>2, <3>1, <3>2, <4>1
          DEF WorkerKnows, Shown, Telling, control_target, jobVars
      <3> QED
        BY <2>1, <2>2, <2>4, <3>2, <3>3
        DEF WorkerKnows, Pollable, jobVars, wdata
    <2>7. CASE BackgroundRaises(p)
      <3>1. /\ \A q \in PollsInFlight(miner_id[j])' :
                 q \in PollsInFlight(miner_id[j]) /\ poll'[q] = poll[q]
            /\ UNCHANGED <<observed, last_state>>
        BY <1>0, <2>1, <2>7 DEF BackgroundRaises, PollsInFlight, jobVars,
                                histVars, minerVars
      <3> QED
        BY <2>1, <2>2, <2>4, <3>1 DEF WorkerKnows, Pollable, jobVars, wdata
    <2>8. CASE BackgroundSaveFails(p)
      <3>1. UNCHANGED <<observed, last_state>>
        BY <2>8 DEF BackgroundSaveFails, minerVars
      <3>2. poll[p].miner = miner_id[j] => action[j] # "reboot"
        BY <2>2, <2>8 DEF BackgroundSaveFails, TaintReboots
      <3>3. ASSUME NEW q \in PollsInFlight(miner_id[j])'
            PROVE  Shown(j, poll[q].obs)'
        <4>1. poll[p] \in PollType /\ q \in Pollers
          BY <1>0, <2>8 DEF BackgroundSaveFails, PollsInFlight
        <4>2. CASE q # p
          BY <1>0, <2>1, <2>2, <2>4, <2>8, <4>1, <4>2
          DEF BackgroundSaveFails, PollsInFlight, WorkerKnows, jobVars
        <4>3. CASE q = p
          <5>1. poll'[p].obs = "OFFLINE" /\ poll'[p].miner = poll[p].miner
            BY <1>0, <2>8, <4>1 DEF BackgroundSaveFails, PollType
          <5>2. action[j] # "reboot"
            BY <2>1, <3>2, <4>3, <5>1 DEF PollsInFlight, jobVars
          <5> QED
            BY <2>1, <4>3, <5>1, <5>2 DEF Shown, Telling, control_target, jobVars
        <4> QED
          BY <4>2, <4>3
      <3> QED
        BY <2>1, <2>2, <2>4, <3>1, <3>3 DEF WorkerKnows, Pollable, jobVars, wdata
    <2> QED
      BY <1>3, <2>5, <2>6, <2>7, <2>8 DEF Background
  <1>4. CASE Inventory
    <2>1. /\ UNCHANGED <<up, jobVars, callVars, pool, wpc, wdata>>
          /\ UNCHANGED poll
      BY <1>4, OtherFrame DEF Inventory, toggle_enabled, set_driver,
         firmware_settings, firmware_detect_now, unconfigured_to_stock,
         clear_overrides
    <2>2. Live(j) /\ WorkerKnows(j) /\ miner_id[j] \in Miners
          /\ status[j] = "RUNNING"
      BY <1>b, <2>1 DEF Live, jobVars
    <2>3. \A ms : TaintActive(ms) => miner_id[j] \notin ms
      BY <2>2 DEF TaintActive
    <2>4. PICK n \in Miners : n = miner_id[j]
      BY <2>2
    <2>5. /\ enabled'[n] = enabled[n] /\ driver'[n] = driver[n]
          /\ last_state'[n] = last_state[n]
      <3>1. ASSUME NEW m \in EditMiners, toggle_enabled(m)
            PROVE  /\ enabled'[n] = enabled[n] /\ driver'[n] = driver[n]
                   /\ last_state'[n] = last_state[n]
        BY <1>0, <2>3, <2>4, <3>1 DEF toggle_enabled
      <3>2. ASSUME NEW m \in EditMiners, NEW d \in UsedDrivers,
                   NEW read \in UsedDrivers,
                   \/ set_driver(m, d) \/ firmware_settings(m, d, read)
                   \/ firmware_detect_now(m, d, read)
            PROVE  /\ enabled'[n] = enabled[n] /\ driver'[n] = driver[n]
                   /\ last_state'[n] = last_state[n]
        <4>1. m # n /\ enabled' = enabled
          BY <2>3, <2>4, <3>2 DEF set_driver, firmware_settings,
                                  firmware_detect_now
        <4> QED
          BY <1>0, <3>2, <4>1 DEF set_driver, firmware_settings,
                                  firmware_detect_now
      <3>3. CASE unconfigured_to_stock
        <4>1. n \notin {m \in Miners : driver[m] = "unset"}
          BY <2>3, <2>4, <3>3 DEF unconfigured_to_stock
        <4> QED
          BY <3>3, <4>1 DEF unconfigured_to_stock
      <3>4. CASE clear_overrides
        BY <3>4 DEF clear_overrides
      <3> QED
        BY <1>4, <3>1, <3>2, <3>3, <3>4 DEF Inventory
    <2> QED
      BY <2>1, <2>2, <2>4, <2>5, KnowledgeKept DEF jobVars, wdata
  <1>5. CASE Process \/ UNCHANGED vars
    <2>1. ~ThreadsGone
      BY DEF ThreadsGone, Live
    <2>2. UNCHANGED <<minerVars, miner_id, action, attempts, wpc, wdata, poll>>
      BY <1>5, <2>1 DEF Process, Stop, Exit, Crash, Restart, vars, jobVars
    <2>3. Live(j)
      BY <2>2 DEF Live
    <2> QED
      BY <1>b, <2>2, <2>3, KnowledgeKept DEF minerVars, wdata
  <1> QED
    BY <1>1, <1>2, <1>3, <1>4, <1>5 DEF Next, WorkerMoves

\* Only the comparison of a worker that knows verifies a job.
LEMMA VerifiedStep ==
  ASSUME IInv, KnownInv, VerifiedByTheDevice, [Next]_vars
  PROVE  VerifiedByTheDevice'
  <1> SUFFICES ASSUME NEW j \in Jobs, j \notin tainted', status'[j] = "VERIFIED"
               PROVE  Evidence(j)'
    BY DEF VerifiedByTheDevice
  <1>0. /\ status \in [Jobs -> {"NONE"} \cup Active \cup Terminal]
        /\ last_state \in [Miners -> States]
        /\ wstable \in [Jobs -> 0 .. 1]
    BY DEF IInv, TypeOK
  <1>a. j \notin tainted /\ observed[j] \subseteq observed'[j]
    BY HistoryGrows
  <1>1. CASE status[j] = "VERIFIED"
    <2>1. Evidence(j)
      BY <1>1, <1>a DEF VerifiedByTheDevice
    <2>2. action'[j] = action[j]
      BY <1>1, FinalStep DEF Row
    <2> QED
      BY <1>a, <2>1, <2>2 DEF Evidence, Transitional, control_target
  <1>2. ASSUME Verified(j) \/ Returned(j)
        PROVE  Evidence(j)'
    <2>1. Live(j) /\ wpc[j] = "check" /\ attempts[j] > 0 /\ action' = action
      BY <1>2 DEF Verified, Returned, Live, IInv, WorkersWellFormed,
                  WorkerWellFormed
    <2>2. WorkerKnows(j) /\ Shown(j, last_state[miner_id[j]])
      BY <1>a, <2>1 DEF KnownInv, WorkerKnows
    <2>3. CASE Verified(j)
      <3>1. action[j] # "reboot"
            /\ last_state[miner_id[j]] = control_target(action[j])
        BY <2>1, <2>3 DEF Verified, IInv, WorkersWellFormed, WorkerWellFormed
      <3>2. control_target(action[j]) \in observed[j]
        BY <2>2, <3>1 DEF Shown, Telling
      <3> QED
        BY <1>a, <2>1, <3>1, <3>2 DEF Evidence, control_target
    <2>4. CASE Returned(j)
      <3>1. action[j] = "reboot" /\ observed[j] \cap Transitional # {}
        BY <2>1, <2>2, <2>4 DEF Returned, IInv, WorkersWellFormed,
                                WorkerWellFormed, WorkerKnows
      <3>2. last_state[miner_id[j]] \in {"MINING", "PAUSED"}
        BY <2>4 DEF Returned, StablePolls
      <3>3. last_state[miner_id[j]] \in observed[j]
        BY <2>2, <3>1, <3>2 DEF Shown, Telling
      <3> QED
        BY <1>a, <2>1, <3>1, <3>2, <3>3 DEF Evidence, Transitional
    <2> QED
      BY <1>2, <2>3, <2>4
  <1>3. CASE status[j] # "VERIFIED"
    <2>1. ~\E c \in Callers : Caller(c)
      BY <1>0, <1>3 DEF Caller, Request, RequestReboot, LockAndCheck,
         AlreadyActive, set_manual_override, create_control_job, Submit,
         SubmitRefused, jobVars
    <2>2. ASSUME NEW i \in Jobs, WorkerMoves(i)
          PROVE  Verified(j) \/ Returned(j)
      <3>1. i = j
        BY <1>3, <2>2, WorkerFrame DEF WorkerEffect
      <3> QED
        BY <1>0, <1>3, <2>2, <3>1 DEF WorkerMoves, Exception, StartRaises,
           WorkerRaises, Raised, PollRaises, SaveFails, Worker, StartVerified,
           StartReboot,
           LoopEnds, LoopSends, LoopWaits, SendOk, SendFails, GivesUp,
           WaitStopped, WaitElapsed, PollSkips, PollReads, PollSaves,
           CheckVerify, CheckTransition, CheckReturn, finish_control_job,
           jobVars
    <2>3. ~((\E p \in Pollers : Background(p)) \/ Inventory)
      BY <1>3, OtherFrame DEF jobVars
    <2>4. ~(Process \/ UNCHANGED vars)
      BY <1>0, <1>3 DEF Process, Stop, Exit, Crash, ThreadsGone, Restart, vars,
                        jobVars
    <2> QED
      BY <1>2, <2>1, <2>2, <2>3, <2>4 DEF Next, WorkerMoves
  <1> QED
    BY <1>1, <1>3

\* No job is VERIFIED on a reading the ASIC did not give after the job's first
\* attempt, unless its miner was edited or disabled, an older poll was in
\* flight or a poll beside a reboot met a locked database.
THEOREM VerifiedOnlyByTheDevice == Spec => []VerifiedByTheDevice
  <1>1. Init => KnownInv /\ VerifiedByTheDevice
    BY DEF Init, KnownInv, Live, VerifiedByTheDevice
  <1> QED
    BY InductiveInvariant, KnownStep, VerifiedStep, <1>1, PTL DEF Spec

-----------------------------------------------------------------------------
(* The part of JobsEnd that is not liveness: a worker cannot go              *)
(* round for ever.  Work(j) counts what is left of a job: attempts, polls    *)
(* before the deadline, the second loop of a reboot with polls of its own,   *)
(* and the position in the loop.                                             *)
Position(pc) ==
  CASE pc = "queued" -> 7
    [] pc \in {"send", "unsupported"} -> 6
    [] pc = "loop" -> 5
    [] pc = "wait" -> 4
    [] pc = "poll" -> 3
    [] pc = "save" -> 2
    [] pc = "check" -> 1
    [] OTHER -> 0

Left(j) ==
  (CONTROL_MAX_ATTEMPTS - attempts[j]) + (MaxPolls - wpolls[j])
    + (IF wpc[j] = "queued" \/ wphase[j] = "transition" THEN MaxPolls + 1
                                                        ELSE 0)

Ended == {"idle", "raised"}

Work(j) == IF wpc[j] \in Ended THEN 0 ELSE 10 * Left(j) + Position(wpc[j])

\* Work is a natural number, positive while the job has a thread and at most
\* a number that depends on MaxPolls only.
LEMMA WorkIsNatural ==
  ASSUME TypeOK, NEW j \in Jobs
  PROVE  /\ Left(j) \in 0 .. 2 * MaxPolls + 4
         /\ Position(wpc[j]) \in 0 .. 7
         /\ wpc[j] \notin Ended => Position(wpc[j]) \in 1 .. 7
         /\ Work(j) \in 0 .. 20 * MaxPolls + 47
         /\ wpc[j] \notin Ended => Work(j) > 0
  <1>1. /\ attempts[j] \in 0 .. CONTROL_MAX_ATTEMPTS
        /\ wpolls[j] \in 0 .. MaxPolls /\ MaxPolls \in Nat
        /\ wpc[j] \in ControlPoints
    BY ConstantsAssumption DEF TypeOK
  <1>2. Left(j) \in 0 .. 2 * MaxPolls + 4
    BY <1>1 DEF Left
  <1>3. /\ Position(wpc[j]) \in 0 .. 7
        /\ wpc[j] \notin Ended => Position(wpc[j]) \in 1 .. 7
    BY <1>1 DEF Position, Ended
  <1> QED
    BY <1>1, <1>2, <1>3 DEF Work

\* What a step must show to have done some of the work.
LEMMA LessWork ==
  ASSUME TypeOK, TypeOK', NEW j \in Jobs, wpc[j] \notin Ended,
         \/ wpc'[j] \in Ended
         \/ Left(j)' < Left(j)
         \/ Left(j)' = Left(j) /\ Position(wpc[j])' < Position(wpc[j])
  PROVE  Work(j)' < Work(j)
  <1>1. /\ attempts'[j] \in 0 .. CONTROL_MAX_ATTEMPTS
        /\ wpolls'[j] \in 0 .. MaxPolls /\ MaxPolls \in Nat
        /\ wpc'[j] \in ControlPoints
    BY ConstantsAssumption DEF TypeOK
  <1>2. /\ Left(j)' \in Nat /\ Left(j) \in Nat
        /\ Position(wpc[j])' \in 0 .. 7 /\ Position(wpc[j]) \in 1 .. 7
    <2>1. Left(j)' \in Nat
      BY <1>1 DEF Left
    <2>2. Position(wpc[j])' \in 0 .. 7
      BY <1>1 DEF Position
    <2> QED
      BY <2>1, <2>2, WorkIsNatural, ConstantsAssumption
  <1>3. CASE wpc'[j] \in Ended
    BY <1>3, WorkIsNatural DEF Work
  <1>4. CASE wpc'[j] \notin Ended
    <2>1. /\ Work(j)' = 10 * Left(j)' + Position(wpc[j])'
          /\ Work(j) = 10 * Left(j) + Position(wpc[j])
      BY <1>4 DEF Work
    <2> HIDE DEF Work
    <2> QED
      BY <1>2, <1>4, <2>1
  <1> QED
    BY <1>3, <1>4

\* Each step of a worker does some of the work of its job.
LEMMA OwnStepWorks ==
  ASSUME IInv, TypeOK', NEW j \in Jobs, Worker(j)
  PROVE  wpc[j] \notin Ended /\ wpc'[j] # wpc[j] /\ Work(j)' < Work(j)
  <1> USE DEF Ended
  <1>0. /\ wpc \in [Jobs -> ControlPoints]
        /\ wphase \in [Jobs -> {"none", "verify", "transition", "return"}]
        /\ wpolls \in [Jobs -> 0 .. MaxPolls] /\ MaxPolls \in Nat
        /\ attempts \in [Jobs -> 0 .. CONTROL_MAX_ATTEMPTS]
        /\ TypeOK
    BY ConstantsAssumption DEF IInv, TypeOK
  <1>1. CASE StartVerified(j)
    <2>1. wpc[j] = "queued" /\ attempts[j] = 0 /\ wpolls[j] = 0
      BY <1>1, TakenJob
      DEF StartVerified, IInv, WorkersWellFormed, WorkerWellFormed, Live
    <2>2. \/ wpc'[j] = "raised"
          \/ /\ wpc'[j] = "loop" /\ wphase'[j] = "verify"
             /\ attempts'[j] = 0 /\ wpolls'[j] = 0
      BY <1>0, <1>1, <2>1 DEF StartVerified
    <2>3. wpc'[j] = "raised" \/ Left(j)' < Left(j)
      BY <1>0, <2>1, <2>2 DEF Left
    <2> QED
      BY <1>0, <2>1, <2>2, <2>3, LessWork
  <1>2. CASE StartReboot(j)
    <2>1. wpc[j] = "queued" /\ attempts[j] = 0 /\ wpolls[j] = 0
      BY <1>2, TakenJob
      DEF StartReboot, IInv, WorkersWellFormed, WorkerWellFormed, Live
    <2>2. /\ wpc'[j] \in {"send", "unsupported"} /\ wphase'[j] = "transition"
          /\ attempts'[j] = 1 /\ wpolls'[j] = 0
      BY <1>0, <1>2, <2>1 DEF StartReboot
    <2>3. Left(j)' < Left(j)
      BY <1>0, <2>1, <2>2 DEF Left
    <2> QED
      BY <1>0, <2>1, <2>2, <2>3, LessWork
  <1>3. CASE LoopEnds(j) \/ GivesUp(j) \/ WaitStopped(j) \/ Verified(j)
             \/ Returned(j)
    <2>1. wpc[j] \notin Ended /\ wpc'[j] = "idle"
      BY <1>0, <1>3 DEF LoopEnds, GivesUp, WaitStopped, Verified, Returned,
                        finish_control_job, WorkerReturns
    <2> QED
      BY <1>0, <2>1, LessWork
  <1>4. CASE LoopSends(j)
    <2>1. /\ wpc[j] = "loop" /\ wpc'[j] = "send"
          /\ wphase' = wphase /\ wpolls' = wpolls
          /\ attempts'[j] = attempts[j] + 1
      BY <1>0, <1>4 DEF LoopSends, wdata
    <2>2. Left(j)' < Left(j)
      BY <1>0, <2>1 DEF Left
    <2> QED
      BY <1>0, <2>1, <2>2, LessWork
  <1>5. CASE LoopWaits(j) \/ SendOk(j) \/ SendFails(j) \/ WaitElapsed(j)
             \/ PollSkips(j) \/ (\E r \in Readings : PollReads(j, r))
             \/ PollSaves(j)
    <2>1. /\ UNCHANGED <<wphase, wpolls, attempts>>
          /\ \/ wpc[j] = "loop" /\ wpc'[j] = "wait"
             \/ wpc[j] = "send" /\ wpc'[j] \in {"wait", "loop"}
             \/ wpc[j] = "wait" /\ wpc'[j] = "poll"
             \/ wpc[j] = "poll" /\ wpc'[j] \in {"check", "save"}
             \/ wpc[j] = "save" /\ wpc'[j] = "check"
      BY <1>0, <1>5 DEF LoopWaits, SendOk, SendFails, WaitElapsed, PollSkips,
                        PollReads, PollSaves, wdata, jobVars
    <2>2. Left(j)' = Left(j)
      BY <2>1 DEF Left
    <2>3. Position(wpc[j])' < Position(wpc[j])
      BY <2>1 DEF Position
    <2> QED
      BY <1>0, <2>1, <2>2, <2>3, LessWork
  <1>6. CASE CheckVerify(j) \/ CheckTransition(j) \/ CheckReturn(j)
    <2>1. /\ wpc[j] = "check" /\ wpc'[j] = "loop" /\ attempts' = attempts
          /\ \/ wphase'[j] = wphase[j] /\ wpolls'[j] = wpolls[j] + 1
             \/ /\ wphase[j] = "transition" /\ wphase'[j] = "return"
                /\ wpolls'[j] = 0
      BY <1>0, <1>6 DEF CheckVerify, CheckTransition, CheckReturn, jobVars
    <2>2. Left(j)' < Left(j)
      BY <1>0, <2>1 DEF Left
    <2> QED
      BY <1>0, <2>1, <2>2, LessWork
  <1> QED
    BY <1>1, <1>2, <1>3, <1>4, <1>5, <1>6 DEF Worker

\* An exception ends the worker, or the poll of a reboot, or makes a reading
\* OFFLINE.
LEMMA ExceptionWorks ==
  ASSUME IInv, TypeOK', NEW j \in Jobs, Exception(j)
  PROVE  IF wpc'[j] = wpc[j] THEN Work(j)' = Work(j) ELSE Work(j)' < Work(j)
  <1> USE DEF Ended
  <1>0. wpc \in [Jobs -> ControlPoints] /\ TypeOK
    BY DEF IInv, TypeOK
  <1>1. CASE StartRaises(j) \/ WorkerRaises(j)
    <2>1. wpc[j] \notin Ended /\ wpc'[j] = "raised"
      BY <1>0, <1>1, TakenJob DEF StartRaises, WorkerRaises, Raised, Live
    <2> QED
      BY <1>0, <2>1, LessWork
  <1>2. CASE PollRaises(j)
    <2>1. /\ UNCHANGED <<wphase, wpolls, attempts>>
          /\ wpc[j] \in {"poll", "save"} /\ wpc'[j] = "check"
      BY <1>0, <1>2 DEF PollRaises, jobVars
    <2>2. Left(j)' = Left(j)
      BY <2>1 DEF Left
    <2>3. Position(wpc[j])' < Position(wpc[j])
      BY <2>1 DEF Position
    <2> QED
      BY <1>0, <2>1, <2>2, <2>3, LessWork
  <1>3. CASE SaveFails(j)
    BY <1>3 DEF SaveFails, Work, Left, Position, jobVars
  <1> QED
    BY <1>1, <1>2, <1>3 DEF Exception

\* Nothing else gives a worker more to do.
LEMMA WorkStep ==
  ASSUME IInv, TypeOK', [Next]_vars, NEW j \in Jobs, wpc[j] \notin Ended
  PROVE  IF wpc'[j] = wpc[j] THEN Work(j)' = Work(j) ELSE Work(j)' < Work(j)
  <1>0. /\ wpc \in [Jobs -> ControlPoints]
        /\ TypeOK
    BY DEF IInv, TypeOK
  <1>1. ASSUME UNCHANGED <<wpc[j], wphase[j], wpolls[j], attempts[j]>>
        PROVE  wpc'[j] = wpc[j] /\ Work(j)' = Work(j)
    BY <1>1 DEF Work, Left, Position, Ended
  <1>2. ASSUME NEW c \in Callers, Caller(c)
        PROVE  UNCHANGED <<wpc[j], wphase[j], wpolls[j], attempts[j]>>
    <2>1. CASE Submit(c)
      <3>1. cjob[c] \in Jobs /\ cjob[c] # j
        BY <2>1 DEF IInv, CallsWellFormed, Ownership, SubmitOwns, Submit, Ended
      <3> QED
        BY <1>0, <2>1, <3>1 DEF Submit, jobVars, wdata
    <2>2. CASE ~Submit(c)
      BY <1>2, <2>2 DEF Caller, Request, RequestReboot, LockAndCheck,
         AlreadyActive, set_manual_override, create_control_job, SubmitRefused,
         jobVars, wdata
    <2> QED
      BY <2>1, <2>2
  <1>3. ASSUME NEW i \in Jobs, i # j, WorkerMoves(i)
        PROVE  UNCHANGED <<wpc[j], wphase[j], wpolls[j], attempts[j]>>
    BY <1>3, WorkerFrame DEF WorkerEffect
  <1>4. CASE (\E p \in Pollers : Background(p)) \/ Inventory
    BY <1>1, <1>4, OtherFrame DEF jobVars, wdata
  <1>5. CASE ThreadsGone
    <2>1. wpc'[j] = "idle"
      BY <1>5 DEF ThreadsGone
    <2> QED
      BY <1>0, <2>1, LessWork DEF Ended
  <1>6. CASE Stop \/ Restart \/ UNCHANGED vars
    BY <1>1, <1>6 DEF Stop, Restart, vars, jobVars, wdata
  <1> QED
    BY <1>1, <1>2, <1>3, <1>4, <1>5, <1>6, OwnStepWorks, ExceptionWorks
    DEF Next, WorkerMoves, Process, Exit, Crash

\* Retries, polls and the two loops of a reboot come to an end whatever the
\* device answers and whatever is edited: each step of a job in the executor or
\* with a worker takes something from a natural number that nothing adds to.
\* So a job makes at most 20 * MaxPolls + 47 steps once it is submitted.
WorkIsDone ==
  [][\A j \in Jobs : wpc[j] \notin Ended =>
       IF wpc'[j] = wpc[j] THEN Work(j)' = Work(j)
                           ELSE Work(j)' < Work(j)]_vars

WorkIsBounded == \A j \in Jobs : Work(j) \in 0 .. 20 * MaxPolls + 47

THEOREM WorkersComeToAnEnd == Spec => []WorkIsBounded /\ WorkIsDone
  <1>1. IInv => WorkIsBounded
    BY WorkIsNatural DEF IInv, WorkIsBounded
  <1>2. IInv /\ IInv' /\ [Next]_vars
          => [\A j \in Jobs : wpc[j] \notin Ended =>
                IF wpc'[j] = wpc[j] THEN Work(j)' = Work(j)
                                    ELSE Work(j)' < Work(j)]_vars
    BY WorkStep DEF IInv
  <1> QED
    BY InductiveInvariant, <1>1, <1>2, PTL DEF Spec, WorkIsDone
=============================================================================

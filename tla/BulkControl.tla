----------------------------- MODULE BulkControl -----------------------------
(***************************************************************************)
(* control/bulk.py and the routes of api/control.py: one request fans out  *)
(* to the control queue, ASIC by ASIC.  The eligibility of the selection   *)
(* is read once; the queue looks at each ASIC again when its turn comes.   *)
(*                                                                         *)
(* The pipeline behind the queue is JobLedger, which ControlJobs           *)
(* implements: a job is opened in one step, under the queue's lock.        *)
(***************************************************************************)
EXTENDS JobLedger, Sequences, SequencesExt

CONSTANTS Groups,
          BULK_CONTROL_MAX_TARGETS,
          MaxEdits       \* bound: changes of the miners table

ASSUME BulkAssumption ==
  /\ BULK_CONTROL_MAX_TARGETS \in Nat /\ MaxEdits \in Nat
  /\ None \notin Jobs \cup Groups /\ Groups # {}
  /\ IsFiniteSet(Miners)

VARIABLES
  known,    \* the ASICs in the table
  enabled, supported,   \* their columns; supported: the driver is one of two
  group_id,
  bulk,     \* the request: its point, what it selects, the targets with
            \* their eligibility, and the results so far, in the same order
  edits,
  lately    \* history: the ASICs that could be commanded at some moment
            \* since the last result

rows == <<known, enabled, supported, group_id>>
vars == <<ledger, rows, bulk, edits, lately>>

Idle == [pc |-> "idle"]

Commandable == {m \in known : enabled[m] /\ supported[m]}

Init ==
  /\ LedgerInit
  /\ known \in {Miners} \cup {Miners \ {m} : m \in Miners}
  /\ enabled = [m \in Miners |-> TRUE]
  /\ supported = [m \in Miners |-> TRUE]
  /\ group_id = [m \in Miners |-> CHOOSE g \in Groups : TRUE]
  /\ bulk = Idle
  /\ edits = 0
  /\ lately = {}

ActiveJobs(m) == {j \in Jobs : miner_id[j] = m /\ status[j] \in ActiveStatuses}

-----------------------------------------------------------------------------
(* The request                                                             *)

eligibility(m) ==
  IF m \notin known THEN "NOT_FOUND"
  ELSE IF ~enabled[m] THEN "DISABLED"
  ELSE IF ~supported[m] THEN "UNSUPPORTED_DRIVER"
  ELSE IF ActiveJobs(m) # {} THEN "ACTIVE_JOB" ELSE "ELIGIBLE"

\* list_bulk_control_miners_by_group
ByGroup(g) == {m \in known : group_id[m] = g}

\* normalize_bulk_control_request.
Accepts(ids) ==
  /\ Len(ids) \in 1 .. BULK_CONTROL_MAX_TARGETS
  /\ IsInjective(ids)

\* Every target as it is at this moment, with its active job.
resolve_bulk_control_selection(ids) ==
  [i \in DOMAIN ids |->
     [id |-> ids[i], code |-> eligibility(ids[i]),
      job |-> IF ActiveJobs(ids[i]) = {} THEN None
              ELSE CHOOSE j \in ActiveJobs(ids[i]) : TRUE]]

\* Bound: one request until a restart.
Starts(action, ids, targets) ==
  /\ bulk.pc = "idle"
  /\ bulk' = [pc |-> "next", action |-> action, ids |-> ids, targets |-> targets,
              results |-> <<>>]
  /\ lately' = Commandable
  /\ UNCHANGED <<ledger, rows, edits>>

\* A reboot has to be confirmed.  The route holds the event loop from here on:
\* there is one such request at a time.
execute_bulk_control(action, ids, confirmed) ==
  /\ Accepts(ids)
  /\ action = "reboot" => confirmed
  /\ Starts(action, ids, resolve_bulk_control_selection(ids))

\* POST /api/all/{action}: every ASIC that can be commanded, one by one.
all_action(action) ==
  /\ action \in {"pause", "resume"}
  /\ LET ids == SetToSeq(Commandable) IN
     Starts(action, ids, [i \in DOMAIN ids |->
                            [id |-> ids[i], code |-> "ELIGIBLE", job |-> None]])

-----------------------------------------------------------------------------
(* The fan-out                                                             *)

TurnOf == bulk.targets[Len(bulk.results) + 1]

AtTurn == bulk.pc = "next" /\ Len(bulk.results) < Len(bulk.targets)

Answers(accepted, job, code) ==
  /\ bulk' = [bulk EXCEPT !.pc = "next", !.results =
                Append(@, [id |-> TurnOf.id, accepted |-> accepted, job |-> job,
                           code |-> code])]
  /\ lately' = Commandable

\* What the snapshot rejects is answered without the queue.
Rejected ==
  /\ AtTurn /\ TurnOf.code # "ELIGIBLE"
  /\ Answers(FALSE, TurnOf.job, TurnOf.code)
  /\ UNCHANGED <<ledger, rows, edits>>

\* Mutant: the queue relies on the eligibility that was read before.
TrustSnapshot ==
  /\ AtTurn /\ TurnOf.code = "ELIGIBLE"
  /\ bulk' = [bulk EXCEPT !.pc = "lock"]
  /\ UNCHANGED <<ledger, rows, edits, lately>>

\* Mutant: an ASIC that the queue refuses is left out of the answer.
SkipRefused ==
  /\ AtTurn /\ TurnOf.code = "ELIGIBLE"
  /\ IF TurnOf.id \in Commandable
     THEN bulk' = [bulk EXCEPT !.pc = "lock"] /\ UNCHANGED lately
     ELSE /\ bulk' = [bulk EXCEPT !.targets = RemoveAt(@, Len(bulk.results) + 1)]
          /\ lately' = Commandable
  /\ UNCHANGED <<ledger, rows, edits>>

\* queue_control and queue_reboot look at the row, or raise.
LookAtRow ==
  /\ AtTurn /\ TurnOf.code = "ELIGIBLE"
  /\ IF TurnOf.id \in Commandable
     THEN bulk' = [bulk EXCEPT !.pc = "lock"] /\ UNCHANGED lately
     ELSE Answers(FALSE, None, "QUEUE_ERROR")
  /\ UNCHANGED <<ledger, rows, edits>>

MaxAttempts(action) == IF action = "reboot" THEN 1 ELSE 3

\* Mutant: "already active" counts as accepted.
AlreadyIsAccepted ==
  LET m == TurnOf.id IN
  /\ bulk.pc = "lock"
  /\ \/ \E j \in ActiveJobs(m) : Answers(TRUE, j, "QUEUED") /\ UNCHANGED ledger
     \/ \E j \in Jobs : /\ Open(j, m, MaxAttempts(bulk.action))
                        /\ Answers(TRUE, j, "QUEUED")
  /\ UNCHANGED <<rows, edits>>

\* Under the lock: the job that is active, or a new one.  It may also raise
\* without a job (the database is locked).  After the insert nothing raises
\* while there is somebody to answer: log_event catches everything, and submit
\* refuses only once the interpreter shuts down, which is after the event loop
\* that runs the request.
InTheLock ==
  LET m == TurnOf.id IN
  /\ bulk.pc = "lock"
  /\ \/ \E j \in ActiveJobs(m) : Answers(FALSE, j, "ACTIVE_JOB") /\ UNCHANGED ledger
     \/ \E j \in Jobs : /\ Open(j, m, MaxAttempts(bulk.action))
                        /\ Answers(TRUE, j, "QUEUED")
     \/ Answers(FALSE, None, "QUEUE_ERROR") /\ UNCHANGED ledger
  /\ UNCHANGED <<rows, edits>>

Finish ==
  /\ bulk.pc = "next" /\ Len(bulk.results) = Len(bulk.targets)
  /\ bulk' = [bulk EXCEPT !.pc = "done"]
  /\ UNCHANGED <<ledger, rows, edits, lately>>

-----------------------------------------------------------------------------
(* What happens around it                                                  *)

\* Other requests and the scheduler queue; workers run and settle jobs.
\* (How often they try is left out: nobody here looks at it.)
Pipeline ==
  /\ \/ \E j \in Jobs, m \in Commandable : Open(j, m, 3)
     \/ \E j \in Jobs, n \in {0, 1} : Begin(j, n)
     \/ \E j \in Jobs, s \in {"VERIFIED", "FAILED"} : Settle(j, s)
  /\ UNCHANGED <<rows, bulk, edits, lately>>

\* The process restarts: the request has no answer, active jobs are aborted.
Restart ==
  /\ edits < MaxEdits /\ edits' = edits + 1
  /\ bulk' = Idle
  /\ AbortActive
  /\ UNCHANGED <<rows, lately>>

\* Edits, discovery of an ASIC, and moves between groups.
Edit(m) ==
  /\ edits < MaxEdits /\ edits' = edits + 1
  /\ \/ known' = known \cup {m} /\ UNCHANGED <<enabled, supported, group_id>>
     \/ enabled' = [enabled EXCEPT ![m] = ~@] /\ UNCHANGED <<known, supported, group_id>>
     \/ supported' = [supported EXCEPT ![m] = ~@] /\ UNCHANGED <<known, enabled, group_id>>
     \/ /\ \E g \in Groups \cup {None} : group_id' = [group_id EXCEPT ![m] = g]
        /\ UNCHANGED <<known, enabled, supported>>
  /\ lately' = lately \cup Commandable'
  /\ UNCHANGED <<ledger, bulk>>

Next ==
  \/ \E action \in {"pause", "reboot"} :
       \/ \E ids \in BoundedSeq(Miners, BULK_CONTROL_MAX_TARGETS + 1), confirmed \in BOOLEAN :
            execute_bulk_control(action, ids, confirmed)
       \/ \E g \in Groups, confirmed \in BOOLEAN :
            execute_bulk_control(action, SetToSeq(ByGroup(g)), confirmed)
       \/ all_action(action)
  \/ Rejected
  \/ LookAtRow
  \/ InTheLock
  \/ Finish
  \/ Pipeline
  \/ Restart
  \/ \E m \in Miners : Edit(m)

Spec == Init /\ [][Next]_vars

-----------------------------------------------------------------------------
(* Properties                                                              *)

\* "reports deterministic per-target results" (bulk.py): every selected ASIC
\* is answered once and in its place, whatever happened to it since the
\* selection was read.
EveryTargetIsAnswered ==
  bulk.pc = "done" =>
    /\ Len(bulk.results) = Len(bulk.ids)
    /\ \A i \in DOMAIN bulk.ids : bulk.results[i].id = bulk.ids[i]

Opens(j) == status[j] = "NONE" /\ status'[j] = "QUEUED"

FanOut == bulk' # bulk /\ bulk'.pc = "next" /\ bulk'.results # <<>>

\* An answer says "accepted" exactly if this request opened the job it names,
\* for this ASIC: never for a job of somebody else.
AcceptedMeansQueuedByIt ==
  [][FanOut /\ bulk.pc # "idle" /\ Len(bulk'.results) > Len(bulk.results)
       => LET r == Last(bulk'.results) IN
          /\ r.accepted <=> \E j \in Jobs : Opens(j)
          /\ \A j \in Jobs : Opens(j) => r.job = j /\ miner_id'[j] = r.id]_vars

\* An ASIC that has been disabled, or without a driver, since before its turn
\* came gets no job, although the selection had found it eligible.
NoJobOnAStaleLook ==
  [][\A j \in Jobs : Opens(j) /\ FanOut => miner_id'[j] \in lately]_vars
=============================================================================

------------------------------ MODULE JobLedger ------------------------------
(***************************************************************************)
(* What the control_jobs table promises to its readers (the dashboard, the *)
(* scheduler, bulk control): an abstract specification with no queue lock, *)
(* no executor, no worker and no device.                                   *)
(*                                                                         *)
(* A job is created QUEUED for a miner that has no active job, becomes     *)
(* RUNNING once, counts its attempts up to its maximum, and ends exactly   *)
(* once as VERIFIED, FAILED or - when the service restarts - ABORTED.      *)
(* ControlJobs implements this specification.                              *)
(***************************************************************************)
EXTENDS Naturals

CONSTANTS Jobs,      \* identifiers of control_jobs rows
          Miners,    \* identifiers of miners rows
          None       \* the miner of a row that does not exist yet

VARIABLES status, miner_id, attempts, max     \* columns, by job

ledger == <<status, miner_id, attempts, max>>
ActiveStatuses == {"QUEUED", "RUNNING"}

LedgerInit ==
  /\ status = [j \in Jobs |-> "NONE"]
  /\ miner_id = [j \in Jobs |-> None]
  /\ attempts = [j \in Jobs |-> 0]
  /\ max = [j \in Jobs |-> 0]

Open(j, m, mx) ==
  /\ status[j] = "NONE"
  /\ \A i \in Jobs : miner_id[i] = m => status[i] \notin ActiveStatuses
  /\ status' = [status EXCEPT ![j] = "QUEUED"]
  /\ miner_id' = [miner_id EXCEPT ![j] = m]
  /\ max' = [max EXCEPT ![j] = mx]
  /\ UNCHANGED attempts

\* A worker begins; the reboot worker counts its only attempt at once.
Begin(j, n) ==
  /\ status[j] = "QUEUED"
  /\ n <= max[j]
  /\ status' = [status EXCEPT ![j] = "RUNNING"]
  /\ attempts' = [attempts EXCEPT ![j] = n]
  /\ UNCHANGED <<miner_id, max>>

Attempt(j) ==
  /\ status[j] = "RUNNING"
  /\ attempts[j] < max[j]
  /\ attempts' = [attempts EXCEPT ![j] = @ + 1]
  /\ UNCHANGED <<status, miner_id, max>>

\* Only a job that tried to command its miner can be verified.
Settle(j, s) ==
  /\ status[j] = "RUNNING"
  /\ s = "VERIFIED" => attempts[j] > 0
  /\ status' = [status EXCEPT ![j] = s]
  /\ UNCHANGED <<miner_id, attempts, max>>

AbortActive ==
  /\ status' = [j \in Jobs |-> IF status[j] \in ActiveStatuses THEN "ABORTED"
                               ELSE status[j]]
  /\ UNCHANGED <<miner_id, attempts, max>>

LedgerNext ==
  \/ \E j \in Jobs, m \in Miners, mx \in {1, 3} : Open(j, m, mx)
  \/ \E j \in Jobs, n \in {0, 1} : Begin(j, n)
  \/ \E j \in Jobs : Attempt(j)
  \/ \E j \in Jobs, s \in {"VERIFIED", "FAILED"} : Settle(j, s)
  \/ AbortActive

LedgerSpec == LedgerInit /\ [][LedgerNext]_ledger
=============================================================================

------------------------------ MODULE Anomalies ------------------------------
(***************************************************************************)
(* The anomaly thread (anomalies/service.py) and the transitions of a      *)
(* condition (anomalies/repository.py).  A scan reads the policy, the      *)
(* layers of the groups, those of the miners, the miners, the maintenance  *)
(* windows and the schedule one after the other, while requests and polls  *)
(* change them, and then decides on every condition of every ASIC in a     *)
(* transaction of its own.                                                 *)
(*                                                                         *)
(* Time is the age of what was written, in seconds; ages stop at MaxAge,   *)
(* and no grace of the model is longer.                                    *)
(***************************************************************************)
EXTENDS AnomalyPolicies, Sequences

CONSTANTS Miners, Groups, None,
          Policies,      \* values of the global policy
          GroupLayers,   \* layers of groups, and of miners: valid together
          MinerLayers,   \* or, after writes that overlapped, not
          Temps,         \* readings, in tenths of a degree
          MaxAge,        \* bound: ages are told apart up to here
          MaxEvents      \* bound: changes from outside the thread

AnomaliesAssumption ==
  /\ MaxAge \in Nat /\ MaxEvents \in Nat /\ None \notin Nat
  /\ Inherit \in GroupLayers /\ Inherit \in MinerLayers
  /\ \A p \in Policies : normalize_anomaly_policy(p)

ASSUME AnomaliesAssumption

Codes == {"OFFLINE", "OVERHEAT", "SCHEDULE_MISMATCH"}

VARIABLES
  policy, group_overrides, miner_overrides,   \* the layers that are stored
  miners,      \* the rows: [enabled, known (its driver is one that is scanned),
               \* state, temp, action (of its control job), following, group]
  desired,     \* the state its schedule asks for, or None
  covered,     \* the miners in active maintenance
  candidates,  \* per condition, the age of anomaly_candidates.since_ts or None
  issues,      \* rows: [condition, status, acked]
  scan,        \* the anomaly thread
  quiet,       \* history: seconds since a scan last found the condition
               \* absent or suppressed
  events       \* changes from outside so far

layers == <<policy, group_overrides, miner_overrides>>
farm == <<layers, miners, desired, covered>>
ledger == <<candidates, issues>>
vars == <<farm, ledger, scan, quiet, events>>

Conditions == Miners \X Codes

\* The thread between two scans, or before the first one.
Waiting == [pc |-> "wait"]

Init ==
  /\ policy \in Policies
  /\ group_overrides \in [Groups -> GroupLayers]
  /\ miner_overrides = [m \in Miners |-> Inherit]
  /\ miners \in [Miners -> [enabled : {TRUE}, known : {TRUE}, state : {"RUNNING"},
                            temp : {None}, action : {None}, following : {TRUE},
                            group : {None}]]
  /\ desired = [m \in Miners |-> None]
  /\ covered = {}
  /\ candidates = [c \in Conditions |-> None]
  /\ issues = <<>>
  /\ scan = Waiting
  /\ quiet = [c \in Conditions |-> 0]
  /\ events = 0

-----------------------------------------------------------------------------
(* A condition (repository.py)                                             *)

ActiveIssues(c) ==
  {i \in DOMAIN issues : issues[i].condition = c /\ issues[i].status = "ACTIVE"}

active_issue_exists(c) == ActiveIssues(c) # {}

Matured(c, grace) == candidates[c] # None /\ candidates[c] >= grace

\* Mutant: suppression keeps the candidate for later.
KeepSuppressed(c, observed, suppress_new, grace) ==
  IF ~observed THEN None
  ELSE IF active_issue_exists(c) \/ suppress_new THEN candidates[c]
  ELSE IF candidates[c] = None THEN 0
  ELSE IF Matured(c, grace) THEN None ELSE candidates[c]

\* Mutant: an issue that opens keeps its candidate.
KeepOpened(c, observed, suppress_new, grace) ==
  IF ~observed THEN None
  ELSE IF active_issue_exists(c) THEN candidates[c]
  ELSE IF suppress_new THEN None
  ELSE IF candidates[c] = None THEN 0 ELSE candidates[c]

CandidateAfter(c, observed, suppress_new, grace) ==
  IF ~observed THEN None
  ELSE IF active_issue_exists(c) THEN candidates[c]
  ELSE IF suppress_new THEN None
  ELSE IF candidates[c] = None THEN 0
  ELSE IF Matured(c, grace) THEN None ELSE candidates[c]

\* Mutant: a condition that returns opens its last row again.
ReopenLast(c, observed, suppress_new, grace) ==
  LET rows == {i \in DOMAIN issues : issues[i].condition = c} IN
  IF observed /\ (active_issue_exists(c) \/ suppress_new \/ ~Matured(c, grace))
  THEN issues
  ELSE IF observed /\ rows = {}
  THEN Append(issues, [condition |-> c, status |-> "ACTIVE", acked |-> FALSE])
  ELSE [i \in DOMAIN issues |->
          IF i \notin rows THEN issues[i]
          ELSE [issues[i] EXCEPT !.status = IF observed THEN "ACTIVE" ELSE "RESOLVED"]]

IssuesAfter(c, observed, suppress_new, grace) ==
  IF observed /\ (active_issue_exists(c) \/ suppress_new \/ ~Matured(c, grace))
  THEN issues
  ELSE IF observed
  THEN Append(issues, [condition |-> c, status |-> "ACTIVE", acked |-> FALSE])
  ELSE [i \in DOMAIN issues |->
          IF i \in ActiveIssues(c) THEN [issues[i] EXCEPT !.status = "RESOLVED"]
          ELSE issues[i]]

transition_anomaly_condition(c, observed, suppress_new, grace) ==
  /\ candidates' = [candidates EXCEPT ![c] =
                      CandidateAfter(c, observed, suppress_new, grace)]
  /\ issues' = IssuesAfter(c, observed, suppress_new, grace)

-----------------------------------------------------------------------------
(* A scan (service.py)                                                     *)

Thread(next) == scan' = next /\ UNCHANGED <<farm, events>>

Reads(next) == Thread(next) /\ UNCHANGED <<ledger, quiet>>

\* The interval is over: anomaly_loop reads the policy.
load_anomaly_policy ==
  /\ scan.pc = "wait"
  /\ Reads([pc |-> "groups", policy |-> policy])

load_group_anomaly_override_snapshot ==
  /\ scan.pc = "groups"
  /\ Reads([pc |-> "overrides", policy |-> scan.policy,
            groups |-> [g \in Groups |->
              load_group_anomaly_overrides(scan.policy, group_overrides[g])]])

GroupLayer(g) == IF g = None THEN Inherit ELSE scan.groups[g]

\* Mutant: the rows are taken as they are.
TakeOverrides ==
  /\ scan.pc = "overrides"
  /\ Reads([pc |-> "rows", policy |-> scan.policy, groups |-> scan.groups,
            overrides |-> miner_overrides])

\* The layers of the miners, filtered with the groups of this moment.
load_anomaly_override_snapshot ==
  /\ scan.pc = "overrides"
  /\ Reads([pc |-> "rows", policy |-> scan.policy, groups |-> scan.groups,
            overrides |-> [m \in Miners |->
              load_miner_anomaly_overrides(scan.policy, GroupLayer(miners[m].group),
                                           miner_overrides[m])]])

\* Only ASICs with a driver are listed.
anomaly_scan_snapshot ==
  /\ scan.pc = "rows"
  /\ Reads([pc |-> "maintenance", policy |-> scan.policy, groups |-> scan.groups,
            overrides |-> scan.overrides, rows |-> miners,
            todo |-> {m \in Miners : miners[m].known}])

active_maintenance_snapshot ==
  /\ scan.pc = "maintenance"
  /\ Reads([pc |-> "schedule", policy |-> scan.policy, groups |-> scan.groups,
            overrides |-> scan.overrides, rows |-> scan.rows, todo |-> scan.todo,
            covered |-> covered])

anomaly_schedule_states ==
  /\ scan.pc = "schedule"
  /\ Reads([pc |-> "miner", policy |-> scan.policy, groups |-> scan.groups,
            overrides |-> scan.overrides, rows |-> scan.rows, todo |-> scan.todo,
            covered |-> scan.covered, desired |-> desired, miner |-> None])

\* resolve_layered_anomaly_policy raises if the ASIC has a group now under
\* which its layer is not valid: the rest of the scan is lost.
ScanMiner(m) ==
  /\ scan.pc = "miner" /\ m \in scan.todo
  /\ Reads(IF Resolves(scan.policy, GroupLayer(scan.rows[m].group), scan.overrides[m])
           THEN [scan EXCEPT !.pc = "OFFLINE", !.miner = m, !.todo = @ \ {m}]
           ELSE Waiting)

EffectivePolicy ==
  resolve_layered_anomaly_policy(scan.policy, GroupLayer(scan.rows[scan.miner].group),
                                 scan.overrides[scan.miner])

\* Mutant: whether the ASIC is enabled is not looked at.
DisabledToo(code) ==
  LET row == scan.rows[scan.miner] IN
  CASE code = "OFFLINE" -> offline_observed(row.state, row.action)
    [] OTHER            -> FALSE

\* A disabled ASIC shows no condition.
Observed(code) ==
  LET row == scan.rows[scan.miner]
      wanted == scan.desired[scan.miner]
  IN row.enabled /\
     CASE code = "OFFLINE"  -> offline_observed(row.state, row.action)
       [] code = "OVERHEAT" ->
            overheat_observed(row.temp, active_issue_exists(<<scan.miner, "OVERHEAT">>),
                              EffectivePolicy["hot_temp_c"],
                              EffectivePolicy["hot_clear_c"], None)
       [] OTHER -> /\ schedule_applicable(row.following, wanted, row.action # None, None)
                   /\ row.state # wanted

Grace(code) ==
  IF ~scan.rows[scan.miner].enabled THEN 0
  ELSE EffectivePolicy[CASE code = "OFFLINE"  -> "offline_grace_seconds"
                         [] code = "OVERHEAT" -> "hot_grace_seconds"
                         [] OTHER             -> "schedule_grace_seconds"]

NextCode(code) ==
  CASE code = "OFFLINE" -> "OVERHEAT" [] code = "OVERHEAT" -> "SCHEDULE_MISMATCH"
    [] OTHER -> "miner"

set_anomaly_condition(code) ==
  LET c == <<scan.miner, code>>
      suppress_new == scan.miner \in scan.covered
  IN
  /\ scan.pc = code
  /\ transition_anomaly_condition(c, Observed(code), suppress_new, Grace(code))
  /\ quiet' = IF Observed(code) /\ ~suppress_new THEN quiet
              ELSE [quiet EXCEPT ![c] = 0]
  /\ Thread([scan EXCEPT !.pc = NextCode(code)])

\* The scan is done: the policy is read for its interval, and the wait begins.
EndOfScan ==
  /\ scan.pc = "miner" /\ scan.todo = {}
  /\ Reads(Waiting)

-----------------------------------------------------------------------------
(* What happens around the thread                                          *)

Event == events < MaxEvents /\ events' = events + 1

\* Requests that write a layer (AnomalyPolicyStore.tla).
SetLayer ==
  /\ Event
  /\ \/ \E p \in Policies \ {policy} :
          policy' = p /\ UNCHANGED <<group_overrides, miner_overrides>>
     \/ \E g \in Groups, o \in GroupLayers :
          /\ group_overrides' = [group_overrides EXCEPT ![g] = o]
          /\ UNCHANGED <<policy, miner_overrides>>
     \/ \E m \in Miners, o \in MinerLayers :
          /\ miner_overrides' = [miner_overrides EXCEPT ![m] = o]
          /\ UNCHANGED <<policy, group_overrides>>
  /\ UNCHANGED <<miners, desired, covered, ledger, scan, quiet>>

\* Polls, edits, control jobs, overrides and moves between groups.
SetMiner(m) ==
  /\ Event
  /\ miners' \in
       {[miners EXCEPT ![m].enabled = ~@], [miners EXCEPT ![m].known = ~@],
        [miners EXCEPT ![m].following = ~@]}
       \cup {[miners EXCEPT ![m].state = s] : s \in {"RUNNING", "STOPPED", "OFFLINE"}}
       \cup {[miners EXCEPT ![m].temp = t] : t \in Temps \cup {None}}
       \cup {[miners EXCEPT ![m].action = a] : a \in {None, "reboot", "stop"}}
       \cup {[miners EXCEPT ![m].group = g] : g \in Groups \cup {None}}
  /\ miners' # miners
  /\ UNCHANGED <<layers, desired, covered, ledger, scan, quiet>>

\* A rule or its hour changes what the schedule asks for.
SetDesired(m) ==
  /\ Event
  /\ \E s \in {None, "RUNNING", "STOPPED"} \ {desired[m]} :
       desired' = [desired EXCEPT ![m] = s]
  /\ UNCHANGED <<layers, miners, covered, ledger, scan, quiet>>

\* A maintenance window begins or ends.
SetCovered(m) ==
  /\ Event
  /\ covered' \in {covered \cup {m}, covered \ {m}} \ {covered}
  /\ UNCHANGED <<layers, miners, desired, ledger, scan, quiet>>

\* PUT and DELETE /api/issues/{id}/acknowledgement, on a row of any status
set_issue_acknowledgement(i) ==
  /\ Event
  /\ ~issues[i].acked
  /\ issues' = [issues EXCEPT ![i].acked = TRUE]
  /\ UNCHANGED <<farm, candidates, scan, quiet>>

clear_issue_acknowledgement(i) ==
  /\ Event
  /\ issues[i].acked
  /\ issues' = [issues EXCEPT ![i].acked = FALSE]
  /\ UNCHANGED <<farm, candidates, scan, quiet>>

\* The read of the interval after a scan, which may have raised before its
\* end, is outside the try; only a restart starts the thread again.
EndOfScanFails ==
  /\ Event
  /\ scan.pc \notin {"wait", "stopped"}
  /\ scan' = [pc |-> "stopped"]
  /\ UNCHANGED <<farm, ledger, quiet>>

\* A statement of a scan raises (the database is locked) and the loop catches
\* it; or the process restarts.
ScanIsLost ==
  /\ Event
  /\ scan.pc # "wait"
  /\ scan' = Waiting
  /\ UNCHANGED <<farm, ledger, quiet>>

Later(age) == IF age = None \/ age = MaxAge THEN age ELSE age + 1

Tick ==
  /\ candidates' = [c \in Conditions |-> Later(candidates[c])]
  /\ quiet' = [c \in Conditions |-> Later(quiet[c])]
  /\ UNCHANGED <<farm, issues, scan, events>>

-----------------------------------------------------------------------------
Scan ==
  \/ load_anomaly_policy
  \/ load_group_anomaly_override_snapshot
  \/ load_anomaly_override_snapshot
  \/ anomaly_scan_snapshot
  \/ active_maintenance_snapshot
  \/ anomaly_schedule_states
  \/ \E m \in Miners : ScanMiner(m)
  \/ \E code \in Codes : set_anomaly_condition(code)
  \/ EndOfScan

Outside ==
  \/ SetLayer
  \/ \E m \in Miners : SetMiner(m) \/ SetDesired(m) \/ SetCovered(m)
  \/ \E i \in DOMAIN issues :
       set_issue_acknowledgement(i) \/ clear_issue_acknowledgement(i)
  \/ EndOfScanFails
  \/ ScanIsLost

Next == Scan \/ Outside \/ Tick

Spec == Init /\ [][Next]_vars

\* The thread goes on unless it has stopped, and time passes.  Nothing is
\* assumed of the rest.  (Weak fairness of Scan and of Tick, written out so
\* that TLC need not evaluate the actions once more: only Scan changes scan
\* without an event, and only Tick changes an age without scan.)
FairSpec ==
  /\ Spec
  /\ []<>(scan.pc = "stopped") \/ []<><<events' = events>>_scan
  /\ \/ []<>(\A c \in Conditions : candidates[c] \in {None, MaxAge} /\ quiet[c] = MaxAge)
     \/ []<><<scan' = scan>>_<<candidates, quiet>>

-----------------------------------------------------------------------------
(* Properties                                                              *)

\* A condition has one open issue or a candidate for one, never both: the
\* candidate left beside an issue would open a second one at once.
OneEpisode ==
  \A c \in Conditions :
    \A i, j \in ActiveIssues(c) : i = j /\ candidates[c] = None

\* An issue opens only if no scan of the last "grace" seconds - of the
\* effective policy of this moment - found its condition absent or covered
\* by maintenance, across restarts, failed scans and changes of the policy.
OpeningsAreEarned ==
  [][\A code \in Codes :
       scan.pc = code /\ Len(issues') > Len(issues)
         => quiet[<<scan.miner, code>>] >= Grace(code)]_vars

\* The layers that a scan has read resolve, whatever is stored, unless the
\* ASIC has changed its group since: a scan loses its rest only then.
ScansAbortOnlyAfterMoves ==
  [][\A m \in Miners :
       ScanMiner(m) /\ scan'.pc = "wait"
         => \E g \in Groups \cup {None} :
              /\ g # scan.rows[m].group
              /\ Resolves(scan.policy, GroupLayer(g), scan.overrides[m])]_vars

Ledger == INSTANCE IssueLedger

\* The issues are episodes: what IssueLedger promises.
IssuesAreEpisodes == Ledger!Spec

Stopped == scan.pc = "stopped"

\* An ASIC that stays disabled has no open issue in the end.
DisabledIsQuiet ==
  \A m \in Miners :
    <>[](~miners[m].enabled /\ miners[m].known /\ ~Stopped)
      => <>[](\A code \in Codes : ~active_issue_exists(<<m, code>>))

\* An ASIC that stays offline has an open issue in the end, whatever changes
\* around it, unless maintenance or a reboot goes on for ever.
OfflineIsReported ==
  \A m \in Miners :
    <>[](/\ miners[m].enabled /\ miners[m].known /\ ~Stopped
         /\ miners[m].state = "OFFLINE" /\ miners[m].action # "reboot" /\ m \notin covered)
      => <>[]active_issue_exists(<<m, "OFFLINE">>)
=============================================================================

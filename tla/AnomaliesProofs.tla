--------------------------- MODULE AnomaliesProofs ---------------------------
(***************************************************************************)
(* Theorems about Anomalies.  The inductive invariant IInv adds to the     *)
(* properties what a scan in flight knows of the layers it has read        *)
(* (ScanFits) and that a candidate is not older than the last scan that    *)
(* found its condition absent or suppressed (Earned).                      *)
(***************************************************************************)
EXTENDS Anomalies, SequenceTheorems, TLAPS

Row ==
  [enabled : BOOLEAN, known : BOOLEAN, state : {"RUNNING", "STOPPED", "OFFLINE"},
   temp : Temps \cup {None}, action : {None, "reboot", "stop"},
   following : BOOLEAN, group : Groups \cup {None}]

Desired == [Miners -> {None, "RUNNING", "STOPPED"}]

Issue == [condition : Conditions, status : {"ACTIVE", "RESOLVED"}, acked : BOOLEAN]

Ages == 0 .. MaxAge

FarmTypes ==
  /\ policy \in Policies
  /\ group_overrides \in [Groups -> GroupLayers]
  /\ miner_overrides \in [Miners -> MinerLayers]
  /\ miners \in [Miners -> Row]
  /\ desired \in Desired
  /\ covered \in SUBSET Miners

LedgerTypes ==
  /\ candidates \in [Conditions -> Ages \cup {None}]
  /\ quiet \in [Conditions -> Ages]
  /\ issues \in Seq(Issue)

\* What the thread holds at its positions.
Resting == [pc : {"wait", "stopped"}]

PolicyRead == [pc : {"groups"}, policy : Policies]

GroupsRead == [pc : {"overrides"}, policy : Policies, groups : [Groups -> GroupLayers]]

OverridesRead ==
  [pc : {"rows"}, policy : Policies, groups : [Groups -> GroupLayers],
   overrides : [Miners -> MinerLayers]]

RowsRead ==
  [pc : {"maintenance"}, policy : Policies, groups : [Groups -> GroupLayers],
   overrides : [Miners -> MinerLayers], rows : [Miners -> Row], todo : SUBSET Miners]

MaintenanceRead ==
  [pc : {"schedule"}, policy : Policies, groups : [Groups -> GroupLayers],
   overrides : [Miners -> MinerLayers], rows : [Miners -> Row], todo : SUBSET Miners,
   covered : SUBSET Miners]

AllRead ==
  [pc : {"miner"} \cup Codes, policy : Policies, groups : [Groups -> GroupLayers],
   overrides : [Miners -> MinerLayers], rows : [Miners -> Row], todo : SUBSET Miners,
   covered : SUBSET Miners, desired : Desired, miner : Miners \cup {None}]

ScanTypes ==
  scan \in Resting \cup PolicyRead \cup GroupsRead \cup OverridesRead
           \cup RowsRead \cup MaintenanceRead \cup AllRead

TypeOK == FarmTypes /\ LedgerTypes /\ ScanTypes

\* The layers of the groups that the scan has read resolve under the policy
\* it has read, those of the miners do under some group, and that of the ASIC
\* whose conditions are looked at does under the group of its row.
ScanFits ==
  /\ scan.pc \notin {"wait", "stopped", "groups"}
       => \A g \in Groups : Resolves(scan.policy, scan.groups[g], Inherit)
  /\ scan.pc \notin {"wait", "stopped", "groups", "overrides"}
       => \A m \in Miners : \E g \in Groups \cup {None} :
            Resolves(scan.policy, GroupLayer(g), scan.overrides[m])
  /\ scan.pc \in Codes
       => /\ scan.miner \in Miners
          /\ Resolves(scan.policy, GroupLayer(scan.rows[scan.miner].group),
                      scan.overrides[scan.miner])

\* No candidate is older than the last scan that found its condition absent
\* or suppressed.
Earned == \A c \in Conditions : candidates[c] # None => quiet[c] >= candidates[c]

IInv == TypeOK /\ ScanFits /\ OneEpisode /\ Earned
-----------------------------------------------------------------------------
(* Which actions write what                                                *)

\* Polls, edits and requests write the rows that a scan reads.
LEMMA FarmWrites ==
  [Next]_vars => \/ UNCHANGED farm
                 \/ SetLayer
                 \/ \E m \in Miners : SetMiner(m) \/ SetDesired(m) \/ SetCovered(m)
  BY DEF Next, Scan, Outside, vars, farm, Thread, Reads, load_anomaly_policy,
         load_group_anomaly_override_snapshot, load_anomaly_override_snapshot,
         anomaly_scan_snapshot, active_maintenance_snapshot, anomaly_schedule_states,
         ScanMiner, set_anomaly_condition, EndOfScan, set_issue_acknowledgement,
         clear_issue_acknowledgement, EndOfScanFails, ScanIsLost, Tick

\* Conditions are written by the scan, the acknowledgements and the clock.
LEMMA LedgerWrites ==
  [Next]_vars => \/ UNCHANGED <<ledger, quiet>>
                 \/ \E code \in Codes : set_anomaly_condition(code)
                 \/ \E i \in DOMAIN issues :
                      set_issue_acknowledgement(i) \/ clear_issue_acknowledgement(i)
                 \/ Tick
  BY DEF Next, Scan, Outside, vars, Reads, load_anomaly_policy,
         load_group_anomaly_override_snapshot, load_anomaly_override_snapshot,
         anomaly_scan_snapshot, active_maintenance_snapshot, anomaly_schedule_states,
         ScanMiner, EndOfScan, SetLayer, SetMiner, SetDesired, SetCovered,
         EndOfScanFails, ScanIsLost

\* Nothing but the thread, an exception in it and a restart moves the scan.
LEMMA ScanWrites ==
  [Next]_vars => \/ UNCHANGED scan \/ Scan \/ EndOfScanFails \/ ScanIsLost
  BY DEF Next, Outside, vars, SetLayer, SetMiner, SetDesired, SetCovered,
         set_issue_acknowledgement, clear_issue_acknowledgement, Tick

-----------------------------------------------------------------------------
(* What the scan reads                                                     *)

LEMMA FarmKept == FarmTypes /\ [Next]_vars => FarmTypes'
<1> SUFFICES ASSUME FarmTypes, [Next]_vars PROVE FarmTypes'
  OBVIOUS
<1>1. CASE UNCHANGED farm
  BY <1>1 DEF FarmTypes, farm, layers
<1>2. CASE SetLayer
  BY <1>2 DEF SetLayer, FarmTypes
<1>3. ASSUME NEW m \in Miners, SetMiner(m) PROVE FarmTypes'
  <2>1. miners' \in [Miners -> Row]
    <3>1. miners[m] \in Row
      BY DEF FarmTypes
    <3>2. \A b \in BOOLEAN : /\ [miners[m] EXCEPT !.enabled = b] \in Row
                             /\ [miners[m] EXCEPT !.known = b] \in Row
                             /\ [miners[m] EXCEPT !.following = b] \in Row
      BY <3>1 DEF Row
    <3>3. /\ (~miners[m].enabled) \in BOOLEAN
          /\ (~miners[m].known) \in BOOLEAN
          /\ (~miners[m].following) \in BOOLEAN
      OBVIOUS
    <3>4. \A s \in {"RUNNING", "STOPPED", "OFFLINE"} : [miners[m] EXCEPT !.state = s] \in Row
      BY <3>1 DEF Row
    <3>5. \A t \in Temps \cup {None} : [miners[m] EXCEPT !.temp = t] \in Row
      BY <3>1 DEF Row
    <3>6. \A a \in {None, "reboot", "stop"} : [miners[m] EXCEPT !.action = a] \in Row
      BY <3>1 DEF Row
    <3>7. \A g \in Groups \cup {None} : [miners[m] EXCEPT !.group = g] \in Row
      BY <3>1 DEF Row
    <3>8. \E r \in Row : miners' = [miners EXCEPT ![m] = r]
      BY <1>3, <3>2, <3>3, <3>4, <3>5, <3>6, <3>7 DEF SetMiner
    <3> QED
      BY <3>8 DEF FarmTypes
  <2> QED
    BY <2>1, <1>3 DEF SetMiner, FarmTypes, layers
<1>4. ASSUME NEW m \in Miners, SetDesired(m) PROVE FarmTypes'
  BY <1>4 DEF SetDesired, FarmTypes, Desired, layers
<1>5. ASSUME NEW m \in Miners, SetCovered(m) PROVE FarmTypes'
  BY <1>5 DEF SetCovered, FarmTypes, layers
<1> QED
  BY <1>1, <1>2, <1>3, <1>4, <1>5, FarmWrites

\* What is loaded resolves, or sets no field.
LEMMA InheritResolves ==
  ASSUME NEW p, normalize_anomaly_policy(p) PROVE Resolves(p, Inherit, Inherit)
<1>1. DOMAIN Inherit = {}
  BY DEF Inherit
<1>2. normalize_anomaly_overrides(Inherit)
  BY <1>1 DEF normalize_anomaly_overrides
<1> DEFINE q == Over(p, Inherit)
<1>3. /\ DOMAIN q = ANOMALY_POLICY_FIELDS
      /\ \A f \in ANOMALY_POLICY_FIELDS : q[f] = p[f]
  BY <1>1 DEF Over, normalize_anomaly_policy
<1>4. "hot_clear_c" \in ANOMALY_POLICY_FIELDS /\ "hot_temp_c" \in ANOMALY_POLICY_FIELDS
  BY DEF ANOMALY_POLICY_FIELDS
<1>5. normalize_anomaly_policy(q)
  BY <1>3, <1>4 DEF normalize_anomaly_policy
<1> DEFINE r == Over(q, Inherit)
<1>6. /\ DOMAIN r = ANOMALY_POLICY_FIELDS
      /\ \A f \in ANOMALY_POLICY_FIELDS : r[f] = q[f]
  <2> HIDE DEF q
  <2> QED
    BY <1>1, <1>3 DEF Over
<1>7. normalize_anomaly_policy(r)
  <2> HIDE DEF q, r
  <2> QED
    BY <1>5, <1>6, <1>4 DEF normalize_anomaly_policy
<1> QED
  BY <1>2, <1>5, <1>7 DEF Resolves

LEMMA GroupsResolve ==
  ASSUME NEW p \in Policies, NEW o \in GroupLayers
  PROVE  /\ load_group_anomaly_overrides(p, o) \in GroupLayers
         /\ Resolves(p, load_group_anomaly_overrides(p, o), Inherit)
  BY AnomaliesAssumption, InheritResolves
     DEF AnomaliesAssumption, load_group_anomaly_overrides

LEMMA MinersResolve ==
  ASSUME NEW p, NEW g, Resolves(p, g, Inherit), NEW o \in MinerLayers
  PROVE  /\ load_miner_anomaly_overrides(p, g, o) \in MinerLayers
         /\ Resolves(p, g, load_miner_anomaly_overrides(p, g, o))
  BY AnomaliesAssumption DEF AnomaliesAssumption, load_miner_anomaly_overrides

\* The grace of a policy that resolves is a number.
LEMMA GraceIsNat ==
  ASSUME TypeOK, ScanFits, NEW code \in Codes, scan.pc = code
  PROVE  Grace(code) \in Nat
<1> DEFINE p == EffectivePolicy
<1>1. normalize_anomaly_policy(p)
  BY DEF ScanFits, Resolves, EffectivePolicy, resolve_layered_anomaly_policy
<1> HIDE DEF p
<1>2. ASSUME NEW f \in {"offline_grace_seconds", "hot_grace_seconds",
                        "schedule_grace_seconds"}
      PROVE  p[f] \in Nat
  <2>1. p[f] \in ANOMALY_POLICY_LIMITS[f]
    BY <1>1 DEF normalize_anomaly_policy, ANOMALY_POLICY_FIELDS
  <2>2. ANOMALY_POLICY_LIMITS["offline_grace_seconds"] \subseteq Nat
    BY SMT DEF ANOMALY_POLICY_LIMITS
  <2>3. ANOMALY_POLICY_LIMITS["hot_grace_seconds"] \subseteq Nat
    BY SMT DEF ANOMALY_POLICY_LIMITS
  <2>4. ANOMALY_POLICY_LIMITS["schedule_grace_seconds"] \subseteq Nat
    BY SMT DEF ANOMALY_POLICY_LIMITS
  <2> QED
    BY <2>1, <2>2, <2>3, <2>4, Zenon
<1>3. p["offline_grace_seconds"] \in Nat
  BY <1>2, Zenon
<1>4. p["hot_grace_seconds"] \in Nat
  BY <1>2, Zenon
<1>5. p["schedule_grace_seconds"] \in Nat
  BY <1>2, Zenon
<1> QED
  BY <1>3, <1>4, <1>5 DEF Grace, p, Codes

LEMMA Positions ==
  ScanTypes => /\ scan.pc = "groups" => scan \in PolicyRead
               /\ scan.pc = "overrides" => scan \in GroupsRead
               /\ scan.pc = "rows" => scan \in OverridesRead
               /\ scan.pc = "maintenance" => scan \in RowsRead
               /\ scan.pc = "schedule" => scan \in MaintenanceRead
               /\ scan.pc \in {"miner"} \cup Codes => scan \in AllRead
  BY DEF ScanTypes, Resting, PolicyRead, GroupsRead, OverridesRead, RowsRead,
         MaintenanceRead, AllRead, Codes

LEMMA LayerResolves ==
  ASSUME ScanFits, scan.policy \in Policies, scan.pc \notin {"wait", "stopped", "groups"},
         NEW g \in Groups \cup {None}
  PROVE  Resolves(scan.policy, GroupLayer(g), Inherit)
  BY AnomaliesAssumption, InheritResolves DEF AnomaliesAssumption, ScanFits, GroupLayer

\* What a scan has read stays as it is until the scan ends.
LEMMA Carried ==
  ASSUME ScanFits, scan.pc \notin {"wait", "stopped", "groups", "overrides"},
         scan'.pc \notin Codes,
         scan'.policy = scan.policy, scan'.groups = scan.groups,
         scan'.overrides = scan.overrides
  PROVE  ScanFits'
  BY DEF ScanFits, GroupLayer

LEMMA ScanKept ==
  FarmTypes /\ ScanTypes /\ ScanFits /\ [Next]_vars => ScanTypes' /\ ScanFits'
<1> SUFFICES ASSUME FarmTypes, ScanTypes, ScanFits, [Next]_vars
             PROVE  ScanTypes' /\ ScanFits'
  OBVIOUS
<1>1. CASE UNCHANGED scan
  BY <1>1 DEF ScanTypes, ScanFits, GroupLayer
<1>2. ASSUME scan' \in Resting PROVE ScanTypes' /\ ScanFits'
  BY <1>2 DEF ScanTypes, ScanFits, Resting, Codes
<1>3. CASE load_anomaly_policy
  <2>1. scan' \in PolicyRead
    BY <1>3 DEF load_anomaly_policy, Reads, Thread, FarmTypes, PolicyRead
  <2> QED
    BY <2>1 DEF PolicyRead, ScanTypes, ScanFits, Codes
<1>4. CASE load_group_anomaly_override_snapshot
  <2>1. scan \in PolicyRead
    BY <1>4, Positions DEF load_group_anomaly_override_snapshot
  <2>2. scan.policy \in Policies
    BY <2>1 DEF PolicyRead
  <2>3. scan' = [pc |-> "overrides", policy |-> scan.policy,
                 groups |-> [g \in Groups |->
                   load_group_anomaly_overrides(scan.policy, group_overrides[g])]]
    BY <1>4 DEF load_group_anomaly_override_snapshot, Reads, Thread
  <2>4. \A g \in Groups : group_overrides[g] \in GroupLayers
    BY DEF FarmTypes
  <2>5. scan' \in GroupsRead
    BY <2>2, <2>3, <2>4, GroupsResolve DEF GroupsRead
  <2>6. \A g \in Groups : Resolves(scan'.policy, scan'.groups[g], Inherit)
    BY <2>2, <2>3, <2>4, GroupsResolve
  <2> QED
    BY <2>3, <2>5, <2>6 DEF ScanTypes, ScanFits, Codes
<1>5. CASE load_anomaly_override_snapshot
  <2>1. scan \in GroupsRead /\ scan.pc = "overrides"
    BY <1>5, Positions DEF load_anomaly_override_snapshot
  <2>2. scan.policy \in Policies
    BY <2>1 DEF GroupsRead
  <2> DEFINE layer(m) == GroupLayer(miners[m].group)
             read == [m \in Miners |-> load_miner_anomaly_overrides(scan.policy, layer(m),
                                                                   miner_overrides[m])]
  <2>3. scan' = [pc |-> "rows", policy |-> scan.policy, groups |-> scan.groups,
                 overrides |-> read]
    BY <1>5 DEF load_anomaly_override_snapshot, Reads, Thread
  <2>4. \A m \in Miners : miners[m].group \in Groups \cup {None}
    BY DEF FarmTypes, Row
  <2>5. \A m \in Miners : Resolves(scan.policy, layer(m), Inherit)
    BY <2>1, <2>2, <2>4, LayerResolves
  <2>6. \A m \in Miners : miner_overrides[m] \in MinerLayers
    BY DEF FarmTypes
  <2>7. \A m \in Miners : read[m] \in MinerLayers /\ Resolves(scan.policy, layer(m), read[m])
    <3> HIDE DEF layer
    <3> QED
      BY <2>5, <2>6, MinersResolve
  <2>8. read \in [Miners -> MinerLayers]
    BY <2>7
  <2> HIDE DEF read
  <2>9. scan' \in OverridesRead
    BY <2>1, <2>3, <2>8 DEF GroupsRead, OverridesRead
  <2>10. scan'.policy = scan.policy /\ scan'.groups = scan.groups /\ scan'.overrides = read
         /\ scan'.pc = "rows"
    BY <2>3
  <2>11. \A g : GroupLayer(g)' = GroupLayer(g)
    BY <2>10 DEF GroupLayer
  <2>12. \A m \in Miners : \E g \in Groups \cup {None} :
           Resolves(scan'.policy, GroupLayer(g)', scan'.overrides[m])
    BY <2>4, <2>7, <2>10, <2>11
  <2>13. \A g \in Groups : Resolves(scan'.policy, scan'.groups[g], Inherit)
    BY <2>1, <2>10 DEF ScanFits
  <2> QED
    BY <2>9, <2>10, <2>12, <2>13 DEF ScanTypes, ScanFits, Codes
<1>6. CASE anomaly_scan_snapshot
  <2>1. scan \in OverridesRead /\ scan.pc = "rows"
    BY <1>6, Positions DEF anomaly_scan_snapshot
  <2>2. scan' = [pc |-> "maintenance", policy |-> scan.policy, groups |-> scan.groups,
                 overrides |-> scan.overrides, rows |-> miners,
                 todo |-> {m \in Miners : miners[m].known}]
    BY <1>6 DEF anomaly_scan_snapshot, Reads, Thread
  <2>3. scan' \in RowsRead
    BY <2>1, <2>2 DEF OverridesRead, RowsRead, FarmTypes
  <2>4. ScanFits'
    BY <2>1, <2>2, Carried DEF Codes
  <2> QED
    BY <2>3, <2>4 DEF ScanTypes
<1>7. CASE active_maintenance_snapshot
  <2>1. scan \in RowsRead /\ scan.pc = "maintenance"
    BY <1>7, Positions DEF active_maintenance_snapshot
  <2>2. scan' = [pc |-> "schedule", policy |-> scan.policy, groups |-> scan.groups,
                 overrides |-> scan.overrides, rows |-> scan.rows, todo |-> scan.todo,
                 covered |-> covered]
    BY <1>7 DEF active_maintenance_snapshot, Reads, Thread
  <2>3. scan' \in MaintenanceRead
    BY <2>1, <2>2 DEF RowsRead, MaintenanceRead, FarmTypes
  <2>4. ScanFits'
    BY <2>1, <2>2, Carried DEF Codes
  <2> QED
    BY <2>3, <2>4 DEF ScanTypes
<1>8. CASE anomaly_schedule_states
  <2>1. scan \in MaintenanceRead /\ scan.pc = "schedule"
    BY <1>8, Positions DEF anomaly_schedule_states
  <2>2. scan' = [pc |-> "miner", policy |-> scan.policy, groups |-> scan.groups,
                 overrides |-> scan.overrides, rows |-> scan.rows, todo |-> scan.todo,
                 covered |-> scan.covered, desired |-> desired, miner |-> None]
    BY <1>8 DEF anomaly_schedule_states, Reads, Thread
  <2>3. scan' \in AllRead
    BY <2>1, <2>2 DEF MaintenanceRead, AllRead, FarmTypes
  <2>4. ScanFits'
    BY <2>1, <2>2, Carried DEF Codes
  <2> QED
    BY <2>3, <2>4 DEF ScanTypes
<1>9. ASSUME NEW m \in Miners, ScanMiner(m) PROVE ScanTypes' /\ ScanFits'
  <2> DEFINE resolves == Resolves(scan.policy, GroupLayer(scan.rows[m].group),
                                  scan.overrides[m])
  <2>1. CASE ~resolves
    BY <1>2, <1>9, <2>1 DEF ScanMiner, Reads, Thread, Waiting, Resting
  <2>2. CASE resolves
    <3>1. scan \in AllRead /\ scan.pc = "miner"
      BY <1>9, Positions DEF ScanMiner
    <3>2. scan' = [scan EXCEPT !.pc = "OFFLINE", !.miner = m, !.todo = @ \ {m}]
      BY <1>9, <2>2 DEF ScanMiner, Reads, Thread
    <3>3. scan' \in AllRead
      BY <3>1, <3>2 DEF AllRead, Codes
    <3>4. /\ scan'.pc = "OFFLINE" /\ scan'.miner = m
          /\ scan'.policy = scan.policy /\ scan'.groups = scan.groups
          /\ scan'.overrides = scan.overrides /\ scan'.rows = scan.rows
      BY <3>1, <3>2 DEF AllRead
    <3>5. ScanFits'
      BY <2>2, <3>1, <3>4 DEF ScanFits, GroupLayer
    <3> QED
      BY <3>3, <3>5 DEF ScanTypes
  <2> QED
    BY <2>1, <2>2
<1>10. ASSUME NEW code \in Codes, set_anomaly_condition(code)
       PROVE  ScanTypes' /\ ScanFits'
  <2>1. scan \in AllRead /\ scan.pc = code
    BY <1>10, Positions DEF set_anomaly_condition
  <2>2. scan' = [scan EXCEPT !.pc = NextCode(code)]
    BY <1>10 DEF set_anomaly_condition, Thread
  <2>3. NextCode(code) \in {"miner"} \cup Codes
    BY DEF NextCode, Codes
  <2>4. scan' \in AllRead
    BY <2>1, <2>2, <2>3 DEF AllRead
  <2>5. /\ scan'.pc \in {"miner"} \cup Codes /\ scan'.miner = scan.miner
        /\ scan'.policy = scan.policy /\ scan'.groups = scan.groups
        /\ scan'.overrides = scan.overrides /\ scan'.rows = scan.rows
    BY <2>1, <2>2, <2>3 DEF AllRead
  <2>6. ScanFits'
    BY <2>1, <2>5 DEF ScanFits, GroupLayer, Codes
  <2> QED
    BY <2>4, <2>6 DEF ScanTypes
<1>11. CASE EndOfScan \/ EndOfScanFails \/ ScanIsLost
  BY <1>2, <1>11 DEF EndOfScan, EndOfScanFails, ScanIsLost, Reads, Thread, Waiting, Resting
<1> QED
  BY <1>1, <1>3, <1>4, <1>5, <1>6, <1>7, <1>8, <1>9, <1>10, <1>11, ScanWrites DEF Scan

-----------------------------------------------------------------------------
(* A condition                                                             *)

LEMMA SameActive ==
  ASSUME DOMAIN issues' = DOMAIN issues,
         \A i \in DOMAIN issues : /\ issues'[i].condition = issues[i].condition
                                  /\ issues'[i].status = issues[i].status
  PROVE  \A d : ActiveIssues(d)' = ActiveIssues(d)
  BY DEF ActiveIssues

\* One transaction leaves its condition with one open issue at most, and
\* that one without a candidate; it takes one step of the ledger, and opens
\* an issue only if the candidate is as old as the grace.
LEMMA Transition ==
  ASSUME LedgerTypes, OneEpisode, NEW c \in Conditions,
         NEW observed \in BOOLEAN, NEW suppress_new \in BOOLEAN, NEW grace,
         transition_anomaly_condition(c, observed, suppress_new, grace)
  PROVE  /\ issues' \in Seq(Issue)
         /\ OneEpisode'
         /\ Len(issues') > Len(issues) => Matured(c, grace)
         /\ \/ issues' = issues
            \/ Ledger!Open(c)
            \/ \E i \in DOMAIN issues : Ledger!Resolve(i)
<1>1. /\ issues \in Seq(Issue)
      /\ Len(issues) \in Nat
      /\ DOMAIN issues = 1 .. Len(issues)
      /\ issues \in [1 .. Len(issues) -> Issue]
  BY LenProperties DEF LedgerTypes
<1>2. /\ issues' = IssuesAfter(c, observed, suppress_new, grace)
      /\ candidates' = [candidates EXCEPT ![c] =
                          CandidateAfter(c, observed, suppress_new, grace)]
  BY DEF transition_anomaly_condition
<1>3. \A d \in Conditions : d # c => candidates'[d] = candidates[d]
  BY <1>2 DEF LedgerTypes
<1>4. candidates'[c] = CandidateAfter(c, observed, suppress_new, grace)
  BY <1>2 DEF LedgerTypes
<1>5. CASE observed /\ (active_issue_exists(c) \/ suppress_new \/ ~Matured(c, grace))
  <2>1. issues' = issues
    BY <1>2, <1>5 DEF IssuesAfter
  <2>2. \A d : ActiveIssues(d)' = ActiveIssues(d)
    BY <2>1 DEF ActiveIssues
  <2>3. active_issue_exists(c) => candidates'[c] = candidates[c]
    BY <1>4, <1>5 DEF CandidateAfter
  <2>4. OneEpisode'
    BY <1>3, <2>2, <2>3 DEF OneEpisode, active_issue_exists
  <2> QED
    BY <1>1, <2>1, <2>4
<1>6. CASE observed /\ ~(active_issue_exists(c) \/ suppress_new \/ ~Matured(c, grace))
  <2> DEFINE row == [condition |-> c, status |-> "ACTIVE", acked |-> FALSE]
             n == Len(issues)
  <2>1. issues' = Append(issues, row)
    BY <1>2, <1>6 DEF IssuesAfter
  <2>2. row \in Issue
    BY DEF Issue
  <2>3. row.condition = c /\ row.status = "ACTIVE"
    OBVIOUS
  <2> HIDE DEF row
  <2>4. /\ issues' \in Seq(Issue)
        /\ Len(issues') = n + 1
        /\ \A i \in 1 .. n : issues'[i] = issues[i]
        /\ issues'[n + 1] = row
    BY <1>1, <2>1, <2>2, AppendProperties
  <2>5. DOMAIN issues' = 1 .. n + 1
    BY <2>4, LenProperties
  <2>6. \A d : d # c => ActiveIssues(d)' = ActiveIssues(d)
    BY <1>1, <2>3, <2>4, <2>5 DEF ActiveIssues
  <2>7. ActiveIssues(c) = {}
    BY <1>6 DEF active_issue_exists
  <2>8. ActiveIssues(c)' = {n + 1}
    BY <1>1, <2>3, <2>4, <2>5, <2>7 DEF ActiveIssues
  <2>9. candidates'[c] = None
    BY <1>4, <1>6 DEF CandidateAfter, Matured
  <2>10. OneEpisode'
    BY <1>3, <2>6, <2>8, <2>9 DEF OneEpisode
  <2>11. Ledger!Open(c)
    BY <2>1, <2>7 DEF Ledger!Open, Ledger!IsOpen, Ledger!Episode, ActiveIssues, row
  <2> QED
    BY <1>6, <2>4, <2>10, <2>11
<1>7. CASE ~observed
  <2>1. issues' = [i \in DOMAIN issues |->
                     IF i \in ActiveIssues(c) THEN [issues[i] EXCEPT !.status = "RESOLVED"]
                     ELSE issues[i]]
    BY <1>2, <1>7 DEF IssuesAfter
  <2>2. \A i \in DOMAIN issues : /\ issues[i] \in Issue
                                 /\ [issues[i] EXCEPT !.status = "RESOLVED"] \in Issue
    BY <1>1 DEF Issue
  <2>3. DOMAIN issues' = DOMAIN issues /\ \A i \in DOMAIN issues : issues'[i] \in Issue
    BY <2>1, <2>2
  <2>4. issues' \in Seq(Issue)
    <3>1. issues' \in [1 .. Len(issues) -> Issue]
      BY <1>1, <2>1, <2>3
    <3> QED
      BY <1>1, <3>1, SeqDef
  <2>5. Len(issues') = Len(issues)
    BY <1>1, <2>3, <2>4, LenProperties
  <2>6. \A i \in ActiveIssues(c) : /\ issues'[i].status = "RESOLVED"
                                   /\ issues'[i].condition = c
    BY <2>1, <2>2 DEF ActiveIssues, Issue
  <2>7. \A i \in DOMAIN issues : i \notin ActiveIssues(c) => issues'[i] = issues[i]
    BY <2>1
  <2>8. ActiveIssues(c)' = {}
    BY <2>3, <2>6, <2>7 DEF ActiveIssues
  <2>9. \A d : d # c => ActiveIssues(d)' = ActiveIssues(d)
    BY <2>3, <2>6, <2>7 DEF ActiveIssues
  <2>10. OneEpisode'
    BY <1>3, <2>8, <2>9 DEF OneEpisode
  <2>11. CASE ActiveIssues(c) = {}
    <3>1. issues' = issues
      BY <1>1, <2>3, <2>4, <2>7, <2>11, SeqEqual, <2>5
    <3> QED
      BY <1>1, <2>5, <2>10, <3>1
  <2>12. ASSUME NEW i \in ActiveIssues(c)
         PROVE  /\ i \in DOMAIN issues
                /\ Ledger!Resolve(i)
    <3>1. i \in DOMAIN issues /\ issues[i].status = "ACTIVE"
      BY DEF ActiveIssues
    <3>2. ActiveIssues(c) = {i}
      BY DEF OneEpisode
    <3>3. issues' = [issues EXCEPT ![i].status = "RESOLVED"]
      BY <1>1, <2>1, <3>2
    <3> QED
      BY <3>1, <3>3 DEF Ledger!Resolve
  <2> QED
    BY <1>1, <2>4, <2>5, <2>10, <2>11, <2>12
<1> QED
  BY <1>5, <1>6, <1>7

\* What one transaction of a scan does to its condition.
LEMMA ScanTransition ==
  ASSUME IInv, NEW code \in Codes, set_anomaly_condition(code)
  PROVE  /\ LedgerTypes' /\ OneEpisode' /\ Earned'
         /\ Len(issues') > Len(issues) => quiet[<<scan.miner, code>>] >= Grace(code)
         /\ \/ issues' = issues
            \/ \E c \in Conditions : Ledger!Open(c)
            \/ \E i \in DOMAIN issues : Ledger!Resolve(i)
<1>1. scan.pc = code /\ scan.miner \in Miners
  BY DEF set_anomaly_condition, IInv, ScanFits
<1>2. PICK c \in Conditions : c = <<scan.miner, code>>
  BY <1>1 DEF Conditions
<1>3. Observed(code) \in BOOLEAN
  BY DEF Observed
<1>4. PICK observed \in BOOLEAN : observed = Observed(code)
  BY <1>3
<1>5. PICK suppress_new \in BOOLEAN : suppress_new = (scan.miner \in scan.covered)
  <2>1. (scan.miner \in scan.covered) \in BOOLEAN
    OBVIOUS
  <2> QED
    BY <2>1
<1>6. PICK grace \in Nat : grace = Grace(code)
  BY <1>1, GraceIsNat DEF IInv
<1>7. transition_anomaly_condition(c, observed, suppress_new, grace)
  BY <1>2, <1>4, <1>5, <1>6 DEF set_anomaly_condition
<1>8. /\ issues' \in Seq(Issue)
      /\ OneEpisode'
      /\ Len(issues') > Len(issues) => Matured(c, grace)
      /\ \/ issues' = issues
         \/ Ledger!Open(c)
         \/ \E i \in DOMAIN issues : Ledger!Resolve(i)
  BY <1>7, Transition DEF IInv, TypeOK
<1>9. quiet' = IF observed /\ ~suppress_new THEN quiet ELSE [quiet EXCEPT ![c] = 0]
  BY <1>2, <1>4, <1>5 DEF set_anomaly_condition
<1>10. candidates' = [candidates EXCEPT ![c] =
                        CandidateAfter(c, observed, suppress_new, grace)]
  BY <1>7 DEF transition_anomaly_condition
<1>11. /\ candidates \in [Conditions -> Ages \cup {None}]
       /\ quiet \in [Conditions -> Ages]
       /\ 0 \in Ages
       /\ Ages \subseteq Nat
  BY AnomaliesAssumption DEF AnomaliesAssumption, IInv, TypeOK, LedgerTypes, Ages
<1>12. CandidateAfter(c, observed, suppress_new, grace) \in {candidates[c], 0, None}
  BY DEF CandidateAfter
<1>13. LedgerTypes'
  BY <1>8, <1>9, <1>10, <1>11, <1>12 DEF LedgerTypes
<1>14. /\ \A d \in Conditions : d # c => candidates'[d] = candidates[d] /\ quiet'[d] = quiet[d]
       /\ candidates'[c] = CandidateAfter(c, observed, suppress_new, grace)
       /\ quiet'[c] = IF observed /\ ~suppress_new THEN quiet[c] ELSE 0
  BY <1>9, <1>10, <1>11
<1>15. active_issue_exists(c) => candidates[c] = None
  BY DEF IInv, OneEpisode, active_issue_exists
<1>16. candidates[c] # None => quiet[c] >= candidates[c]
  BY DEF IInv, Earned
<1>17. candidates'[c] # None => quiet'[c] >= candidates'[c]
  <2>1. CASE ~observed \/ suppress_new
    BY <2>1, <1>14, <1>15 DEF CandidateAfter
  <2>2. CASE observed /\ ~suppress_new
    <3>1. quiet'[c] = quiet[c] /\ quiet[c] >= 0
      <4>1. quiet'[c] = quiet[c]
        BY <2>2, <1>14
      <4>2. quiet[c] \in Nat
        BY <1>11
      <4> QED
        BY <4>1, <4>2
    <3>2. candidates'[c] \in {candidates[c], 0, None}
      BY <1>12, <1>14
    <3> QED
      BY <3>1, <3>2, <1>16
  <2> QED
    BY <2>1, <2>2
<1>18. Earned'
  BY <1>14, <1>17 DEF IInv, Earned
<1>19. Matured(c, grace) => quiet[c] >= grace
  <2>1. quiet[c] \in Nat
    BY <1>11
  <2>2. candidates[c] # None => candidates[c] \in Nat
    BY <1>11
  <2> QED
    BY <2>1, <2>2, <1>16 DEF Matured
<1> QED
  BY <1>2, <1>6, <1>8, <1>13, <1>18, <1>19

\* An acknowledgement changes no status.
LEMMA Acknowledged ==
  ASSUME LedgerTypes, NEW i \in DOMAIN issues,
         set_issue_acknowledgement(i) \/ clear_issue_acknowledgement(i)
  PROVE  /\ issues' \in Seq(Issue) /\ Len(issues') = Len(issues)
         /\ \A d : ActiveIssues(d)' = ActiveIssues(d)
         /\ candidates' = candidates /\ quiet' = quiet
         /\ Ledger!Acknowledge(i)
<1>1. PICK acked \in BOOLEAN : issues' = [issues EXCEPT ![i].acked = acked]
  BY DEF set_issue_acknowledgement, clear_issue_acknowledgement
<1>2. /\ Len(issues) \in Nat
      /\ DOMAIN issues = 1 .. Len(issues)
      /\ issues \in [1 .. Len(issues) -> Issue]
  BY LenProperties DEF LedgerTypes
<1>3. /\ [issues[i] EXCEPT !.acked = acked] \in Issue
      /\ [issues[i] EXCEPT !.acked = acked].condition = issues[i].condition
      /\ [issues[i] EXCEPT !.acked = acked].status = issues[i].status
  BY <1>2 DEF Issue
<1>4. PICK row : row = [issues[i] EXCEPT !.acked = acked]
  OBVIOUS
<1>5. issues' = [issues EXCEPT ![i] = row]
  BY <1>1, <1>4
<1>6. issues' \in [1 .. Len(issues) -> Issue]
  BY <1>2, <1>3, <1>4, <1>5
<1>7. issues' \in Seq(Issue)
  BY <1>2, <1>6, SeqDef
<1>8. Len(issues') = Len(issues)
  BY <1>2, <1>6, <1>7, LenProperties
<1>9. \A d : ActiveIssues(d)' = ActiveIssues(d)
  BY <1>2, <1>3, <1>4, <1>5, <1>6, SameActive
<1>10. Ledger!Acknowledge(i)
  BY <1>1 DEF Ledger!Acknowledge
<1> QED
  BY <1>7, <1>8, <1>9, <1>10 DEF set_issue_acknowledgement, clear_issue_acknowledgement,
                                  ledger

LEMMA LedgerKept == IInv /\ [Next]_vars => LedgerTypes' /\ OneEpisode' /\ Earned'
<1> SUFFICES ASSUME IInv, [Next]_vars PROVE LedgerTypes' /\ OneEpisode' /\ Earned'
  OBVIOUS
<1>1. CASE UNCHANGED <<ledger, quiet>>
  BY <1>1 DEF ledger, IInv, TypeOK, LedgerTypes, OneEpisode, Earned, ActiveIssues
<1>2. ASSUME NEW code \in Codes, set_anomaly_condition(code)
      PROVE  LedgerTypes' /\ OneEpisode' /\ Earned'
  BY <1>2, ScanTransition
<1>3. ASSUME NEW i \in DOMAIN issues,
             set_issue_acknowledgement(i) \/ clear_issue_acknowledgement(i)
      PROVE  LedgerTypes' /\ OneEpisode' /\ Earned'
  <2>1. /\ issues' \in Seq(Issue)
        /\ \A d : ActiveIssues(d)' = ActiveIssues(d)
        /\ candidates' = candidates /\ quiet' = quiet
    BY <1>3, Acknowledged DEF IInv, TypeOK
  <2> QED
    BY <2>1 DEF IInv, TypeOK, LedgerTypes, OneEpisode, Earned
<1>4. CASE Tick
  <2>1. /\ issues' = issues
        /\ candidates' = [c \in Conditions |-> Later(candidates[c])]
        /\ quiet' = [c \in Conditions |-> Later(quiet[c])]
    BY <1>4 DEF Tick
  <2>2. /\ \A c \in Conditions : candidates[c] \in Ages \cup {None} /\ quiet[c] \in Ages
        /\ MaxAge \in Nat /\ None \notin Nat
    BY AnomaliesAssumption DEF AnomaliesAssumption, IInv, TypeOK, LedgerTypes
  <2>3. \A c \in Conditions : /\ Later(candidates[c]) \in Ages \cup {None}
                              /\ Later(quiet[c]) \in Ages
                              /\ candidates[c] = None => Later(candidates[c]) = None
    BY <2>2 DEF Later, Ages
  <2>4. \A c \in Conditions :
          Later(candidates[c]) # None => Later(quiet[c]) >= Later(candidates[c])
    BY <2>2 DEF Later, Ages, IInv, Earned
  <2>5. \A c \in Conditions : ActiveIssues(c)' = ActiveIssues(c)
    BY <2>1 DEF ActiveIssues
  <2>6. LedgerTypes'
    BY <2>1, <2>3 DEF IInv, TypeOK, LedgerTypes
  <2>7. OneEpisode'
    BY <2>1, <2>3, <2>5 DEF IInv, OneEpisode
  <2>8. Earned'
    BY <2>1, <2>4 DEF Earned
  <2> QED
    BY <2>6, <2>7, <2>8
<1> QED
  BY <1>1, <1>2, <1>3, <1>4, LedgerWrites

-----------------------------------------------------------------------------
(* The theorems                                                            *)

LEMMA InductiveInvariant == Spec => []IInv
<1>1. Init => IInv
  <2> SUFFICES ASSUME Init PROVE IInv
    OBVIOUS
  <2>1. FarmTypes
    BY AnomaliesAssumption DEF AnomaliesAssumption, Init, FarmTypes, Row, Desired
  <2>2. LedgerTypes
    BY AnomaliesAssumption, EmptySeq DEF AnomaliesAssumption, Init, LedgerTypes, Ages
  <2>3. ScanTypes /\ ScanFits
    BY DEF Init, ScanTypes, ScanFits, Waiting, Resting, Codes
  <2>4. OneEpisode /\ Earned
    BY DEF Init, OneEpisode, Earned, ActiveIssues
  <2> QED
    BY <2>1, <2>2, <2>3, <2>4 DEF IInv, TypeOK
<1>2. IInv /\ [Next]_vars => IInv'
  BY FarmKept, ScanKept, LedgerKept DEF IInv, TypeOK
<1> QED
  BY <1>1, <1>2, PTL DEF Spec

\* Types, with what the thread holds at each of its positions, for every
\* number of ASICs, groups and layers and every bound on ages and changes.
THEOREM TypeCorrect == Spec => []TypeOK
<1>1. IInv => TypeOK
  BY DEF IInv
<1> QED
  BY <1>1, InductiveInvariant, PTL

\* A condition has one open issue at most, and beside it no candidate that
\* would open a second one.
THEOREM Episodes == Spec => []OneEpisode
<1>1. IInv => OneEpisode
  BY DEF IInv
<1> QED
  BY <1>1, InductiveInvariant, PTL

\* An issue opens only after a grace - that of the policy in effect - in
\* which no scan found its condition absent or suppressed.
THEOREM Openings == Spec => OpeningsAreEarned
<1>1. IInv /\ [Next]_vars
        => [\A code \in Codes :
              scan.pc = code /\ Len(issues') > Len(issues)
                => quiet[<<scan.miner, code>>] >= Grace(code)]_vars
  <2> SUFFICES ASSUME IInv, [Next]_vars, NEW code \in Codes, scan.pc = code,
                      Len(issues') > Len(issues)
               PROVE  quiet[<<scan.miner, code>>] >= Grace(code)
    OBVIOUS
  <2>1. Len(issues) \in Nat
    BY LenProperties DEF IInv, TypeOK, LedgerTypes
  <2>2. issues' # issues /\ Len(issues') # Len(issues)
    BY <2>1
  <2>3. ~UNCHANGED <<ledger, quiet>> /\ ~Tick
    BY <2>2 DEF ledger, Tick
  <2>4. ~\E i \in DOMAIN issues :
           set_issue_acknowledgement(i) \/ clear_issue_acknowledgement(i)
    BY <2>2, Acknowledged DEF IInv, TypeOK
  <2>5. PICK other \in Codes : set_anomaly_condition(other)
    BY <2>3, <2>4, LedgerWrites
  <2>6. other = code
    BY <2>5 DEF set_anomaly_condition
  <2> QED
    BY <2>5, <2>6, ScanTransition
<1> QED
  BY <1>1, InductiveInvariant, PTL DEF Spec, OpeningsAreEarned

\* A scan loses its rest only when an ASIC has changed its group between the
\* read of its layer and the read of its row.
THEOREM Aborts == Spec => ScansAbortOnlyAfterMoves
<1>1. IInv /\ [Next]_vars
        => [\A m \in Miners :
              ScanMiner(m) /\ scan'.pc = "wait"
                => \E g \in Groups \cup {None} :
                     /\ g # scan.rows[m].group
                     /\ Resolves(scan.policy, GroupLayer(g), scan.overrides[m])]_vars
  <2> SUFFICES ASSUME IInv, NEW m \in Miners, ScanMiner(m), scan'.pc = "wait"
               PROVE  \E g \in Groups \cup {None} :
                        /\ g # scan.rows[m].group
                        /\ Resolves(scan.policy, GroupLayer(g), scan.overrides[m])
    OBVIOUS
  <2>1. scan \in AllRead /\ scan.pc = "miner"
    BY Positions DEF ScanMiner, IInv, TypeOK
  <2>2. PICK g \in Groups \cup {None} :
          Resolves(scan.policy, GroupLayer(g), scan.overrides[m])
    BY <2>1 DEF IInv, ScanFits
  <2>3. [scan EXCEPT !.pc = "OFFLINE", !.miner = m, !.todo = @ \ {m}].pc = "OFFLINE"
    BY <2>1 DEF AllRead
  <2>4. ~Resolves(scan.policy, GroupLayer(scan.rows[m].group), scan.overrides[m])
    BY <2>3 DEF ScanMiner, Reads, Thread
  <2> QED
    BY <2>2, <2>4
<1> QED
  BY <1>1, InductiveInvariant, PTL DEF Spec, ScansAbortOnlyAfterMoves

\* The issues of every behaviour are those of the abstract ledger: an episode
\* is opened once, resolved once and keeps its acknowledgement.
THEOREM AnomaliesImplementLedger == Spec => IssuesAreEpisodes
<1>1. Init => Ledger!Init
  BY DEF Init, Ledger!Init
<1>2. IInv /\ [Next]_vars => [Ledger!Next]_issues
  <2> SUFFICES ASSUME IInv, [Next]_vars PROVE [Ledger!Next]_issues
    OBVIOUS
  <2>1. CASE UNCHANGED <<ledger, quiet>> \/ Tick
    BY <2>1 DEF ledger, Tick
  <2>2. ASSUME NEW code \in Codes, set_anomaly_condition(code)
        PROVE  [Ledger!Next]_issues
    BY <2>2, ScanTransition DEF Ledger!Next
  <2>3. ASSUME NEW i \in DOMAIN issues,
               set_issue_acknowledgement(i) \/ clear_issue_acknowledgement(i)
        PROVE  [Ledger!Next]_issues
    BY <2>3, Acknowledged DEF Ledger!Next, IInv, TypeOK
  <2> QED
    BY <2>1, <2>2, <2>3, LedgerWrites
<1> QED
  BY <1>1, <1>2, InductiveInvariant, PTL DEF Spec, IssuesAreEpisodes, Ledger!Spec
=============================================================================

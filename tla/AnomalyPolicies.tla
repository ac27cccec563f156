--------------------------- MODULE AnomalyPolicies ---------------------------
(***************************************************************************)
(* anomalies/policy.py: the policy of an anomaly scan and the layers that  *)
(* override it, GLOBAL -> GROUP -> MINER.  A policy gives every field a    *)
(* number; a layer gives some fields a number.  Temperatures are in tenths *)
(* of a degree.  A function that raises ValueError in the code is here a   *)
(* predicate, false where the code raises.                                 *)
(***************************************************************************)
EXTENDS Integers

ANOMALY_POLICY_LIMITS ==
  [interval_seconds       |-> 5 .. 3600,
   offline_grace_seconds  |-> 0 .. 86400,
   hot_temp_c             |-> 400 .. 1200,
   hot_clear_c            |-> 300 .. 1199,
   hot_grace_seconds      |-> 0 .. 86400,
   schedule_grace_seconds |-> 0 .. 86400]

ANOMALY_POLICY_FIELDS ==
  {"interval_seconds", "offline_grace_seconds", "hot_temp_c", "hot_clear_c",
   "hot_grace_seconds", "schedule_grace_seconds"}

MINER_ANOMALY_OVERRIDE_FIELDS == ANOMALY_POLICY_FIELDS \ {"interval_seconds"}

Inherit == [f \in {} |-> 0]

\* dict.update: the fields of layer o replace those of p.
Over(p, o) ==
  [f \in DOMAIN p \cup DOMAIN o |-> IF f \in DOMAIN o THEN o[f] ELSE p[f]]

normalize_anomaly_policy(p) ==
  /\ DOMAIN p = ANOMALY_POLICY_FIELDS
  /\ \A f \in ANOMALY_POLICY_FIELDS : p[f] \in ANOMALY_POLICY_LIMITS[f]
  /\ p["hot_clear_c"] < p["hot_temp_c"]

\* The same for a layer of a group and of a miner.
normalize_anomaly_overrides(o) ==
  /\ DOMAIN o \subseteq MINER_ANOMALY_OVERRIDE_FIELDS
  /\ \A f \in DOMAIN o : o[f] \in ANOMALY_POLICY_LIMITS[f]

\* resolve_layered_anomaly_policy returns, and what it returns.
Resolves(global, group, miner) ==
  /\ normalize_anomaly_policy(global)
  /\ normalize_anomaly_overrides(group)
  /\ normalize_anomaly_policy(Over(global, group))
  /\ normalize_anomaly_overrides(miner)
  /\ normalize_anomaly_policy(Over(Over(global, group), miner))

resolve_layered_anomaly_policy(global, group, miner) ==
  Over(Over(global, group), miner)

\* A patch gives fields a number, or None to inherit again.
Patched(current, patch, None) ==
  LET cleared == {f \in DOMAIN patch : patch[f] = None} IN
  [f \in (DOMAIN current \cup DOMAIN patch) \ cleared |->
     IF f \in DOMAIN patch THEN patch[f] ELSE current[f]]

\* apply_anomaly_override_patch and apply_group_anomaly_override_patch: the
\* layer inherited from is a policy of its own for a miner.
PatchApplies(inherited, current, patch, None) ==
  /\ DOMAIN patch # {}
  /\ normalize_anomaly_overrides(current)
  /\ Resolves(inherited, Inherit, Patched(current, patch, None))

\* Rows that do not resolve are left out by the functions that load them.
load_group_anomaly_overrides(global, row) ==
  IF Resolves(global, row, Inherit) THEN row ELSE Inherit

load_miner_anomaly_overrides(global, group, row) ==
  IF Resolves(global, group, row) THEN row ELSE Inherit

\* Mutant: no ASIC with a command is offline.
OfflineUncommanded(state, action) ==
  state = "OFFLINE" /\ action \notin {"reboot", "stop"}

offline_observed(state, action) == state = "OFFLINE" /\ action # "reboot"

overheat_observed(temp, active, hot, clear, None) ==
  temp # None /\ temp >= IF active THEN clear ELSE hot

\* following: the scheduler and the miner's schedule are on and no manual
\* override is in force.
schedule_applicable(following, desired, busy, None) ==
  following /\ desired # None /\ ~busy
=============================================================================

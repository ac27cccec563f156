---------------------------- MODULE ScheduleTable ----------------------------
(***************************************************************************)
(* The table schedule_rules and the clock it is read against: the state    *)
(* that the modules about the schedule of a miner have in common.          *)
(***************************************************************************)
EXTENDS ScheduleRules

CONSTANTS RuleIds, Groups,
          Instants     \* bound: the instants at which the clock is read

ASSUME TableAssumption ==
  /\ RuleIds \subseteq Nat /\ Instants \subseteq Int
  /\ None \notin Int \cup Groups

VARIABLES
  now,
  rules      \* the row of each id in use

\* The table holds valid rows, none of which is from the future.
TableOK ==
  /\ now \in Instants
  /\ DOMAIN rules \subseteq RuleIds
  /\ \A i \in DOMAIN rules :
       RuleOK(rules[i], Groups) /\ rules[i].effective_from <= now

\* The rule that is in force for a miner of group g, and since when.
InForce(g, t) ==
  LET i == active_rule(rules, g, t)
  IN  <<i, IF i = None THEN None ELSE rule_last_occurrence(rules[i], t)>>
=============================================================================

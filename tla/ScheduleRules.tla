---------------------------- MODULE ScheduleRules ----------------------------
(***************************************************************************)
(* What a set of schedule rules says at an instant: the pure part of       *)
(* scheduler/policy.py and scheduler/repository.py.                        *)
(*                                                                         *)
(* An instant is a number of minutes of local time since some Monday; the  *)
(* farm's time zone is taken to have no clock changes.  days_mask is the   *)
(* set of its weekdays.  The loops over day offsets are the sets of the    *)
(* offsets they accept; the first one a loop returns is the least.         *)
(***************************************************************************)
EXTENDS Integers, FiniteSetsExt

CONSTANT None       \* Python's None: no occurrence, no rule, no group

Day(t) == t \div 1440
weekday(d) == d % 7

ScheduleActions == {"PAUSE", "RESUME"}
schedule_action_state(a) == IF a = "RESUME" THEN "MINING" ELSE "PAUSED"

\* A row that schedule_normalize_input lets through.
RuleOK(r, Groups) ==
  /\ r \in [enabled : BOOLEAN, action : ScheduleActions,
            time_minutes : 0 .. 1439, days : (SUBSET (0 .. 6)) \ {{}},
            scope : {"FARM", "GROUP"}, group_id : Groups \cup {None},
            effective_from : Int]
  /\ r.scope = "FARM" <=> r.group_id = None

\* The occurrence of r on day d.
OccurrenceOn(r, d) == 1440 * d + r.time_minutes

schedule_rule_next_run(r, now) ==
  LET offsets == {o \in 0 .. 8 : /\ weekday(Day(now) + o) \in r.days
                                 /\ OccurrenceOn(r, Day(now) + o) > now}
  IN  IF ~r.enabled \/ offsets = {} THEN None
      ELSE OccurrenceOn(r, Day(now) + Min(offsets))

\* Mutant: today counts as seven days back.
LastOccurrenceWithinAWeek(r, now) ==
  LET offsets == {o \in 0 .. 6 : /\ weekday(Day(now) - o) \in r.days
                                 /\ OccurrenceOn(r, Day(now) - o) <= now
                                 /\ OccurrenceOn(r, Day(now) - o) >= r.effective_from}
  IN  IF offsets = {} THEN None ELSE OccurrenceOn(r, Day(now) - Min(offsets))

rule_last_occurrence(r, now) ==
  LET offsets == {o \in 0 .. 7 : /\ weekday(Day(now) - o) \in r.days
                                 /\ OccurrenceOn(r, Day(now) - o) <= now
                                 /\ OccurrenceOn(r, Day(now) - o) >= r.effective_from}
  IN  IF offsets = {} THEN None ELSE OccurrenceOn(r, Day(now) - Min(offsets))

\* _enabled_schedule_rules and _rules_for_scope: the ids of the enabled rules
\* that a scope has.  rules maps the id of every row to the row.
FarmRules(rules) ==
  {i \in DOMAIN rules : rules[i].enabled /\ rules[i].scope = "FARM"}

GroupRules(rules, g) ==
  {i \in DOMAIN rules : /\ rules[i].enabled /\ rules[i].scope = "GROUP"
                        /\ rules[i].group_id = g /\ g # None}

\* _scope_state_details: the rule that occurred last, of several the one with
\* the least id, since rules are read ORDER BY id and a tie does not replace
\* the winner.
scope_winner(rules, ids, now) ==
  LET seen == {i \in ids : rule_last_occurrence(rules[i], now) # None}
      last == Max({rule_last_occurrence(rules[i], now) : i \in seen})
  IN  IF seen = {} THEN None
      ELSE Min({i \in seen : rule_last_occurrence(rules[i], now) = last})

scope_next_transition(rules, ids, now) ==
  LET runs == {schedule_rule_next_run(rules[i], now) : i \in ids} \ {None}
  IN  IF runs = {} THEN None ELSE Min(runs)

\* _effective_schedule_details of a miner in group g (None: in no group).
\* A group rule that occurred hides every farm rule.
active_rule(rules, g, now) ==
  LET group == scope_winner(rules, GroupRules(rules, g), now)
  IN  IF group # None THEN group ELSE scope_winner(rules, FarmRules(rules), now)

desired_state(rules, g, now) ==
  LET rule == active_rule(rules, g, now)
  IN  IF rule = None THEN None ELSE schedule_action_state(rules[rule].action)

\* Mutant: farm transitions end nothing for a miner of a group with rules.
NextTransitionOfGroupOnly(rules, g, now) ==
  IF GroupRules(rules, g) # {}
  THEN scope_next_transition(rules, GroupRules(rules, g), now)
  ELSE scope_next_transition(rules, FarmRules(rules), now)

next_transition(rules, g, now) ==
  IF scope_winner(rules, GroupRules(rules, g), now) # None
  THEN scope_next_transition(rules, GroupRules(rules, g), now)
  ELSE scope_next_transition(rules, FarmRules(rules) \cup GroupRules(rules, g), now)
=============================================================================

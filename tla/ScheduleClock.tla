---------------------------- MODULE ScheduleClock ----------------------------
(***************************************************************************)
(* A table of rules that nobody edits, while the clock runs: what          *)
(* effective_schedule_states and next_transition_for_miner say of a miner  *)
(* at successive instants must fit together.  A manual command suspends    *)
(* the schedule until the instant that next_transition_for_miner returns.  *)
(***************************************************************************)
EXTENDS ScheduleTable

CONSTANTS Rows,        \* bound: the rows that the table may hold
          History      \* bound: the days over which occurrences are compared

ASSUME ClockAssumption ==
  /\ \A r \in Rows : RuleOK(r, Groups)
  \* a week back from any instant, as far as rule_last_occurrence looks
  /\ History \subseteq Int
  /\ \A t \in Instants : \A o \in 0 .. 7 : Day(t) - o \in History

clock_vars == <<rules, now>>

\* Rows were written before now, with an effective_from that was now then.
ClockInit ==
  /\ now \in Instants
  /\ rules \in [RuleIds -> {r \in Rows : r.effective_from <= now}]

ClockTick ==
  /\ now' \in {t \in Instants : t > now}
  /\ UNCHANGED rules

ClockSpec == ClockInit /\ [][ClockTick]_clock_vars

-----------------------------------------------------------------------------
\* Nothing comes into force before the next transition, and at the next
\* transition a rule does: the search of _rule_last_occurrence over the past
\* and that of schedule_rule_next_run over the future, with their different
\* windows of days, agree for the rules of both scopes, so that an override
\* ends exactly when the schedule next has something to say.
TransitionsAreExact ==
  [][\A g \in Groups \cup {None} :
       LET next == next_transition(rules, g, now) IN
       /\ (next = None \/ now' < next) => InForce(g, now)' = InForce(g, now)
       /\ now' = next => InForce(g, now')[2] = now']_clock_vars

\* The occurrences of r up to t on the days of History, with no window.
Occurrences(r, t) ==
  {u \in {OccurrenceOn(r, d) : d \in {e \in History : weekday(e) \in r.days}} :
     r.effective_from <= u /\ u <= t}

\* The rule in force is the one that occurred last, in the group's rules if
\* any of them ever occurred since it took effect, else in the farm's.
InForceIsTheLatest ==
  \A g \in Groups \cup {None} :
    LET Latest(ids) == UNION {Occurrences(rules[i], now) : i \in ids}
        group == Latest(GroupRules(rules, g))
        farm == Latest(FarmRules(rules))
    IN  InForce(g, now)[2] = IF group # {} THEN Max(group)
                             ELSE IF farm # {} THEN Max(farm) ELSE None
=============================================================================

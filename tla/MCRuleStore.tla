----------------------------- MODULE MCRuleStore -----------------------------
(* Instances of RuleStore: the week has its seven days and the day its 1440  *)
(* minutes; instants and times of day are few.                               *)
EXTENDS RuleStore, TLC

Body(on, a, time, days, g) ==
  [enabled |-> on, action |-> a, time_minutes |-> time, days |-> days,
   scope |-> IF g = None THEN "FARM" ELSE "GROUP", group_id |-> g]

\* Rules that conflict, that differ in scope only, and that are disabled.
RaceBodies ==
  {Body(TRUE, "PAUSE", 420, {2}, None), Body(TRUE, "RESUME", 420, {2, 3}, None)}
  \cup {Body(FALSE, "PAUSE", 420, {2}, g) : g \in Groups}
RaceInstants == {14400, 15120}
RequestSymmetry == Permutations(Requests)
==============================================================================

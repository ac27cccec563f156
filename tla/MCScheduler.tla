----------------------------- MODULE MCScheduler -----------------------------
(* The week has its seven days and the day its 1440 minutes; tables and      *)
(* instants are few: one day (day 9, a Wednesday) with a farm that pauses at *)
(* noon and resumes at midnight, and a group that resumes in the afternoon.  *)
EXTENDS Scheduler

Rule(a, time, days, g) ==
  [enabled |-> TRUE, action |-> a, time_minutes |-> time, days |-> days,
   scope |-> IF g = None THEN "FARM" ELSE "GROUP", group_id |-> g,
   effective_from |-> 0]

FarmTable == <<Rule("PAUSE", 720, 0 .. 6, None), Rule("RESUME", 0, 0 .. 6, None)>>
GroupTable(g) == <<Rule("PAUSE", 720, 0 .. 6, None), Rule("RESUME", 0, 0 .. 6, None),
                   Rule("RESUME", 900, {2}, g)>>
MCTables == {FarmTable} \cup {GroupTable(g) : g \in Groups} \cup {<<>>}
MCInstants == {1440 * 9 + s : s \in {600, 720, 900}}
LateInstants == {1440 * 9 + s : s \in {720, 900}}
==============================================================================

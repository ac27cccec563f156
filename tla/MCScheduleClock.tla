--------------------------- MODULE MCScheduleClock ---------------------------
(* The week has its seven days and the day its 1440 minutes; rows and        *)
(* instants are few and lie around midnight, noon and the end of a week.     *)
EXTENDS ScheduleClock

\* Rules of one day and of every day, at midnight and at noon, for the farm and
\* for a group, old ones and ones that took effect just after an occurrence.
MCRows ==
  [enabled : {TRUE}, action : {"PAUSE"}, time_minutes : {0, 720},
   days : {{2}, 0 .. 6}, scope : {"FARM"}, group_id : {None},
   effective_from : {0, 1440 * 9 + 1}]
  \cup
  [enabled : {TRUE}, action : {"RESUME"}, time_minutes : {0, 720},
   days : {{2}, {2, 5}}, scope : {"GROUP"}, group_id : Groups,
   effective_from : {0, 1440 * 9 + 1}]

\* Around the occurrences of Wednesday (day 9), and a week later.
MCInstants == {1440 * d + s : d \in {9, 16}, s \in {0, 1, 719, 720}} \cup {1440 * 17}
MCHistory == -9 .. 18
==============================================================================

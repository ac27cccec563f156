------------------------ MODULE MCRecurringMaintenance ------------------------
(* Instances of RecurringMaintenance: three instants, and windows that end   *)
(* within them or after.                                                     *)
EXTENDS RecurringMaintenance, TLC

MCInstants == 0 .. 2
MCIntervals == {<<0, 1>>, <<0, 2>>, <<1, 3>>}
MCTargets == {<<"FARM", None>>} \cup ({"GROUP"} \X Groups)
Body(enabled, target, starts) ==
  [enabled |-> enabled, target |-> target, starts |-> starts, duration |-> 1]
\* A rule for the farm, enabled or not, and a rule for a group.
MCBodies == {Body(e, <<"FARM", None>>, {0, 1}) : e \in BOOLEAN}
            \cup {Body(TRUE, <<"GROUP", g>>, {1}) : g \in Groups}
RequestSymmetry == Permutations(Requests)
================================================================================

------------------------ MODULE MCAnomalyPolicyStore ------------------------
(* Values of the constants of AnomalyPolicyStore.                          *)
EXTENDS AnomalyPolicyStore, TLC

Policy(temp, clear) ==
  [interval_seconds |-> 30, offline_grace_seconds |-> 180, hot_temp_c |-> temp,
   hot_clear_c |-> clear, hot_grace_seconds |-> 180,
   schedule_grace_seconds |-> 600]

MCPolicies == {Policy(850, 820), Policy(835, 820)}

MCGroupPatches == {"hot_temp_c" :> 900, "hot_temp_c" :> 830, "hot_temp_c" :> None}

MCMinerPatches == {"hot_clear_c" :> 870, "hot_clear_c" :> 840,
                   "offline_grace_seconds" :> 60}

RequestSymmetry == Permutations(Requests)
=============================================================================

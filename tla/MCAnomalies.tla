----------------------------- MODULE MCAnomalies -----------------------------
(* Values of the constants of Anomalies.                                   *)
EXTENDS Anomalies, TLC

Policy(temp, clear, grace) ==
  [interval_seconds |-> 30, offline_grace_seconds |-> grace, hot_temp_c |-> temp,
   hot_clear_c |-> clear, hot_grace_seconds |-> grace,
   schedule_grace_seconds |-> 1]

MCPolicies == {Policy(850, 820, 0), Policy(850, 820, 1)}

MCGroupLayers == {Inherit, "hot_temp_c" :> 900}

MCMinerLayers == {Inherit, "hot_clear_c" :> 870}

MCTemps == {830, 880}
=============================================================================

--------------------------- MODULE MCControlJobs ---------------------------
(* Instances of ControlJobs for TLC. *)
EXTENDS ControlJobs, TLC

Symmetry == Permutations(Jobs) \cup Permutations(Callers)

\* The histories steer nothing, and the properties of the race run do not look
\* at them: states that differ in them only are one.
WithoutHistory ==
  <<up, minerVars, jobVars, callVars, pool, wpc, wdata, poll>>
=============================================================================

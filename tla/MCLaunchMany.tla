---------------------------- MODULE MCLaunchMany ----------------------------
(* Model values for the launch_many runs. *)
EXTENDS LaunchMany

\* Configs that differ in the call after which they are complete.
MCWants == [j \in 1..NJobs |-> IF j = 1 THEN {"ci", "start"} ELSE {}]
\* Every VM is cloned and started, nothing else.
MCWantsStart == [j \in 1..NJobs |-> {"start"}]
=============================================================================

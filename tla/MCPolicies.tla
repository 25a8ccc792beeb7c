----------------------------- MODULE MCPolicies -----------------------------
(***************************************************************************)
(* Baselines, action policies and agents of the runs of Policies, on the   *)
(* images and with the agents of MCEnvironment.                            *)
(***************************************************************************)
EXTENDS Policies, MCEnvironment

(* No max_steps, or one that cuts a plan in its middle.                    *)
Limits == {NoLimit, 2}

PolicyBackupId == ({-1} \cup (1 .. MaxSteps)) \X (0 .. 7)
=============================================================================

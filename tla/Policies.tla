------------------------------ MODULE Policies ------------------------------
(***************************************************************************)
(* run_policy of evaluation/baselines.py: a plan for an update comes from  *)
(* an operation baseline, which builds it as a whole (Planners), from an   *)
(* action policy, which chooses the next legacy action in the environment, *)
(* or from an agent that acts in the environment as its mask allows        *)
(* (Environment): `policy` says which.                                     *)
(***************************************************************************)
EXTENDS Environment, Planners

CONSTANT ActionPolicies   \* the action policies of a run

ActionPolicyName ==
  {"sequential_m", "sequential_mb", "random", "copy_first",
   "backup_aware_copy_delta", "greedy_smallest_delta"}

ASSUME PoliciesAssumption == ActionPolicies \subseteq ActionPolicyName

VARIABLE policy   \* an action policy, "agent" or "baseline"

policyVars == <<envVars, planning, policy>>

(* There is no environment behind a baseline, and no baseline behind an    *)
(* episode.                                                                *)
NoEpisode ==
  /\ working = << >> /\ idOf = << >> /\ remaining = {} /\ steps = 0
  /\ actions = {} /\ pc = "idle" /\ current = << >>

NoPlan ==
  /\ planner = "none" /\ stage = "idle" /\ next = 0 /\ plan = << >> /\ limit = NoLimit
  /\ draft = << >> /\ saved = << >> /\ search = NoSearch /\ sim = << >>

PolicyInit ==
  \/ policy = "baseline" /\ PlanningInit /\ NoEpisode
  \/ policy = "agent" /\ EnvInit /\ actions # Legacy /\ NoPlan
  \/ policy \in ActionPolicies /\ EnvInit /\ actions = Legacy /\ NoPlan

-----------------------------------------------------------------------------
(* _first_remaining: the blocks remain in the order of the image.          *)
FirstOf(targets) == Min(targets)

(* The targets whose block is somewhere in the working image.              *)
Copyable == {t \in remaining : Matches(t) # {}}

(* _target_needs_backup, _action_for_target                                *)
NeedsBackup(t) == t < Len(snapshot) /\ Target(t) # snapshot[t + 1]

(* Variant: wrong way round.                                               *)
ActionForChanged(t) == IF NeedsBackup(t) THEN "M" ELSE "MB"

ActionFor(t) == IF NeedsBackup(t) THEN "MB" ELSE "M"

(* The target with the smallest patch: any, patch sizes being free, and    *)
(* the first when there is nothing to make a patch from.                   *)
SmallestPatch == IF working = << >> THEN {FirstOf(remaining)} ELSE remaining

(* What each policy may choose next: an action and a target.               *)
Offered ==
  CASE policy = "sequential_m"  -> {<<"M", FirstOf(remaining)>>}
    [] policy = "sequential_mb" -> {<<"MB", FirstOf(remaining)>>}
    [] policy = "random"        -> Legacy \X remaining
    [] policy = "copy_first"    ->
         {<<"M", FirstOf(IF Copyable # {} THEN Copyable ELSE remaining)>>}
    [] policy = "backup_aware_copy_delta" ->
         LET unchanged == {t \in remaining : ~NeedsBackup(t)}
         IN  IF unchanged # {} THEN {<<"M", FirstOf(unchanged)>>}
             ELSE {<<ActionFor(t), t>> :
                     t \in IF Copyable # {} THEN {FirstOf(Copyable)} ELSE SmallestPatch}
    [] policy = "greedy_smallest_delta" -> {"M"} \X SmallestPatch

Choose ==
  /\ pc = "choose" /\ policy \in ActionPolicies
  /\ \E choice \in Offered : ApplyLegacy(choice[1], choice[2])

(* The rest of a step, whoever chose the action.                           *)
GoOn ==
  \/ LegacyBackup
  \/ pc = "modify" /\ \E op \in Modifications(current.target) : Modify(op)
  \/ Finalize
  \/ CompleteUpdate

PolicyNext ==
  \/ policy = "agent" /\ EnvNext /\ UNCHANGED <<planning, policy>>
  \/ policy \in ActionPolicies /\ (Choose \/ GoOn) /\ UNCHANGED <<planning, policy>>
  \/ policy = "baseline" /\ PlanningNext /\ UNCHANGED <<env, pc, policy>>

PolicySpec == PolicyInit /\ [][PolicyNext]_policyVars

-----------------------------------------------------------------------------
(* sequential_mb and backup_aware_copy_delta decide about a backup from    *)
(* the old image or not at all, the device from what is in place: on an    *)
(* old image of as many blocks, where no cut follows, the device is ready  *)
(* to roll back after every step (_target_needs_backup,                    *)
(* _action_for_target, _apply_legacy_action).                              *)
SavingPoliciesStayReady ==
  policy \in {"sequential_mb", "backup_aware_copy_delta"}
    /\ Len(snapshot) = Len(Expected)
  => rollbackReady
=============================================================================

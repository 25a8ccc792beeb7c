----------------------------- MODULE MCRecovery -----------------------------
(***************************************************************************)
(* The plans of the runs of Recovery: every sequence of at most PlanLength *)
(* operations from a small set.                                            *)
(***************************************************************************)
EXTENDS Recovery, MCOperations

CONSTANT PlanLength

PlansOf(kinds) == UNION {[1 .. n -> kinds] : n \in 1 .. PlanLength}

(* Operations that move, cut, save and lose blocks, read what earlier ones *)
(* wrote, fail, roll back, take checkpoints and may lead to the image that *)
(* is meant.                                                               *)
RecoveryKinds ==
  {BackupOf(0, "b0"), DeltaTo(InPlace(0), 0, A, C), CopyTo(InPlace(0), 1, NoHash),
   CopyTo(Saved("b0"), 2, A), CutBytes(4), CutBytes(3), RollbackTo("b0"), CheckpointHere}

(* Operations that lead to the image that is meant and commit it, early or *)
(* late, before or after a checkpoint; and a commit that may lie between a *)
(* checkpoint and the cut.                                                 *)
InstallKinds ==
  {BackupOf(0, "b0"), DeltaTo(InPlace(0), 0, A, C), AppendOf(Short),
   CheckpointHere, CommitHere}
CommitKinds == {DeltaTo(InPlace(0), 0, A, C), CheckpointHere, CommitHere}

RecoveryPlans == PlansOf(RecoveryKinds)
InstallPlans == PlansOf(InstallKinds)
CommitPlans == PlansOf(CommitKinds)

Quarters == {0, 25, 50, 75, 100}
=============================================================================

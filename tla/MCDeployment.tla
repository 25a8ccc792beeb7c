---------------------------- MODULE MCDeployment ----------------------------
(***************************************************************************)
(* The plans that the runs of Deployment choose operations from.           *)
(***************************************************************************)
EXTENDS Deployment, MCOperations

(* Plans that move no blocks and name backups by their index, with and     *)
(* without the image that is meant, committed or not.                      *)
InPlaceKinds ==
  {BackupOf(0, "b0"), BackupOf(1, "b1"), CopyTo(InPlace(0), 1, NoHash),
   CopyTo(Saved("b0"), 0, NoHash), Raw(0, C), Raw(2, Short), CutBlocks(1),
   RollbackTo(SnapshotId), RollbackTo("b1"), CheckpointHere, CommitHere}

(* Plans that meet the budgets.                                            *)
GrowingKinds ==
  {BackupOf(0, "b0"), Raw(0, C), Raw(2, Short), AppendOf(A), CutBlocks(1),
   DeltaTo(InPlace(0), 0, A, C), RollbackTo("b0"), RollbackTo(SnapshotId),
   CheckpointHere, CommitHere, DeleteFrom(0, 2)}
=============================================================================

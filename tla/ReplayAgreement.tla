--------------------------- MODULE ReplayAgreement ---------------------------
(***************************************************************************)
(* "Correct replay versus feasible deployment": the deployment simulator   *)
(* and the replay engine are two implementations of the same operations,   *)
(* written apart (deployment/semantics.py, encoding/replay.py).  This      *)
(* module states that without A/B slots the first implements the second:   *)
(* packages, staging, budgets, checkpoints, interruptions and completion   *)
(* change nothing in what a plan does to the image and to the backups, and *)
(* both refuse the same operations.                                        *)
(*                                                                         *)
(* Five fields of ReplayState have no counterpart in DeploymentState; they *)
(* are kept here as history variables, computed from the operations.       *)
(***************************************************************************)
EXTENDS Deployment

VARIABLES history, rolledBack, committed, verified, peakBlocks

observed == <<history, rolledBack, committed, verified, peakBlocks>>
agreementVars == <<vars, observed>>

R == INSTANCE Replay WITH blocks <- installed, stopped <- "operation" \in errors

(* Variant: only append refreshes peak_blocks.                             *)
GrowsByAppend(op) == op.op = "append"

(* The operations that may make the image longer.                          *)
Grows(op) ==
  \/ op.op \in {"copy", "delta", "raw_insert", "append"}
  \/ op.op = "rollback" /\ op.id # SnapshotId

Observe(op) ==
  /\ history' = Append(history, op)
  /\ rolledBack' = (rolledBack \/ op.op = "rollback")
  /\ committed' = (committed \/ op.op = "commit")
  /\ verified' = verified + (IF op.op = "verify" THEN 1 ELSE 0)
  /\ peakBlocks' = IF Grows(op) THEN Max({peakBlocks, Len(installed')}) ELSE peakBlocks

AgreementInit ==
  /\ Init
  /\ history = << >>
  /\ rolledBack = FALSE /\ committed = FALSE /\ verified = 0
  /\ peakBlocks = Len(installed)

AgreementNext ==
  \/ \E op \in Plan :
       \/ Fail(op) /\ UNCHANGED observed
       \/ Succeed(op) /\ Observe(op)
  \/ /\ \/ Running /\ Interrupt
        \/ Running /\ Complete
     /\ UNCHANGED observed

AgreementSpec == AgreementInit /\ [][AgreementNext]_agreementVars

(* Deploying a plan on a single slot is a replay of it: every step of the  *)
(* simulator is the replay step of the same operation, or changes nothing  *)
(* that a replay sees (simulate_deployment, replay_operations).            *)
DeploymentIsReplay == R!ReplaySpec

(* What Replay says of the states it reaches holds in the states the      *)
(* simulator reaches.  Their types are those of ReplayState.               *)
ReplayTypeOK == R!ReplayTypeOK

(* peak_blocks, as replay reports it, covers every image deployed, except  *)
(* one in which a cut at a byte has just split a block longer than         *)
(* block_size: the cut does not refresh it.                                *)
PeakBlocksCover == R!PeakBlocksCover

(* With full-package staging a peak above a budget is reported             *)
(* (_check_budgets), whatever fails, is cut or completes, until a saved    *)
(* block is written back: that write is counted into the peak with the     *)
(* package still staged, and the budget is checked after the staging area  *)
(* is emptied (rollback).                                                  *)
PeaksReported ==
  (\A i \in DOMAIN history : history[i].op = "rollback" => history[i].id = SnapshotId)
    => BudgetsReported

(* Cutting a deployed image at any byte keeps exactly the bytes before it. *)
TruncationExact == R!TruncationExact

(* The image left by a cut consists of full blocks, the last one possibly  *)
(* short, as read_blocks would read it.                                    *)
TruncationNormal == R!TruncationNormal
=============================================================================

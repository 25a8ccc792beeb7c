------------------------------ MODULE Recovery ------------------------------
(***************************************************************************)
(* Interruption scenarios, simulate_interrupted_update of                  *)
(* evaluation/baselines.py: a plan is deployed once without interruption,  *)
(* the baseline of the costs; then it is deployed again on a fresh device, *)
(* power is lost after `cut` operations, and the device recovers: from its *)
(* last checkpoint if it has one, else by rolling back and installing from *)
(* the start if it says it is ready to, else not at all.                   *)
(*                                                                         *)
(* The code runs the device on clones of one DeploymentState; here one     *)
(* state is reused, and the states that later steps compare with are kept  *)
(* in `runs`.  The trial rollback that precedes the decision runs on a     *)
(* clone and cannot fail when rollback_ready holds: it is left out.        *)
(***************************************************************************)
EXTENDS Deployment

CONSTANTS
  Plans,        \* the plans
  Percentages   \* interruption_percentages, in percent

ASSUME RecoveryAssumption ==
  /\ Plans \subseteq Seq(Plan) \ {<< >>}
  /\ Percentages \subseteq 0 .. 100
  /\ Expected # NoImage

VARIABLES
  plan,       \* operations
  pos,        \* operations consumed by the current run of the device
  cut,        \* interrupt_after
  phase,      \* which part of the scenario is running
  strategy,   \* recovery_strategy
  raised,     \* the current run stopped at an exception: recovery_errors
  prefixes,   \* the image and the backups after each operation of the plan
  runs        \* the device when fresh, after the baseline, and at the cut

scenario == <<plan, cut, phase, strategy, prefixes, runs>>
recoveryVars == <<vars, plan, pos, cut, phase, strategy, raised, prefixes, runs>>

(* _interruption_operation_index: at least one operation is always left.   *)
(* In exact percent; the code rounds the product of two floats up, which   *)
(* may be one more (100 operations, 0.07).  No property depends on which.  *)
CutIndex(count, percentage) ==
  IF count <= 1 THEN 0 ELSE Min({count - 1, (count * percentage + 99) \div 100})

RecoveryInit ==
  /\ Init
  /\ plan \in Plans
  /\ pos = 0
  /\ cut = 0
  /\ phase = "baseline"
  /\ strategy = "failed"
  /\ raised = FALSE
  /\ prefixes = << >>
  /\ runs = [fresh |-> State, baseline |-> State, cut |-> State]

-----------------------------------------------------------------------------
(* _apply_operations, and the same loop in simulate_deployment: the        *)
(* operations in order, up to the cut or the end, or until one raises; a   *)
(* failed device refuses them all.                                         *)
End == IF phase = "install" THEN cut ELSE Len(plan)
Stopped == raised \/ pos = End

Consume ==
  /\ phase \in {"baseline", "install", "recover"} /\ ~Stopped
  /\ pos' = pos + 1
  /\ UNCHANGED <<plan, cut, phase, strategy, runs>>

ApplyNext ==
  /\ Consume
  /\ Succeed(plan[pos + 1])
  /\ prefixes' = IF phase = "baseline"
                   THEN Append(prefixes, [installed |-> installed', backups |-> backups'])
                   ELSE prefixes
  /\ UNCHANGED raised

FailNext ==
  /\ Consume
  /\ Fail(plan[pos + 1])
  /\ raised' = TRUE
  /\ UNCHANGED prefixes

RefuseNext ==
  /\ Consume
  /\ ~Running
  /\ raised' = TRUE
  /\ UNCHANGED <<vars, prefixes>>

(* The end of simulate_deployment.                                         *)
EndBaseline ==
  /\ phase = "baseline" /\ Stopped
  /\ IF Running THEN Complete ELSE UNCHANGED vars
  /\ phase' = "measured"
  /\ UNCHANGED <<plan, pos, cut, strategy, raised, prefixes, runs>>

StartScenario(percentage) ==
  /\ phase = "measured"
  /\ runs' = [runs EXCEPT !.baseline = State]
  /\ Become(runs.fresh)
  /\ cut' = CutIndex(Len(plan), percentage)
  /\ pos' = 0 /\ raised' = FALSE
  /\ phase' = "install"
  /\ UNCHANGED <<plan, strategy, prefixes>>

(* An operation raised before the cut: there is nothing to recover.        *)
AbandonScenario ==
  /\ phase = "install" /\ raised
  /\ phase' = "done"
  /\ UNCHANGED <<vars, plan, pos, cut, strategy, raised, prefixes, runs>>

LosePower ==
  /\ phase = "install" /\ Stopped /\ ~raised
  /\ Interrupt
  /\ runs' = [runs EXCEPT !.cut = State]
  /\ phase' = "interrupted"
  /\ UNCHANGED <<plan, pos, cut, strategy, raised, prefixes>>

-----------------------------------------------------------------------------
(* Variant: one operation is skipped.                                    *)
NextAfterCheckpoint ==
  LET taken == runs.cut.checkpoints IN
  IF taken = << >> THEN 0 ELSE taken[Len(taken)].index + 1

CheckpointIndex ==
  LET taken == runs.cut.checkpoints IN
  IF taken = << >> THEN 0 ELSE taken[Len(taken)].index

ResumeFromCheckpoint ==
  /\ phase = "interrupted"
  /\ Resume(Len(checkpoints))
  /\ pos' = CheckpointIndex
  /\ strategy' = "checkpoint_resume" /\ phase' = "recover"
  /\ UNCHANGED <<plan, cut, raised, prefixes, runs>>

(* Variant: the plan does not start again.                               *)
RollbackAndContinue ==
  /\ phase = "interrupted" /\ checkpoints = << >> /\ rollbackReady
  /\ RollbackInstall
  /\ pos' = cut
  /\ strategy' = "rollback_reinstall" /\ phase' = "recover"
  /\ UNCHANGED <<plan, cut, raised, prefixes, runs>>

RollbackAndReinstall ==
  /\ phase = "interrupted" /\ checkpoints = << >> /\ rollbackReady
  /\ RollbackInstall
  /\ pos' = 0
  /\ strategy' = "rollback_reinstall" /\ phase' = "recover"
  /\ UNCHANGED <<plan, cut, raised, prefixes, runs>>

(* "no checkpoint and rollback is not ready"                               *)
GiveUp ==
  /\ phase = "interrupted" /\ checkpoints = << >> /\ ~rollbackReady
  /\ raised' = TRUE /\ phase' = "done"
  /\ UNCHANGED <<vars, plan, pos, cut, strategy, prefixes, runs>>

EndRecovery ==
  /\ phase = "recover" /\ Stopped
  /\ IF raised THEN UNCHANGED vars ELSE Complete
  /\ phase' = "done"
  /\ UNCHANGED <<plan, pos, cut, strategy, raised, prefixes, runs>>

RecoveryNext ==
  \/ ApplyNext \/ FailNext \/ RefuseNext
  \/ EndBaseline \/ \E percentage \in Percentages : StartScenario(percentage)
  \/ AbandonScenario \/ LosePower
  \/ ResumeFromCheckpoint \/ RollbackAndReinstall \/ GiveUp \/ EndRecovery

RecoverySpec == RecoveryInit /\ [][RecoveryNext]_recoveryVars

-----------------------------------------------------------------------------
Holds(s) == BlocksToBytes(s.installed) = BlocksToBytes(Expected)

(* recovery_success                                                        *)
Recovered ==
  /\ phase = "done" /\ strategy # "failed" /\ ~raised
  /\ installState = "complete" /\ Holds(State)

(* Variant: the first attempt is not counted.                            *)
LastRunNetwork == package

(* total_network_bytes and extra_network_bytes of a recovered scenario.    *)
TotalNetwork ==
  IF strategy = "checkpoint_resume"
    THEN LET taken == runs.cut.checkpoints IN
         runs.cut.package + Max({0, package - taken[Len(taken)].package})
    ELSE package

ExtraNetwork == Max({0, TotalNetwork - runs.baseline.package})

-----------------------------------------------------------------------------
(* A device that resumes from its last checkpoint ends in the very state   *)
(* of one that never lost power: the same image, backups, rollback         *)
(* readiness, checkpoints, peaks, violations, errors, verdict and counts.  *)
(* For streaming and one slot: full-package staging is lost with the       *)
(* power, and the A/B fields are not part of a checkpoint.                 *)
ResumeMatchesUninterrupted ==
  phase = "done" /\ strategy = "checkpoint_resume" => State = runs.baseline

(* A device that rolls back and installs again ends with the image, the    *)
(* backups and the verdict of one that never lost power, although it       *)
(* starts with the backups of the first attempt, and has paid for both     *)
(* attempts.                                                               *)
ReinstallMatchesUninterrupted ==
  phase = "done" /\ strategy = "rollback_reinstall" =>
    /\ \A field \in {"installed", "backups", "installState", "errors", "rollbackReady"} :
         State[field] = runs.baseline[field]
    /\ package = runs.cut.package + runs.baseline.package
    /\ flash = runs.cut.flash + runs.baseline.flash

(* An update that works without interruption is recovered after every cut, *)
(* or the device had neither a checkpoint nor a safe rollback; and an      *)
(* update that does not work is never reported recovered.                  *)
RecoveredWhenPossible ==
  phase = "done" =>
    LET works == runs.baseline.installState = "complete" /\ Holds(runs.baseline) IN
    Recovered <=> works /\ (runs.cut.checkpoints # << >> \/ runs.cut.rollbackReady)

(* A checkpoint is the device after as many operations of the plan as its  *)
(* number says: restoring it and going on at that number is right.  Not    *)
(* after a rollback, which leaves the number of operations applied alone,  *)
(* so that a reinstallation counts on from the first attempt.              *)
CheckpointsIndexPlan ==
  strategy # "rollback_reinstall" =>
    \A i \in DOMAIN checkpoints :
      LET c == checkpoints[i] IN
      /\ c.index \in DOMAIN prefixes
      /\ prefixes[c.index] = [installed |-> c.installed, backups |-> c.backups]

(* With automatic checkpoints, fewer than checkpoint_interval_ops          *)
(* operations are lost at any cut, and at least one is left to do.         *)
BoundedLoss ==
  phase = "interrupted" =>
    /\ cut < Len(plan)
    /\ CheckpointInterval > 0 => cut - CheckpointIndex \in 0 .. CheckpointInterval - 1

(* extra_network_bytes is the download of the operations done twice: those *)
(* between the checkpoint that was restored and the cut, or all of them    *)
(* before the cut when the installation starts again.                      *)
ExtraIsRepeatedWork ==
  Recovered =>
    LET repeated == SubSeq(plan, CheckpointIndex + 1, cut)
    IN  ExtraNetwork = FoldLeft(LAMBDA sum, op : sum + DownloadBytes(op), 0, repeated)

(* A recovered A/B update was activated: it was booted, healthy, and its   *)
(* image runs (_finalize_ab_update at the end of the recovery).  For plans *)
(* that commit at the end if at all: the A/B fields are not part of a      *)
(* checkpoint, so a device that resumes from before a refused commit may   *)
(* go on and complete without a boot (the run stale_finalize).             *)
CommitsLast == \A i \in 1 .. Len(plan) - 1 : plan[i].op # "commit"

RecoveredMeansActivated ==
  EnableAB /\ CommitsLast /\ Recovered =>
    ab.valid /\ ab.activeVersion = BlocksToBytes(Expected)

(* Without a healthy boot no update is complete.                           *)
UnhealthyNeverComplete ==
  EnableAB /\ ~Healthy /\ phase = "done" => installState # "complete"
=============================================================================

--------------------------- MODULE RecoveryProofs ---------------------------
(***************************************************************************)
(* Interruption scenarios, for every plan, cut, configuration and image.   *)
(*                                                                         *)
(* What a power loss costs follows from the checkpoints alone.  What the   *)
(* recovered device is follows from operations being functions of the      *)
(* device (Result, in DeploymentProofs): a run of the device follows the   *)
(* trace of the plan.                                                      *)
(***************************************************************************)
EXTENDS Recovery, DeploymentProofs

(* The fields of a device.                                                 *)
StateSet ==
  [installed : Image, backups : BackupArea, applied : Nat, installState : InstallState,
   errors : SUBSET Error, rollbackReady : BOOLEAN, unsafe : SUBSET Marker,
   checkpoints : Seq(CheckpointSet), package : Nat, staging : Nat, flash : Nat,
   peakRam : Nat, peakStorage : Nat, violations : SUBSET Violation, ab : SlotState]

LEMMA StateTyped == TypeInv => State \in StateSet
BY Zenon DEF TypeInv, State, StateSet

LEMMA BecomeType ==
  ASSUME TypeInv, NEW s \in StateSet, Become(s)  PROVE TypeInv'
BY DEF TypeInv, StateSet, Become

(* The number of the last checkpoint of a list, 0 if there is none.        *)
LastIndex(taken) == IF taken = << >> THEN 0 ELSE taken[Len(taken)].index

(* Where a scenario is: the counters, and what the states kept for later   *)
(* comparison are.                                                         *)
ScenarioType ==
  /\ plan \in Seq(Plan) /\ plan # << >>
  /\ pos \in 0 .. Len(plan) /\ cut \in 0 .. Len(plan) - 1
  /\ phase \in {"baseline", "measured", "install", "interrupted", "recover", "done"}
  /\ strategy \in {"failed", "checkpoint_resume", "rollback_reinstall"}
  /\ raised \in BOOLEAN
  /\ runs \in [fresh : StateSet, baseline : StateSet, cut : StateSet]
  /\ runs.fresh.applied = 0 /\ runs.fresh.checkpoints = << >>

Counted ==
  /\ phase \in {"baseline", "install", "interrupted"} /\ ~raised => applied = pos
  /\ phase = "install" => pos <= cut
  /\ phase \in {"baseline", "measured", "install", "interrupted"} => strategy = "failed"
  /\ phase = "interrupted" =>
       /\ pos = cut /\ ~raised
       /\ State = [runs.cut EXCEPT !.installState = "interrupted"]

ScenarioInv == TypeInv /\ CheckpointOrder /\ ScenarioType /\ Counted

-----------------------------------------------------------------------------
(* A cut leaves at least one operation to do.                              *)
LEMMA CutLeavesOne ==
  ASSUME NEW count \in Nat \ {0}, NEW percentage \in Percentages
  PROVE  CutIndex(count, percentage) \in 0 .. count - 1
<1>1. percentage \in Nat  BY RecoveryAssumption
<1> DEFINE scaled == count * percentage
           part   == (scaled + 99) \div 100
<1>2. scaled \in Nat  BY <1>1
<1> HIDE DEF scaled
<1>3. part \in Nat  BY <1>2
<1> HIDE DEF part
<1>4. Min({count - 1, part}) = IF count - 1 <= part THEN count - 1 ELSE part
  BY <1>3, MinOfTwo
<1>5. CutIndex(count, percentage) = IF count <= 1 THEN 0 ELSE Min({count - 1, part})
  BY DEF CutIndex, part, scaled
<1> QED BY <1>3, <1>4, <1>5

(* The checkpoints after an operation.                                     *)
LEMMA SucceedTakes ==
  ASSUME TypeInv, NEW op \in Plan, Succeed(op)
  PROVE  \/ ~TakesCheckpoint(op) /\ checkpoints' = checkpoints
         \/ \E c \in CheckpointSet :
              /\ TakesCheckpoint(op) /\ checkpoints' = Append(checkpoints, c)
              /\ c.index = applied + 1
<1>1. op \in Operation  BY DeploymentAssumption
<1>2. PICK e \in Effect : Bounded(e.refreshed) /\ Perform(op, e)
  BY <1>1, SucceedPerforms DEF Performs
<1>3. \/ checkpoints' = checkpoints
      \/ \E c \in CheckpointSet :
           checkpoints' = Append(checkpoints, c) /\ c.index = applied'
  BY <1>1, <1>2, PerformFacts
<1>4. applied' = applied + 1  BY <1>2 DEF Perform
<1>5. ~TakesCheckpoint(op) => checkpoints' = checkpoints  BY <1>2 DEF Perform
<1>6. TakesCheckpoint(op) => checkpoints' # checkpoints
  <2> SUFFICES ASSUME TakesCheckpoint(op) PROVE checkpoints' # checkpoints  OBVIOUS
  <2>1. PICK c : checkpoints' = Append(checkpoints, c)  BY <1>2 DEF Perform
  <2>2. checkpoints \in Seq(CheckpointSet)  BY DEF TypeInv
  <2>3. Len(Append(checkpoints, c)) = Len(checkpoints) + 1  BY <2>2
  <2> QED BY <2>1, <2>2, <2>3
<1> QED BY <1>3, <1>4, <1>5, <1>6

-----------------------------------------------------------------------------
(* The steps of the device in a scenario.                                  *)
LEMMA DeviceStep ==
  ASSUME TypeInv, CheckpointOrder, ScenarioType,
         \/ \E op \in Plan : Succeed(op) \/ Fail(op)
         \/ Complete \/ Interrupt \/ RollbackInstall
         \/ \E i \in DOMAIN checkpoints : Resume(i)
         \/ Become(runs.fresh)
         \/ UNCHANGED vars
  PROVE  TypeInv' /\ CheckpointOrder'
<1>1. CASE \/ \E op \in Plan : Succeed(op) \/ Fail(op)
           \/ RollbackInstall
           \/ \E i \in DOMAIN checkpoints : Resume(i)
           \/ UNCHANGED vars
  <2>1. [Next]_vars  BY <1>1 DEF Next, UpdateNext, Apply
  <2> QED BY <2>1, NextType, OrderStep
<1>2. CASE Complete
  <2>1. TypeInv'  BY <1>2, CompleteType
  <2> QED BY <1>2, <2>1 DEF Complete, CheckpointOrder
<1>3. CASE Interrupt
  <2>1. TypeInv'  BY <1>3 DEF Interrupt, TypeInv, image, safety, cost, InstallState
  <2> QED BY <1>3, <2>1 DEF Interrupt, CheckpointOrder
<1>4. CASE Become(runs.fresh)
  <2>1. TypeInv'  BY <1>4, BecomeType DEF ScenarioType
  <2>2. checkpoints' = << >>  BY <1>4 DEF Become, ScenarioType
  <2> QED BY <2>1, <2>2 DEF CheckpointOrder
<1> QED BY <1>1, <1>2, <1>3, <1>4

LEMMA RecoverySteps ==
  ASSUME ScenarioType, Counted, RecoveryNext
  PROVE  \/ \E op \in Plan : Succeed(op) \/ Fail(op)
         \/ Complete \/ Interrupt \/ RollbackInstall
         \/ \E i \in DOMAIN checkpoints : Resume(i)
         \/ Become(runs.fresh)
         \/ UNCHANGED vars
<1>1. ASSUME Consume PROVE plan[pos + 1] \in Plan
  <2>1. pos + 1 \in 1 .. Len(plan)
    BY <1>1 DEF Consume, Stopped, End, ScenarioType, Counted
  <2> QED BY <2>1 DEF ScenarioType
<1>2. CASE ApplyNext  BY <1>1, <1>2 DEF ApplyNext
<1>3. CASE FailNext  BY <1>1, <1>3 DEF FailNext
<1> QED BY <1>2, <1>3 DEF RecoveryNext, RefuseNext, EndBaseline, StartScenario,
           AbandonScenario, LosePower, ResumeFromCheckpoint, RollbackAndReinstall,
           GiveUp, EndRecovery, Resume

LEMMA InterruptedCut ==
  ASSUME ScenarioType, Counted, phase = "interrupted"
  PROVE  /\ runs.cut.checkpoints = checkpoints /\ runs.cut.installed = installed
         /\ runs.cut.backups = backups /\ runs.cut.rollbackReady = rollbackReady
         /\ runs.cut.package = package /\ runs.cut.flash = flash
         /\ runs.cut.errors = errors /\ runs.cut.ab = ab
         /\ CheckpointIndex = LastIndex(checkpoints)
<1>1. State = [runs.cut EXCEPT !.installState = "interrupted"]  BY DEF Counted
<1>2. runs.cut \in StateSet  BY DEF ScenarioType
<1> DEFINE s == runs.cut
           u == [s EXCEPT !.installState = "interrupted"]
<1>3. /\ u.checkpoints = s.checkpoints /\ u.installed = s.installed
      /\ u.backups = s.backups /\ u.rollbackReady = s.rollbackReady
      /\ u.package = s.package /\ u.flash = s.flash
      /\ u.errors = s.errors /\ u.ab = s.ab
  BY <1>2 DEF StateSet
<1>4. /\ State.checkpoints = checkpoints /\ State.installed = installed
      /\ State.backups = backups /\ State.rollbackReady = rollbackReady
      /\ State.package = package /\ State.flash = flash
      /\ State.errors = errors /\ State.ab = ab
  BY DEF State
<1> HIDE DEF u
<1>5. u = State  BY <1>1 DEF u
<1> QED BY <1>3, <1>4, <1>5 DEF CheckpointIndex, LastIndex

LEMMA ScenarioStep ==
  ASSUME ScenarioInv, [RecoveryNext]_recoveryVars
  PROVE  ScenarioInv'
<1> USE DEF ScenarioInv
<1>1. TypeInv' /\ CheckpointOrder'
  <2>1. CASE RecoveryNext  BY <2>1, RecoverySteps, DeviceStep
  <2>2. CASE UNCHANGED recoveryVars  BY <2>2, DeviceStep DEF recoveryVars
  <2> QED BY <2>1, <2>2
<1>2. State \in StateSet  BY StateTyped
<1>3. Len(plan) \in Nat \ {0} /\ pos \in Nat /\ cut \in Nat  BY DEF ScenarioType
<1>4. CASE ApplyNext \/ FailNext \/ RefuseNext
  <2>1. /\ Consume /\ pos + 1 \in 1 .. Len(plan) /\ (phase = "install" => pos + 1 <= cut)
        /\ raised = FALSE
    BY <1>4 DEF ApplyNext, FailNext, RefuseNext, Consume, Stopped, End, ScenarioType, Counted
  <2>2. raised' \in BOOLEAN
    BY <1>4 DEF ApplyNext, FailNext, RefuseNext, ScenarioType
  <2>3. ScenarioType'  BY <1>3, <2>1, <2>2 DEF Consume, ScenarioType
  <2>4. ApplyNext => applied' = applied + 1
    BY SucceedYields DEF ApplyNext
  <2>5. ~ApplyNext => raised' = TRUE  BY <1>4 DEF FailNext, RefuseNext
  <2>6. Counted'
    BY <1>3, <2>1, <2>4, <2>5 DEF Consume, Counted
  <2> QED BY <1>1, <2>3, <2>6
<1>5. CASE EndBaseline
  BY <1>1, <1>5 DEF EndBaseline, ScenarioType, Counted
<1>6. ASSUME NEW percentage \in Percentages, StartScenario(percentage)
      PROVE  ScenarioInv'
  <2>1. cut' \in 0 .. Len(plan) - 1  BY <1>3, <1>6, CutLeavesOne DEF StartScenario
  <2>2. runs' \in [fresh : StateSet, baseline : StateSet, cut : StateSet]
        /\ runs'.fresh = runs.fresh
    BY <1>2, <1>6 DEF StartScenario, ScenarioType
  <2>3. /\ pos' = 0 /\ phase' = "install" /\ raised' = FALSE
        /\ plan' = plan /\ strategy' = strategy
    BY <1>6 DEF StartScenario
  <2>4. ScenarioType'
    <3>1. runs'.fresh.applied = 0 /\ runs'.fresh.checkpoints = << >>
      BY <2>2 DEF ScenarioType
    <3>2. pos' \in 0 .. Len(plan)  BY <1>3, <2>3
    <3> QED BY <2>1, <2>2, <2>3, <3>1, <3>2 DEF ScenarioType
  <2>5. applied' = 0  BY <1>6 DEF StartScenario, Become, ScenarioType
  <2>6. Counted'
    BY <1>6, <2>1, <2>3, <2>5 DEF StartScenario, Counted
  <2> QED BY <1>1, <2>4, <2>6
<1>7. CASE AbandonScenario
  BY <1>1, <1>7 DEF AbandonScenario, ScenarioType, Counted
<1>8. CASE LosePower
  <2>1. runs' \in [fresh : StateSet, baseline : StateSet, cut : StateSet]
        /\ runs'.fresh = runs.fresh /\ runs'.cut = State
    BY <1>2, <1>8 DEF LosePower, ScenarioType
  <2>2. ScenarioType'
    BY <1>8, <2>1 DEF LosePower, ScenarioType
  <2>3. State' = [State EXCEPT !.installState = "interrupted"]
    BY <1>8 DEF LosePower, Interrupt, State, image, safety, cost
  <2>4. Counted'
    BY <1>8, <2>1, <2>3 DEF LosePower, Interrupt, Stopped, End, Counted
  <2> QED BY <1>1, <2>2, <2>4
<1>9. CASE ResumeFromCheckpoint
  <2>1. CheckpointIndex \in 0 .. cut
    <3>1. CheckpointIndex = LastIndex(checkpoints) /\ applied = cut
      BY <1>9, InterruptedCut DEF ResumeFromCheckpoint, Counted
    <3>2. /\ Len(checkpoints) \in DOMAIN checkpoints
          /\ checkpoints[Len(checkpoints)] \in CheckpointSet
      BY <1>9 DEF ResumeFromCheckpoint, Resume, TypeInv
    <3>3. /\ checkpoints[Len(checkpoints)].index <= applied
          /\ checkpoints[Len(checkpoints)].index \in Nat
      BY <3>2 DEF CheckpointOrder, CheckpointSet
    <3> QED BY <1>3, <3>1, <3>3 DEF LastIndex
  <2>2. ScenarioType'
    BY <1>9, <2>1 DEF ResumeFromCheckpoint, ScenarioType
  <2> QED BY <1>1, <1>9, <2>2 DEF ResumeFromCheckpoint, Counted
<1>10. CASE RollbackAndReinstall
  BY <1>1, <1>3, <1>10 DEF RollbackAndReinstall, ScenarioType, Counted
<1>11. CASE GiveUp
  BY <1>1, <1>11 DEF GiveUp, ScenarioType, Counted
<1>12. CASE EndRecovery
  BY <1>1, <1>12 DEF EndRecovery, ScenarioType, Counted
<1>13. CASE UNCHANGED recoveryVars
  BY <1>1, <1>13 DEF recoveryVars, vars, ScenarioType, Counted, State
<1> QED BY <1>4, <1>5, <1>6, <1>7, <1>8, <1>9, <1>10, <1>11, <1>12, <1>13 DEF RecoveryNext

LEMMA ScenarioStarts == RecoveryInit => ScenarioInv
<1> SUFFICES ASSUME RecoveryInit PROVE ScenarioInv  OBVIOUS
<1>1. TypeInv  BY InitType DEF RecoveryInit
<1>2. CheckpointOrder /\ applied = 0 /\ checkpoints = << >>
  BY DEF RecoveryInit, Init, CheckpointOrder
<1>3. State \in StateSet  BY <1>1, StateTyped
<1>4. plan \in Seq(Plan) /\ plan # << >>  BY RecoveryAssumption DEF RecoveryInit
<1>5. Len(plan) \in Nat \ {0}  BY <1>4
<1>6. runs.fresh = State /\ State.applied = 0 /\ State.checkpoints = << >>
  BY <1>2 DEF RecoveryInit, State
<1>7. runs \in [fresh : StateSet, baseline : StateSet, cut : StateSet]
  BY <1>3 DEF RecoveryInit
<1>8. ScenarioType
  <2>1. /\ pos = 0 /\ cut = 0 /\ phase = "baseline" /\ strategy = "failed"
        /\ raised = FALSE
    BY DEF RecoveryInit
  <2>2. 0 \in 0 .. Len(plan) /\ 0 \in 0 .. Len(plan) - 1  BY <1>5
  <2> QED BY <1>4, <1>6, <1>7, <2>1, <2>2 DEF ScenarioType
<1>9. Counted  BY <1>2 DEF RecoveryInit, Counted
<1> QED BY <1>1, <1>2, <1>8, <1>9 DEF ScenarioInv

LEMMA ScenarioInvariant == RecoverySpec => []ScenarioInv
BY ScenarioStarts, ScenarioStep, PTL DEF RecoverySpec

-----------------------------------------------------------------------------
(* The operations since the last checkpoint are at most those since the    *)
(* last multiple of the interval.                                          *)
LossInv ==
  phase \in {"install", "interrupted"} /\ ~raised /\ CheckpointInterval > 0 =>
    applied - LastIndex(checkpoints) <= applied % CheckpointInterval

LEMMA NextRemainder ==
  ASSUME NEW a \in Nat, NEW b \in Nat \ {0}
  PROVE  /\ a % b \in 0 .. b - 1 /\ (a + 1) % b \in 0 .. b - 1
         /\ (a + 1) % b = 0 \/ (a + 1) % b = (a % b) + 1
<1> DEFINE q == a \div b  r == a % b  p == (a + 1) \div b  t == (a + 1) % b
<1>1. /\ q \in Nat /\ p \in Nat /\ r \in 0 .. b - 1 /\ t \in 0 .. b - 1
      /\ a = q * b + r /\ a + 1 = p * b + t
  OBVIOUS
<1>2. /\ q * b \in Nat /\ p * b \in Nat
      /\ (q + 1) * b = q * b + b /\ (p + 1) * b = p * b + b
  BY <1>1
<1>3. p <= q + 1
  <2> SUFFICES ASSUME q + 2 <= p PROVE FALSE  BY <1>1
  <2>1. (q + 2) * b <= p * b  BY <1>1, MulMonotone
  <2>2. (q + 2) * b = q * b + b + b  BY <1>1
  <2> QED BY <1>1, <1>2, <2>1, <2>2
<1>4. CASE p = q + 1
  <2>1. t = r + 1 - b  BY <1>1, <1>2, <1>4
  <2> QED BY <1>1, <2>1
<1>5. CASE p <= q
  <2>1. p * b <= q * b  BY <1>1, <1>5, MulMonotone
  <2>2. p = q
    <3> SUFFICES ASSUME p + 1 <= q PROVE FALSE  BY <1>1, <1>5
    <3>1. (p + 1) * b <= q * b  BY <1>1, MulMonotone
    <3> QED BY <1>1, <1>2, <3>1
  <2> QED BY <1>1, <1>2, <2>2
<1> QED BY <1>1, <1>3, <1>4, <1>5

LEMMA LossAfterOperation ==
  ASSUME TypeInv, NEW op \in Plan, Succeed(op), CheckpointInterval > 0,
         applied - LastIndex(checkpoints) <= applied % CheckpointInterval
  PROVE  applied' - LastIndex(checkpoints') <= applied' % CheckpointInterval
<1>1. /\ applied \in Nat /\ applied' = applied + 1
      /\ checkpoints \in Seq(CheckpointSet) /\ Len(checkpoints) \in Nat
  <2>1. applied' = applied + 1  BY SucceedYields
  <2> QED BY <2>1 DEF TypeInv
<1>2. CheckpointInterval \in Nat \ {0}  BY DeploymentAssumption
<1>3. LastIndex(checkpoints) \in Nat
  <2>1. CASE checkpoints = << >>  BY <2>1 DEF LastIndex
  <2>2. CASE checkpoints # << >>
    <3>1. checkpoints[Len(checkpoints)] \in CheckpointSet  BY <1>1, <2>2
    <3> QED BY <2>2, <3>1 DEF LastIndex, CheckpointSet
  <2> QED BY <2>1, <2>2
<1> DEFINE rest == applied % CheckpointInterval
           next == (applied + 1) % CheckpointInterval
<1>4. /\ rest \in Nat /\ next \in Nat /\ (next = 0 \/ next = rest + 1)
  <2>1. /\ rest \in 0 .. CheckpointInterval - 1 /\ next \in 0 .. CheckpointInterval - 1
        /\ next = 0 \/ next = rest + 1
    BY <1>1, <1>2, NextRemainder, Zenon
  <2> HIDE DEF rest, next
  <2> QED BY <2>1
<1>5. CASE ~TakesCheckpoint(op) /\ checkpoints' = checkpoints
  <2>1. next # 0  BY <1>2, <1>5 DEF TakesCheckpoint
  <2>2. applied - LastIndex(checkpoints) <= rest  OBVIOUS
  <2> HIDE DEF rest, next
  <2>3. applied' - LastIndex(checkpoints') <= next  BY <1>1, <1>3, <1>4, <1>5, <2>1, <2>2
  <2> QED BY <1>1, <2>3 DEF next
<1>6. ASSUME NEW c \in CheckpointSet, checkpoints' = Append(checkpoints, c),
             c.index = applied + 1
      PROVE  applied' - LastIndex(checkpoints') <= next
  <2>1. /\ checkpoints' # << >> /\ checkpoints'[Len(checkpoints')] = c
    BY <1>1, <1>6
  <2>2. LastIndex(checkpoints') = applied + 1  BY <1>6, <2>1 DEF LastIndex
  <2> HIDE DEF next
  <2> QED BY <1>1, <1>4, <2>2
<1> QED BY <1>1, <1>5, <1>6, SucceedTakes

LEMMA LossStep ==
  ASSUME ScenarioInv, LossInv, [RecoveryNext]_recoveryVars
  PROVE  LossInv'
<1> USE DEF ScenarioInv
<1> SUFFICES ASSUME phase' \in {"install", "interrupted"}, ~raised', CheckpointInterval > 0
             PROVE  applied' - LastIndex(checkpoints') <= applied' % CheckpointInterval
  BY DEF LossInv
<1>1. CASE ApplyNext
  <2>1. phase = "install" /\ ~raised  BY <1>1 DEF ApplyNext, Consume
  <2>2. pos + 1 \in 1 .. Len(plan)
    BY <1>1 DEF ApplyNext, Consume, Stopped, End, ScenarioType, Counted
  <2>3. plan[pos + 1] \in Plan  BY <2>2 DEF ScenarioType
  <2> QED BY <1>1, <2>1, <2>3, LossAfterOperation DEF ApplyNext, LossInv
<1>2. ASSUME NEW percentage \in Percentages, StartScenario(percentage)
      PROVE  applied' - LastIndex(checkpoints') <= applied' % CheckpointInterval
  <2>1. applied' = 0 /\ checkpoints' = << >>
    BY <1>2 DEF StartScenario, Become, ScenarioType
  <2>2. 0 % CheckpointInterval = 0
    BY DeploymentAssumption
  <2> QED BY <2>1, <2>2 DEF LastIndex
<1>3. CASE LosePower
  BY <1>3 DEF LosePower, Interrupt, LossInv
<1>4. CASE UNCHANGED recoveryVars
  BY <1>4 DEF recoveryVars, vars, LossInv
<1>5. CASE \/ FailNext \/ RefuseNext \/ EndBaseline \/ AbandonScenario
           \/ ResumeFromCheckpoint \/ RollbackAndReinstall \/ GiveUp \/ EndRecovery
  BY <1>5 DEF FailNext, RefuseNext, EndBaseline, AbandonScenario,
              ResumeFromCheckpoint, RollbackAndReinstall, GiveUp, EndRecovery
<1> QED BY <1>1, <1>2, <1>3, <1>4, <1>5 DEF RecoveryNext

(* At any cut, at least one operation is left to do, and with automatic    *)
(* checkpoints fewer operations than the interval are lost: for every      *)
(* plan, image and configuration, with A/B slots or without.               *)
THEOREM LossBounded == RecoverySpec => []BoundedLoss
<1>1. RecoveryInit => LossInv
  BY DEF RecoveryInit, LossInv
<1>2. ScenarioInv /\ LossInv => BoundedLoss
  <2> SUFFICES ASSUME ScenarioInv, LossInv, phase = "interrupted" 
               PROVE  /\ cut < Len(plan)
                      /\ CheckpointInterval > 0 =>
                           cut - CheckpointIndex \in 0 .. CheckpointInterval - 1
    BY DEF BoundedLoss
  <2> USE DEF ScenarioInv
  <2>1. cut \in 0 .. Len(plan) - 1 /\ Len(plan) \in Nat  BY DEF ScenarioType
  <2>2. applied = cut /\ ~raised  BY DEF Counted
  <2>3. CheckpointIndex = LastIndex(checkpoints)  BY InterruptedCut
  <2>4. LastIndex(checkpoints) \in 0 .. applied
    <3>1. CASE checkpoints = << >>  BY <2>1, <2>2, <3>1 DEF LastIndex
    <3>2. CASE checkpoints # << >>
      <4>1. /\ Len(checkpoints) \in DOMAIN checkpoints
            /\ checkpoints[Len(checkpoints)] \in CheckpointSet
        BY <3>2 DEF TypeInv
      <4>2. /\ checkpoints[Len(checkpoints)].index <= applied
            /\ checkpoints[Len(checkpoints)].index \in Nat
        BY <4>1 DEF CheckpointOrder, CheckpointSet
      <4> QED BY <2>1, <2>2, <3>2, <4>2 DEF LastIndex
    <3> QED BY <3>1, <3>2
  <2>5. ASSUME CheckpointInterval > 0
        PROVE  cut - CheckpointIndex \in 0 .. CheckpointInterval - 1
    <3>1. applied - LastIndex(checkpoints) <= applied % CheckpointInterval
      BY <2>2, <2>5 DEF LossInv
    <3>2. applied \in Nat /\ CheckpointInterval \in Nat \ {0}
      BY <2>1, <2>2, <2>5, DeploymentAssumption
    <3> DEFINE rest == applied % CheckpointInterval
    <3>3. rest \in 0 .. CheckpointInterval - 1  BY <3>2, NextRemainder, Zenon
    <3> HIDE DEF rest
    <3>4. applied - LastIndex(checkpoints) <= rest  BY <3>1 DEF rest
    <3> QED BY <2>2, <2>3, <2>4, <3>2, <3>3, <3>4
  <2> QED BY <2>1, <2>5
<1> QED BY <1>1, <1>2, ScenarioInvariant, LossStep, PTL DEF RecoverySpec

-----------------------------------------------------------------------------
(* The device after an operation that raises, and after complete().        *)
Broken(s, op) ==
  [installed |-> s.installed, backups |-> s.backups, applied |-> s.applied,
   installState |-> "failed", errors |-> s.errors \cup {"operation"},
   rollbackReady |-> s.rollbackReady, unsafe |-> s.unsafe, checkpoints |-> s.checkpoints,
   package |-> s.package + DownloadBytes(op), staging |-> Load(s, op), flash |-> s.flash,
   peakRam |-> s.peakRam, peakStorage |-> Max({s.peakStorage, Downloaded(s, op)}),
   violations |-> s.violations \cup Exceeded({Downloaded(s, op)}, 0), ab |-> s.ab]

Verdict(s) ==
  IF s.errors # {} THEN "failed"
  ELSE IF s.installState = "rolled_back" THEN "rolled_back" ELSE "complete"

Finished(s) ==
  [installed |-> s.installed, backups |-> s.backups, applied |-> s.applied,
   installState |-> Verdict(s), errors |-> s.errors, rollbackReady |-> s.rollbackReady,
   unsafe |-> s.unsafe, checkpoints |-> s.checkpoints, package |-> s.package,
   staging |-> 0, flash |-> s.flash, peakRam |-> s.peakRam,
   peakStorage |-> Max({s.peakStorage, Level(s.installed, s.backups, 0)}),
   violations |-> s.violations, ab |-> s.ab]

LEMMA FailResult ==
  ASSUME NEW op, Fail(op)
  PROVE  ~Possible(State, op) /\ State' = Broken(State, op)
<1> DEFINE s == State
           download == Level(installed, backups, Staged(op))
<1>1. ~Possible(s, op) /\ Load(s, op) = Staged(op)  BY StateTests DEF Fail
<1>2. /\ s.installed = installed /\ s.backups = backups /\ s.applied = applied
      /\ s.errors = errors /\ s.rollbackReady = rollbackReady /\ s.unsafe = unsafe
      /\ s.checkpoints = checkpoints /\ s.package = package /\ s.flash = flash
      /\ s.peakRam = peakRam /\ s.peakStorage = peakStorage
      /\ s.violations = violations /\ s.ab = ab
  BY StateFields
<1> HIDE DEF s
<1>3. Downloaded(s, op) = download  BY <1>1, <1>2 DEF Downloaded
<1>4. /\ installState' = "failed" /\ errors' = errors \cup {"operation"}
      /\ package' = package + DownloadBytes(op) /\ staging' = Staged(op)
      /\ peakStorage' = Max({peakStorage, download})
      /\ violations' = violations \cup Exceeded({download}, 0)
      /\ installed' = installed /\ backups' = backups /\ applied' = applied
      /\ rollbackReady' = rollbackReady /\ unsafe' = unsafe /\ checkpoints' = checkpoints
      /\ flash' = flash /\ peakRam' = peakRam /\ ab' = ab
  BY Zenon DEF Fail, image, safety
<1> HIDE DEF download
<1>5. State' = Broken(s, op)  BY <1>1, <1>2, <1>3, <1>4, Zenon DEF Broken, State
<1> QED BY <1>1, <1>5 DEF s

LEMMA CompleteResult ==
  ASSUME ~EnableAB, Complete
  PROVE  State' = Finished(State)
<1> DEFINE c     == Completion(installState)
           s     == State
           level == Level(installed, backups, 0)
<1>1. /\ s.installed = installed /\ s.backups = backups /\ s.applied = applied
      /\ s.errors = errors /\ s.rollbackReady = rollbackReady /\ s.unsafe = unsafe
      /\ s.checkpoints = checkpoints /\ s.package = package /\ s.flash = flash
      /\ s.peakRam = peakRam /\ s.peakStorage = peakStorage
      /\ s.violations = violations /\ s.ab = ab /\ s.installState = installState
  BY StateFields
<1> HIDE DEF s
<1>2. /\ c.installed = installed /\ c.errors = errors /\ c.violations = {} /\ c.ab = ab
      /\ c.state = Verdict(s)
  BY <1>1 DEF Completion, Finalizes, Completed, Verdict
<1> HIDE DEF c
<1>3. CompletionLevels(c) = {level}  BY <1>2 DEF CompletionLevels
<1>4. /\ installed' = c.installed /\ installState' = c.state /\ errors' = c.errors
      /\ violations' = violations \cup c.violations /\ ab' = c.ab
      /\ peakStorage' = Max({peakStorage} \cup CompletionLevels(c)) /\ staging' = 0
      /\ backups' = backups /\ applied' = applied /\ rollbackReady' = rollbackReady
      /\ unsafe' = unsafe /\ checkpoints' = checkpoints /\ package' = package
      /\ flash' = flash /\ peakRam' = peakRam
  BY DEF Complete, c, safety
<1>5. {peakStorage} \cup CompletionLevels(c) = {peakStorage, level}
  BY <1>3
<1>6. violations' = violations /\ peakStorage' = Max({peakStorage, level})
  BY <1>2, <1>4, <1>5
<1>7. level = Level(s.installed, s.backups, 0)  BY <1>1
<1> HIDE DEF level
<1>8. State' = Finished(s)  BY <1>1, <1>2, <1>4, <1>6, <1>7, Zenon DEF Finished, State
<1> QED BY <1>8 DEF s

LEMMA BecomeResult ==
  ASSUME NEW s \in StateSet, Become(s)
  PROVE  State' = s
<1> DEFINE r == [installed |-> s.installed, backups |-> s.backups, applied |-> s.applied,
                 installState |-> s.installState, errors |-> s.errors,
                 rollbackReady |-> s.rollbackReady, unsafe |-> s.unsafe,
                 checkpoints |-> s.checkpoints, package |-> s.package,
                 staging |-> s.staging, flash |-> s.flash, peakRam |-> s.peakRam,
                 peakStorage |-> s.peakStorage, violations |-> s.violations, ab |-> s.ab]
<1>1. State' = r  BY DEF Become, State
<1>2. s = r  BY DEF StateSet
<1> QED BY <1>1, <1>2

-----------------------------------------------------------------------------
(* Two devices with the same image, one of which may hold more backups,    *)
(* are changed by an operation in the same way, if it can be applied to    *)
(* the one that holds fewer; the other loses no more for a rollback.       *)
Wider(s, u) ==
  /\ s.installed = u.installed /\ s.errors = u.errors /\ s.ab = u.ab
  /\ DOMAIN u.backups \subseteq DOMAIN s.backups
  /\ \A id \in DOMAIN u.backups : s.backups[id] = u.backups[id]

LEMMA WiderTests ==
  ASSUME NEW s, NEW u, Wider(s, u), NEW op \in Operation, Possible(u, op)
  PROVE  /\ Possible(s, op)
         /\ op.op \in {"copy", "delta"} => Content(s, op.source) = Content(u, op.source)
         /\ op.op = "rollback" /\ op.id # SnapshotId => s.backups[op.id] = u.backups[op.id]
<1>1. \A index : Within(s, index) <=> Within(u, index)  BY DEF Wider, Within
<1>2. \A source \in Source : CanRead(u, source) =>
         CanRead(s, source) /\ Content(s, source) = Content(u, source)
  <2> SUFFICES ASSUME NEW source \in Source, CanRead(u, source)
               PROVE  CanRead(s, source) /\ Content(s, source) = Content(u, source)
    OBVIOUS
  <2>1. source.area \in {"installed", "backup", "image"}  BY DEF Source
  <2>2. CASE source.area = "installed"  BY <1>1, <2>2 DEF Wider, CanRead, Content
  <2>3. CASE source.area = "backup"  BY <2>3 DEF Wider, CanRead, Content
  <2>4. CASE source.area = "image"  BY <2>4 DEF Wider, CanRead, Content
  <2> QED BY <2>1, <2>2, <2>3, <2>4
<1>3. op.op \in {"copy", "delta"} => op.source \in Source /\ CanRead(u, op.source)
  BY OperationKind DEF Possible, CopyOp, DeltaOp
<1>4. op.op = "rollback" /\ op.id # SnapshotId => op.id \in DOMAIN u.backups  BY DEF Possible
<1>5. Possible(s, op)  BY <1>1, <1>2, <1>3, <1>4 DEF Possible, Wider
<1> QED BY <1>2, <1>3, <1>4, <1>5 DEF Wider

LEMMA WiderLoss ==
  ASSUME NEW s, NEW u, Wider(s, u), NEW old
  PROVE  /\ \A target, block : Over(s, old, target, block) \subseteq Over(u, old, target, block)
         /\ \A targets : Gone(s, old, targets) \subseteq Gone(u, old, targets)
<1>1. \A target : Bare(s, old, target) => Bare(u, old, target)  BY DEF Bare, Wider
<1> QED BY <1>1 DEF Over, Gone

LEMMA QuietFields ==
  ASSUME NEW s, NEW op
  PROVE  /\ Quiet(s, op).installed = s.installed /\ Quiet(s, op).backups = s.backups
         /\ Quiet(s, op).state = "installing" /\ Quiet(s, op).errors = s.errors
         /\ Quiet(s, op).ab = s.ab /\ Quiet(s, op).lost = {} /\ Quiet(s, op).written = 0
         /\ Quiet(s, op).ram = 0 /\ Quiet(s, op).violations = {}
BY DEF Quiet

LEMMA WritingFields ==
  ASSUME NEW s, NEW op, NEW target, NEW block, NEW lost, NEW ram
  PROVE  LET w == Writing(s, op, target, block, lost, ram) IN
         /\ w.installed = WriteBlock(s.installed, target, block) /\ w.backups = s.backups
         /\ w.state = "installing" /\ w.errors = s.errors /\ w.ab = s.ab /\ w.lost = lost
         /\ w.written = Holes(s.installed, target) * BlockSize + Len(block)
         /\ w.ram = ram /\ w.violations = {}
<1> DEFINE written == WriteBlock(s.installed, target, block)
           cells   == Holes(s.installed, target) * BlockSize + Len(block)
           levels  == {Level(written, s.backups, Load(s, op))}
           w       == Writing(s, op, target, block, lost, ram)
<1>1. w = [Quiet(s, op) EXCEPT !.installed = written, !.lost = lost, !.ram = ram,
                               !.written = cells, !.refreshed = levels]
  BY DEF Writing
<1> HIDE DEF written, cells, levels, w
<1>2. /\ w.installed = written /\ w.backups = s.backups /\ w.state = "installing"
      /\ w.errors = s.errors /\ w.ab = s.ab /\ w.lost = lost /\ w.written = cells
      /\ w.ram = ram /\ w.violations = {}
  BY <1>1 DEF Quiet
<1> QED BY <1>2 DEF written, cells, w

(* What an effect does, apart from staging and storage.                    *)
Visible(e) == <<e.installed, e.state, e.errors, e.ab, e.written, e.ram, e.violations>>

LEMMA WiderEffect ==
  ASSUME NEW s, NEW u, Wider(s, u), NEW old, NEW op \in Operation, Possible(u, op)
  PROVE  LET e == EffectOf(s, old, op)  d == EffectOf(u, old, op) IN
         /\ Visible(e) = Visible(d) /\ e.errors = s.errors /\ e.ab = s.ab
         /\ e.lost \subseteq d.lost
         /\ e.state \in {"installing", "rolled_back"} \/ op.op = "commit"
         /\ IF op.op = "backup"
              THEN /\ e.backups = SaveBackup(s.backups, op.id, SavedRecord(u, op))
                   /\ d.backups = SaveBackup(u.backups, op.id, SavedRecord(u, op))
              ELSE e.backups = s.backups /\ d.backups = u.backups
<1> DEFINE e == EffectOf(s, old, op)  d == EffectOf(u, old, op)
           Goal == /\ Visible(e) = Visible(d) /\ e.errors = s.errors /\ e.ab = s.ab
                   /\ e.lost \subseteq d.lost
                   /\ e.state \in {"installing", "rolled_back"} \/ op.op = "commit"
                   /\ IF op.op = "backup"
                        THEN /\ e.backups = SaveBackup(s.backups, op.id, SavedRecord(u, op))
                             /\ d.backups = SaveBackup(u.backups, op.id, SavedRecord(u, op))
                        ELSE e.backups = s.backups /\ d.backups = u.backups
<1>0. s.installed = u.installed /\ s.errors = u.errors /\ s.ab = u.ab  BY DEF Wider
<1>1. /\ op.op \in {"copy", "delta"} => Content(s, op.source) = Content(u, op.source)
      /\ op.op = "rollback" /\ op.id # SnapshotId => s.backups[op.id] = u.backups[op.id]
  BY WiderTests
<1>2. /\ \A target, block : Over(s, old, target, block) \subseteq Over(u, old, target, block)
      /\ \A targets : Gone(s, old, targets) \subseteq Gone(u, old, targets)
  BY WiderLoss
<1> SUFFICES Goal  OBVIOUS
<1>3. ASSUME NEW target, NEW block, NEW ram, NEW l, NEW m, l \subseteq m, op.op # "backup",
             e = Writing(s, op, target, block, l, ram),
             d = Writing(u, op, target, block, m, ram)
      PROVE  Goal
  <2> HIDE DEF e, d
  <2>1. /\ e.installed = WriteBlock(s.installed, target, block) /\ e.backups = s.backups
        /\ e.state = "installing" /\ e.errors = s.errors /\ e.ab = s.ab /\ e.lost = l
        /\ e.written = Holes(s.installed, target) * BlockSize + Len(block)
        /\ e.ram = ram /\ e.violations = {}
    BY <1>3, WritingFields
  <2>2. /\ d.installed = WriteBlock(u.installed, target, block) /\ d.backups = u.backups
        /\ d.state = "installing" /\ d.errors = u.errors /\ d.ab = u.ab /\ d.lost = m
        /\ d.written = Holes(u.installed, target) * BlockSize + Len(block)
        /\ d.ram = ram /\ d.violations = {}
    BY <1>3, WritingFields
  <2> QED BY <1>0, <1>3, <2>1, <2>2 DEF Visible
<1>4. CASE op.op = "copy"
  <2> DEFINE block == Content(s, op.source)
             l == Over(s, old, op.target, block)  m == Over(u, old, op.target, block)
  <2>1. e = Writing(s, op, op.target, block, l, Len(block))  BY <1>4 DEF EffectOf
  <2>2. d = Writing(u, op, op.target, block, m, Len(block))  BY <1>1, <1>4 DEF EffectOf
  <2>3. l \subseteq m  BY <1>2
  <2> HIDE DEF e, d, block, l, m
  <2> QED BY <1>3, <1>4, <2>1, <2>2, <2>3
<1>5. CASE op.op = "delta"
  <2> DEFINE ram == Len(op.base) + op.patch + Len(op.result)
             l == Over(s, old, op.target, op.result)  m == Over(u, old, op.target, op.result)
  <2>1. e = Writing(s, op, op.target, op.result, l, ram)  BY <1>5 DEF EffectOf
  <2>2. d = Writing(u, op, op.target, op.result, m, ram)  BY <1>5 DEF EffectOf
  <2>3. l \subseteq m  BY <1>2
  <2> HIDE DEF e, d, ram, l, m
  <2> QED BY <1>3, <1>5, <2>1, <2>2, <2>3
<1>6. CASE op.op = "raw_insert"
  <2> DEFINE l == Over(s, old, op.target, op.data)  m == Over(u, old, op.target, op.data)
  <2>1. e = Writing(s, op, op.target, op.data, l, Len(op.data))  BY <1>6 DEF EffectOf
  <2>2. d = Writing(u, op, op.target, op.data, m, Len(op.data))  BY <1>6 DEF EffectOf
  <2>3. l \subseteq m  BY <1>2
  <2> HIDE DEF e, d, l, m
  <2> QED BY <1>3, <1>6, <2>1, <2>2, <2>3
<1>14. CASE op.op = "append"
  <2> DEFINE count == Len(s.installed)
  <2>1. e = Writing(s, op, count, op.data, {}, Len(op.data))  BY <1>14 DEF EffectOf
  <2>2. d = Writing(u, op, count, op.data, {}, Len(op.data))  BY <1>0, <1>14 DEF EffectOf
  <2> HIDE DEF e, d, count
  <2> QED BY <1>3, <1>14, <2>1, <2>2
<1>7. CASE op.op = "backup"
  <2> DEFINE record == SavedRecord(u, op)
  <2>1. SavedRecord(s, op) = record  BY <1>0 DEF SavedRecord
  <2> DEFINE area(v)  == SaveBackup(v.backups, op.id, record)
             cells    == Len(record.block)
             level(v) == {Level(v.installed, area(v), Load(v, op))}
  <2>2. /\ e = [Quiet(s, op) EXCEPT !.backups = area(s), !.ram = cells, !.written = cells,
                                    !.checked = level(s)]
        /\ d = [Quiet(u, op) EXCEPT !.backups = area(u), !.ram = cells, !.written = cells,
                                    !.checked = level(u)]
    BY <1>7, <2>1 DEF EffectOf
  <2> HIDE DEF e, d, record, area, cells, level
  <2>3. /\ e.backups = area(s) /\ e.ram = cells /\ e.written = cells
        /\ e.installed = s.installed /\ e.state = "installing" /\ e.errors = s.errors
        /\ e.ab = s.ab /\ e.lost = {} /\ e.violations = {}
    BY <2>2 DEF Quiet
  <2>4. /\ d.backups = area(u) /\ d.ram = cells /\ d.written = cells
        /\ d.installed = u.installed /\ d.state = "installing" /\ d.errors = u.errors
        /\ d.ab = u.ab /\ d.lost = {} /\ d.violations = {}
    BY <2>2 DEF Quiet
  <2> QED BY <1>0, <1>7, <2>3, <2>4 DEF Visible, area, record
<1>8. ASSUME NEW blocks, NEW l, NEW m, l \subseteq m, op.op # "backup",
             e = [Quiet(s, op) EXCEPT !.installed = blocks, !.lost = l],
             d = [Quiet(u, op) EXCEPT !.installed = blocks, !.lost = m]
      PROVE  Goal
  <2> HIDE DEF e, d
  <2>1. /\ e.backups = s.backups /\ e.ram = 0 /\ e.written = 0
        /\ e.installed = blocks /\ e.state = "installing" /\ e.errors = s.errors
        /\ e.ab = s.ab /\ e.lost = l /\ e.violations = {}
    BY <1>8 DEF Quiet
  <2>2. /\ d.backups = u.backups /\ d.ram = 0 /\ d.written = 0
        /\ d.installed = blocks /\ d.state = "installing" /\ d.errors = u.errors
        /\ d.ab = u.ab /\ d.lost = m /\ d.violations = {}
    BY <1>8 DEF Quiet
  <2> QED BY <1>0, <1>8, <2>1, <2>2 DEF Visible
<1>9. CASE op.op = "delete"
  <2> DEFINE blocks == DeleteBlocks(s.installed, op.target, op.count)
             gone   == op.target .. op.target + op.count - 1
             l == Gone(s, old, gone)  m == Gone(u, old, gone)
  <2>1. e = [Quiet(s, op) EXCEPT !.installed = blocks, !.lost = l]  BY <1>9 DEF EffectOf
  <2>2. d = [Quiet(u, op) EXCEPT !.installed = blocks, !.lost = m]
    BY <1>0, <1>9 DEF EffectOf
  <2>3. l \subseteq m  BY <1>2
  <2> HIDE DEF e, d, blocks, l, m
  <2> QED BY <1>8, <1>9, <2>1, <2>2, <2>3
<1>10. CASE op.op = "truncate" /\ op.unit = "bytes"
  <2> DEFINE blocks == TruncateBytes(s.installed, op.size)
             l == Gone(s, old, CutAway(s, op))  m == Gone(u, old, CutAway(s, op))
  <2>1. e = [Quiet(s, op) EXCEPT !.installed = blocks, !.lost = l]  BY <1>10 DEF EffectOf
  <2>2. CutAway(s, op) = CutAway(u, op)  BY <1>0 DEF CutAway
  <2>3. d = [Quiet(u, op) EXCEPT !.installed = blocks, !.lost = m]
    BY <1>0, <1>10, <2>2 DEF EffectOf
  <2>4. l \subseteq m  BY <1>2
  <2> HIDE DEF e, d, blocks, l, m
  <2> QED BY <1>8, <1>10, <2>1, <2>3, <2>4
<1>11. CASE op.op = "truncate" /\ op.unit = "blocks"
  <2> DEFINE blocks == Take(s.installed, op.size)
             gone   == op.size .. Len(s.installed) - 1
             l == Gone(s, old, gone)  m == Gone(u, old, gone)
  <2>1. e = [Quiet(s, op) EXCEPT !.installed = blocks, !.lost = l]  BY <1>11 DEF EffectOf
  <2>2. d = [Quiet(u, op) EXCEPT !.installed = blocks, !.lost = m]
    BY <1>0, <1>11 DEF EffectOf
  <2>3. l \subseteq m  BY <1>2
  <2> HIDE DEF e, d, blocks, l, m
  <2> QED BY <1>8, <1>11, <2>1, <2>2, <2>3
<1>12. CASE op.op = "rollback" /\ op.id = SnapshotId
  <2> DEFINE level(v) == {Level(old, v.backups, 0)}
  <2>1. /\ e = [Quiet(s, op) EXCEPT !.installed = old, !.state = "rolled_back", !.staged = 0,
                                    !.refreshed = level(s)]
        /\ d = [Quiet(u, op) EXCEPT !.installed = old, !.state = "rolled_back", !.staged = 0,
                                    !.refreshed = level(u)]
    BY <1>12 DEF EffectOf
  <2> HIDE DEF e, d, level
  <2>2. /\ e.backups = s.backups /\ e.ram = 0 /\ e.written = 0
        /\ e.installed = old /\ e.state = "rolled_back" /\ e.errors = s.errors
        /\ e.ab = s.ab /\ e.lost = {} /\ e.violations = {}
    BY <2>1 DEF Quiet
  <2>3. /\ d.backups = u.backups /\ d.ram = 0 /\ d.written = 0
        /\ d.installed = old /\ d.state = "rolled_back" /\ d.errors = u.errors
        /\ d.ab = u.ab /\ d.lost = {} /\ d.violations = {}
    BY <2>1 DEF Quiet
  <2> QED BY <1>0, <1>12, <2>2, <2>3 DEF Visible
<1>13. CASE op.op = "rollback" /\ op.id # SnapshotId
  <2> DEFINE target == s.backups[op.id].index  block == s.backups[op.id].block
             a == Writing(s, op, target, block, {}, 0)
             b == Writing(u, op, target, block, {}, 0)
  <2>1. e = [a EXCEPT !.state = "rolled_back", !.staged = 0]  BY <1>13 DEF EffectOf
  <2>2. d = [b EXCEPT !.state = "rolled_back", !.staged = 0]  BY <1>1, <1>13 DEF EffectOf
  <2> HIDE DEF e, d, target, block
  <2>3. /\ e.installed = WriteBlock(s.installed, target, block) /\ e.backups = s.backups
        /\ e.state = "rolled_back" /\ e.errors = s.errors /\ e.ab = s.ab /\ e.lost = {}
        /\ e.written = Holes(s.installed, target) * BlockSize + Len(block)
        /\ e.ram = 0 /\ e.violations = {}
    BY <2>1 DEF Writing, Quiet
  <2>4. /\ d.installed = WriteBlock(u.installed, target, block) /\ d.backups = u.backups
        /\ d.state = "rolled_back" /\ d.errors = u.errors /\ d.ab = u.ab /\ d.lost = {}
        /\ d.written = Holes(u.installed, target) * BlockSize + Len(block)
        /\ d.ram = 0 /\ d.violations = {}
    BY <2>2 DEF Writing, Quiet
  <2> QED BY <1>0, <1>13, <2>3, <2>4 DEF Visible
<1>15. CASE op.op = "commit"
  <2> DEFINE state    == IF s.errors # {} THEN "failed" ELSE "complete"
             level(v) == {Level(v.installed, v.backups, 0)}
  <2>1. /\ e = [Quiet(s, op) EXCEPT !.state = state, !.staged = 0, !.refreshed = level(s)]
        /\ d = [Quiet(u, op) EXCEPT !.state = state, !.staged = 0, !.refreshed = level(u)]
    BY <1>0, <1>15 DEF EffectOf
  <2> HIDE DEF e, d, state, level
  <2>2. /\ e.backups = s.backups /\ e.ram = 0 /\ e.written = 0
        /\ e.installed = s.installed /\ e.state = state /\ e.errors = s.errors
        /\ e.ab = s.ab /\ e.lost = {} /\ e.violations = {}
    BY <2>1 DEF Quiet
  <2>3. /\ d.backups = u.backups /\ d.ram = 0 /\ d.written = 0
        /\ d.installed = u.installed /\ d.state = state /\ d.errors = u.errors
        /\ d.ab = u.ab /\ d.lost = {} /\ d.violations = {}
    BY <2>1 DEF Quiet
  <2> QED BY <1>0, <1>15, <2>2, <2>3 DEF Visible
<1>16. CASE op.op \in {"keep", "skip", "verify", "checkpoint"}
  <2>1. e = Quiet(s, op) /\ d = Quiet(u, op)  BY <1>16 DEF EffectOf
  <2> HIDE DEF e, d
  <2>2. /\ e.backups = s.backups /\ e.ram = 0 /\ e.written = 0
        /\ e.installed = s.installed /\ e.state = "installing" /\ e.errors = s.errors
        /\ e.ab = s.ab /\ e.lost = {} /\ e.violations = {}
    BY <2>1 DEF Quiet
  <2>3. /\ d.backups = u.backups /\ d.ram = 0 /\ d.written = 0
        /\ d.installed = u.installed /\ d.state = "installing" /\ d.errors = u.errors
        /\ d.ab = u.ab /\ d.lost = {} /\ d.violations = {}
    BY <2>1 DEF Quiet
  <2> QED BY <1>0, <1>16, <2>2, <2>3 DEF Visible
<1>17. \/ op.op \in {"copy", "delta", "raw_insert", "append", "backup", "delete", "commit",
                      "keep", "skip", "verify", "checkpoint"}
       \/ op.op = "truncate" /\ op.unit = "bytes"
       \/ op.op = "truncate" /\ op.unit = "blocks"
       \/ op.op = "rollback"
  <2>1. op.op \in {"keep", "skip", "backup", "copy", "delta", "raw_insert", "append",
                   "delete", "truncate", "verify", "rollback", "checkpoint", "commit"}
    BY DEF Operation, KeepOp, BackupOp, CopyOp, DeltaOp, RawOp, AppendOp, DeleteOp,
           TruncateOp, VerifyOp, RollbackOp, ControlOp
  <2>2. op.op = "truncate" => op.unit \in {"blocks", "bytes"}  BY OperationKind DEF TruncateOp
  <2> QED BY <2>1, <2>2
<1> QED BY <1>4, <1>5, <1>6, <1>7, <1>9, <1>10, <1>11, <1>12, <1>13, <1>14, <1>15, <1>16,
           <1>17

LEMMA WrittenType ==
  ASSUME NEW s \in StateSet, NEW old, NEW op \in Operation, Possible(s, op)
  PROVE  EffectOf(s, old, op).written \in Nat
<1> DEFINE e == EffectOf(s, old, op)
<1> SUFFICES e.written \in Nat  OBVIOUS
<1>1. /\ s.installed \in Image /\ s.backups \in BackupArea /\ Len(s.installed) \in Nat
      /\ BlockSize \in Nat
  BY BlockSizeAssumption DEF StateSet, Image
<1>2. ASSUME NEW target \in Nat, NEW block \in Block, NEW lost, NEW ram,
             e.written = Writing(s, op, target, block, lost, ram).written
      PROVE  e.written \in Nat
  <2>1. Holes(s.installed, target) \in Nat /\ Len(block) \in Nat
    <3>1. Holes(s.installed, target) \in Nat  BY <1>1, HolesType
    <3>2. Len(block) \in Nat  BY DEF Block
    <3> QED BY <3>1, <3>2
  <2>2. Writing(s, op, target, block, lost, ram).written =
          Holes(s.installed, target) * BlockSize + Len(block)
    BY WritingFields
  <2> HIDE DEF e
  <2> DEFINE holes == Holes(s.installed, target)  size == Len(block)
  <2>3. holes * BlockSize + size \in Nat
    <3> HIDE DEF holes, size
    <3>1. holes \in Nat /\ size \in Nat  BY <2>1 DEF holes, size
    <3> QED BY <1>1, <3>1
  <2> QED BY <1>2, <2>2, <2>3
<1>3. \A id \in DOMAIN s.backups : s.backups[id].index \in Nat /\ s.backups[id].block \in Block
  BY <1>1 DEF BackupArea, BackupRecord
<1>4. \A index \in Nat : Within(s, index) => s.installed[index + 1] \in Block
  BY <1>1 DEF Within, Image
<1>5. CASE op.op = "copy"
  <2> DEFINE block == Content(s, op.source)
  <2>1. op.source \in Source /\ op.target \in Nat /\ CanRead(s, op.source)
    BY <1>5, OperationKind DEF CopyOp, Possible
  <2>2. block \in Block
    <3>1. CASE op.source.area = "installed"
      BY <1>4, <2>1, <3>1 DEF Source, CanRead, Content
    <3>2. CASE op.source.area = "backup"
      BY <1>3, <2>1, <3>2 DEF Source, CanRead, Content
    <3>3. CASE op.source.area = "image"
      BY <1>1, <2>1, <3>3, BytesType DEF Source, CanRead, Content
    <3> QED BY <2>1, <3>1, <3>2, <3>3 DEF Source
  <2>3. e = Writing(s, op, op.target, block, Over(s, old, op.target, block), Len(block))
    BY <1>5 DEF EffectOf
  <2> HIDE DEF e, block
  <2> QED BY <1>2, <2>1, <2>2, <2>3
<1>6. CASE op.op = "delta"
  <2>1. op.target \in Nat /\ op.result \in Block  BY <1>6, OperationKind DEF DeltaOp
  <2> DEFINE lost == Over(s, old, op.target, op.result)
             ram  == Len(op.base) + op.patch + Len(op.result)
  <2>2. e = Writing(s, op, op.target, op.result, lost, ram)  BY <1>6 DEF EffectOf
  <2> HIDE DEF e, lost, ram
  <2> QED BY <1>2, <2>1, <2>2
<1>7. CASE op.op = "raw_insert"
  <2>1. op.target \in Nat /\ op.data \in Block  BY <1>7, OperationKind DEF RawOp
  <2> DEFINE lost == Over(s, old, op.target, op.data)
  <2>2. e = Writing(s, op, op.target, op.data, lost, Len(op.data))  BY <1>7 DEF EffectOf
  <2> HIDE DEF e, lost
  <2> QED BY <1>2, <2>1, <2>2
<1>8. CASE op.op = "append"
  <2>1. op.data \in Block  BY <1>8, OperationKind DEF AppendOp
  <2>2. e = Writing(s, op, Len(s.installed), op.data, {}, Len(op.data))
    BY <1>8 DEF EffectOf
  <2> HIDE DEF e
  <2> QED BY <1>1, <1>2, <2>1, <2>2
<1>9. CASE op.op = "rollback" /\ op.id # SnapshotId
  <2> DEFINE target == s.backups[op.id].index  block == s.backups[op.id].block
  <2>1. target \in Nat /\ block \in Block  BY <1>3, <1>9 DEF Possible
  <2> DEFINE a == Writing(s, op, target, block, {}, 0)
  <2>2. e = [a EXCEPT !.state = "rolled_back", !.staged = 0]  BY <1>9 DEF EffectOf
  <2>3. e.written = a.written  BY <2>2 DEF Writing, Quiet
  <2> HIDE DEF e, target, block
  <2> QED BY <1>2, <2>1, <2>3
<1>10. CASE op.op = "backup"
  <2>1. op.source \in Nat /\ Within(s, op.source)  BY <1>10, OperationKind DEF BackupOp, Possible
  <2>2. Len(SavedRecord(s, op).block) \in Nat  BY <1>4, <2>1 DEF SavedRecord, Block
  <2> DEFINE cells == Len(SavedRecord(s, op).block)
             area  == SaveBackup(s.backups, op.id, SavedRecord(s, op))
             level == {Level(s.installed, area, Load(s, op))}
  <2>3. e = [Quiet(s, op) EXCEPT !.backups = area, !.ram = cells, !.written = cells,
                                 !.checked = level]
    BY <1>10 DEF EffectOf
  <2> HIDE DEF e, cells, area, level
  <2>4. e.written = cells  BY <2>3 DEF Quiet
  <2> QED BY <2>2, <2>4 DEF cells
<1>11. CASE op.op \in {"delete", "truncate", "commit", "keep", "skip", "verify", "checkpoint"}
  <2>1. e.written = 0
    <3>1. CASE op.op = "delete"  BY <3>1 DEF EffectOf, Quiet
    <3>2. CASE op.op = "truncate"
      <4>1. op.unit \in {"blocks", "bytes"}  BY <3>2, OperationKind DEF TruncateOp
      <4> QED BY <3>2, <4>1 DEF EffectOf, Quiet
    <3>3. CASE op.op = "commit"  BY <3>3 DEF EffectOf, Quiet
    <3>4. CASE op.op \in {"keep", "skip", "verify", "checkpoint"}  BY <3>4 DEF EffectOf, Quiet
    <3> QED BY <1>11, <3>1, <3>2, <3>3, <3>4
  <2> QED BY <2>1
<1>12. CASE op.op = "rollback" /\ op.id = SnapshotId
  <2>1. e.written = 0  BY <1>12 DEF EffectOf, Quiet
  <2> QED BY <2>1
<1>13. op.op \in {"keep", "skip", "backup", "copy", "delta", "raw_insert", "append",
                  "delete", "truncate", "verify", "rollback", "checkpoint", "commit"}
  BY DEF Operation, KeepOp, BackupOp, CopyOp, DeltaOp, RawOp, AppendOp, DeleteOp,
         TruncateOp, VerifyOp, RollbackOp, ControlOp
<1> QED BY <1>5, <1>6, <1>7, <1>8, <1>9, <1>10, <1>11, <1>12, <1>13

-----------------------------------------------------------------------------
(* Two devices that differ in what a streaming installation forgets at the *)
(* next operation: the install state, and a violation of the level that    *)
(* is stored, which the next check reports again.                          *)
Alike(s, u) ==
  /\ s.installed = u.installed /\ s.backups = u.backups /\ s.applied = u.applied
  /\ s.errors = u.errors /\ s.rollbackReady = u.rollbackReady /\ s.unsafe = u.unsafe
  /\ s.checkpoints = u.checkpoints /\ s.package = u.package /\ s.flash = u.flash
  /\ s.peakRam = u.peakRam /\ s.peakStorage = u.peakStorage /\ s.ab = u.ab
  /\ u.violations = s.violations \cup Exceeded({Level(u.installed, u.backups, 0)}, 0)

LEMMA SameEffect ==
  ASSUME Staging = "streaming", NEW s, NEW u, NEW old, NEW op \in Operation,
         s.installed = u.installed, s.backups = u.backups, s.errors = u.errors, s.ab = u.ab
  PROVE  /\ Possible(s, op) <=> Possible(u, op)
         /\ Load(s, op) = Load(u, op) /\ EffectOf(s, old, op) = EffectOf(u, old, op)
<1>1. \A index : Within(s, index) <=> Within(u, index)  BY DEF Within
<1>2. \A source \in Source : CanRead(s, source) <=> CanRead(u, source)
  <2>1. \A source \in Source : source.area \in {"installed", "backup", "image"}  BY DEF Source
  <2> QED BY <1>1, <2>1 DEF CanRead
<1>3. \A source : Content(s, source) = Content(u, source)  BY DEF Content
<1>4. Possible(s, op) <=> Possible(u, op)
  <2>1. op.op \in {"copy", "delta"} => op.source \in Source
    BY OperationKind DEF CopyOp, DeltaOp
  <2> QED BY <1>1, <1>2, <1>3, <2>1 DEF Possible
<1>5. Load(s, op) = Load(u, op)  BY DEF Load
<1>6. Quiet(s, op) = Quiet(u, op)  BY <1>5 DEF Quiet
<1>7. \A target : Bare(s, old, target) <=> Bare(u, old, target)  BY DEF Bare
<1>8. \A target, block : Over(s, old, target, block) = Over(u, old, target, block)
  BY <1>7 DEF Over
<1>9. \A targets : Gone(s, old, targets) = Gone(u, old, targets)  BY <1>7 DEF Gone
<1>10. \A target, block, lost, ram :
         Writing(s, op, target, block, lost, ram) = Writing(u, op, target, block, lost, ram)
  BY <1>5, <1>6, Zenon DEF Writing
<1>11. CutAway(s, op) = CutAway(u, op)  BY Zenon DEF CutAway
<1>12. SavedRecord(s, op) = SavedRecord(u, op)  BY Zenon DEF SavedRecord
<1>13. EffectOf(s, old, op) = EffectOf(u, old, op)
  BY <1>3, <1>5, <1>6, <1>8, <1>9, <1>10, <1>11, <1>12 DEF EffectOf
<1> QED BY <1>4, <1>5, <1>13

LEMMA AlikeResult ==
  ASSUME Staging = "streaming", NEW s \in StateSet, NEW u \in StateSet, Alike(s, u),
         NEW old, NEW op \in Operation
  PROVE  /\ Possible(s, op) <=> Possible(u, op)
         /\ Result(s, old, op) = Result(u, old, op)
         /\ Broken(s, op) = Broken(u, op)
<1> DEFINE e == EffectOf(u, old, op)
           level == Level(u.installed, u.backups, 0)
           top   == Downloaded(u, op)
<1>1. /\ Possible(s, op) <=> Possible(u, op)
      /\ Load(s, op) = Load(u, op) /\ EffectOf(s, old, op) = e
  BY SameEffect DEF Alike
<1>2. Downloaded(s, op) = top  BY <1>1 DEF Alike, Downloaded
<1>3. level \in Nat /\ top \in Nat /\ level <= top
  <2>1. Load(u, op) \in Nat  BY DownloadType DEF Load, StateSet
  <2>2. u.installed \in Image /\ u.backups \in BackupArea  BY DEF StateSet
  <2>3. ImageBytes(u.installed) \in Nat /\ BackupBytes(u.backups) \in Nat
    BY <2>2, BytesType, BackupBytesType
  <2> QED BY <2>1, <2>3 DEF Downloaded, Level
<1> HIDE DEF e, level, top
<1>4. ~Exceeds(0, RamBudget)  BY DeploymentAssumption DEF Exceeds
<1>5. \A levels, ram : Exceeded({level}, 0) \subseteq Exceeded({top} \cup levels, ram)
  <2>1. Exceeds(level, StorageBudget) => Exceeds(top, StorageBudget)
    BY <1>3, DeploymentAssumption DEF Exceeds
  <2> QED BY <1>4, <2>1 DEF Exceeded
<1>6. u.violations = s.violations \cup Exceeded({level}, 0)  BY DEF Alike, level
<1>7. Breaches(s, op, e) = Breaches(u, op, e)
  <2>1. Exceeded({level}, 0) \subseteq Exceeded({top} \cup e.checked, e.ram)  BY <1>5
  <2> QED BY <1>2, <1>6, <2>1 DEF Breaches, top
<1>8. HighPoint(s, op, e) = HighPoint(u, op, e)  BY <1>2 DEF HighPoint, Alike, top
<1>9. Markers(s, e) = Markers(u, e) /\ (Taken(s, op) <=> Taken(u, op))
  BY DEF Markers, Taken, Alike
<1>10. CheckpointAfter(s, op, e) = CheckpointAfter(u, op, e)
  BY <1>7, <1>8, <1>9, Zenon DEF CheckpointAfter, Alike
<1>11. After(s, op, e) = After(u, op, e)
  BY <1>7, <1>8, <1>9, <1>10, Zenon DEF After, Alike
<1>12. s.violations \cup Exceeded({top}, 0) = u.violations \cup Exceeded({top}, 0)
  <2>1. Exceeded({level}, 0) \subseteq Exceeded({top} \cup {}, 0)  BY <1>5
  <2>2. {top} \cup {} = {top}  OBVIOUS
  <2> QED BY <1>6, <2>1, <2>2
<1>13. Broken(s, op) = Broken(u, op)
  BY <1>1, <1>2, <1>12, Zenon DEF Broken, Alike, top
<1> QED BY <1>1, <1>11, <1>13 DEF Result, e

-----------------------------------------------------------------------------
(* A device s that recovers, beside the device u that was never cut: it    *)
(* has what it brought from the first attempt besides what u has.          *)
Overlay(area, brought) ==
  [id \in DOMAIN area \cup DOMAIN brought |-> IF id \in DOMAIN area THEN area[id] ELSE brought[id]]

Follows(s, u, brought) ==
  /\ s.installed = u.installed /\ s.errors = u.errors /\ s.ab = u.ab
  /\ s.rollbackReady = u.rollbackReady
  /\ s.backups = Overlay(u.backups, brought.backups)
  /\ s.package = brought.package + u.package /\ s.flash = brought.flash + u.flash

LEMMA OverlayFields ==
  ASSUME NEW area \in BackupArea, NEW brought
  PROVE  /\ DOMAIN Overlay(area, brought) = DOMAIN area \cup DOMAIN brought
         /\ \A id \in DOMAIN area : Overlay(area, brought)[id] = area[id]
         /\ DOMAIN brought \subseteq DOMAIN area => Overlay(area, brought) = area
<1>1. area = [id \in DOMAIN area |-> area[id]]  BY DEF BackupArea
<1>2. ASSUME DOMAIN brought \subseteq DOMAIN area PROVE Overlay(area, brought) = area
  <2>1. DOMAIN area \cup DOMAIN brought = DOMAIN area  BY <1>2
  <2>2. Overlay(area, brought) =
          [id \in DOMAIN area |-> IF id \in DOMAIN area THEN area[id] ELSE brought[id]]
    BY <2>1, Zenon DEF Overlay
  <2>3. Overlay(area, brought) = [id \in DOMAIN area |-> area[id]]  BY <2>2
  <2> QED BY <1>1, <2>3
<1> QED BY <1>2 DEF Overlay

LEMMA OverlaySaved ==
  ASSUME NEW area \in BackupArea, NEW brought, NEW id, NEW record
  PROVE  SaveBackup(Overlay(area, brought), id, record) =
           Overlay(SaveBackup(area, id, record), brought)
<1> DEFINE a == SaveBackup(Overlay(area, brought), id, record)
           b == Overlay(SaveBackup(area, id, record), brought)
           D == DOMAIN area \cup DOMAIN brought \cup {id}
           f(name) == IF name = id THEN record
                      ELSE IF name \in DOMAIN area THEN area[name] ELSE brought[name]
<1>1. DOMAIN Overlay(area, brought) = DOMAIN area \cup DOMAIN brought
  BY DEF Overlay
<1>2. DOMAIN SaveBackup(area, id, record) = DOMAIN area \cup {id}  BY DEF SaveBackup
<1>3. a = [name \in D |-> f(name)]
  BY <1>1 DEF SaveBackup, Overlay
<1>4. b = [name \in D |-> f(name)]
  <2>1. DOMAIN SaveBackup(area, id, record) \cup DOMAIN brought = D  BY <1>2
  <2> QED BY <1>2, <2>1 DEF SaveBackup, Overlay
<1> QED BY <1>3, <1>4

(* It can do what u can, and no more once u has the backups it brought.    *)
LEMMA FollowsPossible ==
  ASSUME NEW s, NEW u \in StateSet, NEW brought, Follows(s, u, brought),
         NEW op \in Operation
  PROVE  /\ Wider(s, u)
         /\ Possible(u, op) => Possible(s, op)
         /\ DOMAIN brought.backups \subseteq DOMAIN u.backups =>
              /\ Wider(u, s) /\ s.backups = u.backups
              /\ Possible(s, op) => Possible(u, op)
<1>1. u.backups \in BackupArea  BY DEF StateSet
<1>2. Wider(s, u)
  <2> DEFINE area == Overlay(u.backups, brought.backups)
  <2>1. /\ DOMAIN u.backups \subseteq DOMAIN area
        /\ \A id \in DOMAIN u.backups : area[id] = u.backups[id]
    BY DEF Overlay
  <2> HIDE DEF area
  <2>2. /\ s.installed = u.installed /\ s.errors = u.errors /\ s.ab = u.ab
        /\ s.backups = area
    BY DEF Follows, area
  <2> QED BY <2>1, <2>2 DEF Wider
<1>3. Possible(u, op) => Possible(s, op)  BY <1>2, WiderTests
<1>4. ASSUME DOMAIN brought.backups \subseteq DOMAIN u.backups
      PROVE  /\ Wider(u, s) /\ s.backups = u.backups
             /\ Possible(s, op) => Possible(u, op)
  <2>1. s.backups = u.backups  BY <1>1, <1>4, OverlayFields DEF Follows
  <2>2. Wider(u, s)  BY <2>1 DEF Wider, Follows
  <2> QED BY <2>1, <2>2, WiderTests
<1> QED BY <1>2, <1>3, <1>4

LEMMA FollowsResult ==
  ASSUME NEW s, NEW u \in StateSet, NEW brought, brought.package \in Nat, brought.flash \in Nat,
         Follows(s, u, brought), NEW op \in Operation, NEW old, Possible(u, op),
         \/ Result(u, old, op).rollbackReady
         \/ DOMAIN brought.backups \subseteq DOMAIN u.backups
  PROVE  /\ Follows(Result(s, old, op), Result(u, old, op), brought)
         /\ Result(s, old, op).installState = Result(u, old, op).installState
<1> DEFINE e == EffectOf(s, old, op)  d == EffectOf(u, old, op)
           p == Result(s, old, op)  q == Result(u, old, op)
<1>1. /\ Wider(s, u) /\ u.backups \in BackupArea
      /\ u.package \in Nat /\ u.flash \in Nat /\ u.rollbackReady \in BOOLEAN
  BY FollowsPossible DEF StateSet
<1>2. /\ Visible(e) = Visible(d) /\ e.errors = s.errors /\ e.ab = s.ab /\ e.lost \subseteq d.lost
      /\ IF op.op = "backup"
           THEN /\ e.backups = SaveBackup(s.backups, op.id, SavedRecord(u, op))
                /\ d.backups = SaveBackup(u.backups, op.id, SavedRecord(u, op))
           ELSE e.backups = s.backups /\ d.backups = u.backups
  BY <1>1, WiderEffect
<1>3. d.written \in Nat /\ DownloadBytes(op) \in Nat  BY WrittenType, DownloadType
<1>4. DOMAIN brought.backups \subseteq DOMAIN u.backups => d.lost \subseteq e.lost
  <2> SUFFICES ASSUME DOMAIN brought.backups \subseteq DOMAIN u.backups
               PROVE  d.lost \subseteq e.lost
    OBVIOUS
  <2>1. Wider(u, s) /\ Possible(s, op)  BY FollowsPossible
  <2> QED BY <2>1, WiderEffect
<1>5. /\ p = After(s, op, e) /\ q = After(u, op, d)  BY DEF Result
<1> HIDE DEF e, d, p, q
<1>6. /\ p.installed = e.installed /\ p.backups = e.backups /\ p.errors = e.errors
      /\ p.ab = e.ab /\ p.installState = e.state
      /\ p.rollbackReady = (s.rollbackReady /\ e.lost = {})
      /\ p.package = s.package + DownloadBytes(op) /\ p.flash = s.flash + e.written
  BY <1>5, Zenon DEF After
<1>7. /\ q.installed = d.installed /\ q.backups = d.backups /\ q.errors = d.errors
      /\ q.ab = d.ab /\ q.installState = d.state
      /\ q.rollbackReady = (u.rollbackReady /\ d.lost = {})
      /\ q.package = u.package + DownloadBytes(op) /\ q.flash = u.flash + d.written
  BY <1>5, Zenon DEF After
<1>8. /\ e.installed = d.installed /\ e.state = d.state /\ e.errors = d.errors
      /\ e.ab = d.ab /\ e.written = d.written
  BY <1>2 DEF Visible
<1>9. p.rollbackReady = q.rollbackReady
  <2>1. s.rollbackReady = u.rollbackReady  BY DEF Follows
  <2>2. q.rollbackReady \/ d.lost \subseteq e.lost  BY <1>4 DEF q
  <2> QED BY <1>1, <1>2, <1>6, <1>7, <2>1, <2>2
<1>10. p.package = brought.package + q.package /\ p.flash = brought.flash + q.flash
  <2>1. s.package = brought.package + u.package /\ s.flash = brought.flash + u.flash
    BY DEF Follows
  <2> QED BY <1>1, <1>3, <1>6, <1>7, <1>8, <2>1
<1>11. p.backups = Overlay(q.backups, brought.backups)
  <2>1. s.backups = Overlay(u.backups, brought.backups)  BY DEF Follows
  <2> QED BY <1>1, <1>2, <1>6, <1>7, <2>1, OverlaySaved
<1>12. Follows(p, q, brought) /\ p.installState = q.installState
  BY <1>6, <1>7, <1>8, <1>9, <1>10, <1>11 DEF Follows
<1> QED BY <1>12 DEF p, q

LEMMA FollowsEnd ==
  ASSUME NEW s, NEW u \in StateSet, NEW brought, brought.package \in Nat, brought.flash \in Nat,
         Follows(s, u, brought), NEW op \in Operation
  PROVE  /\ Follows(Broken(s, op), Broken(u, op), brought)
         /\ Broken(s, op).installState = "failed" /\ Broken(u, op).installState = "failed"
         /\ Broken(s, op).backups = s.backups /\ Broken(u, op).backups = u.backups
         /\ Follows(Finished(s), Finished(u), brought)
         /\ Finished(s).backups = s.backups /\ Finished(u).backups = u.backups
         /\ s.installState = u.installState =>
              Finished(s).installState = Finished(u).installState
<1>1. u.package \in Nat /\ DownloadBytes(op) \in Nat  BY DownloadType DEF StateSet
<1>2. ASSUME NEW v
      PROVE  /\ Broken(v, op).installed = v.installed /\ Broken(v, op).backups = v.backups
             /\ Broken(v, op).errors = v.errors \cup {"operation"} /\ Broken(v, op).ab = v.ab
             /\ Broken(v, op).rollbackReady = v.rollbackReady
             /\ Broken(v, op).package = v.package + DownloadBytes(op)
             /\ Broken(v, op).flash = v.flash /\ Broken(v, op).installState = "failed"
             /\ Finished(v).installed = v.installed /\ Finished(v).backups = v.backups
             /\ Finished(v).errors = v.errors /\ Finished(v).ab = v.ab
             /\ Finished(v).rollbackReady = v.rollbackReady
             /\ Finished(v).package = v.package /\ Finished(v).flash = v.flash
             /\ Finished(v).installState = Verdict(v)
  BY DEF Broken, Finished
<1>3. Follows(Broken(s, op), Broken(u, op), brought)
  <2> DEFINE p == Broken(s, op)  q == Broken(u, op)
  <2>1. /\ p.installed = s.installed /\ p.backups = s.backups /\ p.ab = s.ab
        /\ p.errors = s.errors \cup {"operation"} /\ p.rollbackReady = s.rollbackReady
        /\ p.package = s.package + DownloadBytes(op) /\ p.flash = s.flash
    BY <1>2
  <2>2. /\ q.installed = u.installed /\ q.backups = u.backups /\ q.ab = u.ab
        /\ q.errors = u.errors \cup {"operation"} /\ q.rollbackReady = u.rollbackReady
        /\ q.package = u.package + DownloadBytes(op) /\ q.flash = u.flash
    BY <1>2
  <2> HIDE DEF p, q
  <2>3. Follows(p, q, brought)  BY <1>1, <2>1, <2>2 DEF Follows
  <2> QED BY <2>3 DEF p, q
<1>4. Follows(Finished(s), Finished(u), brought)
  <2> DEFINE p == Finished(s)  q == Finished(u)
  <2>1. /\ p.installed = s.installed /\ p.backups = s.backups /\ p.ab = s.ab
        /\ p.errors = s.errors /\ p.rollbackReady = s.rollbackReady
        /\ p.package = s.package /\ p.flash = s.flash
    BY <1>2
  <2>2. /\ q.installed = u.installed /\ q.backups = u.backups /\ q.ab = u.ab
        /\ q.errors = u.errors /\ q.rollbackReady = u.rollbackReady
        /\ q.package = u.package /\ q.flash = u.flash
    BY <1>2
  <2> HIDE DEF p, q
  <2>3. Follows(p, q, brought)  BY <2>1, <2>2 DEF Follows
  <2> QED BY <2>3 DEF p, q
<1>5. s.installState = u.installState => Verdict(s) = Verdict(u)
  BY DEF Verdict, Follows
<1> QED BY <1>2, <1>3, <1>4, <1>5

-----------------------------------------------------------------------------
(* The trace of a plan p from a fresh device: t[k] is the device after k   *)
(* operations.  The device is regular as long as nothing raised, and its   *)
(* last checkpoint saves the device of the trace that it numbers.          *)
Regular(u, k, fresh) ==
  /\ u.applied = k /\ u.errors = {} /\ u.ab = fresh.ab
  /\ u.installState \in {"ready", "installing", "rolled_back", "complete"}
  /\ Staging = "streaming" => u.staging = 0

Saves(c, u) ==
  /\ c.index = u.applied /\ c.installed = u.installed /\ c.backups = u.backups
  /\ c.package = u.package /\ c.flash = u.flash /\ c.peakRam = u.peakRam
  /\ c.rollbackReady = u.rollbackReady /\ c.unsafe = u.unsafe /\ c.errors = u.errors
  /\ Staging = "streaming" =>
       /\ u.peakStorage = Max({c.peakStorage, Level(u.installed, u.backups, 0)})
       /\ u.violations = c.violations \cup Exceeded({Level(u.installed, u.backups, 0)}, 0)

LastSaved(t, k) ==
  LET taken == t[k].checkpoints
      c     == taken[Len(taken)]
  IN  taken # << >> =>
        /\ c.index \in 1 .. k /\ Saves(c, t[c.index])
        /\ t[c.index].checkpoints = taken

Grows(u, s) ==
  /\ DOMAIN u.backups \subseteq DOMAIN s.backups
  /\ s.rollbackReady => u.rollbackReady

Traced(t, n, p, old, fresh) ==
  /\ n \in 0 .. Len(p) /\ t \in [0 .. n -> StateSet] /\ t[0] = fresh
  /\ \A k \in 1 .. n : Possible(t[k - 1], p[k]) /\ t[k] = Result(t[k - 1], old, p[k])
  /\ \A k \in 0 .. n : Regular(t[k], k, fresh) /\ LastSaved(t, k)
  /\ \A k \in 0 .. n : \A j \in 0 .. k : Grows(t[j], t[k])

LEMMA ResultRegular ==
  ASSUME NEW u \in StateSet, NEW op \in Operation, Possible(u, op), NEW old,
         NEW k \in Nat, NEW fresh, Regular(u, k, fresh), NEW s, s = Result(u, old, op)
  PROVE  /\ Regular(s, k + 1, fresh) /\ Grows(u, s)
         /\ \/ s.checkpoints = u.checkpoints
            \/ \E c : s.checkpoints = Append(u.checkpoints, c) /\ Saves(c, s)
<1> DEFINE e == EffectOf(u, old, op)
<1>1. Wider(u, u)  BY DEF Wider
<1>2. /\ e.errors = u.errors /\ e.ab = u.ab
      /\ e.state \in {"installing", "rolled_back"} \/ op.op = "commit"
      /\ e.backups = u.backups \/ e.backups = SaveBackup(u.backups, op.id, SavedRecord(u, op))
  BY <1>1, WiderEffect
<1>3. op.op = "commit" => e.state = "complete"
  <2> SUFFICES ASSUME op.op = "commit" PROVE e.state = "complete"  OBVIOUS
  <2>1. u.errors = {}  BY DEF Regular
  <2>2. e = [Quiet(u, op) EXCEPT !.state = "complete", !.staged = 0,
                                 !.refreshed = {Level(u.installed, u.backups, 0)}]
    BY <2>1 DEF EffectOf
  <2> HIDE DEF e
  <2> QED BY <2>2 DEF Quiet
<1>4. s = After(u, op, e)  BY DEF Result
<1> HIDE DEF e
<1>5. /\ s.installed = e.installed /\ s.backups = e.backups /\ s.errors = e.errors
      /\ s.ab = e.ab /\ s.installState = e.state /\ s.applied = u.applied + 1
      /\ s.rollbackReady = (u.rollbackReady /\ e.lost = {})
      /\ s.package = u.package + DownloadBytes(op) /\ s.flash = u.flash + e.written
      /\ s.staging = StillStaged(e) /\ s.unsafe = Markers(u, e)
      /\ s.peakRam = Max({u.peakRam, e.ram})
      /\ s.peakStorage = Max({HighPoint(u, op, e), AtRest(e)})
      /\ s.violations = Breaches(u, op, e) \cup Exceeded({AtRest(e)}, 0)
      /\ s.checkpoints = IF Taken(u, op) THEN Append(u.checkpoints, CheckpointAfter(u, op, e))
                                         ELSE u.checkpoints
  <2> DEFINE a == After(u, op, e)
  <2>1. /\ a.installed = e.installed /\ a.backups = e.backups /\ a.errors = e.errors
        /\ a.ab = e.ab /\ a.installState = e.state /\ a.applied = u.applied + 1
        /\ a.rollbackReady = (u.rollbackReady /\ e.lost = {})
        /\ a.package = u.package + DownloadBytes(op) /\ a.flash = u.flash + e.written
        /\ a.staging = StillStaged(e) /\ a.unsafe = Markers(u, e)
        /\ a.peakRam = Max({u.peakRam, e.ram})
        /\ a.peakStorage = Max({HighPoint(u, op, e), AtRest(e)})
        /\ a.violations = Breaches(u, op, e) \cup Exceeded({AtRest(e)}, 0)
        /\ a.checkpoints = IF Taken(u, op) THEN Append(u.checkpoints, CheckpointAfter(u, op, e))
                                           ELSE u.checkpoints
    BY DEF After
  <2>2. s = a  BY <1>4
  <2> HIDE DEF a
  <2> QED BY <2>1, <2>2
<1>6. Staging = "streaming" => StillStaged(e) = 0  BY DEF StillStaged
<1>7. Regular(s, k + 1, fresh)
  BY <1>2, <1>3, <1>5, <1>6 DEF Regular
<1>8. Grows(u, s)
  <2>1. DOMAIN u.backups \subseteq DOMAIN s.backups
    BY <1>2, <1>5 DEF SaveBackup
  <2>2. s.rollbackReady => u.rollbackReady  BY <1>5, Zenon
  <2> QED BY <2>1, <2>2 DEF Grows
<1> DEFINE c == CheckpointAfter(u, op, e)
<1>9. Saves(c, s)
  <2>1. /\ c.index = u.applied + 1 /\ c.installed = e.installed /\ c.backups = e.backups
        /\ c.package = u.package + DownloadBytes(op) /\ c.flash = u.flash + e.written
        /\ c.peakRam = Max({u.peakRam, e.ram}) /\ c.peakStorage = HighPoint(u, op, e)
        /\ c.rollbackReady = (u.rollbackReady /\ e.lost = {}) /\ c.unsafe = Markers(u, e)
        /\ c.violations = Breaches(u, op, e) /\ c.errors = e.errors
    BY Zenon DEF CheckpointAfter
  <2> HIDE DEF c
  <2>2. Staging = "streaming" => AtRest(e) = Level(s.installed, s.backups, 0)
    BY <1>5, <1>6 DEF AtRest
  <2>3. Staging = "streaming" =>
          /\ s.peakStorage = Max({c.peakStorage, Level(s.installed, s.backups, 0)})
          /\ s.violations = c.violations \cup Exceeded({Level(s.installed, s.backups, 0)}, 0)
    BY <1>5, <2>1, <2>2
  <2>4. /\ c.index = s.applied /\ c.installed = s.installed /\ c.backups = s.backups
        /\ c.package = s.package /\ c.flash = s.flash /\ c.peakRam = s.peakRam
        /\ c.rollbackReady = s.rollbackReady /\ c.unsafe = s.unsafe /\ c.errors = s.errors
    BY <1>5, <2>1, Zenon
  <2> QED BY <2>3, <2>4 DEF Saves
<1>10. \/ s.checkpoints = u.checkpoints
       \/ s.checkpoints = Append(u.checkpoints, c)
  BY <1>5
<1> QED BY <1>7, <1>8, <1>9, <1>10

LEMMA TraceGrows ==
  ASSUME NEW p \in Seq(Plan), NEW n \in Nat, n < Len(p), NEW t, NEW old, NEW fresh,
         Traced(t, n, p, old, fresh), NEW s \in StateSet,
         Possible(t[n], p[n + 1]), s = Result(t[n], old, p[n + 1])
  PROVE  Traced([k \in 0 .. n + 1 |-> IF k = n + 1 THEN s ELSE t[k]], n + 1, p, old, fresh)
<1> DEFINE u == [k \in 0 .. n + 1 |-> IF k = n + 1 THEN s ELSE t[k]]
           op == p[n + 1]
<1>0. op \in Operation  BY DeploymentAssumption
<1>1. /\ t \in [0 .. n -> StateSet] /\ t[0] = fresh /\ t[n] \in StateSet
      /\ \A k \in 0 .. n : Regular(t[k], k, fresh) /\ LastSaved(t, k)
      /\ \A k \in 0 .. n : \A j \in 0 .. k : Grows(t[j], t[k])
  BY DEF Traced
<1>2. /\ Regular(s, n + 1, fresh) /\ Grows(t[n], s)
      /\ \/ s.checkpoints = t[n].checkpoints
         \/ \E c : s.checkpoints = Append(t[n].checkpoints, c) /\ Saves(c, s)
  <2> DEFINE v == t[n]
  <2>1. v \in StateSet /\ Regular(v, n, fresh) /\ Possible(v, op) /\ s = Result(v, old, op)
    BY <1>1
  <2> HIDE DEF v, op
  <2> QED BY <1>0, <2>1, ResultRegular DEF v
<1>3. /\ u \in [0 .. n + 1 -> StateSet] /\ u[0] = fresh /\ u[n + 1] = s
      /\ \A k \in 0 .. n : u[k] = t[k]
  BY <1>1
<1> HIDE DEF u
<1>4. \A k \in 1 .. n + 1 : Possible(u[k - 1], p[k]) /\ u[k] = Result(u[k - 1], old, p[k])
  <2> SUFFICES ASSUME NEW k \in 1 .. n + 1
               PROVE  Possible(u[k - 1], p[k]) /\ u[k] = Result(u[k - 1], old, p[k])
    OBVIOUS
  <2>1. CASE k = n + 1  BY <1>3, <2>1
  <2>2. CASE k \in 1 .. n
    <3>1. u[k] = t[k] /\ u[k - 1] = t[k - 1]  BY <1>3, <2>2
    <3>2. Possible(t[k - 1], p[k]) /\ t[k] = Result(t[k - 1], old, p[k])
      BY <2>2 DEF Traced
    <3> QED BY <3>1, <3>2
  <2> QED BY <2>1, <2>2
<1>5. \A k \in 0 .. n + 1 : Regular(u[k], k, fresh)
  BY <1>1, <1>2, <1>3
<1>6. ASSUME NEW k \in 0 .. n  PROVE LastSaved(u, k)
  <2> DEFINE taken == t[k].checkpoints  c == taken[Len(taken)]
  <2>1. u[k] = t[k] /\ LastSaved(t, k)  BY <1>1, <1>3
  <2>2. taken # << >> => /\ c.index \in 1 .. k /\ Saves(c, t[c.index])
                         /\ t[c.index].checkpoints = taken
    BY <2>1 DEF LastSaved
  <2>3. \A i \in 1 .. k : u[i] = t[i]  BY <1>3
  <2>4. c.index \in 1 .. k => u[c.index] = t[c.index]
    <3> HIDE DEF c
    <3> QED BY <2>3
  <2> QED BY <2>1, <2>2, <2>4 DEF LastSaved
<1>7. LastSaved(u, n + 1)
  <2>1. CASE s.checkpoints = t[n].checkpoints
    <3> DEFINE taken == s.checkpoints  c == taken[Len(taken)]
    <3>1. u[n + 1] = s /\ u[n] = t[n] /\ LastSaved(u, n)  BY <1>3, <1>6
    <3>2. taken # << >> => /\ c.index \in 1 .. n /\ Saves(c, u[c.index])
                           /\ u[c.index].checkpoints = taken
      BY <2>1, <3>1 DEF LastSaved
    <3>3. c.index \in 1 .. n => c.index \in 1 .. n + 1  OBVIOUS
    <3> QED BY <3>1, <3>2, <3>3 DEF LastSaved
  <2>2. ASSUME NEW c, s.checkpoints = Append(t[n].checkpoints, c), Saves(c, s)
        PROVE  LastSaved(u, n + 1)
    <3> DEFINE before == t[n].checkpoints  taken == s.checkpoints
    <3>1. before \in Seq(CheckpointSet)  BY <1>1 DEF StateSet
    <3>2. taken # << >> /\ taken[Len(taken)] = c  BY <2>2, <3>1, SMTT(30)
    <3>3. c.index = n + 1  BY <1>2, <2>2 DEF Saves, Regular
    <3> QED BY <1>3, <2>2, <3>2, <3>3 DEF LastSaved
  <2> QED BY <1>2, <2>1, <2>2
<1>8. \A k \in 0 .. n + 1 : \A j \in 0 .. k : Grows(u[j], u[k])
  <2> SUFFICES ASSUME NEW k \in 0 .. n + 1, NEW j \in 0 .. k  PROVE Grows(u[j], u[k])
    OBVIOUS
  <2>1. CASE k \in 0 .. n  BY <1>1, <1>3, <2>1
  <2>2. CASE k = n + 1 /\ j = n + 1  BY <2>2 DEF Grows
  <2>3. CASE k = n + 1 /\ j \in 0 .. n
    <3>1. Grows(t[j], t[n]) /\ Grows(t[n], s)  BY <1>1, <1>2, <2>3
    <3>2. Grows(t[j], s)  BY <3>1 DEF Grows
    <3> QED BY <1>3, <2>3, <3>2
  <2> QED BY <2>1, <2>2, <2>3
<1>9. n + 1 \in 0 .. Len(p)  OBVIOUS
<1>10. \A k \in 0 .. n + 1 : LastSaved(u, k)  BY <1>6, <1>7
<1>11. Traced(u, n + 1, p, old, fresh)
  BY <1>3, <1>4, <1>5, <1>8, <1>9, <1>10 DEF Traced
<1> QED BY <1>11 DEF u

-----------------------------------------------------------------------------
(* Where a scenario stands beside the trace t of its plan, of which n      *)
(* operations are possible.                                                *)
Fresh(f, old) ==
  /\ f.installed = old /\ f.backups = << >> /\ f.applied = 0 /\ f.installState = "ready"
  /\ f.errors = {} /\ f.rollbackReady = TRUE /\ f.checkpoints = << >>
  /\ f.package = 0 /\ f.flash = 0 /\ f.staging = 0

TraceInv(t, n) ==
  /\ n \in Nat /\ Traced(t, n, plan, snapshot, runs.fresh) /\ Fresh(runs.fresh, snapshot)
  /\ prefixes = [k \in 1 .. n |-> [installed |-> t[k].installed, backups |-> t[k].backups]]

Ended(t, n) == n < Len(plan) => ~Possible(t[n], plan[n + 1])

Outcome(t, n) == IF n = Len(plan) THEN Finished(t[n]) ELSE Broken(t[n], plan[n + 1])

(* What the device that recovers has from the first attempt, and where in  *)
(* the plan it starts.                                                     *)
Brought ==
  IF strategy = "checkpoint_resume"
    THEN [backups |-> << >>, package |-> 0, flash |-> 0]
    ELSE [backups |-> runs.cut.backups, package |-> runs.cut.package, flash |-> runs.cut.flash]

Start == IF strategy = "checkpoint_resume" THEN CheckpointIndex ELSE 0

Chosen ==
  IF strategy = "checkpoint_resume"
    THEN runs.cut.checkpoints # << >>
    ELSE /\ strategy = "rollback_reinstall"
         /\ runs.cut.checkpoints = << >> /\ runs.cut.rollbackReady

(* The device follows the trace, and from the second operation on it is in *)
(* the same install state; a resumed streaming one is in the same state.   *)
Recovering(t, n) ==
  /\ pos \in Start .. n /\ Follows(State, t[pos], Brought)
  /\ IF pos = Start THEN installState \in {"ready", "rolled_back"}
                    ELSE installState = t[pos].installState
  /\ strategy = "checkpoint_resume" => applied = pos
  /\ strategy = "checkpoint_resume" /\ Staging = "streaming" =>
       IF pos = Start THEN Alike(State, t[pos]) ELSE State = t[pos]

(* It has ended as the device that was never cut.                          *)
Met ==
  /\ Follows(State, runs.baseline, Brought) /\ backups = runs.baseline.backups
  /\ installState = runs.baseline.installState /\ (raised => installState = "failed")
  /\ strategy = "checkpoint_resume" /\ Staging = "streaming" => State = runs.baseline

Place(t, n) ==
  /\ phase = "baseline" =>
       IF raised THEN n < Len(plan) /\ Ended(t, n) /\ State = Broken(t[n], plan[n + 1])
                 ELSE pos = n /\ State = t[n]
  /\ phase # "baseline" => Ended(t, n)
  /\ phase = "measured" => State = Outcome(t, n)
  /\ phase \notin {"baseline", "measured"} => runs.baseline = Outcome(t, n)
  /\ phase = "install" => IF raised THEN n < Len(plan) ELSE pos <= n /\ State = t[pos]
  /\ phase \in {"interrupted", "recover"} => cut <= n /\ runs.cut = t[cut]
  /\ phase = "recover" => Chosen /\ (IF raised THEN Met ELSE Recovering(t, n))
  /\ phase = "done" =>
       IF strategy = "failed"
         THEN \/ runs.baseline.installState = "failed"
              \/ runs.cut.checkpoints = << >> /\ ~runs.cut.rollbackReady
         ELSE Chosen /\ Met /\ cut <= n /\ runs.cut = t[cut]

Traceable == \E t, n : TraceInv(t, n) /\ Place(t, n)

LEMMA FreshTrace == RecoveryInit => Traceable
<1> SUFFICES ASSUME RecoveryInit PROVE Traceable  OBVIOUS
<1>1. ScenarioInv  BY ScenarioStarts
<1>2. State \in StateSet /\ plan \in Seq(Plan) /\ Len(plan) \in Nat \ {0}
  BY <1>1, StateTyped DEF ScenarioInv, ScenarioType
<1>3. /\ installed = snapshot /\ backups = << >> /\ applied = 0 /\ installState = "ready"
      /\ errors = {} /\ rollbackReady = TRUE /\ checkpoints = << >>
      /\ package = 0 /\ flash = 0 /\ staging = 0
  BY DEF RecoveryInit, Init
<1> DEFINE s == State
           t == [k \in 0 .. 0 |-> s]
<1>4. /\ s.installed = snapshot /\ s.backups = << >> /\ s.applied = 0
      /\ s.installState = "ready" /\ s.errors = {} /\ s.rollbackReady = TRUE
      /\ s.checkpoints = << >> /\ s.package = 0 /\ s.flash = 0 /\ s.staging = 0
  BY <1>3, StateFields
<1>5. /\ runs.fresh = s /\ prefixes = << >> /\ pos = 0 /\ phase = "baseline" /\ raised = FALSE
  BY DEF RecoveryInit
<1>6. s \in StateSet  BY <1>2
<1> HIDE DEF s
<1>7. t \in [0 .. 0 -> StateSet] /\ t[0] = s /\ \A k \in 0 .. 0 : k = 0  BY <1>6
<1> HIDE DEF t
<1>8. Regular(s, 0, s) /\ LastSaved(t, 0) /\ Grows(s, s)
  BY <1>4, <1>7 DEF Regular, LastSaved, Grows
<1>9. Traced(t, 0, plan, snapshot, s)
  <2>1. \A k \in 0 .. 0 : Regular(t[k], k, s) /\ LastSaved(t, k)  BY <1>7, <1>8
  <2>2. \A k \in 0 .. 0 : \A j \in 0 .. k : Grows(t[j], t[k])  BY <1>7, <1>8
  <2>3. 0 \in 0 .. Len(plan)  BY <1>2
  <2> QED BY <1>7, <2>1, <2>2, <2>3 DEF Traced
<1>10. Fresh(s, snapshot)  BY <1>4 DEF Fresh
<1>11. prefixes = [k \in 1 .. 0 |-> [installed |-> t[k].installed, backups |-> t[k].backups]]
  BY <1>5
<1>12. TraceInv(t, 0)  BY <1>5, <1>9, <1>10, <1>11 DEF TraceInv
<1>13. Place(t, 0)  BY <1>5, <1>7 DEF Place, s
<1> QED BY <1>12, <1>13 DEF Traceable

LEMMA SnapshotKept ==
  ASSUME ScenarioInv, RecoveryNext  PROVE snapshot' = snapshot
<1>1. ASSUME NEW op \in Plan, Succeed(op) PROVE snapshot' = snapshot
  BY <1>1, SucceedReports DEF ScenarioInv
<1>2. \/ \E op \in Plan : Succeed(op) \/ Fail(op)
      \/ Complete \/ Interrupt \/ RollbackInstall
      \/ \E i \in DOMAIN checkpoints : Resume(i)
      \/ Become(runs.fresh)
      \/ UNCHANGED vars
  BY RecoverySteps DEF ScenarioInv
<1> QED BY <1>1, <1>2 DEF Fail, Complete, Interrupt, RollbackInstall, Resume,
           RestoreCheckpoint, Become, vars

LEMMA TraceKept ==
  ASSUME NEW t, NEW n, TraceInv(t, n), plan' = plan, snapshot' = snapshot,
         prefixes' = prefixes, runs'.fresh = runs.fresh
  PROVE  TraceInv(t, n)'
BY DEF TraceInv

(* The operation that is consumed.                                         *)
LEMMA Consumed ==
  ASSUME ScenarioInv, Consume
  PROVE  /\ pos + 1 \in 1 .. Len(plan) /\ plan[pos + 1] \in Operation
         /\ plan[pos + 1] \in Plan /\ ~raised /\ pos \in Nat /\ Len(plan) \in Nat
BY DeploymentAssumption DEF Consume, Stopped, End, ScenarioInv, ScenarioType, Counted

LEMMA TraceFacts ==
  ASSUME ScenarioInv, NEW t, NEW n, TraceInv(t, n)
  PROVE  /\ n \in Nat /\ n <= Len(plan) /\ plan \in Seq(Plan) /\ Len(plan) \in Nat \ {0}
         /\ t \in [0 .. n -> StateSet] /\ t[0] = runs.fresh
         /\ \A k \in 0 .. n : t[k] \in StateSet /\ Regular(t[k], k, runs.fresh)
         /\ \A k \in 0 .. n - 1 : /\ Possible(t[k], plan[k + 1])
                                  /\ t[k + 1] = Result(t[k], snapshot, plan[k + 1])
<1>1. /\ n \in Nat /\ Traced(t, n, plan, snapshot, runs.fresh)
      /\ plan \in Seq(Plan) /\ plan # << >>
  BY DEF TraceInv, ScenarioInv, ScenarioType
<1>2. n \in 0 .. Len(plan) /\ t \in [0 .. n -> StateSet] /\ t[0] = runs.fresh
      /\ \A k \in 0 .. n : Regular(t[k], k, runs.fresh)
  BY <1>1 DEF Traced
<1>3. ASSUME NEW k \in 0 .. n - 1
      PROVE  /\ Possible(t[k], plan[k + 1])
             /\ t[k + 1] = Result(t[k], snapshot, plan[k + 1])
  <2>1. k + 1 \in 1 .. n /\ (k + 1) - 1 = k  BY <1>1
  <2>2. \A j \in 1 .. n : Possible(t[j - 1], plan[j]) /\ t[j] = Result(t[j - 1], snapshot, plan[j])
    BY <1>1 DEF Traced
  <2> QED BY <2>1, <2>2
<1>4. Len(plan) \in Nat \ {0} /\ n <= Len(plan)  BY <1>1, <1>2
<1> QED BY <1>1, <1>2, <1>3, <1>4

LEMMA BaselineStep ==
  ASSUME ~EnableAB, ScenarioInv, ScenarioInv', RecoveryNext, phase = "baseline", Traceable
  PROVE  Traceable'
<1>0. PICK t, n : TraceInv(t, n) /\ Place(t, n)  BY DEF Traceable
<1>1. snapshot' = snapshot  BY SnapshotKept
<1>2. /\ n \in Nat /\ n <= Len(plan) /\ plan \in Seq(Plan)
      /\ \A k \in 0 .. n : t[k] \in StateSet /\ Regular(t[k], k, runs.fresh)
  BY <1>0, TraceFacts
<1>3. IF raised THEN n < Len(plan) /\ Ended(t, n) /\ State = Broken(t[n], plan[n + 1])
                ELSE pos = n /\ State = t[n]
  BY <1>0 DEF Place
<1>4. CASE ApplyNext
  <2> DEFINE op == plan[pos + 1]  s == State'
             u == [k \in 0 .. n + 1 |-> IF k = n + 1 THEN s ELSE t[k]]
  <2>1. /\ ~raised /\ pos = n /\ State = t[n] /\ n + 1 \in 1 .. Len(plan)
        /\ phase' = "baseline" /\ raised' = raised /\ pos' = n + 1 /\ plan' = plan
        /\ runs' = runs
        /\ prefixes' = Append(prefixes, [installed |-> installed', backups |-> backups'])
    BY <1>3, <1>4, Consumed DEF ApplyNext, Consume
  <2>2. Possible(t[n], op) /\ s = Result(t[n], snapshot, op)
    BY <1>4, <2>1, SucceedResult DEF ApplyNext
  <2>3. s \in StateSet
    <3>1. TypeInv'  BY DEF ScenarioInv
    <3> QED BY <3>1, Zenon DEF TypeInv, State, StateSet
  <2>4. s.installed = installed' /\ s.backups = backups'  BY DEF State
  <2> HIDE DEF s
  <2>5. Traced(t, n, plan, snapshot, runs.fresh)  BY <1>0 DEF TraceInv
  <2>6. Traced(u, n + 1, plan, snapshot, runs.fresh)
    <3>1. n < Len(plan) /\ op = plan[n + 1]  BY <1>2, <2>1
    <3> HIDE DEF op
    <3> QED BY <1>2, <2>2, <2>3, <2>5, <3>1, TraceGrows
  <2>7. /\ u[n + 1] = s /\ \A k \in 0 .. n : u[k] = t[k]
    BY <1>2
  <2> HIDE DEF u, op
  <2>8. prefixes' = [k \in 1 .. n + 1 |-> [installed |-> u[k].installed, backups |-> u[k].backups]]
    <3> DEFINE entry(k) == [installed |-> u[k].installed, backups |-> u[k].backups]
               P == [k \in 1 .. n |-> entry(k)]
    <3>1. prefixes = P
      <4>1. prefixes = [k \in 1 .. n |-> [installed |-> t[k].installed, backups |-> t[k].backups]]
        BY <1>0 DEF TraceInv
      <4>2. \A k \in 1 .. n : u[k] = t[k]  BY <1>2, <2>7
      <4> QED BY <4>1, <4>2
    <3>2. entry(n + 1) = [installed |-> installed', backups |-> backups']  BY <2>4, <2>7
    <3>3. Append(P, entry(n + 1)) = [k \in 1 .. n + 1 |-> entry(k)]
      <4> HIDE DEF entry
      <4>1. Len(P) = n  BY <1>2
      <4> QED BY <1>2, <4>1
    <3> HIDE DEF P
    <3>4. prefixes' = Append(P, entry(n + 1))  BY <2>1, <3>1, <3>2
    <3> QED BY <3>3, <3>4
  <2>9. PICK v : /\ Traced(v, n + 1, plan, snapshot, runs.fresh) /\ v[n + 1] = s
                 /\ prefixes' = [k \in 1 .. n + 1 |->
                                   [installed |-> v[k].installed, backups |-> v[k].backups]]
    BY <2>6, <2>7, <2>8
  <2>10. TraceInv(v, n + 1)'
    <3>1. Fresh(runs.fresh, snapshot)  BY <1>0 DEF TraceInv
    <3> QED BY <1>1, <1>2, <2>1, <2>9, <3>1 DEF TraceInv
  <2>11. State' = v[n + 1]  BY <2>9 DEF s
  <2>12. Place(v, n + 1)'  BY <2>1, <2>11 DEF Place
  <2> QED BY <2>10, <2>12 DEF Traceable
<1>5. CASE FailNext
  <2>1. /\ ~raised /\ pos = n /\ State = t[n] /\ n + 1 \in 1 .. Len(plan)
        /\ phase' = "baseline" /\ raised' = TRUE /\ plan' = plan
        /\ runs' = runs /\ prefixes' = prefixes
    BY <1>3, <1>5, Consumed DEF FailNext, Consume
  <2>2. ~Possible(t[n], plan[n + 1]) /\ State' = Broken(t[n], plan[n + 1])
    BY <1>5, <2>1, FailResult DEF FailNext
  <2>3. TraceInv(t, n)'  BY <1>0, <1>1, <2>1, TraceKept
  <2>4. Place(t, n)'  BY <1>2, <2>1, <2>2 DEF Place, Ended
  <2> QED BY <2>3, <2>4 DEF Traceable
<1>6. CASE RefuseNext
  <2>1. ~raised /\ State = t[n]  BY <1>3, <1>6, Consumed DEF RefuseNext
  <2>2. installState \in {"ready", "installing", "rolled_back", "complete"}
    BY <1>2, <2>1, StateFields DEF Regular
  <2> QED BY <1>6, <2>2 DEF RefuseNext, Running
<1>7. CASE EndBaseline
  <2>1. /\ phase' = "measured" /\ plan' = plan /\ runs' = runs /\ prefixes' = prefixes
        /\ raised \/ pos = Len(plan)
    BY <1>7 DEF EndBaseline, Stopped, End
  <2>2. TraceInv(t, n)'  BY <1>0, <1>1, <2>1, TraceKept
  <2>3. CASE raised
    <3>1. installState = "failed"
      <4>1. State = Broken(t[n], plan[n + 1])  BY <1>3, <2>3
      <4>2. Broken(t[n], plan[n + 1]).installState = "failed"  BY DEF Broken
      <4> QED BY <4>1, <4>2, StateFields
    <3>2. State' = State
      <4>1. UNCHANGED vars  BY <1>7, <3>1 DEF EndBaseline, Running
      <4> QED BY <4>1 DEF vars, State
    <3>3. Place(t, n)'  BY <1>2, <1>3, <2>1, <2>3, <3>2 DEF Place, Outcome, Ended
    <3> QED BY <2>2, <3>3 DEF Traceable
  <2>4. CASE ~raised
    <3>1. n = Len(plan) /\ State = t[n]  BY <1>3, <2>1, <2>4
    <3>2. Running
      <4>1. installState \in {"ready", "installing", "rolled_back", "complete"}
        BY <1>2, <3>1, StateFields DEF Regular
      <4> QED BY <4>1 DEF Running
    <3>3. State' = Finished(t[n])  BY <1>7, <3>1, <3>2, CompleteResult DEF EndBaseline
    <3>4. Place(t, n)'  BY <1>2, <2>1, <3>1, <3>3 DEF Place, Outcome, Ended
    <3> QED BY <2>2, <3>4 DEF Traceable
  <2> QED BY <2>3, <2>4
<1> QED BY <1>4, <1>5, <1>6, <1>7 DEF RecoveryNext, StartScenario, AbandonScenario, LosePower,
           ResumeFromCheckpoint, RollbackAndReinstall, GiveUp, EndRecovery

LEMMA InstallStep ==
  ASSUME ~EnableAB, ScenarioInv, RecoveryNext, phase \in {"measured", "install"}, Traceable
  PROVE  Traceable'
<1>0. PICK t, n : TraceInv(t, n) /\ Place(t, n)  BY DEF Traceable
<1>1. snapshot' = snapshot  BY SnapshotKept
<1>2. /\ n \in Nat /\ n <= Len(plan) /\ plan \in Seq(Plan) /\ t[0] = runs.fresh
      /\ \A k \in 0 .. n : t[k] \in StateSet /\ Regular(t[k], k, runs.fresh)
      /\ \A k \in 0 .. n - 1 : /\ Possible(t[k], plan[k + 1])
                               /\ t[k + 1] = Result(t[k], snapshot, plan[k + 1])
      /\ Ended(t, n)
  BY <1>0, TraceFacts DEF Place
<1>3. phase = "install" =>
        /\ runs.baseline = Outcome(t, n)
        /\ IF raised THEN n < Len(plan) ELSE pos <= n /\ State = t[pos]
  BY <1>0 DEF Place
<1>4. CASE ApplyNext \/ FailNext \/ RefuseNext
  <2>1. /\ Consume /\ phase = "install" /\ ~raised /\ pos <= n /\ State = t[pos]
        /\ pos + 1 \in 1 .. Len(plan) /\ pos \in Nat
    BY <1>3, <1>4, Consumed DEF ApplyNext, FailNext, RefuseNext, Consume
  <2>2. /\ phase' = "install" /\ plan' = plan /\ runs' = runs /\ prefixes' = prefixes
        /\ pos' = pos + 1
    BY <1>4, <2>1 DEF ApplyNext, FailNext, RefuseNext, Consume
  <2>3. TraceInv(t, n)'  BY <1>0, <1>1, <2>2, TraceKept
  <2>4. Running
    <3>1. installState \in {"ready", "installing", "rolled_back", "complete"}
      <4>1. Regular(t[pos], pos, runs.fresh)  BY <1>2, <2>1
      <4> QED BY <2>1, <4>1, StateFields DEF Regular
    <3> QED BY <3>1 DEF Running
  <2>5. CASE ApplyNext
    <3>1. Possible(t[pos], plan[pos + 1]) /\ State' = Result(t[pos], snapshot, plan[pos + 1])
      BY <2>1, <2>5, SucceedResult DEF ApplyNext
    <3>2. pos < n
      <4>1. pos = n => ~Possible(t[pos], plan[pos + 1])  BY <1>2, <2>1 DEF Ended
      <4> QED BY <1>2, <2>1, <3>1, <4>1
    <3>3. State' = t[pos'] /\ pos' <= n /\ raised' = raised
      <4>1. pos \in 0 .. n - 1  BY <1>2, <2>1, <3>2
      <4>2. t[pos + 1] = Result(t[pos], snapshot, plan[pos + 1])  BY <1>2, <4>1
      <4>3. raised' = raised  BY <2>5 DEF ApplyNext
      <4> QED BY <1>2, <2>2, <3>1, <4>1, <4>2, <4>3
    <3>4. Place(t, n)'  BY <1>2, <1>3, <2>1, <2>2, <3>3 DEF Place, Outcome, Ended
    <3> QED BY <2>3, <3>4 DEF Traceable
  <2>6. CASE FailNext
    <3>1. ~Possible(t[pos], plan[pos + 1]) /\ raised' = TRUE
      BY <2>1, <2>6, FailResult DEF FailNext
    <3>2. pos = n  BY <1>2, <2>1, <3>1
    <3>3. n < Len(plan)  BY <1>2, <2>1, <3>2
    <3>4. Place(t, n)'  BY <1>2, <1>3, <2>1, <2>2, <3>1, <3>3 DEF Place, Outcome, Ended
    <3> QED BY <2>3, <3>4 DEF Traceable
  <2>7. CASE RefuseNext  BY <2>4, <2>7 DEF RefuseNext
  <2> QED BY <1>4, <2>5, <2>6, <2>7
<1>5. ASSUME NEW percentage \in Percentages, StartScenario(percentage)
      PROVE  Traceable'
  <2>1. /\ phase = "measured" /\ phase' = "install" /\ plan' = plan /\ prefixes' = prefixes
        /\ runs' = [runs EXCEPT !.baseline = State] /\ pos' = 0 /\ raised' = FALSE
    BY <1>5 DEF StartScenario
  <2>2. runs'.fresh = runs.fresh /\ runs'.baseline = State
    BY <2>1 DEF ScenarioInv, ScenarioType
  <2>3. TraceInv(t, n)'  BY <1>0, <1>1, <2>1, <2>2, TraceKept
  <2>4. State = Outcome(t, n)  BY <1>0, <2>1 DEF Place
  <2>5. State' = t[0]
    BY <1>2, <1>5, BecomeResult DEF StartScenario, ScenarioInv, ScenarioType
  <2>6. Place(t, n)'  BY <1>2, <2>1, <2>2, <2>4, <2>5 DEF Place, Outcome, Ended
  <2> QED BY <2>3, <2>6 DEF Traceable
<1>6. CASE AbandonScenario
  <2>1. /\ phase = "install" /\ raised /\ phase' = "done" /\ plan' = plan
        /\ prefixes' = prefixes /\ runs' = runs /\ strategy' = strategy
    BY <1>6 DEF AbandonScenario
  <2>2. TraceInv(t, n)'  BY <1>0, <1>1, <2>1, TraceKept
  <2>3. runs.baseline.installState = "failed" /\ strategy = "failed"
    <3>1. runs.baseline = Broken(t[n], plan[n + 1])  BY <1>2, <1>3, <2>1 DEF Outcome
    <3>2. Broken(t[n], plan[n + 1]).installState = "failed"  BY DEF Broken
    <3> QED BY <2>1, <3>1, <3>2 DEF ScenarioInv, Counted
  <2>4. Place(t, n)'  BY <1>2, <1>3, <2>1, <2>3 DEF Place, Outcome, Ended
  <2> QED BY <2>2, <2>4 DEF Traceable
<1>7. CASE LosePower
  <2>1. /\ phase = "install" /\ ~raised /\ pos = cut /\ phase' = "interrupted" /\ plan' = plan
        /\ prefixes' = prefixes /\ cut' = cut /\ runs' = [runs EXCEPT !.cut = State]
    BY <1>7 DEF LosePower, Stopped, End
  <2>2. /\ runs'.fresh = runs.fresh /\ runs'.baseline = runs.baseline /\ runs'.cut = State
    BY <2>1 DEF ScenarioInv, ScenarioType
  <2>3. TraceInv(t, n)'  BY <1>0, <1>1, <2>1, <2>2, TraceKept
  <2>4. Place(t, n)'  BY <1>2, <1>3, <2>1, <2>2 DEF Place, Outcome, Ended
  <2> QED BY <2>3, <2>4 DEF Traceable
<1> QED BY <1>4, <1>5, <1>6, <1>7 DEF RecoveryNext, EndBaseline,
           ResumeFromCheckpoint, RollbackAndReinstall, GiveUp, EndRecovery

LEMMA InterruptedStep ==
  ASSUME ScenarioInv, RecoveryNext, phase = "interrupted", Traceable
  PROVE  Traceable'
<1>0. PICK t, n : TraceInv(t, n) /\ Place(t, n)  BY DEF Traceable
<1>1. snapshot' = snapshot  BY SnapshotKept
<1>2. /\ n \in Nat /\ n <= Len(plan) /\ t[0] = runs.fresh
      /\ \A k \in 0 .. n : t[k] \in StateSet /\ Regular(t[k], k, runs.fresh)
  BY <1>0, TraceFacts
<1>3. /\ cut \in 0 .. n /\ cut \in Nat /\ runs.cut = t[cut] /\ ~raised
      /\ runs.baseline = Outcome(t, n) /\ Ended(t, n)
  <2>1. cut \in Nat /\ ~raised  BY DEF ScenarioInv, ScenarioType, Counted
  <2> QED BY <1>0, <1>2, <2>1 DEF Place
<1>4. /\ checkpoints = t[cut].checkpoints /\ backups = t[cut].backups
      /\ rollbackReady = t[cut].rollbackReady /\ package = t[cut].package
      /\ flash = t[cut].flash /\ errors = {} /\ ab = runs.fresh.ab
      /\ CheckpointIndex = LastIndex(checkpoints)
  <2>1. t[cut].errors = {} /\ t[cut].ab = runs.fresh.ab  BY <1>2, <1>3 DEF Regular
  <2> QED BY <1>3, <2>1, InterruptedCut DEF ScenarioInv
<1>5. CASE ResumeFromCheckpoint
  <2>1. /\ phase' = "recover" /\ strategy' = "checkpoint_resume" /\ pos' = CheckpointIndex
        /\ plan' = plan /\ cut' = cut /\ runs' = runs /\ raised' = raised
        /\ prefixes' = prefixes /\ Resume(Len(checkpoints))
    BY <1>5 DEF ResumeFromCheckpoint
  <2>2. /\ Len(checkpoints) \in DOMAIN checkpoints /\ checkpoints \in Seq(CheckpointSet)
        /\ checkpoints # << >>
    BY <2>1 DEF Resume, ScenarioInv, TypeInv
  <2>3. PICK c : c = checkpoints[Len(checkpoints)]  OBVIOUS
  <2>4. PICK k : k = c.index  OBVIOUS
  <2>5. LastSaved(t, cut)  BY <1>0, <1>3 DEF TraceInv, Traced
  <2>6. k \in 1 .. cut /\ Saves(c, t[k]) /\ t[k].checkpoints = checkpoints
    BY <1>4, <2>2, <2>3, <2>4, <2>5 DEF LastSaved
  <2>7. CheckpointIndex = k  BY <1>4, <2>2, <2>3, <2>4 DEF LastIndex
  <2>8. checkpoints' = checkpoints
    <3>1. checkpoints' = SubSeq(checkpoints, 1, Len(checkpoints))
      BY <2>1, <2>2, ResumeKeeps DEF ScenarioInv
    <3> QED BY <2>2, <3>1
  <2> DEFINE s == State'  u == t[k]
  <2>9. /\ installed' = c.installed /\ backups' = c.backups /\ package' = c.package
        /\ flash' = c.flash /\ applied' = c.index /\ installState' = "ready" /\ staging' = 0
        /\ peakRam' = c.peakRam /\ peakStorage' = RestoredPeak(c)
        /\ rollbackReady' = c.rollbackReady /\ unsafe' = c.unsafe
        /\ violations' = c.violations /\ errors' = c.errors /\ ab' = ab
    BY <2>1, <2>3 DEF Resume, RestoreCheckpoint
  <2>10. /\ s.installed = installed' /\ s.backups = backups' /\ s.package = package'
         /\ s.flash = flash' /\ s.applied = applied' /\ s.peakRam = peakRam'
         /\ s.peakStorage = peakStorage' /\ s.rollbackReady = rollbackReady'
         /\ s.unsafe = unsafe' /\ s.violations = violations' /\ s.errors = errors'
         /\ s.checkpoints = checkpoints' /\ s.ab = ab'
    BY DEF State
  <2>11. u \in StateSet /\ u.applied = k /\ u.ab = ab
    BY <1>2, <1>3, <1>4, <2>6 DEF Regular
  <2> HIDE DEF s, u
  <2>12. /\ c.index = u.applied /\ c.installed = u.installed /\ c.backups = u.backups
         /\ c.package = u.package /\ c.flash = u.flash /\ c.peakRam = u.peakRam
         /\ c.rollbackReady = u.rollbackReady /\ c.unsafe = u.unsafe /\ c.errors = u.errors
         /\ Staging = "streaming" =>
              /\ u.peakStorage = Max({c.peakStorage, Level(u.installed, u.backups, 0)})
              /\ u.violations = c.violations \cup
                                Exceeded({Level(u.installed, u.backups, 0)}, 0)
         /\ u.checkpoints = checkpoints
    BY <2>6 DEF Saves, u
  <2>13. Follows(s, u, [backups |-> << >>, package |-> 0, flash |-> 0])
    <3>1. Overlay(u.backups, << >>) = u.backups
      <4>1. u.backups \in BackupArea /\ DOMAIN << >> \subseteq DOMAIN u.backups
        BY <2>11 DEF StateSet
      <4> QED BY <4>1, OverlayFields
    <3>2. u.package \in Nat /\ u.flash \in Nat  BY <2>11 DEF StateSet
    <3> QED BY <2>9, <2>10, <2>11, <2>12, <3>1, <3>2 DEF Follows
  <2>14. Staging = "streaming" => Alike(s, u)
    <3>1. Staging = "streaming" => s.peakStorage = u.peakStorage
      BY <2>9, <2>10, <2>12 DEF RestoredPeak
    <3> QED BY <2>8, <2>9, <2>10, <2>11, <2>12, <3>1 DEF Alike
  <2>15. TraceInv(t, n)'  BY <1>0, <1>1, <2>1, TraceKept
  <2>16. Chosen'  BY <1>3, <1>4, <2>1, <2>2 DEF Chosen
  <2>17. Start' = k /\ pos' = k /\ k \in 1 .. n /\ applied' = k /\ cut <= n
    BY <1>2, <1>3, <2>1, <2>4, <2>6, <2>7, <2>9 DEF Start, CheckpointIndex
  <2>18. Brought' = [backups |-> << >>, package |-> 0, flash |-> 0]
    BY <2>1 DEF Brought
  <2>19. Recovering(t, n)'
    BY <1>2, <2>9, <2>13, <2>14, <2>17, <2>18 DEF Recovering, s, u
  <2>20. Place(t, n)'
    BY <1>2, <1>3, <2>1, <2>16, <2>17, <2>19 DEF Place, Ended, Outcome
  <2> QED BY <2>15, <2>20 DEF Traceable
<1>6. CASE RollbackAndReinstall
  <2>1. /\ phase' = "recover" /\ strategy' = "rollback_reinstall" /\ pos' = 0
        /\ plan' = plan /\ cut' = cut /\ runs' = runs /\ raised' = raised
        /\ prefixes' = prefixes /\ checkpoints = << >> /\ rollbackReady /\ RollbackInstall
    BY <1>6 DEF RollbackAndReinstall
  <2> DEFINE s == State'  u == t[0]
             b == [backups |-> runs.cut.backups, package |-> runs.cut.package,
                   flash |-> runs.cut.flash]
  <2>2. /\ s.installed = snapshot /\ s.errors = errors /\ s.ab = ab
        /\ s.rollbackReady = rollbackReady /\ s.backups = backups /\ s.package = package
        /\ s.flash = flash /\ installState' = "rolled_back"
    BY <2>1 DEF State, RollbackInstall, safety
  <2>3. /\ u.installed = snapshot /\ u.errors = {} /\ u.ab = runs.fresh.ab
        /\ u.rollbackReady = TRUE /\ u.backups = << >> /\ u.package = 0 /\ u.flash = 0
    BY <1>0, <1>2 DEF TraceInv, Fresh
  <2>4. t[cut] \in StateSet  BY <1>2, <1>3
  <2> HIDE DEF s, u
  <2>5. Overlay(<< >>, t[cut].backups) = t[cut].backups
    <3>1. t[cut].backups \in BackupArea  BY <2>4 DEF StateSet
    <3> DEFINE area == t[cut].backups
    <3>2. area = [id \in DOMAIN area |-> area[id]]  BY <3>1 DEF BackupArea
    <3> HIDE DEF area
    <3>3. DOMAIN << >> = {}  OBVIOUS
    <3>4. Overlay(<< >>, area) = [id \in DOMAIN area |-> area[id]]
      BY <3>3 DEF Overlay
    <3> QED BY <3>2, <3>4 DEF area
  <2>6. Follows(s, u, b)
    <3>1. t[cut].package \in Nat /\ t[cut].flash \in Nat  BY <2>4 DEF StateSet
    <3>2. rollbackReady = TRUE  BY <2>1, <2>4, <1>4 DEF StateSet
    <3>3. /\ b.backups = t[cut].backups /\ b.package = t[cut].package
          /\ b.flash = t[cut].flash
      BY <1>3
    <3> HIDE DEF b
    <3>4. s.backups = Overlay(u.backups, b.backups)
      BY <1>4, <2>2, <2>3, <2>5, <3>3, Zenon
    <3>5. s.package = b.package + u.package /\ s.flash = b.flash + u.flash
      BY <1>4, <2>2, <2>3, <3>1, <3>3
    <3> QED BY <1>4, <2>2, <2>3, <3>2, <3>4, <3>5 DEF Follows
  <2>7. TraceInv(t, n)'  BY <1>0, <1>1, <2>1, TraceKept
  <2>8. Chosen'  BY <1>3, <1>4, <2>1 DEF Chosen
  <2>9. Start' = 0 /\ pos' = 0 /\ Brought' = b  BY <2>1 DEF Start, Brought
  <2>10. Recovering(t, n)'  BY <1>2, <2>1, <2>2, <2>6, <2>9 DEF Recovering, s, u
  <2>11. Place(t, n)'  BY <1>2, <1>3, <2>1, <2>8, <2>10 DEF Place, Ended, Outcome
  <2> QED BY <2>7, <2>11 DEF Traceable
<1>7. CASE GiveUp
  <2>1. /\ phase' = "done" /\ strategy' = strategy /\ plan' = plan /\ runs' = runs
        /\ prefixes' = prefixes /\ checkpoints = << >> /\ ~rollbackReady
        /\ strategy = "failed"
    BY <1>7 DEF GiveUp, ScenarioInv, Counted
  <2>2. TraceInv(t, n)'  BY <1>0, <1>1, <2>1, TraceKept
  <2>3. Place(t, n)'  BY <1>2, <1>3, <1>4, <2>1 DEF Place, Ended, Outcome
  <2> QED BY <2>2, <2>3 DEF Traceable
<1> QED BY <1>5, <1>6, <1>7 DEF RecoveryNext, ApplyNext, FailNext, RefuseNext, Consume,
           EndBaseline, StartScenario, AbandonScenario, LosePower, EndRecovery

(* What a recovering device has from the first attempt: nothing that the   *)
(* uncut device lacks after the cut, and nothing unsafe before it.         *)
LEMMA Brings ==
  ASSUME ScenarioInv, phase = "recover", NEW t, NEW n, TraceInv(t, n), Place(t, n)
  PROVE  /\ Brought.package \in Nat /\ Brought.flash \in Nat
         /\ Start \in 0 .. cut /\ cut \in 0 .. Len(plan) - 1 /\ cut <= n
         /\ \A k \in 0 .. n :
              \/ DOMAIN Brought.backups \subseteq DOMAIN t[k].backups
              \/ k < cut /\ t[k + 1].rollbackReady
         /\ \A k \in cut .. n : DOMAIN Brought.backups \subseteq DOMAIN t[k].backups
<1>1. /\ n \in Nat /\ \A k \in 0 .. n : t[k] \in StateSet
  BY TraceFacts
<1>2. /\ cut <= n /\ runs.cut = t[cut] /\ Chosen /\ cut \in 0 .. Len(plan) - 1
      /\ cut \in Nat
  BY DEF Place, ScenarioInv, ScenarioType
<1>3. /\ \A k \in 0 .. n : LastSaved(t, k)
      /\ \A k \in 0 .. n : \A j \in 0 .. k : Grows(t[j], t[k])
  BY DEF TraceInv, Traced
<1>4. t[cut] \in StateSet /\ LastSaved(t, cut)  BY <1>1, <1>2, <1>3
<1>5. CASE strategy = "checkpoint_resume"
  <2>1. /\ Brought.backups = << >> /\ Brought.package = 0 /\ Brought.flash = 0
        /\ Start = CheckpointIndex
    BY <1>5 DEF Brought, Start
  <2>2. CheckpointIndex \in 1 .. cut
    BY <1>2, <1>4, <1>5 DEF Chosen, LastSaved, CheckpointIndex
  <2>3. \A k \in 0 .. n : DOMAIN Brought.backups \subseteq DOMAIN t[k].backups
    <3>1. DOMAIN << >> = {}  OBVIOUS
    <3> QED BY <2>1, <3>1
  <2> QED BY <1>1, <1>2, <2>1, <2>2, <2>3
<1>6. CASE strategy # "checkpoint_resume"
  <2>1. /\ Brought.backups = t[cut].backups /\ Brought.package = t[cut].package
        /\ Brought.flash = t[cut].flash /\ Start = 0 /\ t[cut].rollbackReady
    BY <1>2, <1>6 DEF Brought, Start, Chosen
  <2>2. ASSUME NEW k \in cut .. n
        PROVE  DOMAIN Brought.backups \subseteq DOMAIN t[k].backups
    <3>1. Grows(t[cut], t[k])  BY <1>1, <1>2, <1>3
    <3> QED BY <2>1, <3>1 DEF Grows
  <2>3. ASSUME NEW k \in 0 .. n, k < cut
        PROVE  t[k + 1].rollbackReady
    <3>1. Grows(t[k + 1], t[cut])  BY <1>1, <1>2, <1>3, <2>3
    <3> QED BY <2>1, <3>1 DEF Grows
  <2>4. t[cut].package \in Nat /\ t[cut].flash \in Nat  BY <1>4 DEF StateSet
  <2>5. \A k \in 0 .. n : k \in cut .. n \/ k < cut  BY <1>1, <1>2
  <2> QED BY <1>2, <2>1, <2>2, <2>3, <2>4, <2>5
<1> QED BY <1>5, <1>6

LEMMA RecoverStep ==
  ASSUME ~EnableAB, ScenarioInv, RecoveryNext, phase = "recover", Traceable
  PROVE  Traceable'
<1>0. PICK t, n : TraceInv(t, n) /\ Place(t, n)  BY DEF Traceable
<1>1. snapshot' = snapshot  BY SnapshotKept
<1>2. /\ n \in Nat /\ n <= Len(plan) /\ Len(plan) \in Nat
      /\ \A k \in 0 .. n : t[k] \in StateSet /\ Regular(t[k], k, runs.fresh)
      /\ \A k \in 0 .. n - 1 : /\ Possible(t[k], plan[k + 1])
                               /\ t[k + 1] = Result(t[k], snapshot, plan[k + 1])
  BY <1>0, TraceFacts
<1>3. /\ runs.baseline = Outcome(t, n) /\ Ended(t, n) /\ cut <= n /\ runs.cut = t[cut]
      /\ Chosen /\ IF raised THEN Met ELSE Recovering(t, n)
  BY <1>0 DEF Place
<1>4. State \in StateSet  BY StateTyped DEF ScenarioInv
<1> DEFINE b == Brought
<1>5. /\ b.package \in Nat /\ b.flash \in Nat
      /\ Start \in 0 .. cut /\ cut \in 0 .. Len(plan) - 1
      /\ \A k \in 0 .. n :
           \/ DOMAIN b.backups \subseteq DOMAIN t[k].backups
           \/ k < cut /\ t[k + 1].rollbackReady
      /\ \A k \in cut .. n : DOMAIN b.backups \subseteq DOMAIN t[k].backups
  BY <1>0, Brings
<1>6. cut \in Nat /\ cut < Len(plan) /\ Start \in Nat /\ Start <= cut
  BY <1>2, <1>5
<1>7. DOMAIN b.backups \subseteq DOMAIN t[n].backups  BY <1>2, <1>3, <1>5, <1>6
<1>8. ~raised =>
        /\ pos \in Start .. n /\ pos \in Nat /\ pos <= n /\ Start <= pos
        /\ Follows(State, t[pos], b)
        /\ t[pos] \in StateSet /\ Regular(t[pos], pos, runs.fresh)
        /\ IF pos = Start THEN installState \in {"ready", "rolled_back"}
                          ELSE installState = t[pos].installState
        /\ strategy = "checkpoint_resume" => applied = pos
        /\ strategy = "checkpoint_resume" /\ Staging = "streaming" =>
             IF pos = Start THEN Alike(State, t[pos]) ELSE State = t[pos]
  <2>1. ~raised => pos \in Start .. n /\ Follows(State, t[pos], b)
    BY <1>3 DEF Recovering
  <2> QED BY <1>2, <1>3, <1>6, <2>1 DEF Recovering
<1>9. CASE ApplyNext \/ FailNext \/ RefuseNext
  <2> DEFINE op == plan[pos + 1]  u == t[pos]
  <2>1. /\ phase' = "recover" /\ plan' = plan /\ cut' = cut /\ strategy' = strategy
        /\ runs' = runs /\ prefixes' = prefixes /\ pos' = pos + 1 /\ ~raised
        /\ pos + 1 \in 1 .. Len(plan) /\ op \in Operation /\ op \in Plan
    BY <1>9, Consumed DEF ApplyNext, FailNext, RefuseNext, Consume
  <2>2. TraceInv(t, n)'  BY <1>0, <1>1, <2>1, TraceKept
  <2>3. /\ Chosen' /\ Ended(t, n)' /\ Brought' = b /\ Start' = Start
        /\ runs'.baseline = Outcome(t, n)' /\ runs'.cut = t[cut']
    BY <1>3, <2>1 DEF Chosen, Ended, Brought, Start, CheckpointIndex, Outcome
  <2>4. /\ pos \in Nat /\ pos <= n /\ Start <= pos /\ Follows(State, u, b) /\ u \in StateSet
    BY <1>8, <2>1
  <2>5. /\ Possible(u, op) => Possible(State, op)
        /\ DOMAIN b.backups \subseteq DOMAIN u.backups =>
             State.backups = u.backups /\ (Possible(State, op) => Possible(u, op))
    <3>1. op \in Operation  BY <2>1
    <3> HIDE DEF op, u, b
    <3> QED BY <2>4, <3>1, FollowsPossible
  <2>6. CASE ApplyNext
    <3>1. /\ Possible(State, op) /\ State' = Result(State, snapshot, op)
          /\ raised' = raised /\ applied' = applied + 1
      BY <2>1, <2>6, SucceedResult, SucceedYields DEF ApplyNext, ScenarioInv
    <3>2. pos \in 0 .. n - 1
      <4>1. ASSUME pos = n PROVE FALSE
        <5>1. ~Possible(u, op)  BY <1>2, <1>3, <2>1, <4>1 DEF Ended
        <5>2. DOMAIN b.backups \subseteq DOMAIN u.backups  BY <1>7, <4>1
        <5> QED BY <2>5, <3>1, <5>1, <5>2
      <4> QED BY <1>2, <2>4, <4>1
    <3>3. Possible(u, op) /\ t[pos + 1] = Result(u, snapshot, op)  BY <1>2, <3>2
    <3>4. \/ Result(u, snapshot, op).rollbackReady
          \/ DOMAIN b.backups \subseteq DOMAIN u.backups
      <4>1. pos \in 0 .. n  BY <1>2, <2>4
      <4> QED BY <1>5, <3>3, <4>1
    <3> DEFINE r == Result(u, snapshot, op)
    <3>5. Follows(State', r, b) /\ State'.installState = r.installState
      <4>1. op \in Operation /\ b.package \in Nat /\ b.flash \in Nat  BY <1>5, <2>1
      <4>2. Follows(State, u, b) /\ u \in StateSet  BY <2>4
      <4> HIDE DEF op, u, b
      <4> QED BY <3>1, <3>3, <3>4, <4>1, <4>2, FollowsResult
    <3>6. strategy = "checkpoint_resume" /\ Staging = "streaming" => State' = r
      <4>1. ASSUME strategy = "checkpoint_resume", Staging = "streaming", pos = Start
            PROVE  State' = r
        <5>1. Alike(State, u)  BY <1>8, <2>1, <4>1
        <5> QED BY <1>4, <2>1, <2>4, <3>1, <4>1, <5>1, AlikeResult
      <4>2. ASSUME strategy = "checkpoint_resume", Staging = "streaming", pos # Start
            PROVE  State' = r
        <5>1. State = u  BY <1>8, <2>1, <4>2
        <5> QED BY <3>1, <5>1
      <4> QED BY <4>1, <4>2
    <3> HIDE DEF r, op
    <3>7. t[pos'] = r /\ pos' \in Start' .. n /\ pos' # Start'
      <4>1. t[pos'] = r  BY <2>1, <3>3 DEF r, op
      <4> QED BY <1>2, <1>6, <2>1, <2>3, <2>4, <3>2, <4>1
    <3>8. installState' = r.installState
      <4>1. State'.installState = installState'  BY DEF State
      <4> QED BY <3>5, <4>1
    <3>9. strategy = "checkpoint_resume" => applied' = pos'
      BY <1>8, <2>1, <3>1
    <3>10. Recovering(t, n)'
      BY <2>1, <2>3, <3>5, <3>6, <3>7, <3>8, <3>9 DEF Recovering
    <3>11. Place(t, n)'  BY <1>3, <2>1, <2>3, <3>1, <3>10 DEF Place
    <3> QED BY <2>2, <3>11 DEF Traceable
  <2>7. CASE FailNext
    <3>1. ~Possible(State, op) /\ State' = Broken(State, op) /\ raised' = TRUE
      BY <2>7, FailResult DEF FailNext
    <3>2. pos = n
      <4>1. pos \in 0 .. n - 1 => Possible(u, op)  BY <1>2
      <4> QED BY <1>2, <2>4, <2>5, <3>1, <4>1
    <3>3. runs.baseline = Broken(u, op)
      BY <1>2, <1>3, <2>1, <3>2 DEF Outcome
    <3>4. /\ Follows(Broken(State, op), Broken(u, op), b)
          /\ Broken(State, op).installState = "failed" /\ Broken(u, op).installState = "failed"
          /\ Broken(State, op).backups = State.backups /\ Broken(u, op).backups = u.backups
      BY <1>5, <2>1, <2>4, FollowsEnd, ZenonT(40)
    <3>5. State.backups = u.backups
      <4>1. DOMAIN b.backups \subseteq DOMAIN u.backups  BY <1>7, <3>2
      <4> QED BY <2>5, <4>1
    <3>6. strategy = "checkpoint_resume" /\ Staging = "streaming" => State' = runs.baseline
      <4>1. ASSUME strategy = "checkpoint_resume", Staging = "streaming", pos = Start
            PROVE  State' = Broken(u, op)
        <5>1. Alike(State, u)  BY <1>8, <2>1, <4>1
        <5> QED BY <1>4, <2>1, <2>4, <3>1, <4>1, <5>1, AlikeResult
      <4>2. ASSUME strategy = "checkpoint_resume", Staging = "streaming", pos # Start
            PROVE  State' = Broken(u, op)
        <5>1. State = u  BY <1>8, <2>1, <4>2
        <5> QED BY <3>1, <5>1
      <4> QED BY <3>3, <4>1, <4>2
    <3>7. State'.installState = installState' /\ State'.backups = backups'  BY DEF State
    <3>8. Met'
      BY <2>1, <2>3, <3>1, <3>3, <3>4, <3>5, <3>6, <3>7 DEF Met
    <3>9. Place(t, n)'  BY <1>3, <2>1, <2>3, <3>1, <3>8 DEF Place
    <3> QED BY <2>2, <3>9 DEF Traceable
  <2>8. CASE RefuseNext
    <3>1. t[pos].installState \in {"ready", "installing", "rolled_back", "complete"}
      BY <1>8, <2>1 DEF Regular
    <3>2. Running  BY <1>8, <2>1, <3>1 DEF Running
    <3> QED BY <2>8, <3>2 DEF RefuseNext
  <2> QED BY <1>9, <2>6, <2>7, <2>8
<1>10. CASE EndRecovery
  <2>1. /\ phase' = "done" /\ plan' = plan /\ cut' = cut /\ strategy' = strategy
        /\ runs' = runs /\ prefixes' = prefixes /\ raised' = raised /\ pos' = pos
        /\ raised \/ pos = Len(plan)
    BY <1>10 DEF EndRecovery, Stopped, End
  <2>2. TraceInv(t, n)'  BY <1>0, <1>1, <2>1, TraceKept
  <2>3. /\ Chosen' /\ Ended(t, n)' /\ Brought' = b /\ runs'.baseline = Outcome(t, n)'
    BY <1>3, <2>1 DEF Chosen, Ended, Brought, Outcome
  <2>4. strategy # "failed"  BY <1>3 DEF Chosen
  <2>5. Met'
    <3>1. CASE raised
      <4>1. UNCHANGED vars  BY <1>10, <3>1 DEF EndRecovery
      <4>2. State' = State /\ backups' = backups /\ installState' = installState
        BY <4>1 DEF vars, State, image
      <4> QED BY <1>3, <2>1, <2>3, <3>1, <4>2 DEF Met
    <3>2. CASE ~raised
      <4> DEFINE u == t[pos]
      <4>1. pos = n /\ n = Len(plan) /\ pos # Start
        BY <1>2, <1>6, <1>8, <2>1, <3>2
      <4>2. State' = Finished(State)  BY <1>10, <3>2, CompleteResult DEF EndRecovery
      <4>3. runs.baseline = Finished(u)  BY <1>3, <4>1 DEF Outcome
      <4>4. Follows(State, u, b) /\ u \in StateSet /\ installState = u.installState
        BY <1>8, <3>2, <4>1
      <4>5. PICK op \in Operation : TRUE
        <5>1. plan[1] \in Plan  BY <1>2, <1>6 DEF ScenarioInv, ScenarioType
        <5> QED BY <5>1, DeploymentAssumption
      <4>6. State.installState = u.installState  BY <4>4, StateFields
      <4>7. /\ Follows(Finished(State), Finished(u), b)
            /\ Finished(State).backups = State.backups /\ Finished(u).backups = u.backups
            /\ Finished(State).installState = Finished(u).installState
        <5>1. b.package \in Nat /\ b.flash \in Nat  BY <1>5
        <5> HIDE DEF b, u
        <5> QED BY <4>4, <4>5, <4>6, <5>1, FollowsEnd
      <4>8. State.backups = u.backups
        <5>1. DOMAIN b.backups \subseteq DOMAIN u.backups  BY <1>7, <4>1
        <5> QED BY <4>4, <4>5, <5>1, FollowsPossible
      <4>9. strategy = "checkpoint_resume" /\ Staging = "streaming" => State = u
        BY <1>8, <3>2, <4>1
      <4>10. State'.installState = installState' /\ State'.backups = backups'  BY DEF State
      <4> QED BY <2>1, <2>3, <3>2, <4>2, <4>3, <4>7, <4>8, <4>9, <4>10 DEF Met
    <3> QED BY <3>1, <3>2
  <2>6. Place(t, n)'  BY <1>3, <2>1, <2>3, <2>4, <2>5 DEF Place
  <2> QED BY <2>2, <2>6 DEF Traceable
<1> QED BY <1>9, <1>10 DEF RecoveryNext, EndBaseline, StartScenario, AbandonScenario, LosePower,
           ResumeFromCheckpoint, RollbackAndReinstall, GiveUp

LEMMA TraceStep ==
  ASSUME ~EnableAB, ScenarioInv, ScenarioInv', Traceable, [RecoveryNext]_recoveryVars
  PROVE  Traceable'
<1>1. CASE RecoveryNext
  <2>1. phase \in {"baseline", "measured", "install", "interrupted", "recover", "done"}
    BY DEF ScenarioInv, ScenarioType
  <2>2. phase # "done"
    BY <1>1 DEF RecoveryNext, ApplyNext, FailNext, RefuseNext, Consume, EndBaseline,
       StartScenario, AbandonScenario, LosePower, ResumeFromCheckpoint,
       RollbackAndReinstall, GiveUp, EndRecovery
  <2> QED BY <1>1, <2>1, <2>2, BaselineStep, InstallStep, InterruptedStep, RecoverStep
<1>2. CASE UNCHANGED recoveryVars
  <2>0. PICK t, n : TraceInv(t, n) /\ Place(t, n)  BY DEF Traceable
  <2>1. /\ plan' = plan /\ pos' = pos /\ cut' = cut /\ phase' = phase
        /\ strategy' = strategy /\ raised' = raised /\ prefixes' = prefixes
        /\ runs' = runs /\ UNCHANGED vars
    BY <1>2 DEF recoveryVars
  <2>2. /\ snapshot' = snapshot /\ State' = State /\ installState' = installState
        /\ backups' = backups /\ applied' = applied
    BY <2>1 DEF vars, State, image
  <2>3. TraceInv(t, n)'  BY <2>0, <2>1, <2>2, TraceKept
  <2>4. Brought' = Brought /\ Start' = Start /\ (Chosen' <=> Chosen)
    BY <2>1 DEF Brought, Start, CheckpointIndex, Chosen
  <2>5. (Recovering(t, n)' <=> Recovering(t, n)) /\ (Met' <=> Met)
    BY <2>1, <2>2, <2>4 DEF Recovering, Met
  <2>6. Ended(t, n)' <=> Ended(t, n)  BY <2>1 DEF Ended
  <2>7. Outcome(t, n)' = Outcome(t, n)  BY <2>1 DEF Outcome
  <2>8. Place(t, n)'  BY <2>0, <2>1, <2>2, <2>4, <2>5, <2>6, <2>7 DEF Place
  <2> QED BY <2>3, <2>8 DEF Traceable
<1> QED BY <1>1, <1>2

-----------------------------------------------------------------------------
(* A checkpoint holds the device that the operation leaves.                *)
LEMMA CheckpointTaken ==
  ASSUME ~EnableAB, NEW op, Succeed(op)
  PROVE  \/ checkpoints' = checkpoints
         \/ \E c : /\ checkpoints' = Append(checkpoints, c) /\ c.index = applied + 1
                   /\ c.installed = installed' /\ c.backups = backups'
<1> DEFINE s == State
           e == EffectOf(s, snapshot, op)
           c == CheckpointAfter(s, op, e)
           a == After(s, op, e)
<1>1. State' = a  BY SucceedResult DEF Result
<1>2. s.applied = applied /\ s.checkpoints = checkpoints  BY StateFields
<1> HIDE DEF s, e
<1>3. /\ a.installed = e.installed /\ a.backups = e.backups
      /\ a.checkpoints = IF Taken(s, op) THEN Append(s.checkpoints, c) ELSE s.checkpoints
  BY DEF After
<1>4. c.index = s.applied + 1 /\ c.installed = e.installed /\ c.backups = e.backups
  BY DEF CheckpointAfter
<1>5. /\ State'.installed = installed' /\ State'.backups = backups'
      /\ State'.checkpoints = checkpoints'
  BY DEF State
<1> HIDE DEF a, c
<1> QED BY <1>1, <1>2, <1>3, <1>4, <1>5

(* Where the device is between operations, the image and the backups are   *)
(* those that were noted while the baseline ran.                           *)
Noted ==
  /\ phase \in {"baseline", "install", "recover"} /\ ~raised
  /\ strategy # "rollback_reinstall" /\ pos > 0
  => /\ applied = pos /\ pos \in DOMAIN prefixes
     /\ prefixes[pos] = [installed |-> installed, backups |-> backups]

LEMMA PrefixNoted == ScenarioInv /\ Traceable => Noted
<1> SUFFICES ASSUME ScenarioInv, Traceable, phase \in {"baseline", "install", "recover"},
                    ~raised, strategy # "rollback_reinstall", pos > 0
             PROVE  /\ applied = pos /\ pos \in DOMAIN prefixes
                    /\ prefixes[pos] = [installed |-> installed, backups |-> backups]
  BY DEF Noted
<1>0. PICK t, n : TraceInv(t, n) /\ Place(t, n)  BY DEF Traceable
<1>1. n \in Nat /\ \A k \in 0 .. n : t[k] \in StateSet  BY <1>0, TraceFacts
<1>2. prefixes = [k \in 1 .. n |-> [installed |-> t[k].installed, backups |-> t[k].backups]]
  BY <1>0 DEF TraceInv
<1>3. pos \in Nat  BY DEF ScenarioInv, ScenarioType
<1>4. pos <= n /\ t[pos].installed = installed /\ t[pos].backups = backups
  <2>1. CASE phase \in {"baseline", "install"}
    <3>1. pos <= n /\ State = t[pos]  BY <1>0, <1>1, <2>1 DEF Place
    <3> QED BY <3>1, StateFields
  <2>2. CASE phase = "recover"
    <3>1. Chosen /\ Recovering(t, n)  BY <1>0, <2>2 DEF Place
    <3>2. Brought.backups = << >>  BY <3>1 DEF Chosen, Brought
    <3>3. Start \in 0 .. cut /\ cut \in Nat /\ pos \in Start .. n
      BY <1>0, <2>2, <3>1, Brings DEF Recovering, ScenarioInv, ScenarioType
    <3>4. pos <= n  BY <1>1, <3>3
    <3>5. t[pos].backups \in BackupArea  BY <1>1, <1>3, <3>4 DEF StateSet
    <3>6. Overlay(t[pos].backups, << >>) = t[pos].backups
      <4>1. DOMAIN << >> \subseteq DOMAIN t[pos].backups  OBVIOUS
      <4> QED BY <3>5, <4>1, OverlayFields
    <3>7. State.installed = t[pos].installed /\ State.backups = t[pos].backups
      BY <3>1, <3>2, <3>6 DEF Recovering, Follows
    <3> QED BY <3>4, <3>7, StateFields
  <2> QED BY <2>1, <2>2
<1>5. pos \in 1 .. n  BY <1>1, <1>3, <1>4
<1>6. applied = pos
  <2>1. CASE phase \in {"baseline", "install"}  BY <2>1 DEF ScenarioInv, Counted
  <2>2. CASE phase = "recover"  BY <1>0, <2>2 DEF Place, Chosen, Recovering
  <2> QED BY <2>1, <2>2
<1> QED BY <1>2, <1>4, <1>5, <1>6

LEMMA IndexStep ==
  ASSUME ~EnableAB, ScenarioInv, Noted', CheckpointsIndexPlan, [RecoveryNext]_recoveryVars
  PROVE  CheckpointsIndexPlan'
<1> DEFINE Right(c, notes) == /\ c.index \in DOMAIN notes
                              /\ notes[c.index] = [installed |-> c.installed,
                                                   backups |-> c.backups]
<1> SUFFICES ASSUME strategy' # "rollback_reinstall"
             PROVE  \A i \in DOMAIN checkpoints' : Right(checkpoints'[i], prefixes')
  BY DEF CheckpointsIndexPlan
<1>1. strategy # "rollback_reinstall"
  BY DEF RecoveryNext, ApplyNext, FailNext, RefuseNext, Consume, EndBaseline, StartScenario,
     AbandonScenario, LosePower, ResumeFromCheckpoint, RollbackAndReinstall, GiveUp,
     EndRecovery, recoveryVars, ScenarioInv, Counted
<1>2. \A i \in DOMAIN checkpoints : Right(checkpoints[i], prefixes)
  BY <1>1 DEF CheckpointsIndexPlan
<1>3. checkpoints \in Seq(CheckpointSet)  BY DEF ScenarioInv, TypeInv
<1> HIDE DEF Right
<1>4. CASE ApplyNext
  <2>1. /\ Consume /\ Succeed(plan[pos + 1]) /\ raised' = raised
        /\ prefixes' = IF phase = "baseline"
                         THEN Append(prefixes, [installed |-> installed', backups |-> backups'])
                         ELSE prefixes
    BY <1>4 DEF ApplyNext
  <2>2. /\ phase' \in {"baseline", "install", "recover"} /\ phase' = phase /\ ~raised'
        /\ pos' = pos + 1 /\ pos \in Nat
    BY <2>1, Consumed DEF Consume
  <2>3. /\ pos' \in DOMAIN prefixes'
        /\ prefixes'[pos'] = [installed |-> installed', backups |-> backups']
    <3>1. pos' > 0  BY <2>2
    <3> QED BY <2>2, <3>1 DEF Noted
  <2>4. applied + 1 = pos'
    <3>1. applied' = applied + 1  BY <2>1, Consumed, SucceedYields DEF ScenarioInv
    <3>2. pos' > 0  BY <2>2
    <3> QED BY <2>2, <3>1, <3>2 DEF Noted
  <2>5. ASSUME NEW i \in DOMAIN checkpoints  PROVE Right(checkpoints[i], prefixes')
    <3>1. Right(checkpoints[i], prefixes)  BY <1>2
    <3>2. CASE phase = "baseline"
      <4> DEFINE note == [installed |-> installed', backups |-> backups']
      <4>1. prefixes' = Append(prefixes, note)  BY <2>1, <3>2
      <4> HIDE DEF note
      <4> QED BY <3>1, <4>1 DEF Right
    <3>3. CASE phase # "baseline"  BY <2>1, <3>1, <3>3
    <3> QED BY <3>2, <3>3
  <2>6. CASE checkpoints' = checkpoints  BY <2>5, <2>6
  <2>7. ASSUME NEW c, checkpoints' = Append(checkpoints, c), c.index = applied + 1,
               c.installed = installed', c.backups = backups'
        PROVE  \A i \in DOMAIN checkpoints' : Right(checkpoints'[i], prefixes')
    <3>1. Right(c, prefixes')  BY <2>3, <2>4, <2>7 DEF Right
    <3>2. ASSUME NEW i \in DOMAIN checkpoints'
          PROVE  \/ i \in DOMAIN checkpoints /\ checkpoints'[i] = checkpoints[i]
                 \/ checkpoints'[i] = c
      BY <1>3, <2>7
    <3> QED BY <2>5, <3>1, <3>2
  <2> QED BY <2>1, <2>6, <2>7, CheckpointTaken
<1>5. CASE ResumeFromCheckpoint
  <2>1. prefixes' = prefixes /\ Resume(Len(checkpoints))  BY <1>5 DEF ResumeFromCheckpoint
  <2>2. Len(checkpoints) \in DOMAIN checkpoints  BY <2>1 DEF Resume
  <2>3. checkpoints' = SubSeq(checkpoints, 1, Len(checkpoints))
    BY <2>1, <2>2, ResumeKeeps DEF ScenarioInv
  <2>4. checkpoints' = checkpoints  BY <1>3, <2>3
  <2> QED BY <1>2, <2>1, <2>4
<1>6. CASE \E percentage \in Percentages : StartScenario(percentage)
  <2>1. checkpoints' = << >>  BY <1>6 DEF StartScenario, Become, ScenarioInv, ScenarioType
  <2> QED BY <2>1
<1>7. CASE \/ FailNext \/ RefuseNext \/ EndBaseline \/ AbandonScenario \/ LosePower
           \/ GiveUp \/ EndRecovery \/ UNCHANGED recoveryVars
  <2>1. checkpoints' = checkpoints /\ prefixes' = prefixes
    BY <1>7 DEF FailNext, RefuseNext, EndBaseline, AbandonScenario, LosePower, GiveUp,
       EndRecovery, recoveryVars, vars, Fail, Interrupt, Complete
  <2> QED BY <1>2, <2>1
<1>8. ~RollbackAndReinstall  BY DEF RollbackAndReinstall
<1> QED BY <1>4, <1>5, <1>6, <1>7, <1>8 DEF RecoveryNext

(* Where a scenario stands beside the trace of its plan.                   *)
LEMMA TraceInvariant ==
  ASSUME ~EnableAB  PROVE RecoverySpec => [](ScenarioInv /\ Traceable)
<1>1. ScenarioInv /\ Traceable /\ ScenarioInv' /\ [RecoveryNext]_recoveryVars => Traceable'
  BY TraceStep
<1> QED BY <1>1, FreshTrace, ScenarioInvariant, PTL DEF RecoverySpec

(* Until a device installs again from the start, each of its checkpoints   *)
(* holds the image and the backups after as many operations of the plan as *)
(* its number says, before the cut and after it: restoring one and going   *)
(* on at its number is right, for every plan on one slot.                  *)
THEOREM CheckpointsRight ==
  ASSUME ~EnableAB  PROVE RecoverySpec => []CheckpointsIndexPlan
<1>1. RecoveryInit => CheckpointsIndexPlan
  BY DEF RecoveryInit, Init, CheckpointsIndexPlan
<1>2. ScenarioInv /\ Noted' /\ CheckpointsIndexPlan /\ [RecoveryNext]_recoveryVars
        => CheckpointsIndexPlan'
  BY IndexStep
<1> QED BY <1>1, <1>2, TraceInvariant, PrefixNoted, PTL DEF RecoverySpec

LEMMA TraceRecovers == ScenarioInv /\ Traceable => RecoveredWhenPossible
<1> SUFFICES ASSUME ScenarioInv, Traceable, phase = "done"
             PROVE  Recovered <=>
                      /\ runs.baseline.installState = "complete" /\ Holds(runs.baseline)
                      /\ runs.cut.checkpoints # << >> \/ runs.cut.rollbackReady
  BY DEF RecoveredWhenPossible
<1>1. IF strategy = "failed"
        THEN \/ runs.baseline.installState = "failed"
             \/ runs.cut.checkpoints = << >> /\ ~runs.cut.rollbackReady
        ELSE Chosen /\ Met
  BY DEF Traceable, Place
<1>2. CASE strategy = "failed"  BY <1>1, <1>2 DEF Recovered
<1>3. CASE strategy # "failed"
  <2>1. Chosen /\ Met  BY <1>1, <1>3
  <2>2. runs.cut.checkpoints # << >> \/ runs.cut.rollbackReady  BY <2>1 DEF Chosen
  <2>3. Holds(State) <=> Holds(runs.baseline)
    <3>1. State.installed = runs.baseline.installed  BY <2>1 DEF Met, Follows
    <3> QED BY <3>1 DEF Holds
  <2>4. /\ installState = runs.baseline.installState
        /\ raised => installState = "failed"
    BY <2>1 DEF Met
  <2> QED BY <1>3, <2>2, <2>3, <2>4 DEF Recovered
<1> QED BY <1>2, <1>3

(* On one slot, an update that works without interruption is recovered     *)
(* after every cut, unless the device had neither a checkpoint nor a safe  *)
(* rollback; and one that does not work is never reported recovered.       *)
THEOREM RecoveredIffPossible ==
  ASSUME ~EnableAB  PROVE RecoverySpec => []RecoveredWhenPossible
BY TraceInvariant, TraceRecovers, PTL

LEMMA TraceReinstalls == ScenarioInv /\ Traceable => ReinstallMatchesUninterrupted
<1> SUFFICES ASSUME ScenarioInv, Traceable, phase = "done", strategy = "rollback_reinstall"
             PROVE  /\ \A field \in {"installed", "backups", "installState", "errors",
                                     "rollbackReady"} :
                         State[field] = runs.baseline[field]
                    /\ package = runs.cut.package + runs.baseline.package
                    /\ flash = runs.cut.flash + runs.baseline.flash
  BY DEF ReinstallMatchesUninterrupted
<1>1. Met  BY DEF Traceable, Place
<1>2. Brought = [backups |-> runs.cut.backups, package |-> runs.cut.package,
                 flash |-> runs.cut.flash]
  BY DEF Brought
<1> DEFINE s == State  u == runs.baseline
<1>3. /\ s.backups = backups /\ s.installState = installState
      /\ s.package = package /\ s.flash = flash
  BY StateFields
<1> HIDE DEF s
<1>4. Follows(s, u, Brought) /\ backups = u.backups /\ installState = u.installState
  BY <1>1 DEF Met, s
<1>5. /\ s.installed = u.installed /\ s.errors = u.errors
      /\ s.rollbackReady = u.rollbackReady
      /\ s.package = Brought.package + u.package /\ s.flash = Brought.flash + u.flash
  BY <1>4 DEF Follows
<1>6. /\ s["installed"] = u["installed"] /\ s["backups"] = u["backups"]
      /\ s["installState"] = u["installState"] /\ s["errors"] = u["errors"]
      /\ s["rollbackReady"] = u["rollbackReady"]
  BY <1>3, <1>4, <1>5
<1>7. /\ package = runs.cut.package + u.package /\ flash = runs.cut.flash + u.flash
  BY <1>2, <1>3, <1>5
<1> QED BY <1>6, <1>7 DEF s

(* On one slot, a device that rolls back and installs again ends with the  *)
(* image, backups, verdict, errors and readiness of one that never lost    *)
(* power, although it keeps the backups of the first attempt; it has paid  *)
(* for both attempts.                                                      *)
THEOREM ReinstallMatches ==
  ASSUME ~EnableAB  PROVE RecoverySpec => []ReinstallMatchesUninterrupted
BY TraceInvariant, TraceReinstalls, PTL

(* On one slot with streaming, a device that resumes from its last         *)
(* checkpoint ends in the very state of one that never lost power.         *)
THEOREM ResumeMatches ==
  ASSUME ~EnableAB, Staging = "streaming"
  PROVE  RecoverySpec => []ResumeMatchesUninterrupted
<1>1. ScenarioInv /\ Traceable => ResumeMatchesUninterrupted
  BY DEF Traceable, Place, Met, ResumeMatchesUninterrupted
<1> QED BY <1>1, TraceInvariant, PTL

-----------------------------------------------------------------------------
(* The bytes that operations download.  The fold goes through the sets of  *)
(* their numbers from the greatest down: g is what it computes of each set *)
(* of numbers up to m.                                                     *)
Downloads(ops) == FoldLeft(LAMBDA sum, op : sum + DownloadBytes(op), 0, ops)

Sums(ops, m, g) ==
  g = [s \in SUBSET (1 .. m) |->
         IF s = {} THEN 0 ELSE g[s \ {Max(s)}] + DownloadBytes(ops[Max(s)])]

LEMMA SumsExist ==
  ASSUME NEW ops, NEW n \in Nat  PROVE \E g : Sums(ops, n, g)
<1> DEFINE Bad == {m \in 0 .. n : ~\E g : Sums(ops, m, g)}
<1>1. SUFFICES ASSUME Bad # {} PROVE FALSE
  <2>1. n \in 0 .. n  OBVIOUS
  <2> QED BY <2>1
<1>2. PICK m \in Bad : \A k \in Bad : m <= k
  <2>1. Bad \subseteq Nat  OBVIOUS
  <2> HIDE DEF Bad
  <2> QED BY <1>1, <2>1, NatMin
<1>3. m \in 0 .. n /\ ~\E g : Sums(ops, m, g)  BY Zenon
<1>4. CASE m = 0
  <2> DEFINE g == [s \in SUBSET (1 .. 0) |-> 0]
  <2>1. \A s \in SUBSET (1 .. 0) : s = {}  OBVIOUS
  <2>2. Sums(ops, 0, g)  BY <2>1 DEF Sums
  <2> QED BY <1>3, <1>4, <2>2
<1>5. CASE m # 0
  <2>1. m - 1 \in 0 .. n /\ ~(m <= m - 1) /\ m \in Nat \ {0}  BY <1>3, <1>5
  <2>2. PICK b \in Nat : b = m - 1 /\ m = b + 1  BY <2>1
  <2>3. PICK f : Sums(ops, b, f)  BY <1>2, <2>1, <2>2, Zenon
  <2> DEFINE sum(s) == IF s \subseteq 1 .. b THEN f[s] ELSE f[s \ {m}] + DownloadBytes(ops[m])
             g == [s \in SUBSET (1 .. m) |-> sum(s)]
  <2>4. \A s \in SUBSET (1 .. b) : g[s] = f[s] /\ s \in SUBSET (1 .. m)
    <3>1. 1 .. b \subseteq 1 .. m  BY <2>2
    <3> QED BY <3>1
  <2>5. ASSUME NEW s \in SUBSET (1 .. m)
        PROVE  sum(s) = IF s = {} THEN 0 ELSE g[s \ {Max(s)}] + DownloadBytes(ops[Max(s)])
    <3> HIDE DEF g
    <3>1. CASE s \subseteq 1 .. b
      <4>1. f[s] = IF s = {} THEN 0 ELSE f[s \ {Max(s)}] + DownloadBytes(ops[Max(s)])
        BY <2>3, <3>1 DEF Sums
      <4>2. g[s \ {Max(s)}] = f[s \ {Max(s)}]  BY <2>4, <3>1
      <4> QED BY <3>1, <4>1, <4>2
    <3>2. CASE ~(s \subseteq 1 .. b)
      <4>1. m \in s  BY <2>2, <3>2
      <4>2. s \subseteq Nat /\ s # {} /\ \A y \in s : y <= m  BY <2>1, <4>1
      <4>3. Max(s) \in s /\ Max(s) \in Nat /\ Max(s) >= m  BY <2>1, <4>1, <4>2, MaxOfBounded
      <4>4. Max(s) = m  BY <2>1, <4>2, <4>3
      <4>5. s \ {m} \subseteq 1 .. b  BY <2>2
      <4>6. g[s \ {m}] = f[s \ {m}]  BY <2>4, <4>5
      <4> QED BY <3>2, <4>2, <4>4, <4>6
    <3> QED BY <3>1, <3>2
  <2>6. Sums(ops, m, g)
    <3> HIDE DEF sum
    <3> QED BY <2>5 DEF Sums
  <2> QED BY <1>3, <2>6
<1> QED BY <1>4, <1>5

LEMMA DownloadsSums ==
  ASSUME NEW ops \in Seq(Operation)
  PROVE  \E g : Sums(ops, Len(ops), g) /\ Downloads(ops) = g[1 .. Len(ops)]
<1> DEFINE g == CHOOSE h : Sums(ops, Len(ops), h)
<1>1. Sums(ops, Len(ops), g)
  <2>1. Len(ops) \in Nat  OBVIOUS
  <2> QED BY <2>1, SumsExist, Zenon
<1>2. DOMAIN ops = 1 .. Len(ops)  OBVIOUS
<1>3. Downloads(ops) = g[1 .. Len(ops)]
  BY <1>2, Zenon DEF Downloads, FoldLeft, MapThenFoldSet, Sums
<1> QED BY <1>1, <1>3, Zenon

(* What grows with each operation by its download has grown by all their   *)
(* downloads after the last.                                               *)
LEMMA DownloadsAdd ==
  ASSUME NEW ops \in Seq(Operation), NEW paid, paid[0] \in Nat,
         \A k \in 1 .. Len(ops) : paid[k] = paid[k - 1] + DownloadBytes(ops[k])
  PROVE  Downloads(ops) \in Nat /\ paid[Len(ops)] = paid[0] + Downloads(ops)
<1>1. PICK g : Sums(ops, Len(ops), g) /\ Downloads(ops) = g[1 .. Len(ops)]
  BY DownloadsSums
<1>2. Len(ops) \in Nat /\ \A k \in 1 .. Len(ops) : DownloadBytes(ops[k]) \in Nat
  BY DownloadType
<1> DEFINE Right(k) == g[1 .. k] \in Nat /\ paid[k] = paid[0] + g[1 .. k]
           Bad == {k \in 0 .. Len(ops) : ~Right(k)}
<1>3. Right(0)
  <2>1. 1 .. 0 = {} /\ {} \in SUBSET (1 .. Len(ops))  OBVIOUS
  <2>2. g[{}] = 0  BY <1>1, <2>1, Zenon DEF Sums
  <2> QED BY <2>1, <2>2
<1>4. Bad = {}
  <2> SUFFICES ASSUME Bad # {} PROVE FALSE  OBVIOUS
  <2>1. PICK m \in Bad : \A k \in Bad : m <= k
    <3>1. Bad \subseteq Nat  BY <1>2
    <3> HIDE DEF Bad
    <3> QED BY <3>1, NatMin
  <2>2. m \in 0 .. Len(ops) /\ ~Right(m)  BY Zenon
  <2> HIDE DEF Right
  <2>3. m # 0  BY <1>3, <2>2
  <2>4. m \in 1 .. Len(ops) /\ m - 1 \in 0 .. Len(ops) /\ ~(m <= m - 1)  BY <1>2, <2>2, <2>3
  <2>5. PICK b \in 0 .. Len(ops) : b = m - 1 /\ m = b + 1  BY <2>4
  <2>6. Right(b)  BY <2>1, <2>4, <2>5, Zenon
  <2>7. /\ 1 .. m \in SUBSET (1 .. Len(ops)) /\ 1 .. m # {} /\ (1 .. m) \ {m} = 1 .. b
        /\ 1 .. m \subseteq Nat /\ \A y \in 1 .. m : y <= m
    <3>1. PICK n \in Nat : n = Len(ops)  BY <1>2
    <3>2. m \in Nat /\ 1 <= m /\ m <= n /\ b \in Nat /\ m = b + 1  BY <2>4, <2>5, <3>1
    <3>3. 1 .. m \subseteq 1 .. n /\ m \in 1 .. m  BY <3>2
    <3>4. (1 .. m) \ {m} = 1 .. b  BY <3>2
    <3>5. 1 .. m \subseteq Nat /\ \A y \in 1 .. m : y <= m  BY <3>2
    <3> QED BY <3>1, <3>3, <3>4, <3>5
  <2>8. Max(1 .. m) = m
    <3>1. m \in Nat /\ m \in 1 .. m  BY <2>4
    <3>2. Max(1 .. m) \in 1 .. m /\ Max(1 .. m) \in Nat /\ Max(1 .. m) >= m
      BY <2>7, <3>1, MaxOfBounded
    <3> QED BY <2>7, <3>1, <3>2
  <2>9. g[1 .. m] = g[1 .. b] + DownloadBytes(ops[m])
    <3>1. PICK S : S = 1 .. m  OBVIOUS
    <3>2. S \in SUBSET (1 .. Len(ops)) /\ S # {} /\ Max(S) = m /\ S \ {m} = 1 .. b
      BY <2>7, <2>8, <3>1
    <3>3. g[S] = IF S = {} THEN 0 ELSE g[S \ {Max(S)}] + DownloadBytes(ops[Max(S)])
      BY <1>1, <3>2 DEF Sums
    <3> QED BY <3>1, <3>2, <3>3
  <2>10. paid[m] = paid[b] + DownloadBytes(ops[m])  BY <2>4, <2>5
  <2>11. Right(m)  BY <1>2, <2>4, <2>6, <2>9, <2>10 DEF Right
  <2> QED BY <2>2, <2>11
<1>5. Right(Len(ops))
  <2>1. Len(ops) \in 0 .. Len(ops)  BY <1>2
  <2> QED BY <1>4, <2>1
<1> QED BY <1>1, <1>5

(* What the device of a trace has paid between two of its operations.      *)
LEMMA TracePaid ==
  ASSUME ScenarioInv, NEW t, NEW n, TraceInv(t, n), NEW e \in 0 .. n, NEW a \in 0 .. e
  PROVE  LET more == Downloads(SubSeq(plan, a + 1, e))
         IN  /\ t[a].package \in Nat /\ t[e].package \in Nat /\ more \in Nat
             /\ t[e].package = t[a].package + more
<1>1. /\ n \in Nat /\ n <= Len(plan) /\ plan \in Seq(Plan) /\ Len(plan) \in Nat
      /\ \A k \in 0 .. n : t[k] \in StateSet
      /\ \A k \in 0 .. n - 1 : t[k + 1] = Result(t[k], snapshot, plan[k + 1])
  BY TraceFacts
<1>2. \A k \in 0 .. n : t[k].package \in Nat  BY <1>1 DEF StateSet
<1>3. ASSUME NEW k \in 0 .. n - 1
      PROVE  t[k + 1].package = t[k].package + DownloadBytes(plan[k + 1])
  <2>1. PICK u, op : u = t[k] /\ op = plan[k + 1]  OBVIOUS
  <2>2. Result(u, snapshot, op).package = u.package + DownloadBytes(op)
    BY Zenon DEF Result, After
  <2> QED BY <1>1, <2>1, <2>2
<1> DEFINE ops == SubSeq(plan, a + 1, e)
           paid == [k \in 0 .. e - a |-> t[a + k].package]
<1>4. ops \in Seq(Operation) /\ Len(ops) = e - a /\ \A k \in 1 .. e - a : ops[k] = plan[a + k]
  <2>1. a \in Nat /\ e \in Nat /\ a <= e /\ e <= Len(plan)  BY <1>1
  <2>2. plan \in Seq(Operation)  BY <1>1, DeploymentAssumption
  <2> QED BY <2>1, <2>2
<1>5. /\ a \in 0 .. n /\ e \in 0 .. n /\ a \in Nat /\ e - a \in Nat /\ a + 0 = a /\ a + (e - a) = e
      /\ 0 \in 0 .. e - a /\ e - a \in 0 .. e - a
  BY <1>1
<1>6. paid[0] = t[a].package /\ paid[e - a] = t[e].package  BY <1>5
<1>7. ASSUME NEW k \in 1 .. e - a  PROVE paid[k] = paid[k - 1] + DownloadBytes(ops[k])
  <2>1. PICK j \in 0 .. n - 1 : j = a + (k - 1) /\ j + 1 = a + k  BY <1>1, <1>5
  <2>2. k \in 0 .. e - a /\ k - 1 \in 0 .. e - a  BY <1>5
  <2>3. paid[k] = t[j + 1].package /\ paid[k - 1] = t[j].package  BY <2>1, <2>2
  <2>4. ops[k] = plan[j + 1]  BY <1>4, <2>1
  <2> HIDE DEF ops, paid
  <2> QED BY <1>3, <2>3, <2>4
<1> HIDE DEF ops, paid
<1>8. Downloads(ops) \in Nat /\ paid[Len(ops)] = paid[0] + Downloads(ops)
  <2>1. paid[0] \in Nat  BY <1>2, <1>5, <1>6
  <2> QED BY <1>4, <1>7, <2>1, DownloadsAdd
<1> QED BY <1>2, <1>4, <1>5, <1>6, <1>8 DEF ops

LEMMA MaxWithZero == ASSUME NEW x \in Nat  PROVE Max({0, x}) = x
<1>1. {0, x} \subseteq Nat /\ {0, x} # {} /\ \A y \in {0, x} : y <= x  OBVIOUS
<1>2. Max({0, x}) \in {0, x} /\ \A y \in {0, x} : Max({0, x}) >= y  BY <1>1, MaxOfBounded
<1> QED BY <1>2

LEMMA TraceRepeats == ScenarioInv /\ Traceable => ExtraIsRepeatedWork
<1> SUFFICES ASSUME ScenarioInv, Traceable, Recovered
             PROVE  ExtraNetwork = Downloads(SubSeq(plan, CheckpointIndex + 1, cut))
  BY DEF ExtraIsRepeatedWork, Downloads
<1>0. PICK t, n : TraceInv(t, n) /\ Place(t, n)  BY DEF Traceable
<1>1. /\ phase = "done" /\ strategy # "failed" /\ Chosen /\ Met /\ cut <= n /\ runs.cut = t[cut]
      /\ runs.baseline = Outcome(t, n)
  BY <1>0 DEF Place, Recovered
<1>2. /\ n \in Nat /\ n <= Len(plan) /\ Len(plan) \in Nat /\ plan \in Seq(Plan)
      /\ t[0] = runs.fresh /\ \A k \in 0 .. n : t[k] \in StateSet
  BY <1>0, TraceFacts
<1>3. cut \in Nat /\ cut \in 0 .. n  BY <1>1, <1>2 DEF ScenarioInv, ScenarioType
<1>4. LastSaved(t, cut)  BY <1>0, <1>3 DEF TraceInv, Traced
<1>5. PICK a : a = CheckpointIndex  OBVIOUS
<1>6. /\ a \in 0 .. cut
      /\ strategy = "checkpoint_resume" =>
           runs.cut.checkpoints[Len(runs.cut.checkpoints)].package = t[a].package
      /\ strategy # "checkpoint_resume" => a = 0
  <2>1. CASE strategy = "checkpoint_resume"
    <3> DEFINE taken == t[cut].checkpoints  c == taken[Len(taken)]
    <3>1. taken # << >> /\ a = c.index  BY <1>1, <1>5, <2>1 DEF Chosen, CheckpointIndex
    <3>2. c.index \in 1 .. cut /\ Saves(c, t[c.index])  BY <1>4, <3>1 DEF LastSaved
    <3>3. c.package = t[a].package  BY <3>1, <3>2 DEF Saves
    <3> QED BY <1>1, <1>3, <2>1, <3>1, <3>2, <3>3
  <2>2. CASE strategy # "checkpoint_resume"
    <3>1. runs.cut.checkpoints = << >>  BY <1>1, <2>2 DEF Chosen
    <3>2. a = 0  BY <1>5, <3>1 DEF CheckpointIndex
    <3> QED BY <1>3, <2>2, <3>2
  <2> QED BY <2>1, <2>2
<1>7. PICK more \in Nat :
        /\ more = Downloads(SubSeq(plan, a + 1, cut))
        /\ t[cut].package = t[a].package + more
  BY <1>0, <1>3, <1>6, TracePaid
<1>8. PICK all \in Nat : runs.baseline.package = all /\ t[a].package \in Nat /\ t[a].package <= all
  <2>1. PICK s \in StateSet : s = t[n]  BY <1>2
  <2>2. /\ s.package \in Nat /\ t[a].package \in Nat /\ t[a].package <= s.package
    <3>1. n \in 0 .. n /\ a \in 0 .. n  BY <1>2, <1>3, <1>6
    <3>2. PICK rest \in Nat : s.package = t[a].package + rest /\ t[a].package \in Nat
      BY <1>0, <2>1, <3>1, TracePaid
    <3> QED BY <2>1, <3>2 DEF StateSet
  <2>3. CASE n = Len(plan)
    <3>1. runs.baseline = Finished(s)  BY <1>1, <2>1, <2>3 DEF Outcome
    <3>2. Finished(s).package = s.package  BY Zenon DEF Finished
    <3> QED BY <2>2, <3>1, <3>2
  <2>4. CASE n # Len(plan)
    <3>1. n + 1 \in 1 .. Len(plan)  BY <1>2, <2>4
    <3>2. PICK op \in Operation : op = plan[n + 1]  BY <1>2, <3>1, DeploymentAssumption
    <3>3. runs.baseline = Broken(s, op)  BY <1>1, <2>1, <2>4, <3>2 DEF Outcome
    <3>4. Broken(s, op).package = s.package + DownloadBytes(op)  BY Zenon DEF Broken
    <3>5. DownloadBytes(op) \in Nat  BY <3>2, DownloadType
    <3> QED BY <2>2, <3>3, <3>4, <3>5
  <2> QED BY <2>3, <2>4
<1>9. package = Brought.package + all
  <2>1. State.package = package  BY StateFields
  <2> QED BY <1>1, <1>8, <2>1 DEF Met, Follows
<1>10. PICK before \in Nat : before = t[a].package /\ before <= all  BY <1>8
<1>11. CASE strategy = "checkpoint_resume"
  <2>1. package = all  BY <1>9, <1>11 DEF Brought
  <2>2. TotalNetwork = (before + more) + Max({0, all - before})
    BY <1>1, <1>6, <1>7, <1>10, <1>11, <2>1 DEF TotalNetwork
  <2>3. all - before \in Nat  BY <1>10
  <2>4. TotalNetwork = more + all
    <3>1. Max({0, all - before}) = all - before  BY <2>3, MaxWithZero
    <3> QED BY <1>10, <2>2, <3>1
  <2>5. ExtraNetwork = Max({0, more})
    <3>1. TotalNetwork - all = more  BY <2>4
    <3> QED BY <1>8, <3>1 DEF ExtraNetwork
  <2> QED BY <1>5, <1>7, <2>5, MaxWithZero
<1>12. CASE strategy # "checkpoint_resume"
  <2>1. a = 0 /\ before = 0
    <3>1. runs.fresh.package = 0  BY <1>0 DEF TraceInv, Fresh
    <3> QED BY <1>2, <1>6, <1>10, <1>12, <3>1
  <2>2. TotalNetwork = more + all
    <3>1. TotalNetwork = package  BY <1>12 DEF TotalNetwork
    <3>2. Brought.package = runs.cut.package  BY <1>12 DEF Brought
    <3> QED BY <1>1, <1>7, <1>9, <1>10, <2>1, <3>1, <3>2
  <2>3. ExtraNetwork = Max({0, more})
    <3>1. TotalNetwork - all = more  BY <2>2
    <3> QED BY <1>8, <3>1 DEF ExtraNetwork
  <2> QED BY <1>5, <1>7, <2>3, MaxWithZero
<1> QED BY <1>11, <1>12

(* On one slot, the extra bytes that a recovered update reports are those  *)
(* of the operations done twice: those between the checkpoint restored and *)
(* the cut, or all before the cut if the installation started again; for   *)
(* every plan, cut and staging.                                            *)
THEOREM ExtraRepeats ==
  ASSUME ~EnableAB  PROVE RecoverySpec => []ExtraIsRepeatedWork
BY TraceInvariant, TraceRepeats, PTL

-----------------------------------------------------------------------------
(* What a completion makes of slots, taken apart by what it says.          *)
LEMMA CompletionJudged ==
  ASSUME EnableAB, TypeInv, NEW state, NEW c, c = Completion(state)
  PROVE  \/ /\ c.ab = ab /\ c.errors = errors /\ c.state = Completed(state)
            /\ ab.finalized \/ c.state # "complete"
         \/ c.ab = Refused /\ c.state = "failed" /\ c.errors # {}
         \/ c.ab = Booted /\ Healthy /\ Candidate = BlocksToBytes(Expected)
         \/ c.ab = Booted /\ ~Healthy /\ c.state = "rolled_back" /\ c.errors # {}
<1>1. CASE ~Finalizes(state)
  BY <1>1 DEF Completion, Finalizes
<1>2. CASE Finalizes(state) /\ Refusal # {}
  BY <1>2 DEF Completion, FailBeforeActivation
<1>3. CASE Finalizes(state) /\ Refusal = {}
  BY <1>3, HealthyCandidate, RecoveryAssumption DEF Completion, Switch
<1> QED BY <1>1, <1>2, <1>3

(* Slots that are finalized run the expected image, or the device will not *)
(* complete.                                                               *)
Judged ==
  ab.finalized =>
    \/ ab.valid /\ ab.activeVersion = BlocksToBytes(Expected)
    \/ errors # {} /\ installState \in {"failed", "rolled_back"}

LEMMA CompletionIsJudged ==
  ASSUME EnableAB, TypeInv, Judged, NEW state, NEW c, c = Completion(state),
         installState' = c.state, errors' = c.errors, ab' = c.ab,
         ~ab.finalized \/ state = installState
  PROVE  /\ Judged'
         /\ installState' = "complete" =>
              ab'.valid /\ ab'.activeVersion = BlocksToBytes(Expected)
<1>1. CASE /\ c.ab = ab /\ c.errors = errors /\ c.state = Completed(state)
           /\ ab.finalized \/ c.state # "complete"
  <2>1. CASE ~ab.finalized  BY <1>1, <2>1 DEF Judged
  <2>2. CASE ab.valid /\ ab.activeVersion = BlocksToBytes(Expected)
    BY <1>1, <2>2 DEF Judged
  <2>3. CASE ab.finalized /\ errors # {} /\ installState \in {"failed", "rolled_back"}
    <3>1. c.state \in {"failed", "rolled_back"}  BY <1>1, <2>3 DEF Completed
    <3> QED BY <1>1, <2>3, <3>1 DEF Judged
  <2> QED BY <2>1, <2>2, <2>3 DEF Judged
<1>2. CASE c.ab = Refused /\ c.state = "failed" /\ c.errors # {}
  BY <1>2 DEF Judged
<1>3. CASE c.ab = Booted /\ Healthy /\ Candidate = BlocksToBytes(Expected)
  <2>1. ab'.valid /\ ab'.activeVersion = Candidate  BY <1>3, BootedFields
  <2> QED BY <1>3, <2>1 DEF Judged
<1>4. CASE c.ab = Booted /\ ~Healthy /\ c.state = "rolled_back" /\ c.errors # {}
  BY <1>4 DEF Judged
<1> QED BY <1>1, <1>2, <1>3, <1>4, CompletionJudged

(* Before the last operation of such a plan nothing has finalized the      *)
(* slots of the device that is cut, or of the one that recovers.           *)
SlotsLeft ==
  EnableAB /\ CommitsLast =>
    /\ ~runs.fresh.ab.finalized
    /\ phase \in {"install", "interrupted"} /\ ~raised => ~ab.finalized
    /\ phase = "recover" /\ ~raised => Judged /\ (ab.finalized => pos = Len(plan))
    /\ Recovered => ab.valid /\ ab.activeVersion = BlocksToBytes(Expected)

LEMMA SlotsStart == RecoveryInit => SlotsLeft
BY DEF RecoveryInit, Init, SlotsLeft, Recovered, State

LEMMA SlotsStep ==
  ASSUME ScenarioInv, SlotsLeft, [RecoveryNext]_recoveryVars  PROVE SlotsLeft'
<1> SUFFICES ASSUME EnableAB, CommitsLast'  PROVE SlotsLeft'  BY DEF SlotsLeft
<1>1. plan' = plan
  BY DEF RecoveryNext, ApplyNext, FailNext, RefuseNext, Consume, EndBaseline, StartScenario,
     AbandonScenario, LosePower, ResumeFromCheckpoint, RollbackAndReinstall, GiveUp,
     EndRecovery, recoveryVars
<1>2. CommitsLast  BY <1>1 DEF CommitsLast
<1>3. /\ ~runs.fresh.ab.finalized
      /\ phase \in {"install", "interrupted"} /\ ~raised => ~ab.finalized
      /\ phase = "recover" /\ ~raised => Judged /\ (ab.finalized => pos = Len(plan))
      /\ Recovered => ab.valid /\ ab.activeVersion = BlocksToBytes(Expected)
  BY <1>2 DEF SlotsLeft
<1>4. /\ TypeInv /\ cut \in 0 .. Len(plan) - 1 /\ Len(plan) \in Nat /\ pos \in Nat
  BY DEF ScenarioInv, ScenarioType
<1>5. CASE ApplyNext
  <2> DEFINE op == plan[pos + 1]
  <2>1. /\ Succeed(op) /\ raised' = raised /\ ~raised /\ runs' = runs /\ phase' = phase
        /\ phase \in {"baseline", "install", "recover"} /\ pos + 1 \in 1 .. Len(plan)
        /\ pos' = pos + 1 /\ pos # End
    BY <1>5, Consumed DEF ApplyNext, Consume, Stopped
  <2>2. op.op # "commit" => ab' = ab /\ errors' = errors  BY <2>1, SucceedYields
  <2>3. pos + 1 < Len(plan) => op.op # "commit"
    BY <1>2, <1>4, <2>1 DEF CommitsLast
  <2>4. ~Recovered'  BY <2>1 DEF Recovered
  <2>5. phase = "install" => ~ab'.finalized
    <3> SUFFICES ASSUME phase = "install" PROVE ~ab'.finalized  OBVIOUS
    <3>1. pos < cut
      BY <1>4, <2>1 DEF End, ScenarioInv, Counted
    <3>2. pos + 1 < Len(plan)  BY <1>4, <3>1
    <3> QED BY <1>3, <2>1, <2>2, <2>3, <3>2
  <2>6. phase = "recover" => Judged' /\ (ab'.finalized => pos' = Len(plan))
    <3> SUFFICES ASSUME phase = "recover"
                 PROVE  Judged' /\ (ab'.finalized => pos' = Len(plan))
      OBVIOUS
    <3>1. Judged /\ ~ab.finalized  BY <1>3, <1>4, <2>1
    <3>2. CASE op.op # "commit"  BY <2>2, <3>1, <3>2 DEF Judged
    <3>3. CASE op.op = "commit"
      <4> DEFINE c == Completion("installing")
      <4>1. installState' = c.state /\ errors' = c.errors /\ ab' = c.ab
        BY <2>1, <3>3, SucceedYields
      <4> HIDE DEF c
      <4>2. Judged'  BY <1>4, <3>1, <4>1, CompletionIsJudged DEF c
      <4>3. pos' = Len(plan)  BY <1>4, <2>1, <2>3, <3>3
      <4> QED BY <4>2, <4>3
    <3> QED BY <3>2, <3>3
  <2> QED BY <1>1, <1>3, <2>1, <2>4, <2>5, <2>6 DEF SlotsLeft
<1>6. CASE FailNext \/ RefuseNext
  BY <1>3, <1>6 DEF FailNext, RefuseNext, Consume, SlotsLeft, Recovered
<1>7. CASE EndBaseline
  BY <1>3, <1>7 DEF EndBaseline, SlotsLeft, Recovered
<1>8. CASE \E percentage \in Percentages : StartScenario(percentage)
  <2>1. /\ ab' = runs.fresh.ab /\ phase' = "install" /\ runs'.fresh = runs.fresh
    BY <1>8 DEF StartScenario, Become, ScenarioInv, ScenarioType
  <2> QED BY <1>3, <2>1 DEF SlotsLeft, Recovered
<1>9. CASE AbandonScenario
  BY <1>3, <1>9 DEF AbandonScenario, SlotsLeft, Recovered
<1>10. CASE LosePower
  <2>1. /\ ab' = ab /\ phase = "install" /\ ~raised /\ phase' = "interrupted"
        /\ runs'.fresh = runs.fresh
    BY <1>10 DEF LosePower, Interrupt, ScenarioInv, ScenarioType
  <2> QED BY <1>3, <2>1 DEF SlotsLeft, Recovered
<1>11. CASE ResumeFromCheckpoint \/ RollbackAndReinstall
  <2>1. /\ ab' = ab /\ phase = "interrupted" /\ phase' = "recover" /\ runs' = runs
        /\ raised' = raised
    BY <1>11 DEF ResumeFromCheckpoint, RollbackAndReinstall, Resume, RestoreCheckpoint,
       RollbackInstall
  <2>2. ~ab.finalized  BY <1>3, <2>1 DEF ScenarioInv, Counted
  <2> QED BY <1>3, <2>1, <2>2 DEF SlotsLeft, Recovered, Judged
<1>12. CASE GiveUp
  BY <1>3, <1>12 DEF GiveUp, SlotsLeft, Recovered
<1>13. CASE EndRecovery
  <2>1. phase = "recover" /\ phase' = "done" /\ runs' = runs /\ raised' = raised
    BY <1>13 DEF EndRecovery
  <2>2. ASSUME ~raised, installState' = "complete"
        PROVE  ab'.valid /\ ab'.activeVersion = BlocksToBytes(Expected)
    <3> DEFINE c == Completion(installState)
    <3>1. installState' = c.state /\ errors' = c.errors /\ ab' = c.ab
      BY <1>13, <2>2 DEF EndRecovery, Complete
    <3>2. Judged  BY <1>3, <2>1, <2>2
    <3> HIDE DEF c
    <3> QED BY <1>4, <2>2, <3>1, <3>2, CompletionIsJudged DEF c
  <2> QED BY <1>3, <2>1, <2>2 DEF SlotsLeft, Recovered
<1>14. CASE UNCHANGED recoveryVars
  <2>1. /\ phase' = phase /\ raised' = raised /\ runs' = runs /\ ab' = ab /\ pos' = pos
        /\ errors' = errors /\ installState' = installState /\ strategy' = strategy
        /\ State' = State
    BY <1>14 DEF recoveryVars, vars, State
  <2>2. (Recovered' <=> Recovered) /\ (Judged' <=> Judged)  BY <2>1 DEF Recovered, Judged
  <2> QED BY <1>1, <1>3, <2>1, <2>2 DEF SlotsLeft
<1> QED BY <1>5, <1>6, <1>7, <1>8, <1>9, <1>10, <1>11, <1>12, <1>13, <1>14 DEF RecoveryNext

(* A recovered A/B update whose plan commits at the end, if at all, was    *)
(* booted healthily and runs the expected image: for every plan, cut, slot *)
(* configuration and health check.                                         *)
THEOREM RecoveredActivated == RecoverySpec => []RecoveredMeansActivated
<1>1. ScenarioInv /\ SlotsLeft /\ [RecoveryNext]_recoveryVars => SlotsLeft'  BY SlotsStep
<1>2. SlotsLeft => RecoveredMeansActivated  BY DEF SlotsLeft, RecoveredMeansActivated
<1> QED BY <1>1, <1>2, SlotsStart, ScenarioInvariant, PTL DEF RecoverySpec
=============================================================================

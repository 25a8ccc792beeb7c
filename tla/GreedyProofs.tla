---------------------------- MODULE GreedyProofs ----------------------------
(***************************************************************************)
(* The greedy planner, for every image, patch size, configuration and      *)
(* order of the candidates.                                                *)
(*                                                                         *)
(* What it reckons with is what its plan does: the simulator is, after     *)
(* each adopted candidate, what the operations of the plan so far make of  *)
(* a fresh device (Reckoned), and a trial leaves it as it was.             *)
(*                                                                         *)
(* And it keeps rollback where it can: among the candidates for a block    *)
(* there is always one that breaks no budget and saves what it overwrites  *)
(* (Witness), its score begins with two zeros, so that of the candidate    *)
(* adopted does too, and the candidate was still ready after its last      *)
(* operation (RollbackKept).                                               *)
(***************************************************************************)
EXTENDS PlannerProofs

-----------------------------------------------------------------------------
(* The greedy planner and the device of its plan: t[k] is what the first k *)
(* operations of the plan make of a fresh device.                          *)
Along(old, ops, t) == \A k \in 0 .. Len(ops) - 1 : t[k + 1] = Result(t[k], old, ops[k + 1])

AllFields(s) ==
  s = [installed |-> s.installed, backups |-> s.backups, applied |-> s.applied,
       installState |-> s.installState, errors |-> s.errors,
       rollbackReady |-> s.rollbackReady, unsafe |-> s.unsafe,
       checkpoints |-> s.checkpoints, package |-> s.package, staging |-> s.staging,
       flash |-> s.flash, peakRam |-> s.peakRam, peakStorage |-> s.peakStorage,
       violations |-> s.violations, ab |-> s.ab]

Reckoned(t) ==
  /\ t[0] = sim.fresh /\ Along(snapshot, plan, t)
  /\ stage \in {"plan", "try", "planned", "deploy"} => t[Len(plan)] = sim.planned
  /\ stage = "adopt" => t[Len(plan)] = State
  /\ stage = "deploy" => t[next] = State

TraceInv ==
  Greedy => AllFields(sim.fresh) /\ AllFields(sim.planned) /\ \E t : Reckoned(t)

LEMMA StateHasFields == AllFields(State)
BY StateFields, Zenon DEF State, AllFields

LEMMA BecomeState ==
  ASSUME NEW s, AllFields(s), Become(s)  PROVE State' = s
<1>1. State' = [installed |-> s.installed, backups |-> s.backups, applied |-> s.applied,
       installState |-> s.installState, errors |-> s.errors,
       rollbackReady |-> s.rollbackReady, unsafe |-> s.unsafe,
       checkpoints |-> s.checkpoints, package |-> s.package, staging |-> s.staging,
       flash |-> s.flash, peakRam |-> s.peakRam, peakStorage |-> s.peakStorage,
       violations |-> s.violations, ab |-> s.ab]
  BY Zenon DEF State, Become
<1> QED BY <1>1, Zenon DEF AllFields

(* An operation of a plan, applied to a device that stays unharmed.        *)
LEMMA AppliedResult ==
  ASSUME NEW op \in PlanOp, Apply(op), Unharmed(installState', errors')
  PROVE  State' = Result(State, snapshot, op) /\ snapshot' = snapshot
<1>1. op.op # "commit"  BY PlanOpForms
<1>2. installState' # "failed"  BY DEF Unharmed
<1>3. Succeed(op)  BY <1>2 DEF Apply, Fail
<1>4. snapshot' = snapshot
  BY <1>3, Zenon DEF Succeed, Keep, Backup, Copy, Delta, RawInsert, AppendBlock, Delete,
     TruncateToBytes, TruncateToBlocks, Verify, TakeCheckpoint, RollbackToSnapshot,
     RollbackToBackup, Commit, Perform
<1> QED BY <1>1, <1>3, <1>4, SucceedResult

LEMMA SnapshotStays ==
  ASSUME NEW op, Apply(op)  PROVE snapshot' = snapshot
BY ZenonT(40) DEF Apply, Fail, Succeed, Keep, Backup, Copy, Delta, RawInsert, AppendBlock, Delete,
   TruncateToBytes, TruncateToBlocks, Verify, TakeCheckpoint, RollbackToSnapshot,
   RollbackToBackup, Commit, Perform

(* A trace goes on with the operation that is adopted.                     *)
LEMMA TraceGrows ==
  ASSUME NEW ops \in Seq(PlanOp), NEW op \in PlanOp, NEW old, NEW t, Along(old, ops, t)
  PROVE  \E u : /\ Along(old, Append(ops, op), u) /\ u[0] = t[0]
                /\ u[Len(Append(ops, op))] = Result(t[Len(ops)], old, op)
<1> DEFINE n == Len(ops)
           last == Result(t[n], old, op)
           u == [k \in 0 .. n + 1 |-> IF k = n + 1 THEN last ELSE t[k]]
           more == Append(ops, op)
<1>1. n \in Nat  OBVIOUS
<1>2. /\ Len(more) = n + 1 /\ more[n + 1] = op
      /\ \A k \in 1 .. n : more[k] = ops[k]
  OBVIOUS
<1>3. \A k \in 0 .. n : u[k] = t[k]  BY <1>1
<1>4. u[n + 1] = last  BY <1>1
<1>5. Along(old, more, u)
  <2> SUFFICES ASSUME NEW k \in 0 .. Len(more) - 1
               PROVE  u[k + 1] = Result(u[k], old, more[k + 1])
    BY DEF Along
  <2>1. k \in 0 .. n  BY <1>1, <1>2
  <2>2. CASE k = n
    <3>1. u[k] = t[n] /\ u[k + 1] = last /\ more[k + 1] = op
      BY <1>1, <1>2, <1>3, <1>4, <2>1, <2>2
    <3> HIDE DEF u, more
    <3> QED BY <3>1 DEF last
  <2>3. CASE k # n
    <3>1. k \in 0 .. n - 1 /\ k + 1 \in 1 .. n /\ k + 1 \in 0 .. n  BY <1>1, <2>1, <2>3
    <3>2. t[k + 1] = Result(t[k], old, ops[k + 1])  BY <3>1 DEF Along
    <3>3. u[k] = t[k] /\ u[k + 1] = t[k + 1] /\ more[k + 1] = ops[k + 1]
      BY <1>2, <1>3, <2>1, <3>1
    <3> HIDE DEF u, more
    <3> QED BY <3>2, <3>3
  <2> QED BY <2>2, <2>3
<1>6. u[0] = t[0]  BY <1>1, <1>3
<1> HIDE DEF u, more
<1>7. u[Len(more)] = last  BY <1>2, <1>4
<1> QED BY <1>5, <1>6, <1>7 DEF more

LEMMA TraceInit ==
  ASSUME PlanningInit  PROVE TraceInv
<1>1. sim = [fresh |-> State, planned |-> State] /\ plan = << >> /\ next = 0
      /\ stage \in {"save", "plan"}
  BY DEF PlanningInit
<1>2. sim.fresh = State /\ sim.planned = State  BY <1>1
<1> DEFINE t == [k \in {0} |-> State]
<1>3. t[0] = State /\ Len(plan) = 0  BY <1>1
<1>4. Along(snapshot, plan, t)  BY <1>3 DEF Along
<1> HIDE DEF t
<1>5. Reckoned(t)  BY <1>1, <1>2, <1>3, <1>4 DEF Reckoned
<1> QED BY <1>2, <1>5, StateHasFields DEF TraceInv

(* The steps of the greedy planner.                                        *)
LEMMA GreedySteps ==
  ASSUME BaselineInv, PlanningNext, Greedy
  PROVE  \/ GreedySearchesBlock \/ GreedyCuts \/ TryOperation \/ JudgeCandidate
         \/ AdoptOperation \/ Adopted \/ StartDeployment \/ DeployOperation \/ EndDeployment
<1>1. stage # "save"  BY DEF BaselineInv, PlanFrame, Greedy, Careful
<1> QED
  BY <1>1 DEF PlanningNext, Greedy, FullReplacement, WholeFileBsdiff, BlockwiseBsdiff, CopyOnly,
     CopyDelta, RsyncRollingHash, SaveTail, BackupSafeCopyDelta, CutPlan, Plans

LEMMA PlanningLeaves ==
  ASSUME PlanningNext  PROVE planner' = planner
BY DEF PlanningNext, FullReplacement, WholeFileBsdiff, PlanWhole, BlockwiseBsdiff, CopyOnly,
   CopyDelta, RsyncRollingHash, SaveTail, BackupSafeCopyDelta, CutPlan, PlanBlock,
   GreedySearchesBlock, GreedyCuts, StartSearch, TryOperation, JudgeCandidate,
   AdoptOperation, Adopted, StartDeployment, DeployOperation, EndDeployment

LEMMA TraceStep ==
  ASSUME ImagesRead, BaselineInv, BaselineInv', TraceInv, PlanningNext  PROVE TraceInv'
<1> SUFFICES ASSUME Greedy'  PROVE /\ AllFields(sim'.fresh) /\ AllFields(sim'.planned)
                                   /\ \E t : Reckoned(t)'
  BY DEF TraceInv, AllFields
<1>1. planner' = planner  BY PlanningLeaves
<1>2. Greedy  BY <1>1 DEF Greedy
<1>3. PICK t : Reckoned(t)  BY <1>2 DEF TraceInv
<1>4. AllFields(sim.fresh) /\ AllFields(sim.planned)  BY <1>2 DEF TraceInv
<1>5. CASE GreedySearchesBlock \/ GreedyCuts \/ TryOperation
  <2>1. /\ stage \in {"plan", "try"} /\ stage' \in {"try", "planned"}
        /\ UNCHANGED <<plan, sim>> /\ snapshot' = snapshot
    <3>1. CASE GreedySearchesBlock \/ GreedyCuts
      BY <3>1 DEF GreedySearchesBlock, GreedyCuts, StartSearch, Plans, vars
    <3>2. CASE TryOperation
      <4>1. snapshot' = snapshot  BY <3>2, SnapshotStays DEF TryOperation
      <4> QED BY <3>2, <4>1 DEF TryOperation
    <3> QED BY <1>5, <3>1, <3>2
  <2> QED BY <1>3, <1>4, <2>1 DEF Reckoned
<1>6. CASE JudgeCandidate
  <2>1. /\ stage = "try" /\ stage' \in {"try", "raised", "adopt"}
        /\ UNCHANGED <<plan, sim>> /\ Become(sim.planned)
    BY <1>6 DEF JudgeCandidate, AfterTrial
  <2>2. State' = sim.planned /\ snapshot' = snapshot
    BY <1>4, <2>1, BecomeState DEF Become
  <2> QED BY <1>3, <1>4, <2>1, <2>2 DEF Reckoned
<1>7. CASE AdoptOperation
  <2>1. PICK op : op = Head(search.trying)  OBVIOUS
  <2>2. /\ stage = "adopt" /\ stage' = "adopt" /\ search.trying # << >>
        /\ Apply(op) /\ plan' = Append(plan, op) /\ sim' = sim
    BY <1>7, <2>1 DEF AdoptOperation
  <2>3. plan \in Seq(PlanOp) /\ search.trying \in Seq(PlanOp)
    BY <1>2, <2>2 DEF BaselineInv, GreedyInv
  <2>4. op \in PlanOp  BY <2>1, <2>2, <2>3
  <2>5. Unharmed(installState, errors)'
    BY <2>2 DEF BaselineInv, GreedyInv
  <2>6. State' = Result(State, snapshot, op) /\ snapshot' = snapshot
    BY <2>2, <2>4, <2>5, AppliedResult DEF Unharmed
  <2>7. Along(snapshot, plan, t) /\ t[0] = sim.fresh /\ t[Len(plan)] = State
    BY <1>3, <2>2 DEF Reckoned
  <2>8. PICK u : /\ Along(snapshot, Append(plan, op), u) /\ u[0] = t[0]
                 /\ u[Len(Append(plan, op))] = Result(t[Len(plan)], snapshot, op)
    BY <2>3, <2>4, <2>7, TraceGrows
  <2>9. Along(snapshot', plan', u) /\ u[0] = sim'.fresh /\ u[Len(plan')] = State'
    BY <2>2, <2>6, <2>7, <2>8
  <2>10. Reckoned(u)'  BY <2>2, <2>9 DEF Reckoned
  <2> QED BY <1>4, <2>2, <2>10
<1>8. CASE Adopted
  <2>1. /\ stage = "adopt" /\ stage' \in {"plan", "planned"}
        /\ sim' = [sim EXCEPT !.planned = State] /\ plan' = plan /\ UNCHANGED vars
    BY <1>8 DEF Adopted
  <2>2. "planned" \in DOMAIN sim  BY DEF BaselineInv, PlanFrame
  <2>3. sim'.fresh = sim.fresh /\ sim'.planned = State  BY <2>1, <2>2
  <2>4. snapshot' = snapshot  BY <2>1 DEF vars
  <2>5. Reckoned(t)'  BY <1>3, <2>1, <2>3, <2>4 DEF Reckoned
  <2> QED BY <1>4, <2>3, <2>5, StateHasFields
<1>9. CASE StartDeployment
  <2>1. /\ stage = "planned" /\ stage' = "deploy" /\ next' = 0 /\ Become(sim.fresh)
        /\ UNCHANGED <<plan, sim>>
    BY <1>9 DEF StartDeployment
  <2>2. State' = sim.fresh /\ snapshot' = snapshot
    BY <1>4, <2>1, BecomeState DEF Become
  <2> QED BY <1>3, <1>4, <2>1, <2>2 DEF Reckoned
<1>10. CASE DeployOperation
  <2>1. PICK op : op = plan[next + 1]  OBVIOUS
  <2>2. /\ stage = "deploy" /\ stage' = "deploy" /\ next < PlanEnd /\ Apply(op)
        /\ next' = next + 1 /\ UNCHANGED <<plan, sim>>
    BY <1>10, <2>1 DEF DeployOperation
  <2>3. ~AtOnce  BY <1>2 DEF AtOnce, Greedy
  <2>4. plan \in Seq(PlanOp) /\ Len(plan) \in Nat /\ PlanEnd \in 0 .. Len(plan)
    BY <2>2, <2>3, DeployFacts
  <2>5. next \in 0 .. PlanEnd  BY <2>2 DEF BaselineInv, DeployInv
  <2>6. next \in 0 .. Len(plan) - 1 /\ next + 1 \in 1 .. Len(plan)  BY <2>2, <2>4, <2>5
  <2>7. op \in PlanOp  BY <2>1, <2>4, <2>6
  <2>8. Unharmed(installState, errors)'  BY <2>2 DEF BaselineInv, DeployInv
  <2>9. State' = Result(State, snapshot, op) /\ snapshot' = snapshot
    BY <2>2, <2>7, <2>8, AppliedResult DEF Unharmed
  <2>10. t[next + 1] = Result(t[next], snapshot, op) /\ t[next] = State
    BY <1>3, <2>1, <2>2, <2>6 DEF Reckoned, Along
  <2>11. t[next'] = State'  BY <2>2, <2>9, <2>10
  <2>12. Reckoned(t)'  BY <1>3, <2>2, <2>9, <2>11 DEF Reckoned
  <2> QED BY <1>4, <2>2, <2>12
<1>11. CASE EndDeployment
  <2>1. /\ stage' = "done" /\ UNCHANGED <<plan, sim>> /\ snapshot' = snapshot
    BY <1>11 DEF EndDeployment, Complete, vars
  <2> QED BY <1>3, <1>4, <2>1 DEF Reckoned
<1> QED BY <1>2, <1>5, <1>6, <1>7, <1>8, <1>9, <1>10, <1>11, GreedySteps

LEMMA TraceStutters ==
  ASSUME TraceInv, UNCHANGED <<vars, planning>>  PROVE TraceInv'
<1>1. UNCHANGED <<stage, next, plan, sim, snapshot, planner>> /\ State' = State
  BY DEF vars, planning, State
<1>2. \A t : Reckoned(t)' <=> Reckoned(t)  BY <1>1 DEF Reckoned
<1> QED BY <1>1, <1>2 DEF TraceInv, Greedy

(* For images that are read from files, whatever the candidates, their     *)
(* scores and the order in which they are tried: when the plan of the      *)
(* greedy planner has been deployed to its last operation, the device is,  *)
(* to every field, what the simulator of the planner was (clone,           *)
(* _apply_candidate, _score_deployment_candidate).                         *)
THEOREM TrialsTraceless ==
  ASSUME ImagesRead  PROVE PolicySpec => []TrialsLeaveNoTrace
<1> DEFINE Planned == PolicyFrame /\ PlannedPolicy /\ (Activates => DonePolicy)
           Traced == policy = "baseline" => TraceInv
<1>1. PolicyInit => Traced
  BY TraceInit, PolicyNames DEF PolicyInit
<1>2. Planned /\ Planned' /\ Traced /\ [PolicyNext]_policyVars => Traced'
  <2> SUFFICES ASSUME Planned, Planned', TraceInv, [PolicyNext]_policyVars, policy = "baseline"
               PROVE  TraceInv'
    BY PolicyStep
  <2>1. policy' = policy  BY PolicyStep
  <2>2. BaselineInv /\ BaselineInv'  BY <2>1 DEF PlannedPolicy
  <2>3. CASE PlanningNext  BY <2>2, <2>3, TraceStep
  <2>4. CASE UNCHANGED policyVars
    <3>1. UNCHANGED <<vars, planning>>  BY <2>4 DEF policyVars, envVars
    <3> QED BY <3>1, TraceStutters
  <2> QED BY <2>3, <2>4, PolicyNames DEF PolicyNext
<1>3. Planned /\ Traced => TrialsLeaveNoTrace
  <2> SUFFICES ASSUME Planned, Traced, planner = "deployment_aware_greedy",
                      stage = "deploy", next = Len(plan)
               PROVE  State = sim.planned
    BY DEF TrialsLeaveNoTrace
  <2>1. policy = "baseline"  BY DEF PlannedPolicy
  <2>2. PICK t : Reckoned(t)  BY <2>1 DEF TraceInv, Greedy
  <2> QED BY <2>2 DEF Reckoned
<1> HIDE DEF Planned, Traced
<1>4. PolicySpec => []Planned  BY PlannedPolicyInvariant DEF Planned
<1> QED BY <1>1, <1>2, <1>3, <1>4, PTL DEF PolicySpec

-----------------------------------------------------------------------------
(* Room.  While the configuration leaves room for the old blocks beside    *)
(* the image, only a delta can exceed a budget.                            *)
Roomy ==
  /\ RequireBackup /\ Staging = "streaming" /\ RamBudget = NoLimit
  /\ ~Exceeds(Room, StorageBudget)

(* Every backup is that of an old block, named after its index.            *)
SavedOld(old, area) ==
  \A id \in DOMAIN area :
    /\ id = BackupName(area[id].index) /\ area[id].index \in 0 .. Len(old) - 1
    /\ area[id].block = old[area[id].index + 1]

(* The bytes of such backups find a place in the old image.                *)
LEMMA SavedBytes ==
  ASSUME NEW old \in Image, AsRead(old), NEW area, SavedOld(old, area)
  PROVE  BackupBytes(area) \in Nat /\ BackupBytes(area) <= ImageBytes(old)
<1> DEFINE bytes == UNION {{id} \X (1 .. Len(area[id].block)) : id \in DOMAIN area}
           total == ImageBytes(old)
           place == [x \in bytes |-> area[x[1]].index * BlockSize + x[2]]
<1>1. BlockSize \in Nat /\ BlockSize # 0 /\ total \in Nat /\ Len(old) \in Nat
      /\ \A i \in 1 .. Len(old) : old[i] \in Block
  BY BlockSizeAssumption, BytesType DEF Image
<1>2. ASSUME NEW x \in bytes
      PROVE  /\ x = <<x[1], x[2]>> /\ x[1] \in DOMAIN area
             /\ area[x[1]].index \in Nat /\ area[x[1]].index \in 0 .. Len(old) - 1
             /\ x[2] \in 1 .. BlockSize /\ place[x] \in 1 .. total
  <2>1. PICK id \in DOMAIN area : x \in {id} \X (1 .. Len(area[id].block))  OBVIOUS
  <2>2. x = <<x[1], x[2]>> /\ x[1] = id /\ x[2] \in 1 .. Len(area[id].block)  BY <2>1
  <2>3. PICK i \in 0 .. Len(old) - 1 : area[id].index = i /\ area[id].block = old[i + 1]
    BY DEF SavedOld
  <2>4. i \in Nat /\ i + 1 \in 1 .. Len(old)  BY <1>1, <2>3
  <2>5. Len(old[i + 1]) \in Nat /\ Len(old[i + 1]) <= BlockSize
    <3>1. Fits(old)  BY ReadImage
    <3>2. i + 1 \in DOMAIN old  BY <2>4 DEF Image
    <3> QED BY <1>1, <2>4, <3>1, <3>2 DEF Fits, Block
  <2>6. FullUntil(old, i + 1)
    <3>1. FullUntil(old, Len(old))  BY ReadImage
    <3> QED BY <1>1, <2>4, <3>1 DEF FullUntil
  <2>7. ((i + 1) - 1) * BlockSize + Len(old[i + 1]) <= total
    BY <2>4, <2>6, BlockInBytes
  <2>8. (i + 1) - 1 = i /\ i * BlockSize \in Nat  BY <1>1, <2>4
  <2>9. x[2] \in 1 .. Len(old[i + 1])  BY <2>2, <2>3
  <2>10. i * BlockSize + x[2] \in 1 .. total
    <3> HIDE DEF total
    <3>1. i * BlockSize + Len(old[i + 1]) <= total  BY <2>7, <2>8
    <3>2. x[2] \in Nat /\ 1 <= x[2] /\ x[2] <= Len(old[i + 1])  BY <2>5, <2>9
    <3>3. PICK low \in Nat : low = i * BlockSize  BY <2>8
    <3>4. PICK n \in Nat : n = Len(old[i + 1])  BY <2>5
    <3>5. low + n <= total /\ x[2] \in Nat /\ 1 <= x[2] /\ x[2] <= n
      BY <3>1, <3>2, <3>3, <3>4
    <3>6. low + x[2] \in 1 .. total  BY <1>1, <3>5
    <3> QED BY <3>3, <3>6
  <2>11. x[2] \in 1 .. BlockSize  BY <1>1, <2>5, <2>9
  <2>12. place[x] = i * BlockSize + x[2]  BY <2>2, <2>3
  <2> QED BY <2>2, <2>3, <2>4, <2>10, <2>11, <2>12
<1>3. ASSUME NEW x \in bytes, NEW y \in bytes, place[x] = place[y]  PROVE x = y
  <2> DEFINE i == area[x[1]].index
             j == area[y[1]].index
  <2>1. /\ i \in Nat /\ j \in Nat /\ x[2] \in 1 .. BlockSize /\ y[2] \in 1 .. BlockSize
        /\ x = <<x[1], x[2]>> /\ y = <<y[1], y[2]>> /\ x[1] \in DOMAIN area
        /\ y[1] \in DOMAIN area
    BY <1>2
  <2>2. i * BlockSize + x[2] = j * BlockSize + y[2]  BY <1>3
  <2>3. x[1] = BackupName(i) /\ y[1] = BackupName(j)  BY <2>1 DEF SavedOld
  <2> HIDE DEF i, j
  <2>4. i = j
    <3>1. \A a \in Nat, b \in Nat, p \in 1 .. BlockSize, q \in 1 .. BlockSize :
            a < b => a * BlockSize + p # b * BlockSize + q
      <4> SUFFICES ASSUME NEW a \in Nat, NEW b \in Nat, NEW p \in 1 .. BlockSize,
                          NEW q \in 1 .. BlockSize, a < b
                   PROVE  a * BlockSize + p # b * BlockSize + q
        OBVIOUS
      <4>1. a + 1 \in Nat /\ a + 1 <= b  OBVIOUS
      <4>2. (a + 1) * BlockSize <= b * BlockSize  BY <1>1, <4>1, MulMonotone
      <4>3. (a + 1) * BlockSize = a * BlockSize + BlockSize  BY <1>1
      <4>4. a * BlockSize \in Nat /\ b * BlockSize \in Nat  BY <1>1
      <4> QED BY <1>1, <4>2, <4>3, <4>4
    <3>2. ~(i < j)  BY <2>1, <2>2, <3>1
    <3>3. ~(j < i)  BY <2>1, <2>2, <3>1
    <3> QED BY <2>1, <3>2, <3>3
  <2>5. x[2] = y[2]
    <3>1. i * BlockSize \in Nat  BY <1>1, <2>1
    <3> QED BY <1>1, <2>1, <2>2, <2>4, <3>1
  <2> QED BY <2>1, <2>3, <2>4, <2>5
<1>4. place \in [bytes -> 1 .. total]  BY <1>2
<1>5. place \in Injection(bytes, 1 .. total)
  <2> HIDE DEF place, bytes
  <2> QED BY <1>3, <1>4 DEF Injection, IsInjective
<1>6. IsFiniteSet(1 .. total) /\ Cardinality(1 .. total) = total
  <2> HIDE DEF total
  <2>1. total \in Int /\ 1 \in Int  BY <1>1
  <2>2. IsFiniteSet(1 .. total)
        /\ Cardinality(1 .. total) = IF 1 > total THEN 0 ELSE total - 1 + 1
    BY <2>1, FS_Interval
  <2> QED BY <1>1, <2>2
<1> HIDE DEF place, bytes, total
<1>7. IsFiniteSet(bytes) /\ Cardinality(bytes) <= total  BY <1>5, <1>6, FS_Injection
<1>8. Cardinality(bytes) \in Nat  BY <1>7, FS_CardinalityType
<1>9. BackupBytes(area) = Cardinality(bytes)  BY DEF BackupBytes, bytes
<1> QED BY <1>7, <1>8, <1>9 DEF total

LEMMA MixFits ==
  ASSUME ImagesRead, NEW old \in Image, AsRead(old), NEW d \in 0 .. NewCount
  PROVE  /\ Mix(old, d) \in Image /\ Fits(Mix(old, d))
         /\ Len(Mix(old, d)) <= Max({Len(old), NewCount})
<1>1. Fits(old) /\ Fits(Expected) /\ Expected \in Image
  BY NewImage, ReadImage DEF ImagesRead
<1>2. /\ Mix(old, d) \in Image
      /\ Len(Mix(old, d)) = (IF d <= Len(old) THEN Len(old) ELSE d)
      /\ Len(old) \in Nat /\ Len(Mix(old, d)) \in Nat
      /\ DOMAIN Mix(old, d) = 1 .. Len(Mix(old, d))
      /\ \A i \in 1 .. Len(Mix(old, d)) :
           Mix(old, d)[i] = IF i <= d THEN Expected[i] ELSE old[i]
  BY MixBlocks
<1>3. NewCount \in Nat /\ d \in Nat /\ d <= NewCount
      /\ DOMAIN Expected = 1 .. NewCount /\ DOMAIN old = 1 .. Len(old)
  BY NewImage DEF Image
<1>4. Fits(Mix(old, d))
  <2> SUFFICES ASSUME NEW i \in 1 .. Len(Mix(old, d))
               PROVE  Len(Mix(old, d)[i]) <= BlockSize
    BY <1>2 DEF Fits
  <2>1. CASE i <= d
    <3>1. i \in DOMAIN Expected  BY <1>2, <1>3, <2>1
    <3> QED BY <1>1, <1>2, <2>1, <3>1 DEF Fits
  <2>2. CASE ~(i <= d)
    <3>1. i \in DOMAIN old  BY <1>2, <1>3, <2>2
    <3> QED BY <1>1, <1>2, <2>2, <3>1 DEF Fits
  <2> QED BY <2>1, <2>2
<1>5. PICK m \in Nat : m = Max({Len(old), NewCount}) /\ m >= Len(old) /\ m >= NewCount
  BY <1>2, <1>3, MaxOfTwo
<1>6. Len(Mix(old, d)) <= m  BY <1>2, <1>3, <1>5
<1> QED BY <1>2, <1>4, <1>5, <1>6

(* An image of the update, old blocks and a payload do not fill the room.  *)
LEMMA LevelFits ==
  ASSUME ImagesRead, Roomy, snapshot \in Image, AsRead(snapshot),
         NEW d \in 0 .. NewCount, NEW blocks, blocks = Mix(snapshot, d) \/ blocks = Expected,
         NEW area, SavedOld(snapshot, area), NEW staged \in Nat, staged <= Overhead + BlockSize
  PROVE  ~Exceeds(Level(blocks, area, staged), StorageBudget)
<1>1. Len(snapshot) \in Nat /\ NewCount \in Nat /\ Expected \in Image
  BY NewImage DEF Image
<1>2. PICK m \in Nat : m = Max({Len(snapshot), NewCount}) /\ m >= NewCount
  BY <1>1, MaxOfTwo
<1>3. blocks \in Image /\ Fits(blocks) /\ Len(blocks) <= m
  <2>1. CASE blocks = Mix(snapshot, d)  BY <1>2, <2>1, MixFits
  <2>2. CASE blocks = Expected
    <3>1. Fits(Expected)  BY <1>1, ReadImage DEF ImagesRead
    <3> QED BY <1>1, <1>2, <2>2, <3>1 DEF NewCount
  <2> QED BY <2>1, <2>2
<1>4. BlockSize \in Nat /\ Overhead \in Nat  BY BlockSizeAssumption, DeploymentAssumption
<1>5. /\ ImageBytes(blocks) \in Nat /\ ImageBytes(snapshot) \in Nat /\ Len(blocks) \in Nat
      /\ BackupBytes(area) \in Nat /\ BackupBytes(area) <= ImageBytes(snapshot)
  BY <1>3, BytesType, SavedBytes DEF Image
<1>6. ImageBytes(blocks) <= Len(blocks) * BlockSize  BY <1>3, BytesFit
<1>7. Len(blocks) * BlockSize \in Nat /\ Len(blocks) * BlockSize <= m * BlockSize
  BY <1>3, <1>4, <1>5, MulMonotone
<1>8. PICK whole \in Nat : whole = BlockSize * m /\ m * BlockSize = whole  BY <1>2, <1>4
<1>9. Room = ImageBytes(snapshot) + whole + Overhead + BlockSize
  BY <1>2, <1>8 DEF Room, NewCount
<1>10. Level(blocks, area, staged) \in Nat /\ Level(blocks, area, staged) <= Room
  <2>1. PICK a \in Nat : a = ImageBytes(blocks)  BY <1>5
  <2>2. PICK b \in Nat : b = BackupBytes(area)  BY <1>5
  <2>3. PICK s \in Nat : s = ImageBytes(snapshot)  BY <1>5
  <2>4. PICK n \in Nat : n = Len(blocks) * BlockSize  BY <1>7
  <2>5. a <= n /\ n <= whole /\ b <= s  BY <1>5, <1>6, <1>7, <1>8, <2>1, <2>2, <2>3, <2>4
  <2>6. a + b + staged \in Nat /\ a + b + staged <= s + whole + Overhead + BlockSize
    BY <1>4, <2>5
  <2>7. Level(blocks, area, staged) = a + b + staged  BY <2>1, <2>2 DEF Level
  <2>8. Room = s + whole + Overhead + BlockSize  BY <1>9, <2>3
  <2> QED BY <2>6, <2>7, <2>8
<1>11. Room \in Nat  BY <1>4, <1>5, <1>9
<1>12. StorageBudget = NoLimit \/ Room <= StorageBudget
  BY <1>11, DeploymentAssumption DEF Roomy, Exceeds, NoLimit
<1> QED BY <1>10, <1>11, <1>12, DeploymentAssumption DEF Exceeds, NoLimit

-----------------------------------------------------------------------------
(* Budgets.  The payload of every operation but a delta is a block.        *)
LEMMA LightDownload ==
  ASSUME ImagesRead, NEW op \in PlanOp, op.op # "delta", op.op = "raw_insert" => op.target < NewCount
  PROVE  DownloadBytes(op) \in Nat /\ DownloadBytes(op) <= Overhead + BlockSize
<1>1. BlockSize \in Nat /\ Overhead \in Nat  BY BlockSizeAssumption, DeploymentAssumption
<1>2. op.op \in {"keep", "backup", "copy", "raw_insert", "truncate"}  BY PlanOpForms
<1>3. CASE op.op = "raw_insert"
  <2>1. op.target \in Nat /\ op.data = NewBlock(op.target)  BY <1>3, ProcessingForms DEF Processing
  <2>2. op.target \in 0 .. NewCount - 1 /\ op.target + 1 \in DOMAIN Expected
    BY <1>3, <2>1, NewImage
  <2>3. Fits(Expected) /\ NewBlock(op.target) \in Block
    BY <2>2, NewImage, ReadImage DEF ImagesRead
  <2>4. Len(op.data) \in Nat /\ Len(op.data) <= BlockSize
    BY <2>1, <2>2, <2>3 DEF Fits, NewBlock, Block
  <2> QED BY <1>1, <1>3, <2>4 DEF DownloadBytes
<1>4. CASE op.op # "raw_insert"  BY <1>1, <1>2, <1>4 DEF DownloadBytes
<1> QED BY <1>3, <1>4

LEMMA NoneExceeded ==
  ASSUME RamBudget = NoLimit, NEW levels, \A l \in levels : ~Exceeds(l, StorageBudget), NEW ram
  PROVE  Exceeded(levels, ram) = {}
BY DEF Exceeded, Exceeds

(* Nothing is reported at levels that fit.                                 *)
LEMMA PerformQuiet ==
  ASSUME NEW op, NEW e, Perform(op, e), Staging = "streaming", RamBudget = NoLimit,
         e.violations = {},
         ~Exceeds(Level(installed, backups, DownloadBytes(op)), StorageBudget),
         ~Exceeds(Level(installed', backups', 0), StorageBudget),
         \A l \in e.checked : ~Exceeds(l, StorageBudget)
  PROVE  violations' = violations
<1>1. Staged(op) = DownloadBytes(op)  BY DEF Staged
<1>2. PICK download : download = Level(installed, backups, DownloadBytes(op))  OBVIOUS
<1>3. PICK final : final = Level(e.installed, e.backups, 0)  OBVIOUS
<1>4. installed' = e.installed /\ backups' = e.backups  BY PerformAssigns DEF Yields
<1>5. violations' = violations \cup e.violations \cup Exceeded({download} \cup e.checked, e.ram)
                      \cup Exceeded({final}, 0)
  BY <1>1, <1>2, <1>3 DEF Perform
<1>6. ~Exceeds(download, StorageBudget) /\ ~Exceeds(final, StorageBudget)
  BY <1>2, <1>3, <1>4
<1>7. Exceeded({download} \cup e.checked, e.ram) = {}
  <2>1. \A l \in {download} \cup e.checked : ~Exceeds(l, StorageBudget)  BY <1>6
  <2> QED BY <2>1, NoneExceeded
<1>8. Exceeded({final}, 0) = {}
  <2>1. \A l \in {final} : ~Exceeds(l, StorageBudget)  BY <1>6
  <2> QED BY <2>1, NoneExceeded
<1> QED BY <1>5, <1>7, <1>8

LEMMA LightQuiet ==
  ASSUME NEW op, op.op \in {"keep", "backup", "copy", "raw_insert", "truncate"}, Succeed(op),
         Staging = "streaming", RamBudget = NoLimit,
         ~Exceeds(Level(installed, backups, DownloadBytes(op)), StorageBudget),
         ~Exceeds(Level(installed', backups', 0), StorageBudget),
         op.op = "backup" =>
           ~Exceeds(Level(installed, backups', DownloadBytes(op)), StorageBudget)
  PROVE  violations' = violations
<1>1. NoEffect(op).violations = {} /\ NoEffect(op).checked = {}  BY DEF NoEffect
<1>2. ASSUME NEW target, NEW block, NEW lost, NEW ram
      PROVE  /\ WriteEffect(op, target, block, lost, ram).violations = {}
             /\ WriteEffect(op, target, block, lost, ram).checked = {}
  BY DEF WriteEffect, NoEffect
<1>3. CASE Keep(op)  BY <1>1, <1>3, PerformQuiet DEF Keep
<1>4. CASE Backup(op)
  <2> DEFINE block == installed[op.source + 1]
             area  == SaveBackup(backups, op.id, [index |-> op.source, block |-> block])
             e == [NoEffect(op) EXCEPT
                     !.backups = area, !.ram = Len(block), !.written = Len(block),
                     !.checked = {Level(installed, area, Staged(op))}]
  <2>1. Perform(op, e) /\ op.op = "backup"  BY <1>4 DEF Backup
  <2>2. e.violations = {} /\ e.backups = area /\ e.checked = {Level(installed, area, Staged(op))}
    BY DEF NoEffect
  <2>3. Staged(op) = DownloadBytes(op)  BY DEF Staged
  <2> HIDE DEF e, area
  <2>4. backups' = area  BY <2>1, <2>2, PerformAssigns DEF Yields
  <2>5. \A l \in e.checked : ~Exceeds(l, StorageBudget)  BY <2>1, <2>2, <2>3, <2>4
  <2> QED BY <2>1, <2>2, <2>5, PerformQuiet
<1>5. CASE Copy(op)
  <2>1. PICK e : /\ Perform(op, e)
                 /\ e = WriteEffect(op, op.target, SourceBlock(op.source),
                          Overwritten(op.target, SourceBlock(op.source)),
                          Len(SourceBlock(op.source)))
    BY <1>5 DEF Copy
  <2>2. e.violations = {} /\ e.checked = {}  BY <1>2, <2>1
  <2> QED BY <2>1, <2>2, PerformQuiet
<1>6. CASE RawInsert(op)
  <2>1. PICK e : /\ Perform(op, e)
                 /\ e = WriteEffect(op, op.target, op.data,
                          Overwritten(op.target, op.data), Len(op.data))
    BY <1>6 DEF RawInsert
  <2>2. e.violations = {} /\ e.checked = {}  BY <1>2, <2>1
  <2> QED BY <2>1, <2>2, PerformQuiet
<1>7. CASE TruncateToBytes(op) \/ TruncateToBlocks(op)
  <2>1. PICK e : /\ Perform(op, e)
                 /\ \E cut, lost : e = [NoEffect(op) EXCEPT !.installed = cut, !.lost = lost]
    BY <1>7 DEF TruncateToBytes, TruncateToBlocks
  <2>2. e.violations = {} /\ e.checked = {}  BY <2>1 DEF NoEffect
  <2> QED BY <2>1, <2>2, PerformQuiet
<1> QED
  BY <1>3, <1>4, <1>5, <1>6, <1>7 DEF Succeed, Delta, AppendBlock, Delete, Verify,
     TakeCheckpoint, RollbackToSnapshot, RollbackToBackup, Commit

(* No operation of a plan reports anything but a budget.                   *)
LEMMA ViolationsKept ==
  ASSUME NEW op \in PlanOp, Succeed(op), violations \subseteq Violation
  PROVE  violations' \subseteq Violation
<1>1. ASSUME NEW e, Perform(op, e), e.violations = {}  PROVE violations' \subseteq Violation
  <2>1. \A levels, ram : Exceeded(levels, ram) \subseteq Violation  BY DEF Exceeded, Violation
  <2>2. \E l1, r1, l2, r2 : violations' = violations \cup e.violations \cup Exceeded(l1, r1)
                                            \cup Exceeded(l2, r2)
    BY <1>1, Zenon DEF Perform
  <2> QED BY <1>1, <2>1, <2>2
<1>2. NoEffect(op).violations = {}  BY DEF NoEffect
<1>3. ASSUME NEW target, NEW block, NEW lost, NEW ram
      PROVE  WriteEffect(op, target, block, lost, ram).violations = {}
  BY DEF WriteEffect, NoEffect
<1>4. op.op \in {"keep", "backup", "copy", "delta", "raw_insert", "truncate"}  BY PlanOpForms
<1>5. CASE Keep(op)  BY <1>1, <1>2, <1>5 DEF Keep
<1>6. CASE Backup(op)
  <2>1. PICK e : /\ Perform(op, e)
                 /\ \E b, r, w, c : e = [NoEffect(op) EXCEPT !.backups = b, !.ram = r,
                                                            !.written = w, !.checked = c]
    BY <1>6, Zenon DEF Backup
  <2>2. e.violations = {}  BY <2>1 DEF NoEffect
  <2> QED BY <1>1, <2>1, <2>2
<1>7. CASE Copy(op) \/ Delta(op) \/ RawInsert(op)
  <2>1. PICK e : /\ Perform(op, e)
                 /\ \E target, block, lost, ram : e = WriteEffect(op, target, block, lost, ram)
    BY <1>7, Zenon DEF Copy, Delta, RawInsert
  <2> QED BY <1>1, <1>3, <2>1
<1>8. CASE TruncateToBytes(op) \/ TruncateToBlocks(op)
  <2>1. PICK e : /\ Perform(op, e)
                 /\ \E cut, lost : e = [NoEffect(op) EXCEPT !.installed = cut, !.lost = lost]
    BY <1>8 DEF TruncateToBytes, TruncateToBlocks
  <2>2. e.violations = {}  BY <2>1 DEF NoEffect
  <2> QED BY <1>1, <2>1, <2>2
<1> QED
  BY <1>4, <1>5, <1>6, <1>7, <1>8 DEF Succeed, AppendBlock, Delete, Verify,
     TakeCheckpoint, RollbackToSnapshot, RollbackToBackup, Commit

-----------------------------------------------------------------------------
(* The device of a plan that saves only old blocks.                        *)
LEMMA AreaOld ==
  ASSUME NEW old \in Image, NEW ops, NEW n \in Nat, Right(old, ops, n), AllFresh(ops),
         NEW k \in 0 .. Len(ops), NEW d, NEW blocks, NEW area,
         Executed(old, ops, k, d, blocks, area)
  PROVE  SavedOld(old, area)
<1> SUFFICES ASSUME NEW id \in DOMAIN area
             PROVE  /\ id = BackupName(area[id].index) /\ area[id].index \in 0 .. Len(old) - 1
                    /\ area[id].block = old[area[id].index + 1]
  BY DEF SavedOld
<1>1. ops \in Seq(PlanOp) /\ DOMAIN ops = 1 .. Len(ops) /\ Len(ops) \in Nat /\ Len(old) \in Nat
  BY DEF Right, Image
<1>2. PICK j \in 1 .. k : ops[j].op = "backup" /\ ops[j].id = id  BY DEF Executed
<1>3. j \in DOMAIN ops /\ ops[j] \in PlanOp  BY <1>1, <1>2
<1>4. PICK i \in Nat : i = ops[j].source /\ ops[j].id = BackupName(i)
  BY <1>2, <1>3, BackupForms
<1>5. i < Len(old)  BY <1>2, <1>3, <1>4 DEF Right, SavesOnce
<1>6. Fresh(ops, j)  BY <1>2, <1>3 DEF AllFresh
<1>7. area[id] = [index |-> i, block |-> area[id].block] /\ area[id].block = old[i + 1]
  BY <1>2, <1>4, <1>6 DEF Executed
<1>8. area[id].index = i  BY <1>7
<1> QED BY <1>1, <1>2, <1>4, <1>5, <1>7, <1>8

(* A candidate that keeps rollback: no patch, which might be too long for  *)
(* the budget, and a backup of each old block that goes.                   *)
Light(ops) == \A k \in DOMAIN ops : ops[k].op # "delta"

SavesOld(old, ops) ==
  /\ AllFresh(ops) /\ Guarded(old, ops)
  /\ Uncut(ops) \/ TailSaved(old, ops)

(* The levels of an operation between two old images in progress.          *)
LEMMA QuietStep ==
  ASSUME ImagesRead, Roomy, snapshot \in Image, AsRead(snapshot), NEW op \in PlanOp,
         op.op # "delta", op.op = "raw_insert" => op.target < NewCount, Succeed(op),
         NEW d \in 0 .. NewCount, installed = Mix(snapshot, d), SavedOld(snapshot, backups),
         NEW e \in 0 .. NewCount, installed' = Mix(snapshot, e) \/ installed' = Expected,
         SavedOld(snapshot, backups')
  PROVE  violations' = violations
<1>1. op.op \in {"keep", "backup", "copy", "raw_insert", "truncate"}  BY PlanOpForms
<1>2. PICK bytes \in Nat : bytes = DownloadBytes(op) /\ bytes <= Overhead + BlockSize
  BY LightDownload
<1>3. ~Exceeds(Level(installed, backups, bytes), StorageBudget)  BY <1>2, LevelFits
<1>4. PICK blocks : blocks = installed'  OBVIOUS
<1>5. PICK area : area = backups'  OBVIOUS
<1>6. blocks = Mix(snapshot, e) \/ blocks = Expected  BY <1>4
<1>7. SavedOld(snapshot, area)  BY <1>5
<1>8. Overhead + BlockSize \in Nat /\ 0 \in Nat /\ 0 <= Overhead + BlockSize
  BY BlockSizeAssumption, DeploymentAssumption
<1>9. ~Exceeds(Level(blocks, area, 0), StorageBudget)  BY <1>6, <1>7, <1>8, LevelFits
<1>10. ~Exceeds(Level(installed, area, bytes), StorageBudget)  BY <1>2, <1>7, LevelFits
<1> QED BY <1>1, <1>2, <1>3, <1>4, <1>5, <1>9, <1>10, LightQuiet DEF Roomy

(* A step of such a plan breaks no budget and keeps rollback.              *)
LEMMA LightStep ==
  ASSUME ImagesRead, Roomy, snapshot \in Image, AsRead(snapshot),
         NEW ops, NEW n \in 0 .. NewCount, Right(snapshot, ops, n), CutLast(ops),
         ~Uncut(ops) => n = NewCount, SavesOld(snapshot, ops),
         NEW k \in 0 .. Len(ops) - 1, ops[k + 1].op # "delta",
         Holding(snapshot, ops, k, installed, backups), Succeed(ops[k + 1])
  PROVE  violations' = violations /\ (rollbackReady => rollbackReady')
<1>1. PICK d \in 0 .. NewCount : Executed(snapshot, ops, k, d, installed, backups)
  BY DEF Holding
<1>2. /\ ops \in Seq(PlanOp) /\ Len(ops) \in Nat /\ DOMAIN ops = 1 .. Len(ops) /\ NewCount \in Nat
      /\ n \in Nat
  BY NewImage DEF Right
<1>3. /\ k \in Nat /\ k + 1 \in DOMAIN ops /\ k \in 0 .. Len(ops) /\ k + 1 \in 0 .. Len(ops)
      /\ ops[k + 1] \in PlanOp
  BY <1>2
<1>4. PICK op \in PlanOp : op = ops[k + 1]  BY <1>3
<1>5. installed = Mix(snapshot, d) /\ AllFresh(ops)  BY <1>1 DEF Executed, SavesOld
<1>6. SavedOld(snapshot, backups)  BY <1>1, <1>2, <1>3, <1>5, AreaOld
<1>7. Succeed(op) /\ op.op # "delta"  BY <1>4
<1>8. CASE Processing(op)
  <2>1. /\ Executed(snapshot, ops, k + 1, d + 1, installed', backups') /\ backups' = backups
        /\ rollbackReady' = (rollbackReady /\ (op.op = "keep" \/ Overwritten(d, NewBlock(d)) = {}))
    BY <1>1, <1>4, <1>8, ProcessStep
  <2>2. op.target = d /\ d < NewCount  BY <1>1, <1>4, <1>8, NextTarget
  <2>3. d + 1 \in 0 .. NewCount /\ d \in Nat  BY <1>2, <2>2
  <2>4. installed' = Mix(snapshot, d + 1)  BY <2>1 DEF Executed
  <2>5. Overwritten(d, NewBlock(d)) = {}
    BY <1>1, <1>3, <1>4, <1>8, <2>2, <2>3, CarefulWrites DEF SavesOld
  <2>6. SavedOld(snapshot, backups')  BY <1>6, <2>1
  <2>7. op.op = "raw_insert" => op.target < NewCount  BY <2>2
  <2>8. PICK e \in 0 .. NewCount : e = d + 1  BY <2>3
  <2>9. installed' = Mix(snapshot, e)  BY <2>4, <2>8
  <2>10. violations' = violations  BY <1>5, <1>6, <1>7, <2>6, <2>7, <2>9, QuietStep
  <2> QED BY <2>1, <2>5, <2>10
<1>9. CASE op.op = "backup"
  <2>1. /\ Executed(snapshot, ops, k + 1, d, installed', backups') /\ installed' = installed
        /\ rollbackReady' = (rollbackReady /\ {} = {})
    BY <1>1, <1>4, <1>9, SaveStep
  <2>2. PICK area : area = backups'  OBVIOUS
  <2>3. PICK blocks : blocks = installed'  OBVIOUS
  <2>4. Executed(snapshot, ops, k + 1, d, blocks, area)  BY <2>1, <2>2, <2>3
  <2>5. SavedOld(snapshot, area)  BY <1>2, <1>3, <1>5, <2>4, AreaOld
  <2>6. SavedOld(snapshot, backups')  BY <2>2, <2>5
  <2>7. installed' = Mix(snapshot, d)  BY <1>5, <2>1
  <2>8. violations' = violations  BY <1>5, <1>6, <1>7, <1>9, <2>6, <2>7, QuietStep
  <2> QED BY <2>1, <2>8
<1>10. CASE op.op = "truncate"
  <2>1. ~Uncut(ops)  BY <1>3, <1>4, <1>10 DEF Uncut
  <2>2. n = NewCount /\ TailSaved(snapshot, ops)  BY <2>1 DEF SavesOld
  <2>3. d = NewCount /\ k + 1 = Len(ops) /\ op = CutToSize
    BY <1>1, <1>4, <1>10, <2>2, BeforeCut
  <2>4. installed = Mix(snapshot, NewCount)  BY <1>5, <2>3
  <2>5. TargetInFront /\ installed \in Image  BY <2>4, CutInFront
  <2>6. Succeed(CutToSize)  BY <1>7, <2>3
  <2>7. /\ installed' = Expected /\ backups' = backups
        /\ rollbackReady' = (rollbackReady /\ Removed(LastCut(CutToSize)) = {})
        /\ TruncateBytes(installed, CutToSize.size) = Expected
    BY <2>5, <2>6, CutToExpected
  <2>8. Executed(snapshot, ops, k, NewCount, installed, backups)  BY <1>1, <2>3
  <2>9. Removed(LastCut(CutToSize)) = {}
    BY <1>2, <1>3, <1>4, <1>10, <2>2, <2>3, <2>7, <2>8, CarefulCut
  <2>10. SavedOld(snapshot, backups')  BY <1>6, <2>7
  <2>11. violations' = violations
    BY <1>5, <1>6, <1>7, <1>10, <2>7, <2>10, QuietStep
  <2> QED BY <2>7, <2>9, <2>11
<1>11. op.op \in {"keep", "backup", "copy", "delta", "raw_insert", "truncate"}
  BY PlanOpForms
<1>12. Processing(op) \/ op.op = "backup" \/ op.op = "truncate"  BY <1>11 DEF Processing
<1> QED BY <1>8, <1>9, <1>10, <1>12

-----------------------------------------------------------------------------
(* What readiness says about the operations so far: each old block that    *)
(* changed was saved before.                                               *)
GuardedTo(old, ops, k) ==
  \A j \in 1 .. k :
    Changes(old, ops[j]) => \E i \in 1 .. j - 1 : ops[i] = SaveBlock(ops[j].target)

LEMMA ReadyGuards ==
  ASSUME RequireBackup, snapshot \in Image, NEW ops, NEW n \in 0 .. NewCount,
         Right(snapshot, ops, n), NEW k \in 0 .. Len(ops) - 1,
         Holding(snapshot, ops, k, installed, backups), GuardedTo(snapshot, ops, k),
         Succeed(ops[k + 1]), rollbackReady'
  PROVE  GuardedTo(snapshot, ops, k + 1)
<1>1. PICK d \in 0 .. NewCount : Executed(snapshot, ops, k, d, installed, backups)
  BY DEF Holding
<1>2. /\ ops \in Seq(PlanOp) /\ Len(ops) \in Nat /\ DOMAIN ops = 1 .. Len(ops)
      /\ k \in Nat /\ k + 1 \in DOMAIN ops /\ (k + 1) - 1 = k /\ NewCount \in Nat
  BY NewImage DEF Right
<1> SUFFICES ASSUME Changes(snapshot, ops[k + 1])
             PROVE  \E i \in 1 .. k : ops[i] = SaveBlock(ops[k + 1].target)
  <2>1. \A j \in 1 .. k + 1 : j \in 1 .. k \/ j = k + 1  BY <1>2
  <2> QED BY <1>2, <2>1 DEF GuardedTo
<1>3. Processing(ops[k + 1]) /\ ops[k + 1].target < Len(snapshot)
      /\ NewBlock(ops[k + 1].target) # snapshot[ops[k + 1].target + 1]
  BY DEF Changes
<1>4. ops[k + 1].target = d  BY <1>1, <1>3, NextTarget
<1>5. rollbackReady' = (rollbackReady /\ (ops[k + 1].op = "keep" \/ Overwritten(d, NewBlock(d)) = {}))
  BY <1>1, <1>3, ProcessStep
<1>6. ops[k + 1].op # "keep"  BY <1>2, <1>3 DEF Right, Reads
<1>7. Overwritten(d, NewBlock(d)) = {}  BY <1>5, <1>6
<1>8. ~Unprotected(d)  BY <1>3, <1>4, <1>7 DEF Overwritten
<1>9. PICK id \in DOMAIN backups : backups[id].index = d  BY <1>3, <1>4, <1>8 DEF Unprotected
<1>10. PICK j \in 1 .. k : ops[j].op = "backup" /\ ops[j].id = id  BY <1>1 DEF Executed
<1>11. ops[j] \in PlanOp  BY <1>2
<1>12. backups[id] = [index |-> ops[j].source, block |-> backups[id].block]
  BY <1>1, <1>10 DEF Executed
<1>13. ops[j].source = d  BY <1>9, <1>12
<1>14. ops[j] = SaveBlock(d)  BY <1>10, <1>11, <1>13, BackupForms
<1> QED BY <1>4, <1>14

-----------------------------------------------------------------------------
(* Readiness that is lost does not come back.                              *)
Follows(old, ops, u, k) == \A j \in 0 .. k - 1 : u[j + 1] = Result(u[j], old, ops[j + 1])

LEMMA ReadyBefore ==
  ASSUME NEW old, NEW ops, NEW u, NEW n \in Nat, Follows(old, ops, u, n), u[n].rollbackReady,
         NEW k \in 0 .. n
  PROVE  u[k].rollbackReady
<1> DEFINE ready == {i \in 0 .. n : \A j \in i .. n : u[j].rollbackReady}
<1>1. \A s, op : Result(s, old, op).rollbackReady => s.rollbackReady  BY DEF Result, After
<1>2. ready \subseteq Nat /\ n \in ready
  <2>1. n \in 0 .. n /\ \A j \in n .. n : j = n  OBVIOUS
  <2> QED BY <2>1
<1>3. PICK i \in ready : \A j \in ready : i <= j
  <2> HIDE DEF ready
  <2> QED BY <1>2, NatMin
<1>4. i \in 0 .. n /\ i \in Nat /\ \A j \in i .. n : u[j].rollbackReady  OBVIOUS
<1>5. i = 0
  <2> SUFFICES ASSUME i # 0  PROVE FALSE  OBVIOUS
  <2>1. i - 1 \in Nat /\ i - 1 \in 0 .. n - 1 /\ (i - 1) + 1 = i /\ i - 1 \in 0 .. n /\ i \in i .. n
    BY <1>4
  <2>2. u[i] = Result(u[i - 1], old, ops[(i - 1) + 1])
    <3>1. u[(i - 1) + 1] = Result(u[i - 1], old, ops[(i - 1) + 1])  BY <2>1 DEF Follows
    <3> QED BY <2>1, <3>1
  <2>3. u[i - 1].rollbackReady  BY <1>1, <1>4, <2>1, <2>2
  <2>4. \A j \in i - 1 .. n : j = i - 1 \/ j \in i .. n  BY <1>4
  <2>5. i - 1 \in ready  BY <1>4, <2>1, <2>3, <2>4
  <2>6. i <= i - 1  BY <1>3, <2>5
  <2> QED BY <1>4, <2>6
<1>6. k \in i .. n  BY <1>5
<1> QED BY <1>4, <1>6

LEMMA FollowsAll ==
  ASSUME NEW old, NEW ops, NEW u  PROVE Follows(old, ops, u, Len(ops)) <=> Along(old, ops, u)
BY DEF Follows, Along

(* One more operation of a trial.                                          *)
LEMMA FollowsOn ==
  ASSUME NEW old, NEW ops, NEW u, NEW k \in Nat, Follows(old, ops, u, k), NEW s,
         s = Result(u[k], old, ops[k + 1])
  PROVE  \E v : v[0] = u[0] /\ Follows(old, ops, v, k + 1) /\ v[k + 1] = s
<1> DEFINE v == [j \in 0 .. k + 1 |-> IF j = k + 1 THEN s ELSE u[j]]
<1>1. v[k + 1] = s /\ \A j \in 0 .. k : v[j] = u[j]  OBVIOUS
<1> HIDE DEF v
<1>2. ASSUME NEW j \in 0 .. (k + 1) - 1  PROVE v[j + 1] = Result(v[j], old, ops[j + 1])
  <2>1. CASE j = k
    <3>1. v[j] = u[k] /\ v[j + 1] = s  BY <1>1, <2>1
    <3> QED BY <2>1, <3>1
  <2>2. CASE j # k
    <3>1. j \in 0 .. k - 1 /\ j \in 0 .. k /\ j + 1 \in 0 .. k  BY <2>2
    <3>2. u[j + 1] = Result(u[j], old, ops[j + 1])  BY <3>1 DEF Follows
    <3> QED BY <1>1, <3>1, <3>2
  <2> QED BY <2>1, <2>2
<1>3. Follows(old, ops, v, k + 1)  BY <1>2 DEF Follows
<1>4. v[0] = u[0]  BY <1>1
<1> QED BY <1>1, <1>3, <1>4

(* The rest of a trace.                                                    *)
LEMMA FollowsRest ==
  ASSUME NEW S, NEW old, NEW ops \in Seq(S), ops # << >>, NEW u, Along(old, ops, u)
  PROVE  \E v : v[0] = Result(u[0], old, Head(ops)) /\ Along(old, Tail(ops), v)
                /\ v[Len(Tail(ops))] = u[Len(ops)]
<1> DEFINE n == Len(ops)
           v == [j \in 0 .. n |-> u[j + 1]]
<1>1. /\ n \in Nat /\ n >= 1 /\ Head(ops) = ops[1] /\ Len(Tail(ops)) = n - 1
      /\ \A j \in 1 .. n - 1 : Tail(ops)[j] = ops[j + 1]
  OBVIOUS
<1>2. PICK rest : rest = Tail(ops)  OBVIOUS
<1>3. \A j \in 0 .. n : v[j] = u[j + 1]  OBVIOUS
<1> HIDE DEF n, v
<1>4. u[0 + 1] = Result(u[0], old, ops[0 + 1])
  <2>1. 0 \in 0 .. n - 1  BY <1>1
  <2> QED BY <2>1 DEF Along, n
<1>5. v[0] = Result(u[0], old, Head(ops))
  <2>1. 0 + 1 = 1 /\ 0 \in 0 .. n  BY <1>1
  <2> QED BY <1>1, <1>3, <1>4, <2>1
<1>6. ASSUME NEW j \in 0 .. Len(rest) - 1  PROVE v[j + 1] = Result(v[j], old, rest[j + 1])
  <2>1. /\ j + 1 \in 1 .. n - 1 /\ j \in 0 .. n /\ j + 1 \in 0 .. n /\ j + 1 \in 0 .. n - 1
    BY <1>1, <1>2
  <2>2. u[(j + 1) + 1] = Result(u[j + 1], old, ops[(j + 1) + 1])  BY <2>1 DEF Along, n
  <2>3. rest[j + 1] = ops[(j + 1) + 1]  BY <1>1, <1>2, <2>1
  <2>4. v[j] = u[j + 1] /\ v[j + 1] = u[(j + 1) + 1]  BY <1>3, <2>1
  <2> QED BY <2>2, <2>3, <2>4
<1>7. Along(old, rest, v)  BY <1>6 DEF Along
<1>8. v[Len(rest)] = u[n]
  <2>1. n - 1 \in 0 .. n /\ (n - 1) + 1 = n  BY <1>1
  <2>2. v[n - 1] = u[(n - 1) + 1]  BY <1>3, <2>1
  <2>3. Len(rest) = n - 1  BY <1>1, <1>2
  <2> QED BY <2>1, <2>2, <2>3
<1> QED BY <1>2, <1>5, <1>7, <1>8 DEF n

-----------------------------------------------------------------------------
(* The search.  Among the candidates there is one that keeps rollback and  *)
(* breaks no budget, so the best one keeps rollback too; and a candidate   *)
(* that keeps it saves each old block that it changes.                     *)
Witness(c) == Light(c) /\ SavesOld(snapshot, plan \o c)

KeepsReady(c) ==
  /\ Guarded(snapshot, plan \o c)
  /\ \E u : u[0] = sim.planned /\ Along(snapshot, c, u) /\ u[Len(c)].rollbackReady

OnTrial(u, k) ==
  /\ u[0] = sim.planned /\ Follows(snapshot, search.current, u, k) /\ u[k] = State
  /\ search.trying = SubSeq(search.current, k + 1, Len(search.current))
  /\ rollbackReady => GuardedTo(snapshot, plan \o search.current, Len(plan) + k)

Scored ==
  search.best # << >> =>
    /\ DOMAIN search.score = 1 .. 7 /\ search.score[1] \in Nat /\ search.score[2] \in {0, 1}
    /\ search.score[2] = 0 => KeepsReady(search.best)

Promising ==
  \/ \E i \in DOMAIN search.left : Witness(search.left[i])
  \/ Witness(search.current)
  \/ search.best # << >> /\ search.score[1] = 0 /\ search.score[2] = 0

SimReady ==
  /\ stage \in {"plan", "try", "planned", "deploy"} => sim.planned.rollbackReady
  /\ stage \in {"plan", "try"} =>
       Guarded(snapshot, plan) /\ sim.planned.violations \subseteq Violation
  /\ stage = "plan" => State = sim.planned
  /\ stage = "done" => rollbackReady

TrialReady ==
  stage = "try" =>
    /\ violations \subseteq Violation /\ Scored /\ Promising
    /\ \E k \in 0 .. Len(search.current) : \E u : OnTrial(u, k)
    /\ Witness(search.current) => rollbackReady /\ violations = sim.planned.violations

AdoptReady ==
  stage = "adopt" =>
    /\ violations \subseteq Violation /\ Guarded(snapshot, plan \o search.trying)
    /\ \E u : u[0] = State /\ Along(snapshot, search.trying, u)
              /\ u[Len(search.trying)].rollbackReady

RollbackKept == Greedy /\ Roomy => SimReady /\ TrialReady /\ AdoptReady

LEMMA ReadyInit ==
  ASSUME PlanningInit  PROVE RollbackKept
<1> SUFFICES ASSUME Greedy  PROVE SimReady /\ TrialReady /\ AdoptReady
  BY DEF RollbackKept
<1>1. stage = "plan" /\ plan = << >> /\ sim = [fresh |-> State, planned |-> State]
  BY DEF PlanningInit, Greedy
<1>2. rollbackReady = TRUE /\ violations = {}  BY DEF PlanningInit, Init
<1>3. sim.planned = State /\ State.rollbackReady = TRUE /\ State.violations = {}
  BY <1>1, <1>2 DEF State
<1>4. Guarded(snapshot, plan)
  <2>1. snapshot \in Image  BY DeploymentAssumption DEF PlanningInit, Init
  <2> QED BY <1>1, <2>1, NoPlanYet
<1> QED BY <1>1, <1>3, <1>4 DEF SimReady, TrialReady, AdoptReady

-----------------------------------------------------------------------------
(* A state of the search.                                                  *)
LEMMA Trying ==
  ASSUME UNCHANGED <<snapshot, planner, plan, sim>>, stage' = "try",
         sim.planned.rollbackReady, Guarded(snapshot, plan),
         sim.planned.violations \subseteq Violation, violations' \subseteq Violation,
         NEW left, NEW chosen, NEW best, NEW score, NEW trying,
         search'.left = left, search'.current = chosen, search'.best = best,
         search'.score = score, search'.trying = trying,
         NEW k \in 0 .. Len(chosen), NEW u, u[0] = sim.planned,
         Follows(snapshot, chosen, u, k), u[k] = State',
         trying = SubSeq(chosen, k + 1, Len(chosen)),
         rollbackReady' => GuardedTo(snapshot, plan \o chosen, Len(plan) + k),
         best # << >> =>
           /\ DOMAIN score = 1 .. 7 /\ score[1] \in Nat /\ score[2] \in {0, 1}
           /\ score[2] = 0 => KeepsReady(best),
         Witness(chosen) => rollbackReady' /\ violations' = sim.planned.violations,
         \/ \E i \in DOMAIN left : Witness(left[i])
         \/ Witness(chosen)
         \/ best # << >> /\ score[1] = 0 /\ score[2] = 0
  PROVE  RollbackKept'
<1>1. \A c : Witness(c)' <=> Light(c) /\ SavesOld(snapshot, plan \o c)
  BY DEF Witness, SavesOld, AllFresh, Guarded, Uncut, TailSaved
<1>2. /\ Witness(search.current)' <=> Witness(chosen)
      /\ (\E i \in DOMAIN search.left : Witness(search.left[i]))'
           <=> \E i \in DOMAIN left : Witness(left[i])
  BY DEF Witness
<1>3. Scored'  BY DEF Scored, KeepsReady
<1>4. Promising'  BY <1>2 DEF Promising
<1>5. OnTrial(u, k)'  BY DEF OnTrial
<1>6. (\E j \in 0 .. Len(search.current) : \E v : OnTrial(v, j))'
  <2>1. k \in 0 .. Len(search'.current)  OBVIOUS
  <2> QED BY <1>5, <2>1
<1>7. TrialReady'  BY <1>2, <1>3, <1>4, <1>6 DEF TrialReady
<1>8. SimReady'  BY DEF SimReady
<1>9. AdoptReady'  BY DEF AdoptReady
<1> QED BY <1>7, <1>8, <1>9 DEF RollbackKept

(* The old blocks that the plan changes are saved, whatever follows.       *)
LEMMA GuardedBefore ==
  ASSUME NEW old, NEW ops \in Seq(PlanOp), NEW c \in Seq(PlanOp), Guarded(old, ops)
  PROVE  GuardedTo(old, ops \o c, Len(ops) + 0)
<1> DEFINE all == ops \o c
<1>1. all \in Seq(PlanOp) /\ Begins(ops, all) /\ Len(ops) \in Nat  BY ConcatBegins
<1> HIDE DEF all
<1>2. Len(ops) + 0 = Len(ops) /\ DOMAIN ops = 1 .. Len(ops)  BY <1>1
<1>3. ASSUME NEW j \in 1 .. Len(ops), Changes(old, all[j])
      PROVE  \E i \in 1 .. j - 1 : all[i] = SaveBlock(all[j].target)
  <2>1. j \in DOMAIN ops  BY <1>2
  <2>2. all[j] = ops[j] /\ \A i \in 1 .. j - 1 : all[i] = ops[i]  BY <1>1, <2>1, Earlier
  <2>3. Changes(old, ops[j])  BY <1>3, <2>2
  <2>4. PICK i \in 1 .. j - 1 : ops[i] = SaveBlock(ops[j].target)  BY <2>1, <2>3 DEF Guarded
  <2> QED BY <2>2, <2>4
<1>4. GuardedTo(old, all, Len(ops) + 0)  BY <1>2, <1>3 DEF GuardedTo
<1> QED BY <1>4 DEF all

LEMMA TrialBegins ==
  ASSUME NEW old, NEW c, NEW s
  PROVE  \E u : u[0] = s /\ Follows(old, c, u, 0)
<1> DEFINE u == [j \in {0} |-> s]
<1>1. u[0] = s  OBVIOUS
<1>2. \A j \in 0 .. 0 - 1 : FALSE  OBVIOUS
<1> HIDE DEF u
<1>3. Follows(old, c, u, 0)  BY <1>2 DEF Follows
<1> QED BY <1>1, <1>3

(* A search with a candidate that keeps rollback.                          *)
LEMMA SearchReady ==
  ASSUME BaselineInv, RollbackKept, Greedy, Roomy, stage = "plan", NEW candidates,
         IsFiniteSet(candidates), \A c \in candidates : Good(c),
         NEW w \in candidates, Witness(w), StartSearch(candidates)
  PROVE  RollbackKept'
<1> DEFINE order == SetToSeq(candidates)
<1>1. order \in Seq(candidates) /\ \A x \in candidates : \E k \in DOMAIN order : order[k] = x
  BY SetToSeqLists DEF Lists
<1>2. /\ stage' = "try" /\ search'.left = Tail(order) /\ search'.trying = order[1]
      /\ search'.current = order[1] /\ search'.best = << >> /\ search'.score = << >>
      /\ UNCHANGED <<vars, planner, next, plan, limit, draft, saved, sim>>
  BY DEF StartSearch
<1>3. /\ UNCHANGED <<snapshot, planner, plan, sim>> /\ State' = State
      /\ violations' = violations /\ rollbackReady' = rollbackReady
  BY <1>2 DEF vars, State
<1>4. /\ sim.planned.rollbackReady /\ Guarded(snapshot, plan)
      /\ sim.planned.violations \subseteq Violation /\ State = sim.planned
  BY DEF RollbackKept, SimReady
<1>5. rollbackReady = sim.planned.rollbackReady /\ violations = sim.planned.violations
  <2>1. State.rollbackReady = rollbackReady /\ State.violations = violations  BY StateFields
  <2> QED BY <1>4, <2>1
<1>6. PICK j \in DOMAIN order : order[j] = w  BY <1>1
<1>7. PICK first : first = order[1]  OBVIOUS
<1>8. PICK left : left = Tail(order)  OBVIOUS
<1> HIDE DEF order
<1>9. /\ Len(order) \in Nat /\ j \in 1 .. Len(order) /\ first \in candidates
      /\ DOMAIN left = 1 .. Len(order) - 1
      /\ \A i \in 1 .. Len(order) - 1 : left[i] = order[i + 1]
  <2>1. DOMAIN order = 1 .. Len(order) /\ Len(order) \in Nat  BY <1>1
  <2>2. j \in 1 .. Len(order) /\ 1 \in 1 .. Len(order)  BY <1>6, <2>1
  <2>3. order # << >>  BY <1>1, <2>1, <2>2
  <2> QED BY <1>1, <1>7, <1>8, <2>1, <2>2, <2>3
<1>10. first \in Seq(PlanOp) /\ plan \in Seq(PlanOp) /\ Len(plan) \in Nat
  <2>1. plan \in Seq(PlanOp)  BY GreedyFacts
  <2> QED BY <1>9, <2>1 DEF Good
<1>11. first = SubSeq(first, 0 + 1, Len(first)) /\ 0 \in 0 .. Len(first)
  <2>1. 0 + 1 = 1 /\ Len(first) \in Nat  BY <1>10
  <2>2. SubSeq(first, 1, Len(first)) = first  BY <1>10, WholeTail
  <2> QED BY <2>1, <2>2
<1>12. GuardedTo(snapshot, plan \o first, Len(plan) + 0)  BY <1>4, <1>10, GuardedBefore
<1>13. PICK u : u[0] = sim.planned /\ Follows(snapshot, first, u, 0)  BY TrialBegins
<1>14. Witness(first) \/ \E i \in DOMAIN left : Witness(left[i])
  <2>1. CASE j = 1  BY <1>6, <1>7, <2>1
  <2>2. CASE j # 1
    <3>1. j - 1 \in 1 .. Len(order) - 1 /\ (j - 1) + 1 = j  BY <1>9, <2>2
    <3>2. left[j - 1] = w  BY <1>6, <1>9, <3>1
    <3> QED BY <1>9, <3>1, <3>2
  <2> QED BY <2>1, <2>2
<1>15. PICK none : none = << >>  OBVIOUS
<1>16. /\ search'.left = left /\ search'.trying = first /\ search'.current = first
       /\ search'.best = none /\ search'.score = none
  BY <1>2, <1>7, <1>8, <1>15
<1>17. u[0] = State'  BY <1>3, <1>4, <1>13
<1>18. violations' \subseteq Violation /\ rollbackReady' /\ violations' = sim.planned.violations
  BY <1>3, <1>4, <1>5
<1>19. ~(none # << >>)  BY <1>15
<1> HIDE DEF Witness, KeepsReady
<1> QED
  BY <1>2, <1>3, <1>4, <1>11, <1>12, <1>13, <1>14, <1>16, <1>17, <1>18, <1>19, Trying

-----------------------------------------------------------------------------
(* Among the candidates for a block there is one that keeps rollback: the  *)
(* raw block behind the backup, or the block that stays.                   *)
LEMMA BlockWitness ==
  ASSUME BaselineInv, Greedy, stage = "plan", next \in 0 .. NewCount - 1,
         Guarded(snapshot, plan), NEW op, GoodOp(snapshot, plan, next, op), op.op # "delta"
  PROVE  /\ (Changes(snapshot, op) => SavedIn(plan, next)) => Witness(<<op>>)
         /\ next < Len(snapshot) /\ ~HasBackup(next) => Witness(Append(<<SaveBlock(next)>>, op))
<1>1. /\ snapshot \in Image /\ next \in Nat /\ plan \in Seq(PlanOp)
      /\ Right(snapshot, plan, next) /\ Uncut(plan) /\ AllFresh(plan)
      /\ HasBackup(next) <=> SavedIn(plan, next)
  BY GreedyFacts, NewImage
<1>2. op \in PlanOp /\ SaveBlock(next) \in PlanOp /\ SaveBlock(next).op # "delta"
  <2>1. SaveBlock(next) \in PlanOp  BY <1>1, PlanOpsExist DEF PlanOp
  <2>2. SaveBlock(next).op # "delta"  BY SaveForm
  <2> QED BY <2>1, <2>2 DEF GoodOp
<1>3. ASSUME Changes(snapshot, op) => SavedIn(plan, next)  PROVE Witness(<<op>>)
  <2>1. plan \o <<op>> = Append(plan, op)  BY <1>1, <1>2, AppendBegins
  <2>2. LET all == Append(plan, op) IN Uncut(all) /\ AllFresh(all) /\ Guarded(snapshot, all)
    BY <1>1, <1>3, BlockPlanned
  <2>3. SavesOld(snapshot, plan \o <<op>>)  BY <2>1, <2>2 DEF SavesOld
  <2>4. DOMAIN <<op>> = {1} /\ <<op>>[1] = op  OBVIOUS
  <2> QED BY <2>3, <2>4 DEF Witness, Light
<1>4. ASSUME next < Len(snapshot), ~HasBackup(next)
      PROVE  Witness(Append(<<SaveBlock(next)>>, op))
  <2> DEFINE more == Append(plan, SaveBlock(next))
             all == Append(more, op)
             one == <<SaveBlock(next)>>
             c == Append(one, op)
  <2>1. next \in 0 .. Len(snapshot) - 1
    <3>1. Len(snapshot) \in Nat  BY <1>1 DEF Image
    <3> QED BY <1>1, <1>4, <3>1
  <2>2. /\ Right(snapshot, more, next) /\ Uncut(more) /\ AllFresh(more)
        /\ Guarded(snapshot, more) /\ SavedIn(more, next)
    BY <1>1, <1>4, <2>1, SavePlanned
  <2>3. more \in Seq(PlanOp) /\ Begins(plan, more)  BY <1>1, <1>2, AppendBegins
  <2>4. GoodOp(snapshot, more, next, op)
    <3> HIDE DEF more
    <3> QED BY <1>1, <2>3, GoodOpLater
  <2>5. Uncut(all) /\ AllFresh(all) /\ Guarded(snapshot, all)
    <3> HIDE DEF more
    <3> QED BY <1>1, <2>2, <2>4, BlockPlanned
  <2>6. one \in Seq(PlanOp) /\ DOMAIN one = {1} /\ one[1] = SaveBlock(next) /\ Len(one) = 1
    BY <1>2
  <2>7. plan \o c = all
    <3>1. plan \o one = more  BY <1>1, <1>2, AppendBegins
    <3> HIDE DEF one, more
    <3>2. plan \o c = Append(plan \o one, op)  BY <1>1, <1>2, <2>6, AppendedLater
    <3> QED BY <3>1, <3>2
  <2>8. Light(c)
    <3> HIDE DEF one
    <3>1. /\ \A k \in DOMAIN c : k \in DOMAIN one \/ k = Len(one) + 1
          /\ \A k \in DOMAIN one : c[k] = one[k]
          /\ c[Len(one) + 1] = op
      <4>1. c \in Seq(PlanOp) /\ Begins(one, c)  BY <1>2, <2>6, AppendBegins
      <4>2. /\ \A k \in DOMAIN c : k \in DOMAIN one \/ k = Len(one) + 1
            /\ c[Len(one) + 1] = op
        BY <1>2, <2>6, AppendBegins
      <4> QED BY <4>1, <4>2 DEF Begins
    <3> HIDE DEF c
    <3> QED BY <1>2, <2>6, <3>1 DEF Light
  <2> HIDE DEF c, all
  <2>9. Witness(c)  BY <2>5, <2>7, <2>8 DEF Witness, SavesOld
  <2> QED BY <2>9 DEF c, one
<1> QED BY <1>3, <1>4

LEMMA TargetWitness ==
  ASSUME BaselineInv, Greedy, RequireBackup, stage = "plan", next < NewCount,
         Guarded(snapshot, plan), NEW sources, NEW sizing
  PROVE  \E w \in TargetCandidates(next, sources, sizing) : Witness(w)
<1>1. /\ snapshot \in Image /\ next \in Nat /\ installed = Mix(snapshot, next)
      /\ next \in 0 .. NewCount - 1
      /\ HasBackup(next) <=> SavedIn(plan, next)
  BY GreedyFacts, NewImage
<1>2. Len(installed) \in Nat /\ Len(snapshot) \in Nat /\ Len(snapshot) <= Len(installed)
  <2>1. /\ Len(Mix(snapshot, next)) \in Nat /\ Len(snapshot) \in Nat
        /\ Len(snapshot) <= Len(Mix(snapshot, next))
    BY <1>1, MixAt
  <2> QED BY <1>1, <2>1
<1>3. CASE next < Len(installed) /\ installed[next + 1] = NewBlock(next)
  <2> DEFINE w == Mix(snapshot, next)
  <2>1. /\ next < Len(w) => next < Len(snapshot)
        /\ \A i \in next .. Len(snapshot) - 1 : w[i + 1] = snapshot[i + 1]
    BY <1>1, MixAt
  <2>2. installed = w  BY <1>1
  <2> HIDE DEF w
  <2>3. next < Len(snapshot)  BY <1>3, <2>1, <2>2
  <2>4. next \in next .. Len(snapshot) - 1  BY <1>1, <1>2, <2>3
  <2>5. snapshot[next + 1] = NewBlock(next)  BY <1>3, <2>1, <2>2, <2>4
  <2>6. PICK op : op = KeepBlock(next)  OBVIOUS
  <2>7. GoodOp(snapshot, plan, next, op)  BY <1>1, <2>3, <2>5, <2>6, KeepGood
  <2>8. op.op # "delta" /\ ~Changes(snapshot, op)
    BY <2>5, <2>6 DEF KeepBlock, Changes, Processing
  <2>9. Witness(<<op>>)  BY <1>1, <2>7, <2>8, BlockWitness
  <2>10. <<op>> \in TargetCandidates(next, sources, sizing)
    BY <1>3, <2>6 DEF TargetCandidates
  <2> QED BY <2>9, <2>10
<1>4. CASE ~(next < Len(installed) /\ installed[next + 1] = NewBlock(next))
  <2>1. PICK op : op = RawBlock(next)  OBVIOUS
  <2>2. GoodOp(snapshot, plan, next, op)  BY <1>1, <2>1, RawGood
  <2>3. op.op # "delta" /\ op.target = next  BY <2>1 DEF RawBlock
  <2>4. Append(BackupPrefix(next), op) \in TargetCandidates(next, sources, sizing)
    BY <1>4, <2>1 DEF TargetCandidates, WithAndWithout
  <2>5. Witness(Append(BackupPrefix(next), op))
    <3>1. CASE BackupPrefix(next) = <<SaveBlock(next)>> /\ next < Len(snapshot) /\ ~HasBackup(next)
      <4>1. Witness(Append(<<SaveBlock(next)>>, op))  BY <1>1, <2>2, <2>3, <3>1, BlockWitness
      <4> QED BY <3>1, <4>1
    <3>2. CASE BackupPrefix(next) = << >>
              /\ ~(next < Len(snapshot) /\ NewBlock(next) # snapshot[next + 1] /\ ~HasBackup(next))
      <4>1. Changes(snapshot, op) => SavedIn(plan, next)
        BY <1>1, <2>3, <3>2 DEF Changes
      <4>2. Witness(<<op>>)  BY <1>1, <2>2, <2>3, <4>1, BlockWitness
      <4>3. Append(<< >>, op) = <<op>>
        <5>1. << >> \in Seq(PlanOp) /\ op \in PlanOp  BY <2>2 DEF GoodOp
        <5> QED BY <5>1, AppendIsConcat
      <4> QED BY <3>2, <4>2, <4>3
    <3> QED BY <1>1, <1>2, <3>1, <3>2 DEF BackupPrefix
  <2> QED BY <2>4, <2>5
<1> QED BY <1>3, <1>4

LEMMA ReadySearchStep ==
  ASSUME BaselineInv, RollbackKept, Roomy, GreedySearchesBlock  PROVE RollbackKept'
<1> DEFINE sources == DeltaSources(next, installed, SavedBlocks)
<1>1. Greedy /\ stage = "plan" /\ next < NewCount /\ RequireBackup
  BY DEF GreedySearchesBlock, Plans, Greedy, NewCount, Roomy
<1>2. PICK sizing \in Sizings(sources) :
        StartSearch(TargetCandidates(next, sources, sizing))
  BY DEF GreedySearchesBlock
<1>3. PICK cs : cs = TargetCandidates(next, sources, sizing)  OBVIOUS
<1>4. StartSearch(cs) /\ IsFiniteSet(cs) /\ \A c \in cs : Good(c)
  BY <1>1, <1>2, <1>3, TargetCandidatesGood
<1>5. Guarded(snapshot, plan)  BY <1>1 DEF RollbackKept, SimReady
<1>6. PICK w \in cs : Witness(w)  BY <1>1, <1>3, <1>5, TargetWitness
<1> QED BY <1>1, <1>4, <1>6, SearchReady

-----------------------------------------------------------------------------
(* The candidates for the cut: the one with backups keeps rollback, for    *)
(* the last block that is left is not one that the cut changes.            *)
LEMMA SavesAdded ==
  ASSUME NEW old, NEW ops, NEW n \in Nat, Right(old, ops, n), NEW all \in Seq(PlanOp),
         Begins(ops, all), NEW S, AddsSaves(ops, all, S), \A i \in S : i \in Nat /\ n <= i
  PROVE  /\ AllFresh(ops) => AllFresh(all)
         /\ Guarded(old, ops) => Guarded(old, all)
<1>1. /\ ops \in Seq(PlanOp) /\ Len(ops) \in Nat
      /\ \A k \in DOMAIN ops : Processing(ops[k]) => ops[k].target \in Nat /\ ops[k].target < n
  BY RightTargets
<1>2. ASSUME NEW k \in DOMAIN all, k \notin DOMAIN ops
      PROVE  \E i \in S : all[k] = SaveBlock(i) /\ all[k].source = i /\ ~Processing(all[k])
  <2>1. PICK i \in S : all[k] = SaveBlock(i)  BY <1>2 DEF AddsSaves
  <2> QED BY <2>1, SaveForm
<1>3. ASSUME NEW k \in DOMAIN all, Processing(all[k])
      PROVE  k \in DOMAIN ops /\ all[k] = ops[k] /\ all[k].target < n /\ all[k].target \in Nat
  <2>1. k \in DOMAIN ops  BY <1>2, <1>3
  <2>2. all[k] = ops[k]  BY <2>1 DEF Begins
  <2> QED BY <1>1, <1>3, <2>1, <2>2
<1>4. ASSUME AllFresh(ops), NEW k \in DOMAIN all, all[k].op = "backup"  PROVE Fresh(all, k)
  <2>1. CASE k \in DOMAIN ops
    <3>1. all[k] = ops[k]  BY <2>1 DEF Begins
    <3>2. Fresh(ops, k)  BY <1>4, <2>1, <3>1 DEF AllFresh
    <3> QED BY <1>1, <2>1, <3>2, EarlierKept
  <2>2. CASE k \notin DOMAIN ops
    <3>1. all[k].source \in Nat /\ n <= all[k].source  BY <1>2, <2>2
    <3>2. ASSUME NEW m \in 1 .. k - 1, Processing(all[m])  PROVE all[m].target < all[k].source
      <4>1. m \in DOMAIN all  OBVIOUS
      <4>2. all[m].target \in Nat /\ all[m].target < n  BY <1>3, <3>2, <4>1
      <4> HIDE DEF Processing
      <4>3. PICK a \in Nat : a = all[m].target  BY <4>2
      <4>4. PICK b \in Nat : b = all[k].source  BY <3>1
      <4>5. a < n /\ n <= b  BY <3>1, <4>2, <4>3, <4>4
      <4>6. a < b  BY <4>5
      <4> QED BY <4>3, <4>4, <4>6
    <3> QED BY <3>2 DEF Fresh
  <2> QED BY <2>1, <2>2
<1>5. ASSUME Guarded(old, ops), NEW k \in DOMAIN all, Changes(old, all[k])
      PROVE  \E j \in 1 .. k - 1 : all[j] = SaveBlock(all[k].target)
  <2>1. k \in DOMAIN ops /\ all[k] = ops[k]  BY <1>3, <1>5 DEF Changes
  <2>2. PICK j \in 1 .. k - 1 : ops[j] = SaveBlock(ops[k].target)
    BY <1>5, <2>1 DEF Guarded
  <2>3. all[j] = ops[j]  BY <1>1, <2>1, Earlier
  <2> QED BY <2>1, <2>2, <2>3
<1> QED BY <1>4, <1>5 DEF AllFresh, Guarded

(* What is left by the cut is the new image.                               *)
LEMMA CutLeaves ==
  ASSUME ImagesRead, BaselineInv, Greedy, stage = "plan", next = NewCount
  PROVE  TruncateBytes(installed, NewSize) = Expected
<1>1. snapshot \in Image /\ installed = Mix(snapshot, NewCount)  BY GreedyFacts
<1>2. TargetInFront  BY <1>1, CutInFront
<1> QED BY <1>2 DEF TruncateBytes, TargetInFront, ImagesRead, AsRead, NewSize

LEMMA CutSaves ==
  ASSUME ImagesRead, BaselineInv, Greedy, stage = "plan", next = NewCount,
         Guarded(snapshot, plan)
  PROVE  /\ \A i \in CutIndices : i \in Nat /\ NewCount <= i
         /\ \A i \in NewCount .. Len(snapshot) - 1 : i \in CutIndices \/ SavedIn(plan, i)
<1>1. /\ snapshot \in Image /\ installed = Mix(snapshot, NewCount)
      /\ Right(snapshot, plan, NewCount)
      /\ \A i \in Nat : HasBackup(i) <=> SavedIn(plan, i)
  BY GreedyFacts
<1>2. NewCount \in Nat /\ NewCount \in 0 .. NewCount  BY NewImage
<1>3. Len(installed) \in Nat /\ Len(snapshot) \in Nat /\ Len(snapshot) <= Len(installed)
  <2>1. /\ Len(Mix(snapshot, NewCount)) =
             (IF NewCount <= Len(snapshot) THEN Len(snapshot) ELSE NewCount)
        /\ Len(snapshot) \in Nat /\ Len(Mix(snapshot, NewCount)) \in Nat
    BY <1>1, <1>2, MixBlocks
  <2> QED BY <1>1, <1>2, <2>1
<1>4. TruncateBytes(installed, NewSize) = Expected  BY CutLeaves
<1>5. CutIndices =
        {i \in {i \in {NewCount - 1} : /\ NewCount > 0 /\ i < Len(snapshot)
                                       /\ Expected[NewCount] # snapshot[NewCount]}
               \cup {j \in NewCount .. Len(installed) - 1 : j < Len(snapshot)} :
           i < Len(installed) /\ ~HasBackup(i)}
  BY <1>4 DEF CutIndices, NewCount
<1>6. ASSUME NEW i \in CutIndices  PROVE i \in Nat /\ NewCount <= i
  <2>1. CASE i = NewCount - 1 /\ NewCount > 0 /\ i < Len(snapshot)
              /\ Expected[NewCount] # snapshot[NewCount] /\ ~HasBackup(i)
    <3>1. i \in Nat /\ i \in 0 .. NewCount - 1 /\ i + 1 = NewCount  BY <1>2, <2>1
    <3>2. PICK k \in DOMAIN plan : Processing(plan[k]) /\ plan[k].target = i
      BY <1>1, <3>1 DEF Right, Covers
    <3>3. Changes(snapshot, plan[k])  BY <2>1, <3>1, <3>2 DEF Changes, NewBlock
    <3>4. PICK j \in 1 .. k - 1 : plan[j] = SaveBlock(i)  BY <3>2, <3>3 DEF Guarded
    <3>5. j \in DOMAIN plan
      <4>1. plan \in Seq(PlanOp)  BY <1>1 DEF Right
      <4> QED BY <3>2, <3>4, <4>1
    <3>6. HasBackup(i)  BY <1>1, <3>1, <3>4, <3>5 DEF SavedIn
    <3> QED BY <2>1, <3>6
  <2>2. CASE i \in NewCount .. Len(installed) - 1  BY <1>2, <1>3, <2>2
  <2> QED BY <1>5, <1>6, <2>1, <2>2
<1>7. ASSUME NEW i \in NewCount .. Len(snapshot) - 1  PROVE i \in CutIndices \/ SavedIn(plan, i)
  <2>1. i \in Nat /\ i \in NewCount .. Len(installed) - 1 /\ i < Len(installed)
        /\ i < Len(snapshot)
    BY <1>2, <1>3
  <2> QED BY <1>1, <1>5, <2>1
<1> QED BY <1>6, <1>7

LEMMA CutWitness ==
  ASSUME ImagesRead, BaselineInv, Greedy, stage = "plan", next = NewCount,
         Guarded(snapshot, plan)
  PROVE  \E w \in CutCandidates : Witness(w)
<1>1. /\ snapshot \in Image /\ plan \in Seq(PlanOp)
      /\ Right(snapshot, plan, NewCount) /\ Uncut(plan) /\ AllFresh(plan)
  BY GreedyFacts
<1>2. NewCount \in Nat  BY NewImage
<1>3. CutIndices \subseteq 0 .. Len(snapshot) - 1 /\ \A i \in CutIndices : ~SavedIn(plan, i)
  BY CutIndicesUnsaved
<1>4. /\ \A i \in CutIndices : i \in Nat /\ NewCount <= i
      /\ \A i \in NewCount .. Len(snapshot) - 1 : i \in CutIndices \/ SavedIn(plan, i)
  BY CutSaves
<1> DEFINE indices == Ascending(CutIndices)
           saves == Backups(indices)
           more == plan \o saves
           all == Append(more, CutToNewSize)
           w == Append(saves, CutToNewSize)
<1>5. CutIndices \subseteq Nat /\ IsFiniteSet(CutIndices)
  <2>1. Len(snapshot) \in Nat  BY <1>1 DEF Image
  <2> QED BY <1>3, <1>4, <2>1, FiniteIndices
<1>6. Lists(CutIndices, indices)  BY <1>5, AscendingLists
<1>7. /\ Right(snapshot, more, NewCount) /\ Uncut(more)
      /\ \A i \in CutIndices : SavedIn(more, i)
      /\ AddsSaves(plan, more, CutIndices)
  <2> HIDE DEF indices
  <2> QED BY <1>1, <1>2, <1>3, <1>6, ExtendBySaves
<1>8. saves \in Seq(PlanOp) /\ \A k \in DOMAIN saves : saves[k].op = "backup"
  <2>1. indices \in Seq(Nat)  BY <1>5, <1>6, NumberList DEF Lists
  <2> HIDE DEF indices
  <2>2. /\ Backups(indices) \in Seq(PlanOp) /\ DOMAIN Backups(indices) = DOMAIN indices
        /\ \A k \in DOMAIN indices : Backups(indices)[k] = SaveBlock(indices[k])
    BY <2>1, BackupsForm
  <2> QED BY <2>2, SaveForm
<1> HIDE DEF indices, saves
<1>9. more \in Seq(PlanOp) /\ Begins(plan, more)  BY <1>1, <1>8, ConcatBegins
<1> HIDE DEF more
<1>10. AllFresh(more) /\ Guarded(snapshot, more)
  BY <1>1, <1>2, <1>4, <1>7, <1>9, SavesAdded
<1>11. TailSaved(snapshot, more)
  <2>1. ASSUME NEW i, SavedIn(plan, i)  PROVE SavedIn(more, i)
    <3>1. PICK j \in DOMAIN plan : plan[j] = SaveBlock(i)  BY <2>1 DEF SavedIn
    <3>2. j \in DOMAIN more /\ more[j] = plan[j]  BY <1>1, <1>9, <3>1, Earlier
    <3> QED BY <3>1, <3>2 DEF SavedIn
  <2>2. \A i \in NewCount .. Len(snapshot) - 1 : SavedIn(more, i)  BY <1>4, <1>7, <2>1
  <2> QED BY <2>2, GuardedMeansSaved
<1>12. AllFresh(all) /\ Guarded(snapshot, all) /\ TailSaved(snapshot, all)
  BY <1>1, <1>2, <1>7, <1>9, <1>10, <1>11, CutForm, CutPlanned, GrownPlan
<1>13. plan \o w = all  BY <1>1, <1>8, CutForm, AppendedLater DEF more
<1>14. Light(w)
  <2>1. /\ w \in Seq(PlanOp) /\ Begins(saves, w) /\ w[Len(saves) + 1] = CutToNewSize
        /\ \A k \in DOMAIN w : k \in DOMAIN saves \/ k = Len(saves) + 1
    BY <1>8, CutForm, AppendBegins
  <2> HIDE DEF w
  <2>2. \A k \in DOMAIN saves : w[k] = saves[k]  BY <2>1 DEF Begins
  <2> QED BY <1>8, <2>1, <2>2, CutForm DEF Light
<1> HIDE DEF w, all
<1>15. Witness(w)  BY <1>12, <1>13, <1>14 DEF Witness, SavesOld
<1>16. w \in CutCandidates  BY DEF CutCandidates, w, saves, indices
<1> QED BY <1>15, <1>16

LEMMA ReadyCutStep ==
  ASSUME ImagesRead, BaselineInv, RollbackKept, Roomy, GreedyCuts  PROVE RollbackKept'
<1>1. Greedy /\ stage = "plan" /\ next = NewCount
  BY DEF GreedyCuts, Plans, Greedy, NewCount
<1>2. sim.planned.rollbackReady /\ Guarded(snapshot, plan)
  BY <1>1 DEF RollbackKept, SimReady
<1>3. CASE ImageBytes(installed) > NewSize
  <2>1. PICK cs : cs = CutCandidates  OBVIOUS
  <2>2. StartSearch(cs)  BY <1>1, <1>3, <2>1 DEF GreedyCuts, NewCount
  <2>3. IsFiniteSet(cs) /\ \A x \in cs : Good(x)  BY <1>1, <2>1, CutCandidatesGood
  <2>4. PICK w \in cs : Witness(w)  BY <1>1, <1>2, <2>1, CutWitness
  <2> QED BY <1>1, <2>2, <2>3, <2>4, SearchReady
<1>4. CASE ~(ImageBytes(installed) > NewSize)
  <2>1. stage' = "planned" /\ sim' = sim  BY <1>4 DEF GreedyCuts
  <2> QED BY <1>2, <2>1 DEF RollbackKept, SimReady, TrialReady, AdoptReady
<1> QED BY <1>3, <1>4

-----------------------------------------------------------------------------
(* A candidate on its clone.                                               *)
LEMMA ExtendedLast ==
  ASSUME NEW old, NEW ops, NEW n \in 0 .. NewCount, Extended(old, ops, n)
  PROVE  \E m \in 0 .. NewCount : Right(old, ops, m) /\ (~Uncut(ops) => m = NewCount)
<1>1. NewCount \in Nat  BY NewImage
<1>2. CASE n < NewCount
  <2>1. n + 1 \in 0 .. NewCount  BY <1>1, <1>2
  <2> QED BY <1>2, <2>1 DEF Extended
<1>3. CASE ~(n < NewCount)
  <2>1. NewCount \in 0 .. NewCount  BY <1>1
  <2> QED BY <1>3, <2>1 DEF Extended
<1> QED BY <1>2, <1>3

LEMMA SameRest ==
  ASSUME NEW S, NEW s \in Seq(S), NEW i \in 0 .. Len(s), NEW j \in 0 .. Len(s),
         SubSeq(s, i + 1, Len(s)) = SubSeq(s, j + 1, Len(s))
  PROVE  i = j
<1>1. Len(s) \in Nat  OBVIOUS
<1>2. ASSUME NEW k \in 0 .. Len(s)  PROVE Len(SubSeq(s, k + 1, Len(s))) = Len(s) - k
  <2>1. CASE k = Len(s)
    <3>1. SubSeq(s, k + 1, Len(s)) = << >>  BY <1>1, <2>1
    <3> QED BY <1>1, <2>1, <3>1
  <2>2. CASE k # Len(s)  BY <1>1, <2>2
  <2> QED BY <2>1, <2>2
<1>3. Len(s) - i = Len(s) - j  BY <1>2
<1> QED BY <1>1, <1>3

(* An operation of a trial: it is followed in the simulator, and a         *)
(* candidate that keeps rollback has kept it.                              *)
LEMMA TriedReady ==
  ASSUME ImagesRead, BaselineInv, Roomy, snapshot \in Image, AsRead(snapshot),
         NEW all, NEW n \in 0 .. NewCount, Extended(snapshot, all, n),
         NEW j \in 0 .. Len(all) - 1, Holding(snapshot, all, j, installed, backups),
         Unharmed(installState, errors), violations \subseteq Violation,
         rollbackReady => GuardedTo(snapshot, all, j), Apply(all[j + 1])
  PROVE  /\ State' = Result(State, snapshot, all[j + 1]) /\ snapshot' = snapshot
         /\ installState' # "failed" /\ violations' \subseteq Violation
         /\ rollbackReady' => GuardedTo(snapshot, all, j + 1)
         /\ SavesOld(snapshot, all) /\ all[j + 1].op # "delta" /\ rollbackReady =>
              rollbackReady' /\ violations' = violations
<1>1. PICK m \in 0 .. NewCount : Right(snapshot, all, m) /\ (~Uncut(all) => m = NewCount)
  BY ExtendedLast
<1>2. CutLast(all)  BY ExtendedRight
<1>3. Succeed(all[j + 1]) /\ Unharmed(installState, errors)' /\ snapshot' = snapshot
  BY <1>1, <1>2, OperationAccepted
<1>4. all[j + 1] \in PlanOp
  <2>1. all \in Seq(PlanOp)  BY <1>1 DEF Right
  <2> QED BY <2>1
<1>5. State' = Result(State, snapshot, all[j + 1])  BY <1>3, <1>4, AppliedResult DEF Unharmed
<1>6. installState' # "failed"  BY <1>3 DEF Unharmed
<1>7. violations' \subseteq Violation  BY <1>3, <1>4, ViolationsKept
<1>8. rollbackReady' => rollbackReady
  <2>1. State'.rollbackReady = rollbackReady' /\ State.rollbackReady = rollbackReady
    BY DEF State
  <2>2. \A s, op : Result(s, snapshot, op).rollbackReady => s.rollbackReady
    BY DEF Result, After
  <2> QED BY <1>5, <2>1, <2>2
<1>9. ASSUME rollbackReady'  PROVE GuardedTo(snapshot, all, j + 1)
  <2>1. GuardedTo(snapshot, all, j)  BY <1>8, <1>9
  <2> QED BY <1>1, <1>3, <1>9, <2>1, ReadyGuards DEF Roomy
<1>10. ASSUME SavesOld(snapshot, all), all[j + 1].op # "delta", rollbackReady
       PROVE  rollbackReady' /\ violations' = violations
  BY <1>1, <1>2, <1>3, <1>10, LightStep
<1> QED BY <1>3, <1>5, <1>6, <1>7, <1>9, <1>10

LEMMA ReadyTry ==
  ASSUME ImagesRead, BaselineInv, RollbackKept, Roomy, TryOperation  PROVE RollbackKept'
<1>1. /\ stage = "try" /\ search.trying # << >> /\ Apply(Head(search.trying))
      /\ search' = [search EXCEPT !.trying = IF installState' = "failed" THEN << >> ELSE Tail(@)]
      /\ UNCHANGED <<planner, stage, next, plan, limit, draft, saved, sim>>
  BY DEF TryOperation
<1>2. Greedy /\ snapshot \in Image /\ AsRead(snapshot)
  BY <1>1, DeploymentAssumption DEF BaselineInv, PlanFrame, ImagesRead
<1>3. /\ GreedyPlans /\ Unharmed(installState, errors) /\ "trying" \in DOMAIN search
      /\ Good(search.current)
      /\ \E k \in 0 .. Len(search.current) :
           /\ search.trying = SubSeq(search.current, k + 1, Len(search.current))
           /\ search.trying # << >> =>
                Holding(snapshot, plan \o search.current, Len(plan) + k, installed, backups)
  BY <1>1, <1>2 DEF BaselineInv, GreedyInv
<1>4. /\ sim.planned.rollbackReady /\ Guarded(snapshot, plan)
      /\ sim.planned.violations \subseteq Violation /\ violations \subseteq Violation
      /\ Scored /\ Promising
      /\ Witness(search.current) => rollbackReady /\ violations = sim.planned.violations
      /\ \E k \in 0 .. Len(search.current) : \E u : OnTrial(u, k)
  BY <1>1, <1>2 DEF RollbackKept, SimReady, TrialReady
<1>5. PICK chosen : chosen = search.current  OBVIOUS
<1>6. PICK left : left = search.left  OBVIOUS
<1>7. PICK best : best = search.best  OBVIOUS
<1>8. PICK score : score = search.score  OBVIOUS
<1>9. PICK rest : rest = search.trying  OBVIOUS
<1>10. chosen \in Seq(PlanOp) /\ plan \in Seq(PlanOp) /\ next \in 0 .. NewCount
       /\ Extended(snapshot, plan \o chosen, next)
  BY <1>3, <1>5 DEF Good, GreedyPlans, Right
<1>11. PICK k \in 0 .. Len(chosen) : \E u : OnTrial(u, k)  BY <1>4, <1>5
<1>12. PICK u : /\ u[0] = sim.planned /\ Follows(snapshot, chosen, u, k) /\ u[k] = State
                /\ rest = SubSeq(chosen, k + 1, Len(chosen))
                /\ rollbackReady => GuardedTo(snapshot, plan \o chosen, Len(plan) + k)
  BY <1>5, <1>9, <1>11 DEF OnTrial
<1>13. Holding(snapshot, plan \o chosen, Len(plan) + k, installed, backups)
  <2>1. PICK i \in 0 .. Len(chosen) :
          /\ rest = SubSeq(chosen, i + 1, Len(chosen))
          /\ Holding(snapshot, plan \o chosen, Len(plan) + i, installed, backups)
    BY <1>1, <1>3, <1>5, <1>9
  <2>2. i = k  BY <1>10, <1>12, <2>1, SameRest
  <2> QED BY <2>1, <2>2
<1>14. PICK all : all = plan \o chosen  OBVIOUS
<1>15. /\ k < Len(chosen) /\ Head(rest) = chosen[k + 1] /\ k + 1 \in 0 .. Len(chosen)
       /\ Tail(rest) = SubSeq(chosen, (k + 1) + 1, Len(chosen))
  <2>1. rest # << >>  BY <1>1, <1>9
  <2>2. rest = SubSeq(chosen, k + 1, Len(chosen))  BY <1>12
  <2> QED BY <1>10, <2>1, <2>2, Remaining
<1>16. /\ Len(plan) \in Nat /\ Len(chosen) \in Nat /\ k \in Nat /\ k + 1 \in DOMAIN chosen
       /\ Len(all) = Len(plan) + Len(chosen)
       /\ all[Len(plan) + (k + 1)] = chosen[k + 1]
  <2>1. Len(chosen) \in Nat /\ DOMAIN chosen = 1 .. Len(chosen) /\ k \in Nat  BY <1>10
  <2>2. k + 1 \in DOMAIN chosen  BY <1>15, <2>1
  <2> QED BY <1>10, <1>14, <2>1, <2>2, ConcatBegins
<1>17. PICK j : j = Len(plan) + k  OBVIOUS
<1>18. j \in 0 .. Len(all) - 1 /\ j + 1 = Len(plan) + (k + 1)
  <2>1. PICK a \in Nat : a = Len(plan)  BY <1>16
  <2>2. PICK b \in Nat : b = Len(chosen)  BY <1>16
  <2>3. j = a + k /\ Len(all) = a + b /\ k < b /\ k \in Nat  BY <1>15, <1>16, <1>17, <2>1, <2>2
  <2>4. j \in 0 .. (a + b) - 1 /\ j + 1 = a + (k + 1)  BY <2>3
  <2> QED BY <2>1, <2>3, <2>4
<1>19. all[j + 1] = chosen[k + 1] /\ Apply(all[j + 1])
  BY <1>1, <1>9, <1>15, <1>16, <1>18
<1>20. /\ Extended(snapshot, all, next) /\ Holding(snapshot, all, j, installed, backups)
       /\ rollbackReady => GuardedTo(snapshot, all, j)
  BY <1>10, <1>12, <1>13, <1>14, <1>17
<1>21. /\ State' = Result(State, snapshot, all[j + 1]) /\ snapshot' = snapshot
       /\ installState' # "failed" /\ violations' \subseteq Violation
       /\ rollbackReady' => GuardedTo(snapshot, all, j + 1)
       /\ SavesOld(snapshot, all) /\ all[j + 1].op # "delta" /\ rollbackReady =>
            rollbackReady' /\ violations' = violations
  BY <1>2, <1>3, <1>4, <1>10, <1>18, <1>19, <1>20, TriedReady
<1>22. PICK trying : trying = Tail(rest)  OBVIOUS
<1>23. /\ search'.trying = trying /\ search'.left = left /\ search'.current = chosen
       /\ search'.best = best /\ search'.score = score
  <2>1. /\ search'.left = search.left /\ search'.current = search.current
        /\ search'.best = search.best /\ search'.score = search.score
    BY <1>1
  <2>2. search'.trying = Tail(search.trying)
    <3>1. search' = [search EXCEPT !.trying = Tail(@)]  BY <1>1, <1>21
    <3> QED BY <1>3, <3>1
  <2> QED BY <1>5, <1>6, <1>7, <1>8, <1>9, <1>22, <2>1, <2>2
<1>24. PICK s : s = State'  OBVIOUS
<1>25. s = Result(u[k], snapshot, chosen[k + 1])  BY <1>12, <1>19, <1>21, <1>24
<1>26. PICK v : v[0] = u[0] /\ Follows(snapshot, chosen, v, k + 1) /\ v[k + 1] = s
  BY <1>12, <1>16, <1>25, FollowsOn, SMTT(30)
<1>27. rollbackReady' => GuardedTo(snapshot, plan \o chosen, Len(plan) + (k + 1))
  BY <1>14, <1>18, <1>21
<1>28. ASSUME Witness(chosen)
       PROVE  rollbackReady' /\ violations' = sim.planned.violations
  <2>1. SavesOld(snapshot, all) /\ chosen[k + 1].op # "delta"
    BY <1>14, <1>16, <1>28 DEF Witness, Light
  <2>2. rollbackReady /\ violations = sim.planned.violations  BY <1>4, <1>5, <1>28
  <2> QED BY <1>19, <1>21, <2>1, <2>2
<1>29. /\ best # << >> =>
            /\ DOMAIN score = 1 .. 7 /\ score[1] \in Nat /\ score[2] \in {0, 1}
            /\ score[2] = 0 => KeepsReady(best)
       /\ \/ \E i \in DOMAIN left : Witness(left[i])
          \/ Witness(chosen)
          \/ best # << >> /\ score[1] = 0 /\ score[2] = 0
  BY <1>4, <1>5, <1>6, <1>7, <1>8 DEF Scored, Promising
<1>30. trying = SubSeq(chosen, (k + 1) + 1, Len(chosen))  BY <1>15, <1>22
<1>31. /\ stage' = "try" /\ UNCHANGED <<snapshot, planner, plan, sim>>
       /\ v[0] = sim.planned /\ v[k + 1] = State'
  BY <1>1, <1>12, <1>21, <1>24, <1>26
<1>32. PICK i \in 0 .. Len(chosen) : i = k + 1  BY <1>15
<1>33. /\ Follows(snapshot, chosen, v, i) /\ v[i] = State'
       /\ trying = SubSeq(chosen, i + 1, Len(chosen))
  BY <1>26, <1>30, <1>31, <1>32
<1>34. rollbackReady' => GuardedTo(snapshot, plan \o chosen, Len(plan) + i)
  BY <1>27, <1>32
<1> HIDE DEF Witness, KeepsReady
<1> QED
  BY <1>4, <1>21, <1>23, <1>28, <1>29, <1>31, <1>33, <1>34, Trying

-----------------------------------------------------------------------------
(* The verdict.  Only the scores that begin with two zeros are those of    *)
(* candidates that break no further budget and keep rollback; none of the  *)
(* others is taken for a better one.                                       *)
LEMMA FirstScores ==
  ASSUME NEW a, NEW b, DOMAIN a = 1 .. 7, DOMAIN b = 1 .. 7, a[1] = 0, a[2] = 0,
         b[1] \in Nat, b[2] \in {0, 1}, Below(b, a) \/ ~Below(a, b)
  PROVE  b[1] = 0 /\ b[2] = 0
<1>1. /\ 1 \in 1 .. 7 /\ 2 \in 1 .. 7
      /\ \A j \in 1 .. 1 - 1 : FALSE
      /\ \A j \in 1 .. 2 - 1 : j = 1
  OBVIOUS
<1>2. CASE ~Below(a, b)
  <2>1. ~(a[1] < b[1])
    <3> SUFFICES ASSUME a[1] < b[1]  PROVE FALSE  OBVIOUS
    <3> QED BY <1>1, <1>2 DEF Below
  <2>2. b[1] = 0  BY <2>1
  <2>3. ~(a[2] < b[2])
    <3> SUFFICES ASSUME a[2] < b[2]  PROVE FALSE  OBVIOUS
    <3>1. \A j \in 1 .. 2 - 1 : a[j] = b[j]  BY <1>1, <2>2
    <3> QED BY <1>1, <1>2, <3>1 DEF Below
  <2>4. b[2] = 0
    <3> SUFFICES ASSUME b[2] = 1  PROVE FALSE  OBVIOUS
    <3>1. a[2] < b[2]  OBVIOUS
    <3> QED BY <2>3, <3>1
  <2> QED BY <2>2, <2>4
<1>3. CASE Below(b, a)
  <2>1. PICK k \in 1 .. 7 : b[k] < a[k] /\ \A j \in 1 .. k - 1 : b[j] = a[j]
    BY <1>3 DEF Below
  <2>2. k # 1
    <3> SUFFICES ASSUME k = 1  PROVE FALSE  OBVIOUS
    <3>1. b[1] < 0  BY <2>1
    <3> QED BY <3>1
  <2>3. k # 2
    <3> SUFFICES ASSUME k = 2  PROVE FALSE  OBVIOUS
    <3>1. b[2] < 0  BY <2>1
    <3> QED BY <3>1
  <2>4. 1 \in 1 .. k - 1 /\ 2 \in 1 .. k - 1  BY <2>2, <2>3
  <2> QED BY <2>1, <2>4
<1> QED BY <1>2, <1>3

LEMMA ScoreOf ==
  ASSUME violations \subseteq Violation
  PROVE  /\ DOMAIN Score = 1 .. 7 /\ Score[1] \in Nat /\ Score[2] \in {0, 1}
         /\ Score[2] = 0 <=> rollbackReady
         /\ violations = sim.planned.violations => Score[1] = 0
<1> DEFINE new == violations \ sim.planned.violations
           a == Cardinality(new)
           b == IF rollbackReady THEN 0 ELSE 1
<1>1. IsFiniteSet(Violation)
  <2>1. IsFiniteSet({"storage"})  BY FS_Singleton
  <2>2. IsFiniteSet({"storage"} \cup {"ram"})  BY <2>1, FS_AddElement
  <2>3. IsFiniteSet(({"storage"} \cup {"ram"}) \cup {"slot_capacity"})  BY <2>2, FS_AddElement
  <2>4. ({"storage"} \cup {"ram"}) \cup {"slot_capacity"} = Violation  BY DEF Violation
  <2> QED BY <2>3, <2>4
<1>2. a \in Nat
  <2>1. IsFiniteSet(new)  BY <1>1, FS_Subset
  <2> HIDE DEF new
  <2> QED BY <2>1, FS_CardinalityType
<1>3. ASSUME violations = sim.planned.violations  PROVE a = 0
  <2>1. new = {}  BY <1>3
  <2> HIDE DEF new
  <2> QED BY <2>1, FS_EmptySet
<1>4. b \in {0, 1} /\ (b = 0 <=> rollbackReady)  OBVIOUS
<1>5. DOMAIN Score = 1 .. 7 /\ Score[1] = a /\ Score[2] = b
  <2> HIDE DEF a, b
  <2>1. Score = <<a, b, Cardinality(violations), package, peakStorage, peakRam, flash>>
    BY DEF Score, a, b, new
  <2> QED BY <2>1
<1> HIDE DEF a, b
<1> QED BY <1>2, <1>3, <1>4, <1>5

(* A candidate that is still ready after its last operation.               *)
LEMMA TriedWhole ==
  ASSUME BaselineInv, Greedy, stage = "try", search.trying = << >>, rollbackReady,
         \E k \in 0 .. Len(search.current) : \E u : OnTrial(u, k)
  PROVE  KeepsReady(search.current)
<1>1. Good(search.current) /\ plan \in Seq(PlanOp)
  BY DEF BaselineInv, GreedyInv, GreedyPlans, Right
<1>2. PICK chosen \in Seq(PlanOp) : chosen = search.current  BY <1>1 DEF Good
<1>3. PICK k \in 0 .. Len(chosen) : \E u : OnTrial(u, k)  BY <1>2
<1>4. PICK u : /\ u[0] = sim.planned /\ Follows(snapshot, chosen, u, k) /\ u[k] = State
               /\ SubSeq(chosen, k + 1, Len(chosen)) = << >>
               /\ GuardedTo(snapshot, plan \o chosen, Len(plan) + k)
  BY <1>2, <1>3 DEF OnTrial
<1>5. k = Len(chosen)
  <2>1. Len(chosen) \in Nat /\ Len(chosen) \in 0 .. Len(chosen)  OBVIOUS
  <2>2. SubSeq(chosen, Len(chosen) + 1, Len(chosen)) = << >>  BY <2>1
  <2>3. PICK i \in 0 .. Len(chosen) : i = Len(chosen)  BY <2>1
  <2>4. SubSeq(chosen, k + 1, Len(chosen)) = SubSeq(chosen, i + 1, Len(chosen))
    BY <1>4, <2>2, <2>3
  <2> QED BY <2>3, <2>4, SameRest
<1>6. Along(snapshot, chosen, u)  BY <1>4, <1>5, FollowsAll
<1>7. u[Len(chosen)].rollbackReady  BY <1>4, <1>5, StateFields
<1>8. Guarded(snapshot, plan \o chosen)
  <2> DEFINE all == plan \o chosen
  <2>1. DOMAIN all = 1 .. Len(plan) + Len(chosen)  BY <1>1, ConcatBegins
  <2>2. GuardedTo(snapshot, all, Len(plan) + Len(chosen))  BY <1>4, <1>5
  <2> HIDE DEF all
  <2>3. Guarded(snapshot, all)  BY <2>1, <2>2 DEF Guarded, GuardedTo
  <2> QED BY <2>3 DEF all
<1> QED BY <1>2, <1>4, <1>6, <1>7, <1>8 DEF KeepsReady

LEMMA Judged ==
  ASSUME BaselineInv, RollbackKept, Greedy, Roomy, stage = "try", search.trying = << >>,
         NEW better \in Verdicts, NEW best, NEW score,
         best = IF better THEN search.current ELSE search.best,
         score = IF better THEN Score ELSE search.score
  PROVE  /\ best # << >> /\ DOMAIN score = 1 .. 7 /\ score[1] \in Nat /\ score[2] \in {0, 1}
         /\ score[2] = 0 => KeepsReady(best)
         /\ \/ \E i \in DOMAIN search.left : Witness(search.left[i])
            \/ score[1] = 0 /\ score[2] = 0
<1>1. /\ Good(search.current) /\ Unharmed(installState, errors)
  BY DEF BaselineInv, GreedyInv
<1>2. /\ violations \subseteq Violation /\ Scored /\ Promising
      /\ \E k \in 0 .. Len(search.current) : \E u : OnTrial(u, k)
      /\ Witness(search.current) => rollbackReady /\ violations = sim.planned.violations
  BY DEF RollbackKept, TrialReady
<1>3. /\ DOMAIN Score = 1 .. 7 /\ Score[1] \in Nat /\ Score[2] \in {0, 1}
      /\ Score[2] = 0 <=> rollbackReady
      /\ violations = sim.planned.violations => Score[1] = 0
  BY <1>2, ScoreOf
<1>4. rollbackReady => KeepsReady(search.current)  BY <1>2, TriedWhole
<1>5. better \in BOOLEAN /\ installState # "failed"
  BY <1>1 DEF Verdicts, Unharmed
<1>6. search.best # << >> =>
        /\ DOMAIN search.score = 1 .. 7 /\ search.score[1] \in Nat
        /\ search.score[2] \in {0, 1}
        /\ search.score[2] = 0 => KeepsReady(search.best)
  BY <1>2 DEF Scored
<1>7. CASE better
  <2>1. best = search.current /\ score = Score  BY <1>7
  <2>2. best # << >>  BY <1>1, <2>1 DEF Good
  <2>3. ASSUME Witness(search.current)  PROVE Score[1] = 0 /\ Score[2] = 0
    BY <1>2, <1>3, <2>3
  <2>4. ASSUME search.best # << >>, search.score[1] = 0, search.score[2] = 0
        PROVE  Score[1] = 0 /\ Score[2] = 0
    <3>1. Below(Score, search.score) \/ ~Below(search.score, Score)
      BY <1>5, <1>7, <2>4 DEF Verdicts
    <3>2. PICK a : a = search.score  OBVIOUS
    <3>3. PICK b : b = Score  OBVIOUS
    <3>4. Below(b, a) \/ ~Below(a, b)  BY <3>1, <3>2, <3>3
    <3>5. DOMAIN a = 1 .. 7 /\ a[1] = 0 /\ a[2] = 0  BY <1>6, <2>4, <3>2
    <3>6. DOMAIN b = 1 .. 7 /\ b[1] \in Nat /\ b[2] \in {0, 1}  BY <1>3, <3>3
    <3>7. b[1] = 0 /\ b[2] = 0  BY <3>4, <3>5, <3>6, FirstScores
    <3> QED BY <3>3, <3>7
  <2>5. \/ \E i \in DOMAIN search.left : Witness(search.left[i])
        \/ Score[1] = 0 /\ Score[2] = 0
    BY <1>2, <2>3, <2>4 DEF Promising
  <2> QED BY <1>3, <1>4, <2>1, <2>2, <2>5
<1>8. CASE ~better
  <2>1. best = search.best /\ score = search.score  BY <1>8
  <2>2. search.best # << >> /\ ~Below(Score, search.score)
    BY <1>5, <1>8 DEF Verdicts
  <2>3. ASSUME Witness(search.current)  PROVE score[1] = 0 /\ score[2] = 0
    <3>1. PICK a : a = Score  OBVIOUS
    <3>2. DOMAIN a = 1 .. 7 /\ a[1] = 0 /\ a[2] = 0  BY <1>2, <1>3, <2>3, <3>1
    <3>3. ~Below(a, score)  BY <2>1, <2>2, <3>1
    <3>4. DOMAIN score = 1 .. 7 /\ score[1] \in Nat /\ score[2] \in {0, 1}
      BY <1>6, <2>1, <2>2
    <3> QED BY <3>2, <3>3, <3>4, FirstScores
  <2>4. \/ \E i \in DOMAIN search.left : Witness(search.left[i])
        \/ score[1] = 0 /\ score[2] = 0
    BY <1>2, <2>1, <2>3 DEF Promising
  <2> QED BY <1>6, <2>1, <2>2, <2>4
<1> QED BY <1>5, <1>7, <1>8

LEMMA ReadyJudge ==
  ASSUME BaselineInv, RollbackKept, TraceInv, Roomy, JudgeCandidate  PROVE RollbackKept'
<1>1. PICK better \in Verdicts :
       LET best  == IF better THEN search.current ELSE search.best
           ended == search.left = << >>
           tried == IF ended THEN best ELSE Head(search.left)
       IN  /\ search' = [left |-> IF ended THEN << >> ELSE Tail(search.left),
                         trying |-> tried, current |-> tried, best |-> best,
                         score |-> IF better THEN Score ELSE search.score]
           /\ stage' = IF ~ended THEN "try" ELSE IF best = << >> THEN "raised" ELSE "adopt"
  BY DEF JudgeCandidate
<1>2. /\ stage = "try" /\ search.trying = << >> /\ Become(sim.planned)
      /\ UNCHANGED <<planner, next, plan, limit, draft, saved, sim>>
  BY DEF JudgeCandidate, AfterTrial
<1>3. Greedy  BY <1>2 DEF BaselineInv, PlanFrame
<1>4. PICK best : best = IF better THEN search.current ELSE search.best  OBVIOUS
<1>5. PICK score : score = IF better THEN Score ELSE search.score  OBVIOUS
<1>6. PICK left : left = search.left  OBVIOUS
<1>7. /\ best # << >> /\ DOMAIN score = 1 .. 7 /\ score[1] \in Nat /\ score[2] \in {0, 1}
      /\ score[2] = 0 => KeepsReady(best)
      /\ \/ \E i \in DOMAIN left : Witness(left[i])
         \/ score[1] = 0 /\ score[2] = 0
  BY <1>2, <1>3, <1>4, <1>5, <1>6, Judged
<1>8. /\ State' = sim.planned /\ snapshot' = snapshot
      /\ rollbackReady' = sim.planned.rollbackReady
      /\ violations' = sim.planned.violations
  BY <1>2, <1>3, BecomeState DEF TraceInv, Become
<1>9. /\ sim.planned.rollbackReady /\ Guarded(snapshot, plan)
      /\ sim.planned.violations \subseteq Violation
  BY <1>2, <1>3 DEF RollbackKept, SimReady
<1>10. /\ left \in Seq(Seq(PlanOp)) /\ \A i \in DOMAIN left : Good(left[i])
       /\ plan \in Seq(PlanOp)
  BY <1>2, <1>3, <1>6 DEF BaselineInv, GreedyInv, GreedyPlans, Right
<1>11. UNCHANGED <<snapshot, planner, plan, sim>>  BY <1>2, <1>8
<1>12. CASE left # << >>
  <2>1. PICK tried : tried = Head(left)  OBVIOUS
  <2>2. PICK later : later = Tail(left)  OBVIOUS
  <2>3. Len(left) \in Nat /\ DOMAIN left = 1 .. Len(left) /\ Len(left) >= 1
    BY <1>10, <1>12
  <2>4. tried = left[1] /\ tried \in Seq(PlanOp)
    <3>1. 1 \in DOMAIN left  BY <2>3
    <3>2. tried = left[1]  BY <1>10, <1>12, <2>1
    <3> QED BY <1>10, <3>1, <3>2
  <2>5. DOMAIN later = 1 .. Len(left) - 1 /\ \A i \in 1 .. Len(left) - 1 : later[i] = left[i + 1]
    BY <1>10, <1>12, <2>2
  <2>6. /\ search'.left = later /\ search'.trying = tried /\ search'.current = tried
        /\ search'.best = best /\ search'.score = score /\ stage' = "try"
    BY <1>1, <1>4, <1>5, <1>6, <1>12, <2>1, <2>2
  <2>7. tried = SubSeq(tried, 0 + 1, Len(tried)) /\ 0 \in 0 .. Len(tried)
    <3>1. 0 + 1 = 1 /\ Len(tried) \in Nat  BY <2>4
    <3>2. SubSeq(tried, 1, Len(tried)) = tried  BY <2>4, WholeTail
    <3> QED BY <3>1, <3>2
  <2>8. GuardedTo(snapshot, plan \o tried, Len(plan) + 0)
    BY <1>9, <1>10, <2>4, GuardedBefore
  <2>9. PICK u : u[0] = sim.planned /\ Follows(snapshot, tried, u, 0)  BY TrialBegins
  <2>10. \/ \E i \in DOMAIN later : Witness(later[i])
         \/ Witness(tried)
         \/ best # << >> /\ score[1] = 0 /\ score[2] = 0
    <3>1. ASSUME NEW i \in DOMAIN left, Witness(left[i]), i # 1
          PROVE  \E k \in DOMAIN later : Witness(later[k])
      <4>1. i - 1 \in 1 .. Len(left) - 1 /\ (i - 1) + 1 = i  BY <2>3, <3>1
      <4>2. later[i - 1] = left[i]  BY <2>5, <4>1
      <4> QED BY <2>5, <3>1, <4>1, <4>2
    <3> QED BY <1>7, <2>4, <3>1
  <2>11. u[0] = State'  BY <1>8, <2>9
  <2>12. violations' \subseteq Violation  BY <1>8, <1>9
  <2> HIDE DEF Witness, KeepsReady
  <2> QED
    BY <1>7, <1>8, <1>9, <1>11, <2>6, <2>7, <2>8, <2>9, <2>10, <2>11, <2>12, Trying
<1>13. CASE left = << >>
  <2>1. stage' = "adopt" /\ search'.trying = best
    BY <1>1, <1>4, <1>6, <1>7, <1>13
  <2>2. DOMAIN left = {}  BY <1>13
  <2>3. KeepsReady(best)  BY <1>7, <2>2
  <2>4. /\ Guarded(snapshot, plan \o best)
        /\ \E u : u[0] = sim.planned /\ Along(snapshot, best, u) /\ u[Len(best)].rollbackReady
    BY <2>3 DEF KeepsReady
  <2>5. AdoptReady'  BY <1>8, <1>9, <1>11, <2>1, <2>4 DEF AdoptReady
  <2> QED BY <2>1, <2>5 DEF RollbackKept, SimReady, TrialReady
<1> QED BY <1>12, <1>13

-----------------------------------------------------------------------------
(* The candidate that is adopted, and the deployment.                      *)
LEMMA ReadyAdopt ==
  ASSUME BaselineInv, BaselineInv', RollbackKept, Roomy, AdoptOperation  PROVE RollbackKept'
<1>1. /\ stage = "adopt" /\ search.trying # << >> /\ Apply(Head(search.trying))
      /\ plan' = Append(plan, Head(search.trying))
      /\ search' = [search EXCEPT !.trying = Tail(@)]
      /\ UNCHANGED <<planner, stage, next, limit, draft, saved, sim>>
  BY DEF AdoptOperation
<1>2. Greedy  BY <1>1 DEF BaselineInv, PlanFrame
<1>3. plan \in Seq(PlanOp) /\ search.trying \in Seq(PlanOp) /\ "trying" \in DOMAIN search
  BY <1>1, <1>2 DEF BaselineInv, GreedyInv
<1>4. PICK rest \in Seq(PlanOp) : rest = search.trying /\ rest # << >>  BY <1>1, <1>3
<1>5. PICK op \in PlanOp : op = Head(rest)  BY <1>4
<1>6. /\ violations \subseteq Violation /\ Guarded(snapshot, plan \o rest)
      /\ \E u : u[0] = State /\ Along(snapshot, rest, u) /\ u[Len(rest)].rollbackReady
  BY <1>1, <1>2, <1>4 DEF RollbackKept, AdoptReady
<1>7. PICK u : u[0] = State /\ Along(snapshot, rest, u) /\ u[Len(rest)].rollbackReady
  BY <1>6
<1>8. Apply(op) /\ plan' = Append(plan, op) /\ search'.trying = Tail(rest)
  BY <1>1, <1>3, <1>4, <1>5
<1>9. Unharmed(installState', errors')
  <2>1. Greedy' /\ stage' = "adopt"  BY <1>1, <1>2 DEF Greedy
  <2>2. Unharmed(installState, errors)'  BY <2>1 DEF BaselineInv, GreedyInv
  <2> QED BY <2>2 DEF Unharmed
<1>10. State' = Result(State, snapshot, op) /\ snapshot' = snapshot
  BY <1>8, <1>9, AppliedResult
<1>11. violations' \subseteq Violation
  <2>1. installState' # "failed"  BY <1>9 DEF Unharmed
  <2>2. Succeed(op)  BY <1>8, <2>1 DEF Apply, Fail
  <2> QED BY <1>6, <2>2, ViolationsKept
<1>12. PICK v : /\ v[0] = Result(u[0], snapshot, op) /\ Along(snapshot, Tail(rest), v)
                /\ v[Len(Tail(rest))] = u[Len(rest)]
  BY <1>4, <1>5, <1>7, FollowsRest
<1>13. plan' \o Tail(rest) = plan \o rest  BY <1>3, <1>4, <1>5, <1>8, HeadAndTail
<1>14. /\ v[0] = State' /\ Along(snapshot, Tail(rest), v)
       /\ v[Len(Tail(rest))].rollbackReady
  BY <1>7, <1>10, <1>12
<1>15. PICK trying : trying = Tail(rest)  OBVIOUS
<1>16. /\ v[0] = State' /\ Along(snapshot', search'.trying, v)
       /\ v[Len(search'.trying)].rollbackReady
  BY <1>8, <1>10, <1>14
<1>17. Guarded(snapshot', plan' \o search'.trying)  BY <1>6, <1>8, <1>10, <1>13
<1>18. AdoptReady'  BY <1>11, <1>16, <1>17 DEF AdoptReady
<1> QED BY <1>1, <1>18 DEF RollbackKept, SimReady, TrialReady

LEMMA ReadyAdopted ==
  ASSUME BaselineInv, RollbackKept, Roomy, Adopted  PROVE RollbackKept'
<1>1. /\ stage = "adopt" /\ search.trying = << >> /\ stage' \in {"plan", "planned"}
      /\ sim' = [sim EXCEPT !.planned = State] /\ UNCHANGED <<vars, planner, plan>>
  BY DEF Adopted
<1>2. Greedy /\ "planned" \in DOMAIN sim  BY <1>1 DEF BaselineInv, PlanFrame
<1>3. plan \in Seq(PlanOp)  BY <1>1, <1>2 DEF BaselineInv, GreedyInv
<1>4. /\ violations \subseteq Violation /\ Guarded(snapshot, plan \o search.trying)
      /\ \E u : u[0] = State /\ Along(snapshot, search.trying, u)
                /\ u[Len(search.trying)].rollbackReady
  BY <1>1, <1>2 DEF RollbackKept, AdoptReady
<1>5. Guarded(snapshot, plan)
  <2>1. plan \o << >> = plan  BY <1>3
  <2> QED BY <1>1, <1>4, <2>1
<1>6. State.rollbackReady
  <2>1. Len(search.trying) = 0  BY <1>1
  <2> QED BY <1>4, <2>1
<1>7. sim'.planned = State  BY <1>1, <1>2
<1>8. State' = State /\ snapshot' = snapshot  BY <1>1 DEF vars, State
<1>9. State.violations = violations  BY StateFields
<1>10. SimReady'  BY <1>1, <1>4, <1>5, <1>6, <1>7, <1>8, <1>9 DEF SimReady
<1> QED BY <1>1, <1>10 DEF RollbackKept, TrialReady, AdoptReady

(* During the deployment the device is what the trace of the plan reckoned *)
(* with, and the last one of the trace is ready.                           *)
LEMMA DeployedReady ==
  ASSUME BaselineInv, Greedy, TraceInv, RollbackKept, Roomy, stage = "deploy"
  PROVE  rollbackReady
<1>1. PICK t : t[0] = sim.fresh /\ Along(snapshot, plan, t) /\ t[Len(plan)] = sim.planned
               /\ t[next] = State
  BY DEF TraceInv, Reckoned
<1>2. sim.planned.rollbackReady  BY DEF RollbackKept, SimReady
<1>3. Len(plan) \in Nat /\ PlanEnd \in 0 .. Len(plan) /\ next \in 0 .. PlanEnd
  BY DeployFacts DEF BaselineInv, DeployInv, AtOnce, Greedy
<1>4. next \in 0 .. Len(plan)  BY <1>3
<1>5. Follows(snapshot, plan, t, Len(plan))  BY <1>1, FollowsAll
<1>6. PICK k \in 0 .. Len(plan) : k = next  BY <1>4
<1>7. t[k].rollbackReady  BY <1>1, <1>2, <1>3, <1>5, ReadyBefore
<1> QED BY <1>1, <1>6, <1>7, StateFields

LEMMA ReadyDeploys ==
  ASSUME BaselineInv, Greedy, TraceInv, RollbackKept, Roomy,
         StartDeployment \/ DeployOperation \/ EndDeployment
  PROVE  RollbackKept'
<1>1. CASE StartDeployment \/ DeployOperation
  <2>1. stage \in {"planned", "deploy"} /\ stage' = "deploy" /\ sim' = sim
    BY <1>1 DEF StartDeployment, DeployOperation
  <2>2. sim.planned.rollbackReady  BY <2>1 DEF RollbackKept, SimReady
  <2> QED BY <2>1, <2>2 DEF RollbackKept, SimReady, TrialReady, AdoptReady
<1>2. CASE EndDeployment
  <2>1. stage = "deploy" /\ stage' = "done" /\ Complete  BY <1>2, EndsRunning
  <2>2. rollbackReady' = rollbackReady  BY <2>1 DEF Complete, safety
  <2>3. rollbackReady'  BY <2>1, <2>2, DeployedReady
  <2> QED BY <2>1, <2>3 DEF RollbackKept, SimReady, TrialReady, AdoptReady
<1> QED BY <1>1, <1>2

LEMMA RoomyStays ==
  ASSUME snapshot' = snapshot  PROVE Roomy' <=> Roomy
BY DEF Roomy, Room, Exceeds

LEMMA GreedySnapshot ==
  ASSUME BaselineInv, Greedy, PlanningNext  PROVE snapshot' = snapshot
<1>1. CASE GreedySearchesBlock \/ GreedyCuts \/ Adopted
  BY <1>1 DEF GreedySearchesBlock, GreedyCuts, StartSearch, Adopted, vars
<1>2. CASE TryOperation \/ AdoptOperation \/ DeployOperation
  BY <1>2, SnapshotStays DEF TryOperation, AdoptOperation, DeployOperation
<1>3. CASE JudgeCandidate \/ StartDeployment
  BY <1>3 DEF JudgeCandidate, AfterTrial, StartDeployment, Become
<1>4. CASE EndDeployment
  BY <1>4 DEF EndDeployment, Complete, vars
<1> QED BY <1>1, <1>2, <1>3, <1>4, GreedySteps

LEMMA ReadyStep ==
  ASSUME ImagesRead, BaselineInv, BaselineInv', TraceInv, RollbackKept, PlanningNext
  PROVE  RollbackKept'
<1> SUFFICES ASSUME Greedy', Roomy'  PROVE RollbackKept'
  BY DEF RollbackKept
<1>1. Greedy  BY PlanningLeaves DEF Greedy
<1>2. Roomy  BY <1>1, GreedySnapshot, RoomyStays
<1> QED
  BY <1>1, <1>2, GreedySteps, ReadySearchStep, ReadyCutStep, ReadyTry, ReadyJudge, ReadyAdopt,
     ReadyAdopted, ReadyDeploys

LEMMA ReadyStutters ==
  ASSUME RollbackKept, UNCHANGED <<vars, planning>>  PROVE RollbackKept'
<1>1. /\ UNCHANGED <<stage, next, plan, sim, search, snapshot, planner>> /\ State' = State
      /\ UNCHANGED <<rollbackReady, violations>>
  BY DEF vars, planning, State
<1>2. (Greedy' <=> Greedy) /\ (Roomy' <=> Roomy)  BY <1>1, RoomyStays DEF Greedy
<1>3. SimReady' <=> SimReady  BY <1>1 DEF SimReady
<1>4. \A c : Witness(c)' <=> Light(c) /\ SavesOld(snapshot, plan \o c)
  BY <1>1 DEF Witness, SavesOld, AllFresh, Guarded, Uncut, TailSaved
<1>5. TrialReady' <=> TrialReady
  <2>1. Scored' <=> Scored  BY <1>1 DEF Scored, KeepsReady
  <2>2. /\ (\E i \in DOMAIN search.left : Witness(search.left[i]))'
             <=> \E i \in DOMAIN search.left : Witness(search.left[i])
        /\ Witness(search.current)' <=> Witness(search.current)
    BY <1>1 DEF Witness
  <2>3. Promising' <=> Promising  BY <1>1, <2>2 DEF Promising
  <2>4. (\E k \in 0 .. Len(search.current) : \E u : OnTrial(u, k))'
          <=> \E k \in 0 .. Len(search.current) : \E u : OnTrial(u, k)
    BY <1>1 DEF OnTrial
  <2> QED BY <1>1, <2>1, <2>2, <2>3, <2>4 DEF TrialReady
<1>6. AdoptReady' <=> AdoptReady  BY <1>1 DEF AdoptReady
<1> QED BY <1>2, <1>3, <1>5, <1>6 DEF RollbackKept

(* For images that are read from files, whatever the patch sizes, the      *)
(* order of the candidates and the way ties are broken: the greedy planner *)
(* gives rollback up only for a budget.  While the storage has room for    *)
(* the old blocks beside the image, its simulator is ready after each      *)
(* block, and the device of its plan until the deployment has ended        *)
(* (_score_deployment_candidate, _with_backup_variants,                    *)
(* _truncate_backup_indices).                                              *)
THEOREM GreedyReady ==
  ASSUME ImagesRead  PROVE PolicySpec => []GreedyKeepsReadyWithRoom
<1> DEFINE Planned == PolicyFrame /\ PlannedPolicy /\ (Activates => DonePolicy)
           Reckons == policy = "baseline" => TraceInv /\ RollbackKept
<1>1. PolicyInit => Reckons
  BY TraceInit, ReadyInit, PolicyNames DEF PolicyInit
<1>2. Planned /\ Planned' /\ Reckons /\ [PolicyNext]_policyVars => Reckons'
  <2> SUFFICES ASSUME Planned, Planned', TraceInv, RollbackKept, [PolicyNext]_policyVars,
                      policy = "baseline"
               PROVE  TraceInv' /\ RollbackKept'
    BY PolicyStep
  <2>1. policy' = policy  BY PolicyStep
  <2>2. BaselineInv /\ BaselineInv'  BY <2>1 DEF PlannedPolicy
  <2>3. CASE PlanningNext  BY <2>2, <2>3, TraceStep, ReadyStep
  <2>4. CASE UNCHANGED policyVars
    <3>1. UNCHANGED <<vars, planning>>  BY <2>4 DEF policyVars, envVars
    <3> QED BY <3>1, TraceStutters, ReadyStutters
  <2> QED BY <2>3, <2>4, PolicyNames DEF PolicyNext
<1>3. Planned /\ Reckons => GreedyKeepsReadyWithRoom
  <2> SUFFICES ASSUME Planned, Reckons, Greedy, stage \in {"plan", "deploy", "done"}, Roomy
               PROVE  rollbackReady
    BY DEF GreedyKeepsReadyWithRoom, Greedy, Roomy
  <2>1. policy = "baseline"  BY DEF PlannedPolicy
  <2>2. BaselineInv /\ TraceInv /\ RollbackKept  BY <2>1 DEF PlannedPolicy
  <2>3. SimReady  BY <2>2 DEF RollbackKept
  <2>4. CASE stage = "plan"  BY <2>3, <2>4, StateFields DEF SimReady
  <2>5. CASE stage = "deploy"  BY <2>2, <2>5, DeployedReady
  <2>6. CASE stage = "done"  BY <2>3, <2>6 DEF SimReady
  <2> QED BY <2>4, <2>5, <2>6
<1> HIDE DEF Planned, Reckons
<1>4. PolicySpec => []Planned  BY PlannedPolicyInvariant DEF Planned
<1> QED BY <1>1, <1>2, <1>3, <1>4, PTL DEF PolicySpec
=============================================================================
